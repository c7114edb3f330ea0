--------------------------- MODULE PersistProofs ---------------------------
(***************************************************************************)
(* Theorems about the data file: whatever is left of it can be read, it is *)
(* never a mixture of two writes, the store that comes out of it satisfies *)
(* what CarStoreProofs proves of one that was never written, and would be   *)
(* written back as the same records.                                       *)
(*                                                                         *)
(* Three facts carry the rest.  The ranks of write_recursively number the  *)
(* nodes, parents before children, so that Dump is readable; a prefix of   *)
(* something readable is readable; and read_db hangs record i where it is  *)
(* visited as the i-th node.                                               *)
(***************************************************************************)
EXTENDS Persist, CarStoreProofs

Columns == Codes \cup Quantities \cup Cids \cup Oids

Typed(r) ==
  /\ r \in [tag: Tables, cols: Seq(Columns)] /\ Len(r.cols) = 2
  /\ r.tag = "CAR_TYPE"   => r.cols[1] \in Codes /\ r.cols[2] \in Quantities
  /\ r.tag = "CAR_INFO"   => r.cols[1] \in Cids /\ r.cols[2] \in Codes
  /\ r.tag = "RENT_ORDER" => r.cols[1] \in Oids /\ r.cols[2] \in Cids

\* records read_db can hang into a list: a car after some car type, an order
\* after a car with no car type between them
Readable(rs) ==
  /\ rs \in Seq([tag: Tables, cols: Seq(Columns)])
  /\ Len(rs) <= MaxNodes
  /\ \A i \in 1 .. Len(rs) :
       /\ Typed(rs[i])
       /\ rs[i].tag = "CAR_INFO" => \E j \in 1 .. i - 1 : rs[j].tag = "CAR_TYPE"
       /\ rs[i].tag = "RENT_ORDER" =>
            \E j \in 1 .. i - 1 : /\ rs[j].tag = "CAR_INFO"
                                  /\ \A k \in j .. i - 1 : rs[k].tag # "CAR_TYPE"

FileInv ==
  /\ IInv
  /\ phase \in {"run", "write", "down"} /\ exiting \in BOOLEAN
  /\ Readable(target)
  /\ disk \in Cuts(target)
  /\ phase = "write" => target = Dump

-----------------------------------------------------------------------------
\* In a finite set with a strict total order R the number of smaller elements
\* numbers the elements from zero.
Smaller(S, R, x) == {y \in S : <<y, x>> \in R}

LEMMA RanksNumber ==
  ASSUME NEW S, IsFiniteSet(S), NEW R,
         \A x \in S : <<x, x>> \notin R,
         \A x, y, z \in S : <<x, y>> \in R /\ <<y, z>> \in R => <<x, z>> \in R,
         \A x, y \in S : x # y => <<x, y>> \in R \/ <<y, x>> \in R
  PROVE  /\ Cardinality(S) \in Nat
         /\ \A x \in S : Cardinality(Smaller(S, R, x)) \in 0 .. Cardinality(S) - 1
         /\ \A x, y \in S : <<x, y>> \in R =>
              Cardinality(Smaller(S, R, x)) < Cardinality(Smaller(S, R, y))
         /\ \A k \in 0 .. Cardinality(S) - 1 :
              \E x \in S : Cardinality(Smaller(S, R, x)) = k
<1> DEFINE low(x) == Smaller(S, R, x)
           rank == [x \in S |-> Cardinality(low(x))]
           ranks == 0 .. Cardinality(S) - 1
<1>1. Cardinality(S) \in Nat
  BY FS_CardinalityType
<1>2. ASSUME NEW x \in S
      PROVE  /\ IsFiniteSet(low(x)) /\ Cardinality(low(x)) \in Nat
             /\ Cardinality(low(x)) < Cardinality(S)
  <2>1. low(x) \subseteq S /\ low(x) # S
    BY DEF Smaller
  <2> HIDE DEF low
  <2>2. /\ IsFiniteSet(low(x)) /\ Cardinality(low(x)) <= Cardinality(S)
        /\ Cardinality(low(x)) # Cardinality(S)
    BY <2>1, FS_Subset
  <2> QED BY <1>1, <2>2, FS_CardinalityType
<1>3. ASSUME NEW x \in S, NEW y \in S, <<x, y>> \in R
      PROVE  Cardinality(low(x)) < Cardinality(low(y))
  <2>1. low(x) \subseteq low(y) /\ x \in low(y) /\ x \notin low(x)
    BY <1>3 DEF Smaller
  <2>2. /\ IsFiniteSet(low(y)) /\ Cardinality(low(y)) \in Nat
        /\ Cardinality(low(x)) \in Nat
    BY <1>2
  <2> HIDE DEF low
  <2>3. /\ Cardinality(low(x)) <= Cardinality(low(y))
        /\ Cardinality(low(x)) # Cardinality(low(y))
    BY <2>1, <2>2, FS_Subset
  <2> QED BY <2>2, <2>3
<1>4. rank \in Injection(S, ranks)
  <2>1. \A x \in S : Cardinality(low(x)) \in ranks
    BY <1>1, <1>2
  <2>2. ASSUME NEW x \in S, NEW y \in S, x # y PROVE Cardinality(low(x)) # Cardinality(low(y))
    <3> HIDE DEF low
    <3>1. Cardinality(low(x)) \in Nat /\ Cardinality(low(y)) \in Nat
      BY <1>2
    <3>2. <<x, y>> \in R \/ <<y, x>> \in R
      BY <2>2
    <3> QED BY <1>3, <3>1, <3>2
  <2> HIDE DEF low
  <2> QED BY <2>1, <2>2 DEF Injection, IsInjective
<1>5. IsFiniteSet(ranks) /\ Cardinality(ranks) = Cardinality(S)
  <2>1. Cardinality(S) - 1 \in Int
    BY <1>1
  <2> QED BY <1>1, <2>1, FS_Interval
<1>6. rank \in Surjection(S, ranks)
  <2> HIDE DEF rank, ranks
  <2> QED BY <1>4, <1>5, FS_Injection
<1>7. ASSUME NEW k \in ranks PROVE \E x \in S : Cardinality(low(x)) = k
  <2> HIDE DEF low, ranks
  <2> QED BY <1>6 DEF Surjection
<1> QED BY <1>1, <1>2, <1>3, <1>7 DEF low, ranks

\* A set of naturals with a bound has a greatest element.
LEMMA Greatest ==
  ASSUME NEW n \in Nat, NEW T, T \subseteq 0 .. n, T # {}
  PROVE  \E m \in T : \A j \in T : j <= m
<1> DEFINE R == {p \in T \X T : p[1] > p[2]}
<1>1. IsFiniteSet(T)
  <2>1. IsFiniteSet(0 .. n)
    BY FS_Interval
  <2> QED BY <2>1, FS_Subset
<1>2. /\ \A x \in T : <<x, x>> \notin R
      /\ \A x, y, z \in T : <<x, y>> \in R /\ <<y, z>> \in R => <<x, z>> \in R
      /\ \A x, y \in T : x # y => <<x, y>> \in R \/ <<y, x>> \in R
  OBVIOUS
<1>3. Cardinality(T) \in Nat /\ Cardinality(T) # 0
  BY <1>1, FS_CardinalityType, FS_EmptySet
<1>4. PICK m \in T : Cardinality(Smaller(T, R, m)) = 0
  <2> HIDE DEF R
  <2>1. \A k \in 0 .. Cardinality(T) - 1 : \E x \in T : Cardinality(Smaller(T, R, x)) = k
    BY <1>1, <1>2, RanksNumber
  <2> QED BY <1>3, <2>1
<1>5. Smaller(T, R, m) = {}
  <2>1. IsFiniteSet(Smaller(T, R, m))
    BY <1>1, FS_Subset DEF Smaller
  <2> HIDE DEF R
  <2> QED BY <1>4, <2>1, FS_EmptySet
<1>6. ASSUME NEW j \in T PROVE j <= m
  <2>1. <<j, m>> \notin R
    BY <1>5 DEF Smaller
  <2>2. ~ (j > m) /\ j \in Int /\ m \in Int
    BY <2>1
  <2> QED BY <2>2
<1> QED BY <1>6

-----------------------------------------------------------------------------
\* The nodes and the order write_recursively visits them in.

LEMMA NodesOf ==
  ASSUME IInv
  PROVE  /\ IsFiniteSet(Nodes)
         /\ \A r \in Nodes : r.at \in 1 .. brk
         /\ \A r, s \in Nodes : r.at = s.at => r = s
         /\ \A r \in types : Path(r) = <<r.at, 0, 0>>
         /\ \A r \in cars : /\ Path(r) = <<r.up, r.at, 0>>
                            /\ \E t \in types : t.at = r.up
         /\ \A r \in orders : \E c \in cars : /\ c.at = r.up
                                              /\ Path(r) = <<c.up, c.at, r.at>>
         /\ types \cap cars = {} /\ types \cap orders = {} /\ cars \cap orders = {}
<1> USE DEF IInv
<1>1. IsFiniteSet(Nodes)
  BY FS_Union DEF FiniteInv, Nodes
<1>2. /\ \A r \in Nodes : r.at \in 1 .. brk
      /\ \A r, s \in Nodes : r.at = s.at => r = s
  BY BoundsAssumption DEF TypeOK, LinkInv, Nodes, CarType, CarInfo, RentOrder, Address
<1>3. /\ \A r \in types : r.up = 0
      /\ \A r \in cars : r.up # 0
      /\ types \cap cars = {} /\ types \cap orders = {} /\ cars \cap orders = {}
  <2>1. /\ \A r \in types : r.up = 0
        /\ \A r \in cars : r.up # 0
        /\ types \cap cars = {} /\ types \cap orders = {}
    BY BoundsAssumption DEF TypeOK, CarType, CarInfo, RentOrder, Address, Sentinel
  <2>2. cars \cap orders = {}
    <3> SUFFICES ASSUME NEW r \in cars, r \in orders PROVE FALSE
      OBVIOUS
    <3>1. PICK t \in types : t.at = r.up
      BY DEF LinkInv, Under, AddressesOf
    <3>2. PICK c \in cars : c.at = r.up
      BY DEF LinkInv, Under, AddressesOf
    <3>3. t = c
      BY <1>2, <3>1, <3>2 DEF Nodes
    <3> QED BY <2>1, <3>3
  <2> QED BY <2>1, <2>2
<1>4. \A r \in cars : \E t \in types : t.at = r.up
  BY DEF LinkInv, Under, AddressesOf
<1>5. ASSUME NEW r \in orders
      PROVE  \E c \in cars : c.at = r.up /\ Path(r) = <<c.up, c.at, r.at>>
  <2>1. PICK c \in cars : c.at = r.up
    BY DEF LinkInv, Under, AddressesOf
  <2>2. CarAt(r.up) = c
    BY <1>2, <2>1 DEF CarAt, Nodes
  <2>3. r \notin types /\ r \notin cars
    BY <1>3
  <2> QED BY <2>1, <2>2, <2>3 DEF Path
<1>6. /\ \A r \in types : Path(r) = <<r.at, 0, 0>>
      /\ \A r \in cars : Path(r) = <<r.up, r.at, 0>>
  BY <1>3 DEF Path
<1> QED BY <1>1, <1>2, <1>3, <1>4, <1>5, <1>6

\* PathBefore as a relation; it is a strict total order of the nodes.
Earlier == {p \in Nodes \X Nodes : PathBefore(Path(p[1]), Path(p[2]))}

LEMMA EarlierOrders ==
  ASSUME IInv
  PROVE  /\ \A x \in Nodes : <<x, x>> \notin Earlier
         /\ \A x, y, z \in Nodes :
              <<x, y>> \in Earlier /\ <<y, z>> \in Earlier => <<x, z>> \in Earlier
         /\ \A x, y \in Nodes : x # y => <<x, y>> \in Earlier \/ <<y, x>> \in Earlier
<1>1. \A x, y \in Nodes : <<x, y>> \in Earlier <=> PathBefore(Path(x), Path(y))
  BY DEF Earlier
<1>2. ASSUME NEW x \in Nodes
      PROVE  \E a, b, c \in Nat :
               /\ Path(x) = <<a, b, c>>
               /\ x.at = IF c # 0 THEN c ELSE IF b # 0 THEN b ELSE a
  <2>1. \A r \in Nodes : r.at \in Nat \ {0}
    BY NodesOf DEF IInv, TypeOK
  <2>2. CASE x \in types
    <3>1. Path(x) = <<x.at, 0, 0>>
      BY <2>2, NodesOf
    <3> QED BY <2>1, <3>1
  <2>3. CASE x \in cars
    <3>1. Path(x) = <<x.up, x.at, 0>> /\ \E t \in types : t.at = x.up
      BY <2>3, NodesOf
    <3>2. x.up \in Nat
      BY <2>1, <3>1 DEF Nodes
    <3> QED BY <2>1, <3>1, <3>2
  <2>4. CASE x \in orders
    <3>1. PICK c \in cars : Path(x) = <<c.up, c.at, x.at>>
      BY <2>4, NodesOf
    <3>2. c.at \in Nat /\ c.up \in Nat
      BY <2>1, <3>1, NodesOf DEF Nodes
    <3> QED BY <2>1, <3>1, <3>2
  <2> QED BY <2>2, <2>3, <2>4 DEF Nodes
<1>3. ASSUME NEW x \in Nodes PROVE ~ PathBefore(Path(x), Path(x))
  <2>1. PICK a, b, c \in Nat : Path(x) = <<a, b, c>>
    BY <1>2
  <2> QED BY <2>1 DEF PathBefore, Lex
<1>4. ASSUME NEW x \in Nodes, NEW y \in Nodes, NEW z \in Nodes,
             PathBefore(Path(x), Path(y)), PathBefore(Path(y), Path(z))
      PROVE  PathBefore(Path(x), Path(z))
  <2>1. PICK a, b, c \in Nat : Path(x) = <<a, b, c>>
    BY <1>2
  <2>2. PICK d, e, f \in Nat : Path(y) = <<d, e, f>>
    BY <1>2
  <2>3. PICK g, h, i \in Nat : Path(z) = <<g, h, i>>
    BY <1>2
  <2> QED BY <1>4, <2>1, <2>2, <2>3 DEF PathBefore, Lex
<1>5. ASSUME NEW x \in Nodes, NEW y \in Nodes, x # y
      PROVE  PathBefore(Path(x), Path(y)) \/ PathBefore(Path(y), Path(x))
  <2>1. PICK a, b, c \in Nat :
          Path(x) = <<a, b, c>> /\ x.at = IF c # 0 THEN c ELSE IF b # 0 THEN b ELSE a
    BY <1>2
  <2>2. PICK d, e, f \in Nat :
          Path(y) = <<d, e, f>> /\ y.at = IF f # 0 THEN f ELSE IF e # 0 THEN e ELSE d
    BY <1>2
  <2>3. x.at # y.at
    BY <1>5, NodesOf
  <2>4. ~ (a = d /\ b = e /\ c = f)
    BY <2>1, <2>2, <2>3
  <2> QED BY <2>1, <2>2, <2>4 DEF PathBefore, Lex
<1> QED BY <1>1, <1>3, <1>4, <1>5

\* Rank numbers the nodes from zero in that order.
LEMMA RankNumbers ==
  ASSUME IInv
  PROVE  /\ Cardinality(Nodes) \in 0 .. MaxNodes
         /\ \A r \in Nodes : Rank(r) \in 0 .. Cardinality(Nodes) - 1
         /\ \A r, s \in Nodes : PathBefore(Path(r), Path(s)) => Rank(r) < Rank(s)
         /\ \A r, s \in Nodes : Rank(r) = Rank(s) => r = s
         /\ \A k \in 0 .. Cardinality(Nodes) - 1 : \E r \in Nodes : Rank(r) = k
<1>1. \A r \in Nodes : Rank(r) = Cardinality(Smaller(Nodes, Earlier, r))
  BY DEF Rank, Smaller, Earlier
<1>2. \A x, y \in Nodes : <<x, y>> \in Earlier <=> PathBefore(Path(x), Path(y))
  BY DEF Earlier
<1>3. /\ Cardinality(Nodes) \in Nat
      /\ \A x \in Nodes : Cardinality(Smaller(Nodes, Earlier, x)) \in 0 .. Cardinality(Nodes) - 1
      /\ \A x, y \in Nodes : <<x, y>> \in Earlier =>
           Cardinality(Smaller(Nodes, Earlier, x)) < Cardinality(Smaller(Nodes, Earlier, y))
      /\ \A k \in 0 .. Cardinality(Nodes) - 1 :
           \E x \in Nodes : Cardinality(Smaller(Nodes, Earlier, x)) = k
  <2>1. IsFiniteSet(Nodes)
    BY NodesOf
  <2>2. /\ \A x \in Nodes : <<x, x>> \notin Earlier
        /\ \A x, y, z \in Nodes :
             <<x, y>> \in Earlier /\ <<y, z>> \in Earlier => <<x, z>> \in Earlier
        /\ \A x, y \in Nodes : x # y => <<x, y>> \in Earlier \/ <<y, x>> \in Earlier
    BY EarlierOrders
  <2> QED BY <2>1, <2>2, RanksNumber
<1>4. /\ \A r \in Nodes : Rank(r) \in 0 .. Cardinality(Nodes) - 1
      /\ \A r, s \in Nodes : <<r, s>> \in Earlier => Rank(r) < Rank(s)
      /\ \A k \in 0 .. Cardinality(Nodes) - 1 : \E r \in Nodes : Rank(r) = k
  BY <1>1, <1>3
<1>5. ASSUME NEW r \in Nodes, NEW s \in Nodes, Rank(r) = Rank(s) PROVE r = s
  <2>1. Rank(r) \in Int /\ ~ (Rank(r) < Rank(s)) /\ ~ (Rank(s) < Rank(r))
    BY <1>3, <1>4, <1>5
  <2> QED BY <1>4, <2>1, EarlierOrders
<1>6. Cardinality(Nodes) <= MaxNodes
  <2>1. brk \in 0 .. MaxNodes
    BY DEF IInv, TypeOK
  <2>2. [r \in Nodes |-> r.at] \in Injection(Nodes, 1 .. MaxNodes)
    <3>1. \A r \in Nodes : r.at \in 1 .. MaxNodes
      BY <2>1, NodesOf, BoundsAssumption
    <3> QED BY <3>1, NodesOf DEF Injection, IsInjective
  <2>3. IsFiniteSet(1 .. MaxNodes) /\ Cardinality(1 .. MaxNodes) = MaxNodes
    BY FS_Interval, BoundsAssumption
  <2> QED BY <2>2, <2>3, FS_Injection
<1>7. \A r, s \in Nodes : PathBefore(Path(r), Path(s)) => Rank(r) < Rank(s)
  BY <1>2, <1>4
<1>8. Cardinality(Nodes) \in 0 .. MaxNodes
  BY <1>3, <1>6, BoundsAssumption
<1> QED BY <1>4, <1>5, <1>7, <1>8

-----------------------------------------------------------------------------
\* The file.

LEMMA IsSequence ==
  ASSUME NEW s, NEW S, Len(s) \in Nat, s = [k \in 1 .. Len(s) |-> s[k]],
         \A k \in 1 .. Len(s) : s[k] \in S
  PROVE  s \in Seq(S)
OBVIOUS

\* The first records of a sequence.
LEMMA Prefix ==
  ASSUME NEW S, NEW s \in Seq(S), NEW k \in 0 .. Len(s)
  PROVE  /\ SubSeq(s, 1, k) \in Seq(S) /\ Len(SubSeq(s, 1, k)) = k
         /\ \A i \in 1 .. k : SubSeq(s, 1, k)[i] = s[i]
OBVIOUS

NodeAt(k) == CHOOSE r \in Nodes : Rank(r) = k - 1

LEMMA DumpNodes ==
  ASSUME IInv
  PROVE  /\ Len(Dump) = Cardinality(Nodes) /\ DOMAIN Dump = 1 .. Len(Dump)
         /\ Len(Dump) \in 0 .. MaxNodes
         /\ \A k \in 1 .. Len(Dump) : /\ NodeAt(k) \in Nodes
                                      /\ Rank(NodeAt(k)) = k - 1
                                      /\ Dump[k] = Record(NodeAt(k))
         /\ \A r \in Nodes : /\ Rank(r) + 1 \in 1 .. Len(Dump)
                             /\ NodeAt(Rank(r) + 1) = r
<1> DEFINE n == Cardinality(Nodes)
<1>1. n \in 0 .. MaxNodes
  BY RankNumbers
<1>2. DOMAIN Dump = 1 .. n
  BY DEF Dump
<1>3. Len(Dump) = n
  BY <1>1, <1>2, BoundsAssumption
<1>4. ASSUME NEW k \in 1 .. n
      PROVE  /\ NodeAt(k) \in Nodes /\ Rank(NodeAt(k)) = k - 1
             /\ Dump[k] = Record(NodeAt(k))
  <2>1. k - 1 \in 0 .. n - 1
    BY <1>1, BoundsAssumption
  <2>2. \E r \in Nodes : Rank(r) = k - 1
    BY <2>1, RankNumbers
  <2>3. NodeAt(k) \in Nodes /\ Rank(NodeAt(k)) = k - 1
    BY <2>2 DEF NodeAt
  <2>4. Dump[k] = Record(NodeAt(k))
    BY DEF Dump, NodeAt
  <2> QED BY <2>3, <2>4
<1>5. ASSUME NEW r \in Nodes
      PROVE  Rank(r) + 1 \in 1 .. n /\ NodeAt(Rank(r) + 1) = r
  <2>1. Rank(r) \in 0 .. n - 1
    BY RankNumbers
  <2> DEFINE k == Rank(r) + 1
  <2>2. k \in 1 .. n /\ k - 1 = Rank(r)
    BY <1>1, <2>1, BoundsAssumption
  <2> HIDE DEF k, n
  <2>3. NodeAt(k) \in Nodes /\ Rank(NodeAt(k)) = Rank(r)
    BY <1>4, <2>2
  <2>4. k \in 1 .. n /\ NodeAt(k) = r
    BY <2>2, <2>3, RankNumbers
  <2> QED BY <2>4 DEF k
<1> HIDE DEF n
<1> QED BY <1>1, <1>2, <1>3, <1>4, <1>5 DEF n

LEMMA RecordTyped ==
  ASSUME IInv, NEW r \in Nodes
  PROVE  /\ Typed(Record(r))
         /\ Record(r).tag = "CAR_TYPE" <=> r \in types
         /\ Record(r).tag = "CAR_INFO" <=> r \in cars
         /\ Record(r).tag = "RENT_ORDER" <=> r \in orders
<1> USE NodesOf DEF Tables, Columns
<1>1. CASE r \in types
  <2>1. r.code \in Codes /\ r.quantity \in Quantities
    BY <1>1 DEF IInv, TypeOK, CarType
  <2>2. Record(r) = [tag |-> "CAR_TYPE", cols |-> <<r.code, r.quantity>>]
    BY <1>1 DEF Record
  <2> QED BY <1>1, <2>1, <2>2 DEF Typed
<1>2. CASE r \in cars
  <2>1. r.cid \in Cids /\ r.code \in Codes
    BY <1>2 DEF IInv, TypeOK, CarInfo
  <2>2. Record(r) = [tag |-> "CAR_INFO", cols |-> <<r.cid, r.code>>]
    BY <1>2 DEF Record
  <2> QED BY <1>2, <2>1, <2>2 DEF Typed
<1>3. CASE r \in orders
  <2>1. r.oid \in Oids /\ r.cid \in Cids
    BY <1>3 DEF IInv, TypeOK, RentOrder
  <2>2. Record(r) = [tag |-> "RENT_ORDER", cols |-> <<r.oid, r.cid>>]
    BY <1>3 DEF Record
  <2> QED BY <1>3, <2>1, <2>2 DEF Typed
<1> QED BY <1>1, <1>2, <1>3 DEF Nodes

\* What write_recursively writes can be read.
LEMMA DumpReadable == ASSUME IInv PROVE Readable(Dump)
<1>1. \A k \in 1 .. Len(Dump) : Typed(Dump[k]) /\ Dump[k] = Record(NodeAt(k))
  BY DumpNodes, RecordTyped
<1>2. Dump \in Seq([tag: Tables, cols: Seq(Columns)]) /\ Len(Dump) <= MaxNodes
  <2>1. \A k \in 1 .. Len(Dump) : Dump[k] \in [tag: Tables, cols: Seq(Columns)]
    BY <1>1 DEF Typed
  <2>2. Dump = [k \in 1 .. Len(Dump) |-> Dump[k]] /\ Len(Dump) \in Nat /\ Len(Dump) <= MaxNodes
    <3>1. DOMAIN Dump = 1 .. Len(Dump) /\ Len(Dump) \in 0 .. MaxNodes
      BY DumpNodes
    <3>2. Dump = [k \in DOMAIN Dump |-> Dump[k]]
      BY DEF Dump
    <3>3. Len(Dump) \in Nat /\ Len(Dump) <= MaxNodes
      BY <3>1, BoundsAssumption
    <3> QED BY <3>1, <3>2, <3>3
  <2> QED BY <2>1, <2>2, IsSequence
<1>3. \A r \in Nodes : r.at \in Nat \ {0} /\ Rank(r) \in Nat
  BY NodesOf, DumpNodes DEF IInv, TypeOK
<1>4. ASSUME NEW i \in 1 .. Len(Dump), Dump[i].tag = "CAR_INFO"
      PROVE  \E j \in 1 .. i - 1 : Dump[j].tag = "CAR_TYPE"
  <2>1. NodeAt(i) \in cars /\ Rank(NodeAt(i)) = i - 1
    BY <1>1, <1>4, RecordTyped, DumpNodes
  <2>2. PICK t \in types : t.at = NodeAt(i).up /\ Path(NodeAt(i)) = <<t.at, NodeAt(i).at, 0>>
    BY <2>1, NodesOf
  <2>3. t \in Nodes /\ NodeAt(i) \in Nodes /\ Path(t) = <<t.at, 0, 0>>
    BY <2>1, NodesOf DEF Nodes
  <2>4. PathBefore(Path(t), Path(NodeAt(i)))
    BY <1>3, <2>2, <2>3 DEF PathBefore, Lex
  <2>5. Rank(t) < i - 1
    BY <2>1, <2>3, <2>4, RankNumbers
  <2>6. Rank(t) + 1 \in 1 .. i - 1 /\ Rank(t) + 1 \in 1 .. Len(Dump)
    BY <1>3, <2>3, <2>5, DumpNodes
  <2>7. Dump[Rank(t) + 1] = Record(t)
    BY <1>1, <2>3, <2>6, DumpNodes
  <2>8. Record(t).tag = "CAR_TYPE"
    BY <2>3, RecordTyped
  <2> QED BY <2>6, <2>7, <2>8
<1>5. ASSUME NEW i \in 1 .. Len(Dump), Dump[i].tag = "RENT_ORDER"
      PROVE  \E j \in 1 .. i - 1 : /\ Dump[j].tag = "CAR_INFO"
                                   /\ \A k \in j .. i - 1 : Dump[k].tag # "CAR_TYPE"
  <2> DEFINE o == NodeAt(i)
  <2>1. o \in orders /\ Rank(o) = i - 1
    BY <1>1, <1>5, RecordTyped, DumpNodes
  <2>2. PICK c \in cars : Path(o) = <<c.up, c.at, o.at>>
    BY <2>1, NodesOf
  <2>3. PICK t \in types : t.at = c.up
    BY NodesOf
  <2>4. c \in Nodes /\ o \in Nodes /\ Path(c) = <<c.up, c.at, 0>> /\ t \in Nodes
    BY <2>1, NodesOf DEF Nodes
  <2>5. c.up \in Nat /\ c.at \in Nat \ {0} /\ o.at \in Nat \ {0}
    BY <1>3, <2>3, <2>4
  <2> HIDE DEF o
  <2>6. PathBefore(Path(c), Path(o))
    BY <2>2, <2>4, <2>5 DEF PathBefore, Lex
  <2>7. Rank(c) < i - 1
    BY <2>1, <2>4, <2>6, RankNumbers
  <2>8. Rank(c) + 1 \in 1 .. i - 1 /\ Rank(c) + 1 \in 1 .. Len(Dump)
    BY <1>3, <2>4, <2>7, DumpNodes
  <2>9. Dump[Rank(c) + 1] = Record(c) /\ Record(c).tag = "CAR_INFO"
    BY <1>1, <2>4, <2>8, DumpNodes, RecordTyped
  <2>10. ASSUME NEW k \in Rank(c) + 1 .. i - 1, Dump[k].tag = "CAR_TYPE"
         PROVE  FALSE
    <3>1. k \in 1 .. Len(Dump) /\ k - 1 < i - 1 /\ Rank(c) <= k - 1
      <4>1. Rank(c) \in Nat /\ Len(Dump) \in Nat
        BY <1>2, <1>3, <2>4
      <4> QED BY <4>1
    <3>2. NodeAt(k) \in types /\ NodeAt(k) \in Nodes /\ Rank(NodeAt(k)) = k - 1
      BY <1>1, <2>10, <3>1, RecordTyped, DumpNodes
    <3>3. PICK a \in Nat : Path(NodeAt(k)) = <<a, 0, 0>>
      BY <1>3, <3>2, NodesOf
    <3>4. NodeAt(k) # c /\ NodeAt(k) # o
      BY <2>1, <3>2, NodesOf
    <3>5. ~ PathBefore(Path(NodeAt(k)), Path(c))
      <4>1. Rank(c) \in Nat /\ ~ (k - 1 < Rank(c))
        BY <1>3, <2>4, <3>1
      <4> QED BY <2>4, <3>2, <4>1, RankNumbers
    <3>6. ~ PathBefore(Path(o), Path(NodeAt(k)))
      <4>1. ~ (i - 1 < k - 1)
        BY <3>1
      <4> QED BY <2>1, <2>4, <3>2, <4>1, RankNumbers
    <3>7. \A x, y \in Nodes : x # y => PathBefore(Path(x), Path(y)) \/ PathBefore(Path(y), Path(x))
      BY EarlierOrders DEF Earlier
    <3>8. PathBefore(Path(c), Path(NodeAt(k))) /\ PathBefore(Path(NodeAt(k)), Path(o))
      BY <2>4, <3>2, <3>4, <3>5, <3>6, <3>7
    <3> QED BY <2>2, <2>4, <2>5, <3>3, <3>8 DEF PathBefore, Lex
  <2> QED BY <2>8, <2>9, <2>10
<1> QED BY <1>1, <1>2, <1>4, <1>5 DEF Readable

\* A record cut by a kill keeps its tag, and zeroes fit every column.
LEMMA CutRecord ==
  ASSUME NEW r, Typed(r), NEW n \in 0 .. 2
  PROVE  LET c == [r EXCEPT !.cols = [i \in 1 .. 2 |-> IF i < n THEN @[i] ELSE 0]]
         IN  Typed(c) /\ c.tag = r.tag
<1> DEFINE cols == [i \in 1 .. 2 |-> IF i < n THEN r.cols[i] ELSE 0]
           c == [r EXCEPT !.cols = cols]
<1>1. r \in [tag: Tables, cols: Seq(Columns)]
  BY DEF Typed
<1>2. cols[1] = r.cols[1] \/ cols[1] = 0
  OBVIOUS
<1>3. cols[2] = 0
  OBVIOUS
<1>4. r.tag \in {"CAR_TYPE", "CAR_INFO", "RENT_ORDER"}
  BY <1>1 DEF Tables
<1>5. cols[1] \in Columns /\ cols[2] \in Columns
  BY <1>2, <1>3, <1>4, ZeroAssumption DEF Typed, Columns
<1>6. cols \in Seq(Columns) /\ Len(cols) = 2
  <2>1. DOMAIN cols = 1 .. 2
    OBVIOUS
  <2>2. Len(cols) = 2 /\ cols = [i \in 1 .. 2 |-> cols[i]] /\ \A i \in 1 .. 2 : cols[i] \in Columns
    BY <1>5, <2>1
  <2> HIDE DEF cols
  <2> QED BY <2>2, IsSequence
<1>7. /\ r.tag = "CAR_TYPE"   => cols[1] \in Codes /\ cols[2] \in Quantities
      /\ r.tag = "CAR_INFO"   => cols[1] \in Cids /\ cols[2] \in Codes
      /\ r.tag = "RENT_ORDER" => cols[1] \in Oids /\ cols[2] \in Cids
  BY <1>2, <1>3, ZeroAssumption DEF Typed
<1> HIDE DEF cols
<1>8. c \in [tag: Tables, cols: Seq(Columns)] /\ c.tag = r.tag /\ c.cols = cols
  BY <1>1, <1>6
<1>9. Typed(c)
  BY <1>6, <1>7, <1>8 DEF Typed
<1> QED BY <1>8, <1>9 DEF cols

\* A file is read as far as it goes like the whole one.
LEMMA CutReadable ==
  ASSUME NEW rs, Readable(rs), NEW d \in Cuts(rs) PROVE Readable(d)
<1> DEFINE R == [tag: Tables, cols: Seq(Columns)]
<1>1. PICK k \in 0 .. Len(rs), n \in 0 .. 2 : d = Cut(rs, k, n)
  BY DEF Cuts
<1>2. rs \in Seq(R) /\ Len(rs) \in Nat
  BY DEF Readable
<1>3. /\ d \in Seq(R) /\ Len(d) <= Len(rs)
      /\ \A i \in 1 .. Len(d) : Typed(d[i]) /\ d[i].tag = rs[i].tag
  <2> DEFINE part == SubSeq(rs, 1, k)
  <2>1. part \in Seq(R) /\ Len(part) = k /\ \A i \in 1 .. k : part[i] = rs[i]
    <3> HIDE DEF R
    <3> QED BY <1>2, Prefix
  <2>2. CASE k = Len(rs) \/ n = 0
    <3>1. d = part
      BY <1>1, <2>1, <2>2 DEF Cut
    <3> QED BY <1>2, <2>1, <3>1 DEF Readable
  <2>3. CASE k # Len(rs) /\ n # 0
    <3> DEFINE c == [rs[k + 1] EXCEPT !.cols = [i \in 1 .. 2 |-> IF i < n THEN @[i] ELSE 0]]
    <3>1. k + 1 \in 1 .. Len(rs)
      BY <1>2, <2>3
    <3>2. Typed(c) /\ c.tag = rs[k + 1].tag
      BY <3>1, CutRecord DEF Readable
    <3>3. d = part \o <<c>>
      BY <1>1, <2>3 DEF Cut
    <3> HIDE DEF c, part
    <3>4. c \in R
      BY <3>2 DEF Typed
    <3>5. /\ d \in Seq(R) /\ Len(d) = k + 1
          /\ \A i \in 1 .. k : d[i] = part[i]
          /\ d[k + 1] = c
      BY <2>1, <3>3, <3>4
    <3>6. \A i \in 1 .. k : Typed(rs[i])
      BY <1>2 DEF Readable
    <3> QED BY <2>1, <3>1, <3>2, <3>5, <3>6
  <2> QED BY <2>2, <2>3
<1> HIDE DEF R
<1>4. Len(d) \in Nat
  BY <1>3
<1>5. \A i \in 1 .. Len(d) : /\ i \in 1 .. Len(rs)
                             /\ \A j \in 1 .. i : j \in 1 .. Len(d)
  BY <1>2, <1>3, <1>4
<1>6. ASSUME NEW i \in 1 .. Len(d)
      PROVE  /\ Typed(d[i])
             /\ d[i].tag = "CAR_INFO" => \E j \in 1 .. i - 1 : d[j].tag = "CAR_TYPE"
             /\ d[i].tag = "RENT_ORDER" =>
                  \E j \in 1 .. i - 1 : /\ d[j].tag = "CAR_INFO"
                                        /\ \A l \in j .. i - 1 : d[l].tag # "CAR_TYPE"
  <2>1. i \in 1 .. Len(rs) /\ \A j \in 1 .. i : d[j].tag = rs[j].tag
    BY <1>3, <1>5
  <2>0. i \in 1 .. i /\ d[i].tag = rs[i].tag
    BY <2>1
  <2>2. ASSUME d[i].tag = "CAR_INFO" PROVE \E j \in 1 .. i - 1 : d[j].tag = "CAR_TYPE"
    <3>1. PICK j \in 1 .. i - 1 : rs[j].tag = "CAR_TYPE"
      BY <2>0, <2>1, <2>2 DEF Readable
    <3>2. j \in 1 .. i
      OBVIOUS
    <3> QED BY <2>1, <3>1, <3>2
  <2>3. ASSUME d[i].tag = "RENT_ORDER"
        PROVE  \E j \in 1 .. i - 1 : /\ d[j].tag = "CAR_INFO"
                                     /\ \A l \in j .. i - 1 : d[l].tag # "CAR_TYPE"
    <3>1. PICK j \in 1 .. i - 1 : /\ rs[j].tag = "CAR_INFO"
                                  /\ \A l \in j .. i - 1 : rs[l].tag # "CAR_TYPE"
      <4>1. rs[i].tag = "RENT_ORDER" /\ i \in 1 .. Len(rs)
        BY <2>0, <2>1, <2>3
      <4> QED BY <4>1 DEF Readable
    <3>2. j \in 1 .. i /\ \A l \in j .. i - 1 : l \in 1 .. i
      <4>1. i \in Int /\ j \in Int /\ 1 <= j /\ j <= i - 1
        OBVIOUS
      <4> QED BY <4>1
    <3>3. d[j].tag = "CAR_INFO"
      BY <2>1, <3>1, <3>2
    <3>4. \A l \in j .. i - 1 : d[l].tag # "CAR_TYPE"
      BY <2>1, <3>1, <3>2
    <3> QED BY <3>3, <3>4
  <2> QED BY <1>3, <2>2, <2>3
<1>7. d \in Seq([tag: Tables, cols: Seq(Columns)]) /\ Len(d) <= MaxNodes
  BY <1>2, <1>3, <1>4, BoundsAssumption DEF Readable, R
<1> QED BY <1>6, <1>7 DEF Readable

-----------------------------------------------------------------------------
\* The pointer read_db keeps for a level is the last record of that level.
LEMMA LastOfLevel ==
  ASSUME Len(disk) \in Nat, NEW tag, NEW i \in 1 .. Len(disk) + 1
  PROVE  /\ LastOf(tag, i) \in 0 .. i - 1
         /\ LastOf(tag, i) = 0 \/ disk[LastOf(tag, i)].tag = tag
         /\ \A k \in 1 .. i - 1 : disk[k].tag = tag => k <= LastOf(tag, i)
<1> DEFINE T == {0} \cup {j \in 1 .. i - 1 : disk[j].tag = tag}
<1>1. PICK m \in T : \A j \in T : j <= m
  <2>1. T \subseteq 0 .. i - 1 /\ T # {} /\ i - 1 \in Nat
    OBVIOUS
  <2> HIDE DEF T
  <2> QED BY <2>1, Greatest
<1>2. m \in 0 .. i - 1 /\ (m = 0 \/ disk[m].tag = tag) /\ \A k \in m + 1 .. i - 1 : disk[k].tag # tag
  BY <1>1
<1>3. /\ LastOf(tag, i) \in 0 .. i - 1
      /\ LastOf(tag, i) = 0 \/ disk[LastOf(tag, i)].tag = tag
      /\ \A k \in LastOf(tag, i) + 1 .. i - 1 : disk[k].tag # tag
  BY <1>2 DEF LastOf
<1>4. ASSUME NEW k \in 1 .. i - 1, disk[k].tag = tag PROVE k <= LastOf(tag, i)
  BY <1>3, <1>4
<1> QED BY <1>3, <1>4

\* A readable file never makes read_db follow a null pointer.
LEMMA ReadableHasParents == ASSUME Readable(disk) PROVE ParentsFirst
<1>1. Len(disk) \in Nat /\ DOMAIN disk = 1 .. Len(disk)
  BY DEF Readable
<1>2. ASSUME NEW i \in DOMAIN disk, disk[i].tag = "CAR_INFO" PROVE LastOf("CAR_TYPE", i) # 0
  <2>1. i \in 1 .. Len(disk) /\ i \in 1 .. Len(disk) + 1
    BY <1>1
  <2>2. PICK j \in 1 .. i - 1 : disk[j].tag = "CAR_TYPE"
    BY <1>2, <2>1 DEF Readable
  <2>3. j <= LastOf("CAR_TYPE", i)
    BY <1>1, <2>1, <2>2, LastOfLevel
  <2> QED BY <2>3
<1>3. ASSUME NEW i \in DOMAIN disk, disk[i].tag = "RENT_ORDER"
      PROVE  LastOf("CAR_INFO", i) > LastOf("CAR_TYPE", i)
  <2>1. i \in 1 .. Len(disk) /\ i \in 1 .. Len(disk) + 1
    BY <1>1
  <2>2. PICK j \in 1 .. i - 1 : /\ disk[j].tag = "CAR_INFO"
                                /\ \A k \in j .. i - 1 : disk[k].tag # "CAR_TYPE"
    BY <1>3, <2>1 DEF Readable
  <2>3. j <= LastOf("CAR_INFO", i) /\ LastOf("CAR_INFO", i) \in 0 .. i - 1
    BY <1>1, <2>1, <2>2, LastOfLevel
  <2>4. /\ LastOf("CAR_TYPE", i) \in 0 .. i - 1
        /\ LastOf("CAR_TYPE", i) = 0 \/ disk[LastOf("CAR_TYPE", i)].tag = "CAR_TYPE"
    BY <1>1, <2>1, LastOfLevel
  <2>5. ~ (LastOf("CAR_TYPE", i) \in j .. i - 1)
    BY <2>2, <2>4
  <2> QED BY <2>3, <2>4, <2>5
<1> QED BY <1>2, <1>3 DEF ParentsFirst

-----------------------------------------------------------------------------
\* What read_db makes of a readable file is a store the statements can run on.

LEMMA LoadedRows ==
  ASSUME Readable(disk), Start
  PROVE  /\ Len(disk) \in 0 .. MaxNodes
         /\ \A r \in types' : /\ r.at \in 1 .. Len(disk) /\ disk[r.at].tag = "CAR_TYPE"
                              /\ r \in CarType
         /\ \A i \in 1 .. Len(disk) : disk[i].tag = "CAR_TYPE" => \E r \in types' : r.at = i
         /\ \A r \in cars' : /\ r.at \in 1 .. Len(disk) /\ disk[r.at].tag = "CAR_INFO"
                             /\ r \in CarInfo /\ r.up = LastOf("CAR_TYPE", r.at)
                             /\ \E t \in types' : t.at = r.up
         /\ \A i \in 1 .. Len(disk) : disk[i].tag = "CAR_INFO" => \E r \in cars' : r.at = i
         /\ \A r \in orders' : /\ r.at \in 1 .. Len(disk) /\ disk[r.at].tag = "RENT_ORDER"
                               /\ r \in RentOrder /\ r.up = LastOf("CAR_INFO", r.at)
                               /\ \E c \in cars' : c.at = r.up
<1> DEFINE n == Len(disk)
<1>1. n \in 0 .. MaxNodes /\ DOMAIN disk = 1 .. n /\ n \in Nat
  BY BoundsAssumption DEF Readable
<1>2. \A i \in 1 .. n : Typed(disk[i]) /\ i \in Address
  BY <1>1, BoundsAssumption DEF Readable, Address
<1>3. /\ types' = {[at |-> i, up |-> Sentinel,
                    code |-> disk[i].cols[1], quantity |-> disk[i].cols[2]] :
                     i \in Tagged("CAR_TYPE")}
      /\ cars' = {[at |-> i, up |-> Home("CAR_TYPE", i),
                   cid |-> disk[i].cols[1], code |-> disk[i].cols[2]] :
                    i \in Tagged("CAR_INFO")}
      /\ orders' = {[at |-> i, up |-> Home("CAR_INFO", i),
                     oid |-> disk[i].cols[1], cid |-> disk[i].cols[2]] :
                     i \in Tagged("RENT_ORDER")}
  BY DEF Start
<1>4. \A tag, i : i \in Tagged(tag) <=> i \in 1 .. n /\ disk[i].tag = tag
  BY <1>1 DEF Tagged
<1>5. ASSUME NEW tag, NEW i \in 1 .. n, LastOf(tag, i) # 0
      PROVE  LastOf(tag, i) \in Tagged(tag)
  <2>1. i \in 1 .. n + 1
    BY <1>1
  <2>2. LastOf(tag, i) \in 0 .. i - 1 /\ disk[LastOf(tag, i)].tag = tag
    BY <1>1, <1>5, <2>1, LastOfLevel
  <2>3. LastOf(tag, i) \in 1 .. n
    BY <1>1, <1>5, <2>2
  <2> QED BY <1>4, <2>2, <2>3
<1>6. /\ \A i \in Tagged("CAR_INFO") : LastOf("CAR_TYPE", i) \in Tagged("CAR_TYPE")
      /\ \A i \in Tagged("RENT_ORDER") : LastOf("CAR_INFO", i) \in Tagged("CAR_INFO")
  <2>1. ParentsFirst
    BY ReadableHasParents
  <2>2. ASSUME NEW i \in Tagged("CAR_INFO") PROVE LastOf("CAR_TYPE", i) \in Tagged("CAR_TYPE")
    BY <1>1, <1>4, <1>5, <2>1 DEF ParentsFirst
  <2>3. ASSUME NEW i \in Tagged("RENT_ORDER") PROVE LastOf("CAR_INFO", i) \in Tagged("CAR_INFO")
    <3>1. i \in 1 .. n /\ i \in 1 .. n + 1 /\ disk[i].tag = "RENT_ORDER"
      BY <1>1, <1>4
    <3>2. LastOf("CAR_INFO", i) > LastOf("CAR_TYPE", i)
      BY <1>1, <2>1, <3>1 DEF ParentsFirst
    <3>3. LastOf("CAR_INFO", i) \in 0 .. i - 1 /\ LastOf("CAR_TYPE", i) \in 0 .. i - 1
      BY <1>1, <3>1, LastOfLevel
    <3>4. LastOf("CAR_INFO", i) # 0
      BY <3>2, <3>3
    <3> QED BY <1>5, <3>1, <3>4
  <2> QED BY <2>2, <2>3
<1> HIDE DEF n
<1>7. \A r \in types' : r.at \in Tagged("CAR_TYPE") /\ r \in CarType
  <2>1. \A i \in Tagged("CAR_TYPE") :
          i \in Address /\ disk[i].cols[1] \in Codes /\ disk[i].cols[2] \in Quantities
    BY <1>2, <1>4 DEF Typed
  <2> QED BY <1>3, <2>1 DEF CarType
<1>8. \A r \in cars' : /\ r.at \in Tagged("CAR_INFO") /\ r \in CarInfo
                      /\ r.up = LastOf("CAR_TYPE", r.at)
  <2>1. \A i \in Tagged("CAR_INFO") :
          /\ i \in Address /\ disk[i].cols[1] \in Cids /\ disk[i].cols[2] \in Codes
          /\ LastOf("CAR_TYPE", i) \in Address
    BY <1>2, <1>4, <1>6 DEF Typed
  <2> QED BY <1>3, <2>1 DEF CarInfo, Home
<1>9. \A r \in orders' : /\ r.at \in Tagged("RENT_ORDER") /\ r \in RentOrder
                        /\ r.up = LastOf("CAR_INFO", r.at)
  <2>1. \A i \in Tagged("RENT_ORDER") :
          /\ i \in Address /\ disk[i].cols[1] \in Oids /\ disk[i].cols[2] \in Cids
          /\ LastOf("CAR_INFO", i) \in Address
    BY <1>2, <1>4, <1>6 DEF Typed
  <2> QED BY <1>3, <2>1 DEF RentOrder, Home
<1>10. /\ \A i \in Tagged("CAR_TYPE") : \E r \in types' : r.at = i
       /\ \A i \in Tagged("CAR_INFO") : \E r \in cars' : r.at = i
  <2>1. ASSUME NEW i \in Tagged("CAR_TYPE") PROVE \E r \in types' : r.at = i
    <3> DEFINE r == [at |-> i, up |-> Sentinel,
                     code |-> disk[i].cols[1], quantity |-> disk[i].cols[2]]
    <3>1. r \in types'
      BY <1>3
    <3>2. r.at = i
      OBVIOUS
    <3> QED BY <3>1, <3>2
  <2>2. ASSUME NEW i \in Tagged("CAR_INFO") PROVE \E r \in cars' : r.at = i
    <3> DEFINE r == [at |-> i, up |-> Home("CAR_TYPE", i),
                     cid |-> disk[i].cols[1], code |-> disk[i].cols[2]]
    <3>1. r \in cars'
      BY <1>3
    <3>2. r.at = i
      OBVIOUS
    <3> QED BY <3>1, <3>2
  <2> QED BY <2>1, <2>2
<1>11. \A r \in cars' : \E t \in types' : t.at = r.up
  BY <1>6, <1>8, <1>10
<1>12. \A r \in orders' : \E c \in cars' : c.at = r.up
  BY <1>6, <1>9, <1>10
<1> QED BY <1>1, <1>4, <1>7, <1>8, <1>9, <1>10, <1>11, <1>12 DEF n

LEMMA LoadedDistinct ==
  ASSUME Readable(disk), Start
  PROVE  /\ \A r, s \in (types \cup cars \cup orders)' : r.at = s.at => r = s
         /\ FiniteInv'
<1>1. /\ \A r, s \in types' : r.at = s.at => r = s
      /\ \A r, s \in cars' : r.at = s.at => r = s
      /\ \A r, s \in orders' : r.at = s.at => r = s
  BY DEF Start
<1>2. \A r, s \in (types \cup cars \cup orders)' : r.at = s.at => r = s
  BY <1>1, LoadedRows
<1>3. ASSUME NEW rows, \A r \in rows : r.at \in 1 .. Len(disk),
             \A r, s \in rows : r.at = s.at => r = s
      PROVE  IsFiniteSet(rows)
  <2>1. [r \in rows |-> r.at] \in Injection(rows, 1 .. Len(disk))
    BY <1>3 DEF Injection, IsInjective
  <2>2. IsFiniteSet(1 .. Len(disk))
    BY LoadedRows, FS_Interval, BoundsAssumption
  <2> QED BY <2>1, <2>2, FS_Injection
<1>4. /\ \A r \in types' : r.at \in 1 .. Len(disk)
      /\ \A r \in cars' : r.at \in 1 .. Len(disk)
      /\ \A r \in orders' : r.at \in 1 .. Len(disk)
  BY LoadedRows
<1>5. IsFiniteSet(types') /\ IsFiniteSet(cars') /\ IsFiniteSet(orders')
  BY <1>1, <1>3, <1>4
<1> QED BY <1>2, <1>5 DEF FiniteInv

LEMMA StartIInv == ASSUME Readable(disk), Start PROVE IInv'
<1> DEFINE n == Len(disk)
<1>1. n \in 0 .. MaxNodes /\ n \in Nat
  BY LoadedRows, BoundsAssumption
<1>2. n + 1 \in 1 .. n + 1
  BY <1>1
<1>3. /\ ct_ptr' \in 0 .. n
      /\ ct_ptr' = 0 \/ disk[ct_ptr'].tag = "CAR_TYPE"
      /\ \A k \in 1 .. n : disk[k].tag = "CAR_TYPE" => k <= ct_ptr'
  <2>1. /\ LastOf("CAR_TYPE", n + 1) \in 0 .. (n + 1) - 1
        /\ LastOf("CAR_TYPE", n + 1) = 0 \/ disk[LastOf("CAR_TYPE", n + 1)].tag = "CAR_TYPE"
        /\ \A k \in 1 .. (n + 1) - 1 :
             disk[k].tag = "CAR_TYPE" => k <= LastOf("CAR_TYPE", n + 1)
    BY <1>1, <1>2, LastOfLevel
  <2>2. (n + 1) - 1 = n /\ ct_ptr' = LastOf("CAR_TYPE", n + 1)
    BY <1>1 DEF Start
  <2> QED BY <2>1, <2>2
<1>4. icnt' \in [Tables -> 0 .. UMOD - 1]
  <2>1. ASSUME NEW ti PROVE Cardinality(Tagged(ti)) % UMOD \in 0 .. UMOD - 1
    <3>1. IsFiniteSet(Tagged(ti))
      <4>1. DOMAIN disk = 1 .. n
        BY DEF Readable
      <4>2. IsFiniteSet(1 .. n)
        BY <1>1, FS_Interval
      <4> QED BY <4>1, <4>2, FS_Subset DEF Tagged
    <3>2. Cardinality(Tagged(ti)) \in Nat
      BY <3>1, FS_CardinalityType
    <3> QED BY <3>2, UModAssumption
  <2> QED BY <2>1 DEF Start, LoadedIcnt
<1>5. TypeOK'
  <2>1. types' \subseteq CarType /\ cars' \subseteq CarInfo /\ orders' \subseteq RentOrder
    BY LoadedRows
  <2>2. ct_ptr' \in 0 .. MaxNodes /\ brk' \in 0 .. MaxNodes /\ ccnt' \in 0 .. MaxRows
    BY <1>1, <1>3, BoundsAssumption DEF Start
  <2> QED BY <1>4, <2>1, <2>2 DEF TypeOK, Start, Replies
<1>6. LinkInv'
  <2>1. cars' = Under(cars', types') /\ orders' = Under(orders', cars')
    BY LoadedRows DEF Under, AddressesOf
  <2>2. \A r \in (types \cup cars \cup orders)' : r.at <= brk'
    <3>1. \A r \in (types \cup cars \cup orders)' : r.at \in 1 .. n
      BY LoadedRows
    <3>2. brk' = n
      BY DEF Start
    <3> QED BY <1>1, <3>1, <3>2
  <2> QED BY <2>1, <2>2, LoadedDistinct DEF LinkInv
<1>7. TailInv'
  <2>1. ct_ptr' <= brk'
    BY <1>1, <1>3 DEF Start
  <2>2. ASSUME NEW t \in types' PROVE IsTail(ct_ptr', types')
    <3>1. \A r \in types' : r.at \in 1 .. n /\ r.at <= ct_ptr'
      BY <1>3, LoadedRows
    <3>2. ct_ptr' \in 1 .. n /\ disk[ct_ptr'].tag = "CAR_TYPE"
      BY <1>1, <1>3, <3>1
    <3>3. \E r \in types' : r.at = ct_ptr'
      BY <3>2, LoadedRows
    <3> QED BY <3>1, <3>3 DEF IsTail, AddressesOf
  <2> QED BY <2>1, <2>2 DEF TailInv
<1> QED BY <1>5, <1>6, <1>7, LoadedDistinct DEF IInv

-----------------------------------------------------------------------------
\* What a write begins with is a prefix of every sequence.
LEMMA NothingIsACut ==
  ASSUME NEW rs, Len(rs) \in Nat PROVE <<>> \in Cuts(rs)
<1>1. Cut(rs, 0, 0) = SubSeq(rs, 1, 0) \o <<>>
  BY DEF Cut
<1>2. SubSeq(rs, 1, 0) = <<>>
  OBVIOUS
<1>3. Cut(rs, 0, 0) = <<>>
  BY <1>1, <1>2
<1> QED BY <1>3 DEF Cuts

LEMMA InitFileInv == PInit => FileInv
<1> SUFFICES ASSUME PInit PROVE FileInv
  OBVIOUS
<1>1. IInv /\ phase = "down" /\ exiting = FALSE /\ target = <<>> /\ disk = <<>>
  BY InitIInv DEF PInit
<1>2. Readable(target)
  BY <1>1, BoundsAssumption DEF Readable
<1>3. disk \in Cuts(target)
  BY <1>1, NothingIsACut
<1> QED BY <1>1, <1>2, <1>3 DEF FileInv

\* The steps that leave the file alone, and begin no write.
LEMMA SameFile ==
  ASSUME FileInv, IInv', UNCHANGED <<disk, target>>,
         phase' \in {"run", "down"}, exiting' \in BOOLEAN
  PROVE  FileInv'
BY DEF FileInv

\* The memory of a process that is gone is that of one not yet started.
LEMMA GoneIInv == Gone => IInv'
<1> SUFFICES ASSUME Gone PROVE IInv'
  OBVIOUS
<1>1. TypeOK'
  BY BoundsAssumption, UModAssumption
     DEF Gone, TypeOK, Tables, NoTable, Replies, Sentinel
<1>2. FiniteInv'
  BY FS_EmptySet DEF Gone, FiniteInv
<1>3. LinkInv' /\ TailInv'
  BY DEF Gone, LinkInv, TailInv, Under, Sentinel
<1> QED BY <1>1, <1>2, <1>3 DEF IInv

\* An answer changes nothing the invariant of the store speaks of.
LEMMA AnsweredIInv ==
  ASSUME IInv, UNCHANGED <<store, inserting, ccnt>>, reply' \in Replies PROVE IInv'
<1>1. inserting' \in Tables \cup {NoTable} /\ ccnt' \in 0 .. MaxRows
  BY DEF IInv, TypeOK
<1> QED BY <1>1, SameStoreIInv

\* A store that does not change is written as the same records.
LEMMA SameDump ==
  ASSUME IInv, vars' = vars PROVE IInv' /\ Dump' = Dump
<1>1. IInv'
  BY NextIInv
<1>2. types' = types /\ cars' = cars /\ orders' = orders
  BY DEF vars
<1>3. Dump' = Dump
  BY SMTT(30) DEF vars, Dump, Nodes, Rank, Path, Record, CarAt
<1> QED BY <1>1, <1>3

\* More of a write that has got so far is that write up to a point.
LEMMA OnwardIsACut ==
  ASSUME Readable(target), disk \in Cuts(target)
  PROVE  Onward \subseteq Cuts(target)
<1>1. Len(disk) \in Nat
  BY CutReadable DEF Readable
<1>2. Len(disk) .. Len(target) \subseteq 0 .. Len(target)
  BY <1>1
<1> QED BY <1>2 DEF Onward, Cuts

LEMMA NextFileInv == FileInv /\ [PNext]_allvars => FileInv'
<1> SUFFICES ASSUME FileInv, [PNext]_allvars PROVE FileInv'
  OBVIOUS
<1>0. /\ IInv /\ Readable(target) /\ disk \in Cuts(target) /\ exiting \in BOOLEAN
      /\ phase = "write" => target = Dump
  BY DEF FileInv
<1>1. CASE Start
  <2>1. Readable(disk)
    BY <1>0, CutReadable
  <2>2. IInv'
    BY <1>1, <2>1, StartIInv
  <2> QED BY <1>1, <2>2, SameFile DEF Start
<1>2. CASE Statement
  <2>1. IInv'
    BY <1>0, <1>2, NextIInv DEF Statement
  <2> QED BY <1>0, <1>2, <2>1, SameFile DEF Statement
<1>3. ASSUME NEW exit \in BOOLEAN, OpenFails(exit) PROVE FileInv'
  <2>1. CASE exit
    <3>1. Gone /\ UNCHANGED <<disk, target>> /\ phase' = "down" /\ exiting' = FALSE
      BY <1>3, <2>1 DEF OpenFails, Gone
    <3> QED BY <3>1, GoneIInv, SameFile
  <2>2. CASE ~ exit
    <3>1. /\ reply' = "error" /\ UNCHANGED <<store, inserting, ccnt>>
          /\ UNCHANGED <<disk, target, phase, exiting>> /\ phase = "run"
      BY <1>3, <2>2 DEF OpenFails
    <3>2. IInv'
      BY <1>0, <3>1, AnsweredIInv DEF Replies
    <3> QED BY <1>0, <3>1, <3>2, SameFile
  <2> QED BY <2>1, <2>2
<1>4. ASSUME NEW exit \in BOOLEAN, WriteBegin(exit) PROVE FileInv'
  <2>1. /\ disk' = <<>> /\ target' = Dump /\ vars' = vars
        /\ phase' = "write" /\ exiting' = exit
    BY <1>4 DEF WriteBegin, Truncated
  <2>2. IInv' /\ Dump' = Dump
    BY <1>0, <2>1, SameDump
  <2>3. Readable(target')
    BY <1>0, <2>1, DumpReadable
  <2>4. disk' \in Cuts(target')
    BY <2>1, <2>3, NothingIsACut DEF Readable
  <2> QED BY <2>1, <2>2, <2>3, <2>4 DEF FileInv
<1>5. CASE Flush
  <2>1. vars' = vars /\ UNCHANGED <<phase, exiting, target>> /\ phase = "write"
    BY <1>5 DEF Flush
  <2>2. IInv' /\ Dump' = Dump
    BY <1>0, <2>1, SameDump
  <2>3. disk' \in Cuts(target)
    BY <1>0, <1>5, OnwardIsACut DEF Flush
  <2> QED BY <1>0, <2>1, <2>2, <2>3 DEF FileInv
<1>6. CASE WriteEnd
  <2>1. target' = target /\ disk' \in {disk} \cup Onward
    BY <1>6 DEF WriteEnd, Gone
  <2>2. disk' \in Cuts(target)
    BY <1>0, <2>1, OnwardIsACut
  <2>3. IInv' /\ phase' \in {"run", "down"} /\ exiting' \in BOOLEAN
    <3>1. CASE exiting
      BY <1>6, <3>1, GoneIInv DEF WriteEnd, Gone
    <3>2. CASE ~ exiting
      BY <1>0, <1>6, <3>2, AnsweredIInv DEF WriteEnd, Replies
    <3> QED BY <3>1, <3>2
  <2> QED BY <1>0, <2>1, <2>2, <2>3 DEF FileInv
<1>7. CASE Kill
  <2>1. Gone /\ UNCHANGED <<disk, target>> /\ phase' = "down" /\ exiting' = FALSE
    BY <1>7 DEF Kill, Gone
  <2> QED BY <2>1, GoneIInv, SameFile
<1>8. CASE UNCHANGED allvars
  <2>1. vars' = vars /\ UNCHANGED <<disk, phase, exiting, target>>
    BY <1>8 DEF allvars
  <2>2. IInv' /\ Dump' = Dump
    BY <1>0, <2>1, SameDump
  <2> QED BY <2>1, <2>2 DEF FileInv
<1> QED BY <1>1, <1>2, <1>3, <1>4, <1>5, <1>6, <1>7, <1>8 DEF PNext

\* The invariant holds in every state of every life of the server.
THEOREM FileInvariance == PSpec => []FileInv
BY InitFileInv, NextFileInv, PTL DEF PSpec

\* Kills, full disks and restarts at any moment leave a file that is one
\* write up to a point, its last record perhaps cut.
THEOREM FileIsOneWrite == PSpec => []OneWrite
<1>1. FileInv => OneWrite
  BY DEF FileInv, OneWrite
<1> QED BY FileInvariance, <1>1, PTL

\* No kill, at whatever byte, leaves a file with which read_db follows a null
\* pointer.
THEOREM FileLoads == PSpec => []ParentsFirst
<1>1. FileInv => ParentsFirst
  BY CutReadable, ReadableHasParents DEF FileInv
<1> QED BY FileInvariance, <1>1, PTL

\* The store and the file keep their types through every write and restart.
THEOREM FileTypes == PSpec => []PTypeOK
<1>1. FileInv => PTypeOK
  BY CutReadable DEF FileInv, IInv, PTypeOK, Readable, Columns
<1> QED BY FileInvariance, <1>1, PTL

-----------------------------------------------------------------------------
\* A node read from record i is written back as record i: read_db numbers the
\* nodes in the order write_recursively visits them.

\* the path of the node read_db makes of record i
RecordPath(i) ==
  CASE disk[i].tag = "CAR_TYPE"   -> <<i, 0, 0>>
    [] disk[i].tag = "CAR_INFO"   -> <<LastOf("CAR_TYPE", i), i, 0>>
    [] disk[i].tag = "RENT_ORDER" -> <<LastOf("CAR_TYPE", i), LastOf("CAR_INFO", i), i>>

\* The last record of a level, for two records of a file.
LEMMA LastOfGrows ==
  ASSUME Len(disk) \in Nat, NEW tag, NEW i \in 1 .. Len(disk), NEW j \in 1 .. Len(disk), i < j
  PROVE  /\ LastOf(tag, i) \in 0 .. i - 1 /\ LastOf(tag, i) <= LastOf(tag, j)
         /\ LastOf(tag, j) \in 0 .. j - 1
         /\ disk[i].tag = tag => i <= LastOf(tag, j)
<1>1. i \in 1 .. Len(disk) + 1 /\ j \in 1 .. Len(disk) + 1 /\ i \in 1 .. j - 1
  OBVIOUS
<1>2. /\ LastOf(tag, i) \in 0 .. i - 1
      /\ LastOf(tag, i) = 0 \/ disk[LastOf(tag, i)].tag = tag
  BY <1>1, LastOfLevel
<1>3. /\ LastOf(tag, j) \in 0 .. j - 1
      /\ \A k \in 1 .. j - 1 : disk[k].tag = tag => k <= LastOf(tag, j)
  BY <1>1, LastOfLevel
<1> QED BY <1>1, <1>2, <1>3

LEMMA RecordPathsGrow ==
  ASSUME Readable(disk), NEW i \in 1 .. Len(disk), NEW j \in 1 .. Len(disk), i < j
  PROVE  PathBefore(RecordPath(i), RecordPath(j))
<1>1. Len(disk) \in Nat /\ DOMAIN disk = 1 .. Len(disk)
  BY DEF Readable
<1>2. /\ disk[i].tag \in {"CAR_TYPE", "CAR_INFO", "RENT_ORDER"}
      /\ disk[j].tag \in {"CAR_TYPE", "CAR_INFO", "RENT_ORDER"}
  BY DEF Readable, Typed, Tables
<1>3. PICK a, b, c, d \in Nat :
        /\ a = LastOf("CAR_TYPE", i) /\ b = LastOf("CAR_INFO", i)
        /\ c = LastOf("CAR_TYPE", j) /\ d = LastOf("CAR_INFO", j)
        /\ a < i /\ b < i /\ c < j /\ d < j /\ a <= c /\ b <= d
        /\ disk[i].tag = "CAR_TYPE" => i <= c
        /\ disk[i].tag = "CAR_INFO" => i <= d
  <2>1. /\ LastOf("CAR_TYPE", i) \in 0 .. i - 1 /\ LastOf("CAR_TYPE", j) \in 0 .. j - 1
        /\ LastOf("CAR_TYPE", i) <= LastOf("CAR_TYPE", j)
        /\ disk[i].tag = "CAR_TYPE" => i <= LastOf("CAR_TYPE", j)
    BY <1>1, LastOfGrows
  <2>2. /\ LastOf("CAR_INFO", i) \in 0 .. i - 1 /\ LastOf("CAR_INFO", j) \in 0 .. j - 1
        /\ LastOf("CAR_INFO", i) <= LastOf("CAR_INFO", j)
        /\ disk[i].tag = "CAR_INFO" => i <= LastOf("CAR_INFO", j)
    BY <1>1, LastOfGrows
  <2> QED BY <2>1, <2>2
<1>4. disk[j].tag = "RENT_ORDER" => d > c
  BY <1>1, <1>3, ReadableHasParents DEF ParentsFirst
<1>5. \/ disk[i].tag = "CAR_TYPE" /\ RecordPath(i) = <<i, 0, 0>>
      \/ disk[i].tag = "CAR_INFO" /\ RecordPath(i) = <<a, i, 0>>
      \/ disk[i].tag = "RENT_ORDER" /\ RecordPath(i) = <<a, b, i>>
  BY <1>2, <1>3 DEF RecordPath
<1>6. \/ disk[j].tag = "CAR_TYPE" /\ RecordPath(j) = <<j, 0, 0>>
      \/ disk[j].tag = "CAR_INFO" /\ RecordPath(j) = <<c, j, 0>>
      \/ disk[j].tag = "RENT_ORDER" /\ RecordPath(j) = <<c, d, j>>
  BY <1>2, <1>3 DEF RecordPath
<1> QED BY <1>3, <1>4, <1>5, <1>6 DEF PathBefore, Lex

\* No path is before itself, or before one that is before it.
LEMMA PathsOneWay ==
  ASSUME Readable(disk), NEW i \in 1 .. Len(disk), NEW j \in 1 .. Len(disk)
  PROVE  PathBefore(RecordPath(i), RecordPath(j)) <=> i < j
<1>1. Len(disk) \in Nat
  BY DEF Readable
<1>2. ASSUME NEW k \in 1 .. Len(disk) PROVE \E a, b, c \in Int : RecordPath(k) = <<a, b, c>>
  <2>1. k \in 1 .. Len(disk) + 1
    BY <1>1
  <2>2. LastOf("CAR_TYPE", k) \in Int /\ LastOf("CAR_INFO", k) \in Int
    BY <1>1, <2>1, LastOfLevel
  <2>3. disk[k].tag \in {"CAR_TYPE", "CAR_INFO", "RENT_ORDER"}
    BY DEF Readable, Typed, Tables
  <2> QED BY <2>2, <2>3 DEF RecordPath
<1>3. PICK a, b, c \in Int : RecordPath(i) = <<a, b, c>>
  BY <1>2
<1>4. PICK d, e, f \in Int : RecordPath(j) = <<d, e, f>>
  BY <1>2
<1>5. ASSUME ~ (i < j) PROVE ~ PathBefore(RecordPath(i), RecordPath(j))
  <2>1. CASE i = j
    BY <1>3, <2>1 DEF PathBefore, Lex
  <2>2. CASE j < i
    <3>1. PathBefore(RecordPath(j), RecordPath(i))
      BY <2>2, RecordPathsGrow
    <3> QED BY <1>3, <1>4, <3>1 DEF PathBefore, Lex
  <2> QED BY <1>5, <2>1, <2>2
<1> QED BY <1>5, RecordPathsGrow

\* Where read_db hangs a record is where its path says.
LEMMA LoadedPaths ==
  ASSUME Readable(disk), Start, NEW r \in Nodes'
  PROVE  Path(r)' = RecordPath(r.at)
<1>1. Len(disk) \in Nat /\ DOMAIN disk = 1 .. Len(disk)
  BY DEF Readable
<1>2. /\ r \in types' \/ r \in cars' \/ r \in orders'
      /\ r.at \in 1 .. Len(disk)
  BY LoadedRows DEF Nodes
<1>3. CASE r \in types'
  <2>1. disk[r.at].tag = "CAR_TYPE"
    BY <1>3, LoadedRows
  <2> QED BY <1>3, <2>1 DEF Path, RecordPath
<1>4. CASE r \in cars'
  <2>1. disk[r.at].tag = "CAR_INFO" /\ r.up = LastOf("CAR_TYPE", r.at)
    BY <1>4, LoadedRows
  <2>2. r \notin types'
    BY <2>1, LoadedRows
  <2> QED BY <1>4, <2>1, <2>2 DEF Path, RecordPath
<1>5. CASE r \in orders'
  <2>1. disk[r.at].tag = "RENT_ORDER" /\ r.up = LastOf("CAR_INFO", r.at)
    BY <1>5, LoadedRows
  <2>2. r \notin types' /\ r \notin cars'
    BY <2>1, LoadedRows
  <2>3. PICK c \in cars' : c.at = r.up
    BY <1>5, LoadedRows
  <2>4. CarAt(r.up)' = c
    BY <2>3, LoadedDistinct DEF CarAt
  <2>5. c.up = LastOf("CAR_TYPE", r.at)
    <3> DEFINE i == r.at
               j == LastOf("CAR_INFO", i)
               m == LastOf("CAR_TYPE", i)
               l == LastOf("CAR_TYPE", j)
    <3>1. c.up = l /\ j \in 1 .. Len(disk)
      BY <2>1, <2>3, LoadedRows
    <3>2. i \in 1 .. Len(disk) + 1 /\ j \in 1 .. Len(disk) + 1
      BY <1>1, <1>2, <3>1
    <3>3. /\ j \in 0 .. i - 1
          /\ m \in 0 .. i - 1 /\ (m = 0 \/ disk[m].tag = "CAR_TYPE")
          /\ \A k \in 1 .. i - 1 : disk[k].tag = "CAR_TYPE" => k <= m
      BY <1>1, <3>2, LastOfLevel
    <3>4. /\ l \in 0 .. j - 1 /\ (l = 0 \/ disk[l].tag = "CAR_TYPE")
          /\ \A k \in 1 .. j - 1 : disk[k].tag = "CAR_TYPE" => k <= l
      BY <1>1, <3>2, LastOfLevel
    <3>5. j > m
      BY <1>1, <1>2, <2>1, ReadableHasParents DEF ParentsFirst
    <3> HIDE DEF i, j, m, l
    <3>6. l <= m /\ m <= l
      BY <1>1, <3>1, <3>2, <3>3, <3>4, <3>5
    <3>7. l = m
      BY <3>3, <3>4, <3>6, <1>1, <3>2
    <3> QED BY <3>1, <3>7 DEF m, i
  <2>6. Path(r)' = <<CarAt(r.up)'.up, r.up, r.at>>
    BY <2>2 DEF Path
  <2> QED BY <2>1, <2>4, <2>5, <2>6 DEF RecordPath
<1> QED BY <1>2, <1>3, <1>4, <1>5

LEMMA LoadedRecords ==
  ASSUME Readable(disk), Start, NEW r \in Nodes'
  PROVE  Record(r)' = disk[r.at]
<1>1. r.at \in 1 .. Len(disk)
  BY LoadedRows DEF Nodes
<1>2. Typed(disk[r.at])
  BY <1>1 DEF Readable
<1>3. /\ disk[r.at] = [tag |-> disk[r.at].tag, cols |-> disk[r.at].cols]
      /\ disk[r.at].cols = <<disk[r.at].cols[1], disk[r.at].cols[2]>>
  BY <1>2 DEF Typed
<1>4. CASE r \in types'
  <2>1. /\ disk[r.at].tag = "CAR_TYPE"
        /\ r.code = disk[r.at].cols[1] /\ r.quantity = disk[r.at].cols[2]
    <3>1. disk[r.at].tag = "CAR_TYPE"
      BY <1>4, LoadedRows
    <3>2. r.code = disk[r.at].cols[1] /\ r.quantity = disk[r.at].cols[2]
      BY <1>4 DEF Start
    <3> QED BY <3>1, <3>2
  <2> QED BY <1>3, <1>4, <2>1 DEF Record
<1>5. CASE r \in cars'
  <2>1. /\ disk[r.at].tag = "CAR_INFO"
        /\ r.cid = disk[r.at].cols[1] /\ r.code = disk[r.at].cols[2]
    <3>1. disk[r.at].tag = "CAR_INFO"
      BY <1>5, LoadedRows
    <3>2. r.cid = disk[r.at].cols[1] /\ r.code = disk[r.at].cols[2]
      BY <1>5 DEF Start
    <3> QED BY <3>1, <3>2
  <2>2. r \notin types'
    BY <2>1, LoadedRows
  <2> QED BY <1>3, <1>5, <2>1, <2>2 DEF Record
<1>6. CASE r \in orders'
  <2>1. /\ disk[r.at].tag = "RENT_ORDER"
        /\ r.oid = disk[r.at].cols[1] /\ r.cid = disk[r.at].cols[2]
    <3>1. disk[r.at].tag = "RENT_ORDER"
      BY <1>6, LoadedRows
    <3>2. r.oid = disk[r.at].cols[1] /\ r.cid = disk[r.at].cols[2]
      BY <1>6 DEF Start
    <3> QED BY <3>1, <3>2
  <2>2. r \notin types' /\ r \notin cars'
    BY <2>1, LoadedRows
  <2> QED BY <1>3, <1>6, <2>1, <2>2 DEF Record
<1> QED BY <1>4, <1>5, <1>6 DEF Nodes

\* Rows with the addresses from 1 to m, one at each, are m rows.
LEMMA NumberedRows ==
  ASSUME NEW m \in Nat, NEW rows, \A r \in rows : r.at \in 1 .. m,
         \A r, s \in rows : r.at = s.at => r = s,
         \A i \in 1 .. m : \E r \in rows : r.at = i
  PROVE  Cardinality(rows) = m
<1> DEFINE f == [r \in rows |-> r.at]
<1>1. f \in Injection(rows, 1 .. m) /\ f \in Surjection(rows, 1 .. m)
  BY DEF Injection, IsInjective, Surjection
<1>2. IsFiniteSet(1 .. m) /\ Cardinality(1 .. m) = m
  BY FS_Interval
<1> HIDE DEF f
<1>3. IsFiniteSet(rows) /\ Cardinality(rows) <= m
  BY <1>1, <1>2, FS_Injection
<1> QED BY <1>1, <1>2, <1>3, FS_Surjection

LEMMA LoadedNodes ==
  ASSUME Readable(disk), Start
  PROVE  /\ \A r \in Nodes' : r.at \in 1 .. Len(disk)
         /\ \A r, s \in Nodes' : r.at = s.at => r = s
         /\ \A i \in 1 .. Len(disk) : \E r \in Nodes' : r.at = i
<1>1. \A r \in Nodes' : r.at \in 1 .. Len(disk)
  BY LoadedRows DEF Nodes
<1>2. \A r, s \in Nodes' : r.at = s.at => r = s
  BY LoadedDistinct DEF Nodes
<1>3. ASSUME NEW i \in 1 .. Len(disk) PROVE \E r \in Nodes' : r.at = i
  <2>1. CASE disk[i].tag = "CAR_TYPE"
    BY <2>1, LoadedRows DEF Nodes
  <2>2. CASE disk[i].tag = "CAR_INFO"
    BY <2>2, LoadedRows DEF Nodes
  <2>3. CASE disk[i].tag = "RENT_ORDER"
    <3> DEFINE r == [at |-> i, up |-> Home("CAR_INFO", i),
                     oid |-> disk[i].cols[1], cid |-> disk[i].cols[2]]
    <3>1. i \in Tagged("RENT_ORDER")
      BY <2>3 DEF Tagged, Readable
    <3>2. r \in orders'
      BY <3>1 DEF Start
    <3>3. r \in Nodes' /\ r.at = i
      BY <3>2 DEF Nodes
    <3> QED BY <3>3
  <2> QED BY <2>1, <2>2, <2>3 DEF Readable, Typed, Tables
<1> QED BY <1>1, <1>2, <1>3

\* The node of record i is the one with i - 1 nodes before it.
LEMMA LoadedRank ==
  ASSUME Readable(disk), Start, NEW r \in Nodes'
  PROVE  Rank(r)' = r.at - 1
<1> DEFINE low == {s \in Nodes' : s.at < r.at}
<1>1. Len(disk) \in Nat /\ r.at \in 1 .. Len(disk) /\ r.at - 1 \in Nat
  BY LoadedNodes DEF Readable
<1>2. \A s \in Nodes' : PathBefore(Path(s)', Path(r)') <=> s.at < r.at
  BY LoadedPaths, LoadedNodes, PathsOneWay
<1>3. Rank(r)' = Cardinality({s \in Nodes' : PathBefore(Path(s)', Path(r)')})
  BY DEF Rank
<1>4. {s \in Nodes' : PathBefore(Path(s)', Path(r)')} = low
  BY <1>2
<1>5. Cardinality(low) = r.at - 1
  <2>1. \A s \in low : s.at \in 1 .. r.at - 1
    BY <1>1, LoadedNodes
  <2>2. \A s, t \in low : s.at = t.at => s = t
    BY LoadedNodes
  <2>3. \A i \in 1 .. r.at - 1 : \E s \in low : s.at = i
    BY <1>1, LoadedNodes
  <2> HIDE DEF low
  <2> QED BY <1>1, <2>1, <2>2, <2>3, NumberedRows
<1> QED BY <1>3, <1>4, <1>5

LEMMA LoadedDump == ASSUME Readable(disk), Start PROVE Dump' = disk
<1> DEFINE n == Len(disk)
<1>1. n \in Nat /\ disk = [k \in 1 .. n |-> disk[k]]
  BY DEF Readable
<1>2. Cardinality(Nodes') = n
  BY <1>1, LoadedNodes, NumberedRows
<1>3. Dump' = [k \in 1 .. Cardinality(Nodes') |->
                 Record(CHOOSE r \in Nodes : Rank(r) = k - 1)']
  BY DEF Dump
<1>4. ASSUME NEW k \in 1 .. n
      PROVE  Record(CHOOSE r \in Nodes : Rank(r) = k - 1)' = disk[k]
  <2>1. PICK x \in Nodes' : x.at = k
    BY LoadedNodes
  <2>2. \A s \in Nodes' : Rank(s)' = k - 1 <=> s = x
    <3>1. \A s \in Nodes' : Rank(s)' = s.at - 1 /\ s.at \in Int
      BY LoadedRank, LoadedNodes
    <3> QED BY <1>1, <2>1, <3>1, LoadedNodes
  <2>3. (CHOOSE r \in Nodes : Rank(r) = k - 1)' = x
    BY <2>1, <2>2
  <2>4. Record(x)' = disk[k]
    BY <2>1, LoadedRecords
  <2> QED BY <2>3, <2>4
<1> QED BY <1>1, <1>2, <1>3, <1>4

\* A restart loses nothing of what the file holds and reorders nothing: the
\* store it builds would be written back as the same records.
THEOREM RestartKeepsTheFile == PSpec => RoundTrip
<1>1. FileInv /\ [PNext]_allvars => [Start => Dump' = disk]_allvars
  BY CutReadable, LoadedDump DEF FileInv
<1> QED BY FileInvariance, <1>1, PTL DEF PSpec, RoundTrip

\* One row is read for every record of a table.
LEMMA LoadedCounts ==
  ASSUME Readable(disk), Start
  PROVE  /\ icnt'["CAR_TYPE"]   = Cardinality(types') % UMOD
         /\ icnt'["CAR_INFO"]   = Cardinality(cars') % UMOD
         /\ icnt'["RENT_ORDER"] = Cardinality(orders') % UMOD
<1>1. ASSUME NEW rows, NEW I, IsFiniteSet(I), \A r \in rows : r.at \in I,
             \A r, s \in rows : r.at = s.at => r = s,
             \A i \in I : \E r \in rows : r.at = i
      PROVE  Cardinality(rows) = Cardinality(I)
  <2> DEFINE f == [r \in rows |-> r.at]
  <2>1. f \in Injection(rows, I) /\ f \in Surjection(rows, I)
    BY <1>1 DEF Injection, IsInjective, Surjection
  <2> HIDE DEF f
  <2> QED BY <1>1, <2>1, FS_Injection
<1>2. ASSUME NEW tag PROVE IsFiniteSet(Tagged(tag))
  <2>1. DOMAIN disk = 1 .. Len(disk) /\ Len(disk) \in Nat
    BY DEF Readable
  <2>2. IsFiniteSet(1 .. Len(disk))
    BY <2>1, FS_Interval
  <2> QED BY <2>1, <2>2, FS_Subset DEF Tagged
<1>3. /\ \A i \in Tagged("CAR_TYPE") : i \in 1 .. Len(disk) /\ disk[i].tag = "CAR_TYPE"
      /\ \A i \in Tagged("CAR_INFO") : i \in 1 .. Len(disk) /\ disk[i].tag = "CAR_INFO"
      /\ \A i \in Tagged("RENT_ORDER") : i \in 1 .. Len(disk) /\ disk[i].tag = "RENT_ORDER"
      /\ \A i \in 1 .. Len(disk) : i \in Tagged(disk[i].tag)
  BY DEF Tagged, Readable
<1>4. Cardinality(types') = Cardinality(Tagged("CAR_TYPE"))
  <2>1. \A r \in types' : r.at \in Tagged("CAR_TYPE")
    BY <1>3, LoadedRows
  <2>2. \A i \in Tagged("CAR_TYPE") : \E r \in types' : r.at = i
    BY <1>3, LoadedRows
  <2>3. \A r, s \in types' : r.at = s.at => r = s
    BY LoadedDistinct
  <2> QED BY <1>1, <1>2, <2>1, <2>2, <2>3
<1>5. Cardinality(cars') = Cardinality(Tagged("CAR_INFO"))
  <2>1. \A r \in cars' : r.at \in Tagged("CAR_INFO")
    BY <1>3, LoadedRows
  <2>2. \A i \in Tagged("CAR_INFO") : \E r \in cars' : r.at = i
    BY <1>3, LoadedRows
  <2>3. \A r, s \in cars' : r.at = s.at => r = s
    BY LoadedDistinct
  <2> QED BY <1>1, <1>2, <2>1, <2>2, <2>3
<1>6. Cardinality(orders') = Cardinality(Tagged("RENT_ORDER"))
  <2>1. \A r \in orders' : r.at \in Tagged("RENT_ORDER")
    BY <1>3, LoadedRows
  <2>2. \A i \in Tagged("RENT_ORDER") : \E r \in orders' : r.at = i
    <3>1. ASSUME NEW i \in Tagged("RENT_ORDER") PROVE \E r \in orders' : r.at = i
      <4>1. PICK r \in Nodes' : r.at = i
        BY <1>3, LoadedNodes
      <4>2. r \in orders'
        BY <1>3, <4>1, LoadedRows DEF Nodes
      <4> QED BY <4>1, <4>2
    <3> QED BY <3>1
  <2>3. \A r, s \in orders' : r.at = s.at => r = s
    BY LoadedDistinct
  <2> QED BY <1>1, <1>2, <2>1, <2>2, <2>3
<1>7. icnt' = [ti \in Tables |-> Cardinality(Tagged(ti)) % UMOD]
  BY DEF Start, LoadedIcnt
<1> QED BY <1>4, <1>5, <1>6, <1>7 DEF Tables

\* Whatever a life of the server did to the counters and to ct_ptr, the next
\* one begins with exact counts and a list car types can be inserted into.
THEOREM RestartRepairsTheStore == PSpec => RestartRepairs
<1>1. ASSUME FileInv, Start PROVE types' = {} => ct_ptr' = Sentinel
  <2>1. Readable(disk) /\ Len(disk) \in Nat
    <3>1. Readable(disk)
      BY <1>1, CutReadable DEF FileInv
    <3> DEFINE R == [tag: Tables, cols: Seq(Columns)]
    <3>2. disk \in Seq(R)
      BY <3>1 DEF Readable
    <3> HIDE DEF R
    <3>3. Len(disk) \in Nat
      BY <3>2
    <3> QED BY <3>1, <3>3
  <2>2. Len(disk) + 1 \in 1 .. Len(disk) + 1
    BY <2>1
  <2>3. /\ ct_ptr' \in 0 .. (Len(disk) + 1) - 1
        /\ ct_ptr' = 0 \/ disk[ct_ptr'].tag = "CAR_TYPE"
    BY <1>1, <2>1, <2>2, LastOfLevel DEF Start
  <2>4. ct_ptr' # 0 => ct_ptr' \in 1 .. Len(disk)
    BY <2>1, <2>3
  <2> QED BY <1>1, <2>1, <2>3, <2>4, LoadedRows DEF Sentinel
<1>2. FileInv /\ [PNext]_allvars =>
        [Start => /\ icnt'["CAR_TYPE"]   = Cardinality(types') % UMOD
                  /\ icnt'["CAR_INFO"]   = Cardinality(cars') % UMOD
                  /\ icnt'["RENT_ORDER"] = Cardinality(orders') % UMOD
                  /\ types' = {} => ct_ptr' = Sentinel]_allvars
  BY <1>1, CutReadable, LoadedCounts DEF FileInv
<1> QED BY FileInvariance, <1>2, PTL DEF PSpec, RestartRepairs

\* What the statements keep true of the lists of one life of the server holds
\* through kills and restarts as well.
THEOREM ListsSurviveRestarts == PSpec => [](LinkInv /\ TailInv)
<1>1. FileInv => LinkInv /\ TailInv
  BY DEF FileInv, IInv
<1> QED BY FileInvariance, <1>1, PTL

=============================================================================
