-------------------------- MODULE AdminPageProofs --------------------------
(***************************************************************************)
(* Theorems about the administration page: what it deletes was meant to be *)
(* deleted, the rows shown are those of the server, and the quantities     *)
(* follow the cars.                                                        *)
(*                                                                         *)
(* The last takes an account of what is still to come: the change of the   *)
(* cars under way, the correction of a quantity under way (as a question,  *)
(* as its answer or as the statement that writes it) and the corrections   *)
(* the timers have not asked for yet.  While nothing goes wrong there is   *)
(* at most one of each, and the books balance in every state.              *)
(***************************************************************************)
EXTENDS AdminPage, FiniteSetTheorems, SequenceTheorems, TLAPS

-----------------------------------------------------------------------------
\* The elements of a set in an order, a part of a sequence, the sheet.
\* R orders S from its first element to its last
Orders(R, S) ==
  /\ \A x \in S : <<x, x>> \in R
  /\ \A x, y \in S : <<x, y>> \in R \/ <<y, x>> \in R
  /\ \A x, y \in S : <<x, y>> \in R /\ <<y, x>> \in R => x = y
  /\ \A x, y, z \in S : <<x, y>> \in R /\ <<y, z>> \in R => <<x, z>> \in R

\* Nth numbers the elements of a finite set from 1.
LEMMA NthNumbers ==
  ASSUME NEW S, IsFiniteSet(S), NEW R, Orders(R, S)
  PROVE  /\ Cardinality(S) \in Nat
         /\ \A k \in 1 .. Cardinality(S) :
              /\ Nth(S, R, k) \in S
              /\ Cardinality({y \in S : <<y, Nth(S, R, k)>> \in R}) = k
         /\ \A k, l \in 1 .. Cardinality(S) : Nth(S, R, k) = Nth(S, R, l) => k = l
         /\ \A x \in S : \E k \in 1 .. Cardinality(S) : Nth(S, R, k) = x
<1> DEFINE low(x) == {y \in S : <<y, x>> \in R}
           rank == [x \in S |-> Cardinality(low(x))]
           ranks == 1 .. Cardinality(S)
<1>1. Cardinality(S) \in Nat
  BY FS_CardinalityType
<1>2. ASSUME NEW x \in S
      PROVE  IsFiniteSet(low(x)) /\ Cardinality(low(x)) \in ranks
  <2>1. low(x) \subseteq S /\ x \in low(x)
    BY DEF Orders
  <2> HIDE DEF low
  <2>2. IsFiniteSet(low(x)) /\ Cardinality(low(x)) <= Cardinality(S)
    BY <2>1, FS_Subset
  <2>3. Cardinality(low(x)) \in Nat /\ Cardinality(low(x)) # 0
    BY <2>1, <2>2, FS_CardinalityType, FS_EmptySet
  <2> QED BY <1>1, <2>2, <2>3
<1>3. ASSUME NEW x \in S, NEW y \in S, <<x, y>> \in R, x # y
      PROVE  Cardinality(low(x)) < Cardinality(low(y))
  <2>1. low(x) \subseteq low(y) /\ y \in low(y) /\ y \notin low(x)
    BY <1>3 DEF Orders
  <2>2. /\ IsFiniteSet(low(y)) /\ Cardinality(low(y)) \in Nat
        /\ Cardinality(low(x)) \in Nat
    BY <1>2
  <2> HIDE DEF low
  <2>3. /\ Cardinality(low(x)) <= Cardinality(low(y))
        /\ Cardinality(low(x)) # Cardinality(low(y))
    BY <2>1, <2>2, FS_Subset
  <2> QED BY <2>2, <2>3
<1>4. ASSUME NEW x \in S, NEW y \in S, Cardinality(low(x)) = Cardinality(low(y))
      PROVE  x = y
  <2>1. Cardinality(low(x)) \in Nat /\ Cardinality(low(y)) \in Nat
    BY <1>2
  <2>2. <<x, y>> \in R \/ <<y, x>> \in R
    BY DEF Orders
  <2> HIDE DEF low
  <2> QED BY <1>3, <1>4, <2>1, <2>2
<1>5. rank \in Injection(S, ranks)
  <2>1. \A x \in S : Cardinality(low(x)) \in ranks
    BY <1>2
  <2> HIDE DEF low, ranks
  <2> QED BY <1>4, <2>1 DEF Injection, IsInjective
<1>6. IsFiniteSet(ranks) /\ Cardinality(ranks) = Cardinality(S)
  <2>1. 1 - 1 + Cardinality(S) = Cardinality(S)
    BY <1>1
  <2> QED BY <1>1, <2>1, FS_Interval
<1>7. rank \in Surjection(S, ranks)
  <2> HIDE DEF rank, ranks
  <2> QED BY <1>5, <1>6, FS_Injection
<1>8. ASSUME NEW k \in ranks
      PROVE  Nth(S, R, k) \in S /\ Cardinality(low(Nth(S, R, k))) = k
  <2>1. \E x \in S : Cardinality(low(x)) = k
    <3> HIDE DEF low, ranks
    <3> QED BY <1>7 DEF Surjection
  <2> QED BY <2>1 DEF Nth
<1>9. ASSUME NEW x \in S
      PROVE  Cardinality(low(x)) \in ranks /\ Nth(S, R, Cardinality(low(x))) = x
  <2>1. Cardinality(low(x)) \in ranks
    BY <1>2
  <2> HIDE DEF low, ranks
  <2>2. /\ Nth(S, R, Cardinality(low(x))) \in S
        /\ Cardinality(low(Nth(S, R, Cardinality(low(x))))) = Cardinality(low(x))
    BY <1>8, <2>1
  <2> QED BY <1>4, <2>1, <2>2
<1>10. \A x \in S : \E k \in ranks : Nth(S, R, k) = x
  <2> HIDE DEF low, ranks
  <2> QED BY <1>9
<1>11. \A k, l \in ranks : Nth(S, R, k) = Nth(S, R, l) => k = l
  <2> HIDE DEF low, ranks
  <2> QED BY <1>8
<1> QED BY <1>1, <1>8, <1>10, <1>11

\* The places of a sequence are ordered.
LEMMA PlacesOrdered ==
  ASSUME NEW n \in Nat, NEW I, I \subseteq 1 .. n
  PROVE  IsFiniteSet(I) /\ Orders(UpTo(I), I)
<1>1. IsFiniteSet(1 .. n)
  BY FS_Interval
<1>2. \A x \in I : x \in Nat
  OBVIOUS
<1>3. \A x, y \in I : <<x, y>> \in UpTo(I) <=> x <= y
  BY DEF UpTo
<1>4. Orders(UpTo(I), I)
  BY <1>2, <1>3 DEF Orders
<1> QED BY <1>1, <1>4, FS_Subset

\* A part of a sequence has the elements at those places, each once.
LEMMA PartIs ==
  ASSUME NEW S, NEW s \in Seq(S), NEW I, I \subseteq DOMAIN s
  PROVE  /\ Part(s, I) \in Seq(S)
         /\ DOMAIN Part(s, I) = 1 .. Cardinality(I)
         /\ Len(Part(s, I)) = Cardinality(I)
         /\ \A k \in DOMAIN Part(s, I) :
              Nth(I, UpTo(I), k) \in I /\ Part(s, I)[k] = s[Nth(I, UpTo(I), k)]
         /\ \A k, l \in DOMAIN Part(s, I) :
              Nth(I, UpTo(I), k) = Nth(I, UpTo(I), l) => k = l
         /\ \A i \in I : \E k \in DOMAIN Part(s, I) : Nth(I, UpTo(I), k) = i
<1>1. Len(s) \in Nat /\ DOMAIN s = 1 .. Len(s)
  BY LenProperties
<1>2. IsFiniteSet(I) /\ Orders(UpTo(I), I)
  BY <1>1, PlacesOrdered
<1> DEFINE n == Cardinality(I)
           place(k) == Nth(I, UpTo(I), k)
<1>3. /\ n \in Nat
      /\ \A k \in 1 .. n : place(k) \in I
      /\ \A k, l \in 1 .. n : place(k) = place(l) => k = l
      /\ \A i \in I : \E k \in 1 .. n : place(k) = i
  BY <1>2, NthNumbers
<1>4. Part(s, I) = [k \in 1 .. n |-> s[place(k)]]
  BY DEF Part
<1> HIDE DEF n, place
<1>5. \A k \in 1 .. n : s[place(k)] \in S
  BY <1>1, <1>3, ElementOfSeq
<1>6. Part(s, I) \in Seq(S)
  BY <1>3, <1>4, <1>5
<1>7. DOMAIN Part(s, I) = 1 .. n /\ Len(Part(s, I)) = n
  BY <1>3, <1>4, <1>6, LenProperties
<1>8. \A k \in 1 .. n : Part(s, I)[k] = s[place(k)]
  BY <1>4
<1> QED BY <1>3, <1>6, <1>7, <1>8 DEF n, place

\* The sheet has a row for every car, and each car's row once.
LEMMA RowsAre ==
  ASSUME NEW S, \A c \in S : c.cid \in Nat, NEW cs \in Seq(S)
  PROVE  /\ Rows(cs) \in Seq(S)
         /\ DOMAIN Rows(cs) = DOMAIN cs
         /\ \A k \in DOMAIN cs : Rows(cs)[k] = cs[Nth(DOMAIN cs, RowOrder(cs), k)]
         /\ \A k \in DOMAIN cs : Nth(DOMAIN cs, RowOrder(cs), k) \in DOMAIN cs
         /\ \A k, l \in DOMAIN cs :
              Nth(DOMAIN cs, RowOrder(cs), k) = Nth(DOMAIN cs, RowOrder(cs), l) => k = l
<1> DEFINE D == DOMAIN cs
<1>1. Len(cs) \in Nat /\ D = 1 .. Len(cs)
  BY LenProperties
<1>2. \A i \in D : cs[i] \in S /\ cs[i].cid \in Nat /\ i \in Nat
  BY <1>1, ElementOfSeq
<1>3. IsFiniteSet(D) /\ Cardinality(D) = Len(cs)
  <2>1. Len(cs) - 1 + 1 = Len(cs)
    BY <1>1
  <2> QED BY <1>1, <2>1, FS_Interval
<1>4. Orders(RowOrder(cs), D)
  <2> DEFINE cid(i) == cs[i].cid
  <2>1. \A i \in D : cid(i) \in Nat /\ i \in Nat
    BY <1>2
  <2>2. \A x, y \in D : <<x, y>> \in RowOrder(cs) <=>
                          cid(x) < cid(y) \/ (cid(x) = cid(y) /\ x <= y)
    BY DEF RowOrder
  <2> HIDE DEF D, cid
  <2> QED BY <2>1, <2>2 DEF Orders
<1> DEFINE place(k) == Nth(D, RowOrder(cs), k)
<1>5. /\ \A k \in D : place(k) \in D
      /\ \A k, l \in D : place(k) = place(l) => k = l
  BY <1>1, <1>3, <1>4, NthNumbers
<1>6. Rows(cs) = [k \in D |-> cs[place(k)]]
  BY DEF Rows
<1> HIDE DEF place
<1>7. \A k \in D : cs[place(k)] \in S
  BY <1>2, <1>5
<1>8. Rows(cs) \in Seq(S)
  BY <1>1, <1>6, <1>7
<1> QED BY <1>5, <1>6, <1>8 DEF place

-----------------------------------------------------------------------------
\* The states.
Code == Codes \cup {"none"}
Car  == [cid: Nat, code: Code]

ChangeOps == {"INSERT", "DELETE", "UPDATE"}

OnWs ==
       [op: {"SELECT"}] \cup [op: {"INSERT"}, car: Car]
  \cup [op: {"DELETE"}, cid: Nat] \cup [op: {"UPDATE"}, cid: Nat, car: Car]
  \cup [op: {"CORRECT"}, code: Code, to: Int]

OnWs1 == [op: {"QUANTITY"}, code: Code]

Reply(D) == [type: {"OK", "SELECT"}, data: Seq(D)]

Timers == [click: Nat, k: Nat, del: BOOLEAN, at: Nat, row: Car, delta: {-1, 1}]

Page ==
  [table: Seq(Car), sel: Seq(Nat \ {0}), shows: BOOLEAN,
   ask: [code: Code, delta: {-1, 0, 1}], timers: SUBSET Timers,
   done: {"none", "add", "del", "edit"}]

TypeOK ==
  /\ cars \in Seq(Car)
  /\ quantity \in [Types -> Int]
  /\ up = [l \in Lines |-> up[l]]
  /\ up["ws"] \in Seq(OnWs) /\ up["ws1"] \in Seq(OnWs1)
  /\ down = [l \in Lines |-> down[l]]
  /\ down["ws"] \in Seq(Reply(Car)) /\ down["ws1"] \in Seq(Reply(Int))
  /\ last \in Pages
  /\ page \in [Pages -> Page]
  /\ clicks \in Nat

\* no row is selected twice
SelectedOnce ==
  \A p \in Pages : \A a, b \in DOMAIN page[p].sel : page[p].sel[a] = page[p].sel[b] => a = b

TInv == TypeOK /\ SelectedOnce

\* what is on its way to delete a car, or to give it another cid, was confirmed
MeantInv ==
  /\ \A i \in DOMAIN up["ws"] :
       /\ up["ws"][i].op = "DELETE" => up["ws"][i].cid \in meant
       /\ up["ws"][i].op = "UPDATE" =>
            up["ws"][i].car.cid = up["ws"][i].cid \/ up["ws"][i].cid \in meant
  /\ \A p \in Pages : \A t \in page[p].timers : t.del => t.row.cid \in meant

-----------------------------------------------------------------------------
\* The rows on display are those of the server, or will be.
NoChange(ws) == \A i \in DOMAIN ws : ws[i].op \notin ChangeOps

WillBeRead(ws) ==
  \E i \in DOMAIN ws :
    ws[i].op = "SELECT" /\ \A j \in DOMAIN ws : j > i => ws[j].op \notin ChangeOps

WillBeShown(cs, dn, table) ==
  \/ \E i \in DOMAIN dn :
       /\ dn[i].type = "SELECT" /\ dn[i].data = Rows(cs)
       /\ \A j \in DOMAIN dn : j > i => dn[j].type # "SELECT"
  \/ (\A i \in DOMAIN dn : dn[i].type # "SELECT") /\ table = Rows(cs)

Current(cs, ws, dn, pg) ==
  /\ \A t \in pg.timers : ~ t.del
  /\ pg.shows => \/ WillBeRead(ws)
                 \/ NoChange(ws) /\ WillBeShown(cs, dn, pg.table)

Followed(all) == all \cap {"hasty", "garbled", "joined", "foreign"} = {}

FreshInv ==
  Followed(faults) /\ page[last].done \in {"add", "edit"} =>
    Current(cars, up["ws"], down["ws"], page[last])

-----------------------------------------------------------------------------
\* The books of the quantities.
If(b, n) == IF b THEN n ELSE 0

Keyed(cs) == \A i, j \in DOMAIN cs : cs[i].cid = cs[j].cid => i = j

OneChange(ws) ==
  \A i, j \in DOMAIN ws : ws[i].op \in ChangeOps /\ ws[j].op \in ChangeOps => i = j

NoCorrection(ws) == \A i \in DOMAIN ws : ws[i].op # "CORRECT"

OneCorrection(ws, ws1, dn1) ==
  /\ \A i, j \in DOMAIN ws : ws[i].op = "CORRECT" /\ ws[j].op = "CORRECT" => i = j
  /\ ws1 # <<>> => dn1 = <<>> /\ Len(ws1) = 1 /\ NoCorrection(ws)
  /\ dn1 # <<>> => ws1 = <<>> /\ Len(dn1) = 1 /\ NoCorrection(ws)

\* a question and its answer are about what the handler of ws1 waits for
Asked(q, ws1, dn1, ask) ==
  /\ ws1 # <<>> => ws1[1].code = ask.code /\ ask.delta # 0
  /\ dn1 # <<>> => /\ dn1[1].data = IF ask.code \in Types THEN <<q[ask.code]>> ELSE <<>>
                   /\ ask.delta # 0

\* d is what the change under way does to the number of cars of type t
Effect(cs, ws, t, d) ==
  /\ NoChange(ws) => d = 0
  /\ \A i \in DOMAIN ws :
       /\ ws[i].op = "INSERT" => ws[i].car.cid \notin Cids(cs) /\ d = If(ws[i].car.code = t, 1)
       /\ ws[i].op = "DELETE" =>
            \E a \in DOMAIN cs : cs[a].cid = ws[i].cid /\ d = - If(cs[a].code = t, 1)
       /\ ws[i].op = "UPDATE" =>
            \E a \in DOMAIN cs : /\ cs[a].cid = ws[i].cid
                                 /\ d = If(ws[i].car.code = t, 1) - If(cs[a].code = t, 1)

\* c is what the correction under way does to the quantity of type t
Owed(q, ws, ws1, dn1, ask, t, c) ==
  /\ ws1 # <<>> \/ dn1 # <<>> => c = If(ask.code = t, ask.delta)
  /\ ws1 = <<>> /\ dn1 = <<>> /\ NoCorrection(ws) => c = 0
  /\ \A i \in DOMAIN ws : ws[i].op = "CORRECT" => c = If(ws[i].code = t, ws[i].to - q[t])

\* e is what the timers of an edit are going to do to it; those of a deletion
\* do the same to the cars
Timed(timers, t, e) ==
  e = If(\E u \in timers : ~ u.del /\ u.k = 2 /\ u.row.code = t, 1)
      - If(\E u \in timers : ~ u.del /\ u.k = 1 /\ u.row.code = t, 1)

\* The timers are those of one click.
OneClick(cs, ws, timers) ==
  /\ \A u, v \in timers : u.del = v.del
  /\ \A u, v \in timers : u.del /\ u.row.cid = v.row.cid => u = v
  /\ \A u, v \in timers : ~ u.del /\ u.k = v.k => u = v
  /\ \A u \in timers : ~ u.del => u.k \in {1, 2} /\ u.delta = IF u.k = 1 THEN -1 ELSE 1
  /\ \A u \in timers : u.del =>
       /\ u.delta = -1
       /\ \E a \in DOMAIN cs : cs[a] = u.row
       /\ \A i \in DOMAIN ws : /\ ws[i].op \notin {"INSERT", "UPDATE"}
                               /\ ws[i].op = "DELETE" => ws[i].cid # u.row.cid

Balanced(cs, q, ws, ws1, dn1, ask, timers, t) ==
  \E d, c, e \in Int :
    /\ Effect(cs, ws, t, d) /\ Owed(q, ws, ws1, dn1, ask, t, c) /\ Timed(timers, t, e)
    /\ Having(cs, t) + d = q[t] + c + e

\* an edit leaves a car its cid or gives it one no car has
InPlace(cs, ws) ==
  \A i \in DOMAIN ws :
    ws[i].op = "UPDATE" => ws[i].car.cid = ws[i].cid \/ ws[i].car.cid \notin Cids(cs)

Books(cs, q, ws, ws1, dn1, ask, timers) ==
  /\ OneChange(ws) /\ OneCorrection(ws, ws1, dn1) /\ Asked(q, ws1, dn1, ask)
  /\ OneClick(cs, ws, timers)
  /\ Keyed(cs)
  /\ InPlace(cs, ws)
  /\ \A t \in Types : Balanced(cs, q, ws, ws1, dn1, ask, timers, t)

BooksInv ==
  faults \subseteq {"joined"} =>
    /\ Books(cars, quantity, up["ws"], up["ws1"], down["ws1"],
             page[last].ask, page[last].timers)
    /\ \A p \in Pages : p # last => page[p].timers = {}

-----------------------------------------------------------------------------
\* Nothing in a sequence, one more at its end, its first taken away.
LEMMA TailIs ==
  ASSUME NEW S, NEW s \in Seq(S), s # <<>>
  PROVE  /\ SubSeq(s, 2, Len(s)) = Tail(s) /\ Tail(s) \in Seq(S)
         /\ Len(s) \in Nat \ {0} /\ s[1] \in S
         /\ DOMAIN s = 1 .. Len(s)
         /\ DOMAIN Tail(s) = 1 .. Len(s) - 1
         /\ \A i \in DOMAIN Tail(s) : i + 1 \in DOMAIN s /\ Tail(s)[i] = s[i + 1]
<1>1. /\ Len(s) \in Nat \ {0} /\ DOMAIN s = 1 .. Len(s)
  BY EmptySeq, LenProperties
<1>2. /\ Tail(s) \in Seq(S) /\ Len(Tail(s)) = Len(s) - 1
      /\ \A i \in 1 .. Len(Tail(s)) : Tail(s)[i] = s[i + 1]
  BY HeadTailProperties
<1>3. DOMAIN Tail(s) = 1 .. Len(s) - 1
  BY <1>2, LenProperties
<1>4. SubSeq(s, 2, Len(s)) = Tail(s)
  BY TailIsSubSeq
<1>5. s[1] \in S
  BY <1>1, ElementOfSeq
<1> QED BY <1>1, <1>2, <1>3, <1>4, <1>5

\* One more at the end.
LEMMA AppendIs ==
  ASSUME NEW S, NEW s \in Seq(S), NEW e \in S
  PROVE  /\ Append(s, e) \in Seq(S)
         /\ Len(s) \in Nat
         /\ DOMAIN s = 1 .. Len(s)
         /\ Len(Append(s, e)) = Len(s) + 1
         /\ DOMAIN Append(s, e) = 1 .. Len(s) + 1
         /\ \A i \in DOMAIN s : Append(s, e)[i] = s[i]
         /\ Append(s, e)[Len(s) + 1] = e
<1>1. /\ Append(s, e) \in Seq(S)
      /\ Len(Append(s, e)) = Len(s) + 1
      /\ \A i \in 1.. Len(s) : Append(s, e)[i] = s[i]
      /\ Append(s, e)[Len(s)+1] = e
  BY AppendProperties
<1> QED BY <1>1, LenProperties

\* A sequence is empty when it has no places.
LEMMA EmptyIs ==
  ASSUME NEW S, NEW s \in Seq(S)
  PROVE  /\ Len(s) \in Nat /\ DOMAIN s = 1 .. Len(s)
         /\ (s = <<>>) <=> (DOMAIN s = {})
         /\ (s = <<>>) <=> (Len(s) = 0)
<1>1. Len(s) \in Nat /\ DOMAIN s = 1 .. Len(s) /\ (s # <<>> => Len(s) # 0) /\ Len(<<>>) = 0
  BY LenProperties, EmptySeq
<1>2. DOMAIN s = {} <=> Len(s) = 0
  <2>1. Len(s) # 0 => 1 \in DOMAIN s
    BY <1>1
  <2>2. Len(s) = 0 => DOMAIN s = {}
    BY <1>1
  <2> QED BY <2>1, <2>2
<1> QED BY <1>1, <1>2

-----------------------------------------------------------------------------
\* What a DELETE leaves, what an UPDATE and an INSERT write.
Without(cs, cid) == Part(cs, {i \in DOMAIN cs : cs[i].cid # cid})
Written(cs, cid, car) == [i \in DOMAIN cs |-> IF cs[i].cid = cid THEN car ELSE cs[i]]

\* A DELETE leaves the other rows.
LEMMA WithoutIs ==
  ASSUME NEW cs \in Seq(Car), NEW cid
  PROVE  /\ Without(cs, cid) \in Seq(Car)
         /\ \A k \in DOMAIN Without(cs, cid) :
              \E i \in DOMAIN cs : cs[i].cid # cid /\ Without(cs, cid)[k] = cs[i]
         /\ \A i \in DOMAIN cs :
              cs[i].cid # cid => \E k \in DOMAIN Without(cs, cid) : Without(cs, cid)[k] = cs[i]
         /\ Keyed(cs) => Keyed(Without(cs, cid))
<1> DEFINE I == {i \in DOMAIN cs : cs[i].cid # cid}
           ds == Part(cs, I)
           at(k) == Nth(I, UpTo(I), k)
<1>1. /\ ds \in Seq(Car)
      /\ \A k \in DOMAIN ds : at(k) \in I /\ ds[k] = cs[at(k)]
      /\ \A k, l \in DOMAIN ds : at(k) = at(l) => k = l
      /\ \A i \in I : \E k \in DOMAIN ds : at(k) = i
  <2>1. I \subseteq DOMAIN cs
    OBVIOUS
  <2> HIDE DEF I
  <2> QED BY <2>1, PartIs
<1>2. Without(cs, cid) = ds
  BY DEF Without
<1> HIDE DEF ds, at
<1>3. \A k \in DOMAIN ds : \E i \in DOMAIN cs : cs[i].cid # cid /\ ds[k] = cs[i]
  BY <1>1
<1>4. \A i \in DOMAIN cs : cs[i].cid # cid => \E k \in DOMAIN ds : ds[k] = cs[i]
  BY <1>1
<1>5. Keyed(cs) => Keyed(ds)
  BY <1>1 DEF Keyed
<1> QED BY <1>1, <1>2, <1>3, <1>4, <1>5

\* An UPDATE leaves every row at its place.
LEMMA WrittenIs ==
  ASSUME NEW cs \in Seq(Car), NEW cid, NEW car \in Car
  PROVE  /\ Written(cs, cid, car) \in Seq(Car)
         /\ DOMAIN Written(cs, cid, car) = DOMAIN cs
         /\ \A i \in DOMAIN cs :
              Written(cs, cid, car)[i] = IF cs[i].cid = cid THEN car ELSE cs[i]
<1>1. Len(cs) \in Nat /\ DOMAIN cs = 1 .. Len(cs) /\ \A i \in DOMAIN cs : cs[i] \in Car
  BY LenProperties, ElementOfSeq
<1>2. Written(cs, cid, car) \in Seq(Car)
  BY <1>1 DEF Written
<1> QED BY <1>2 DEF Written

\* The places of a key that no two rows have.
LEMMA OnePlace ==
  ASSUME NEW cs \in Seq(Car), NEW cid, Keyed(cs)
  PROVE  Places(cs, cid) = {} \/ \E i \in DOMAIN cs : Places(cs, cid) = {i}
BY DEF Keyed, Places

\* A DELETE leaves the rows with other keys, and takes the row with a key that
\* no other row has.
LEMMA DeletedIs ==
  ASSUME NEW cs \in Seq(Car), NEW cid, NEW ds \in Deleted(cs, cid)
  PROVE  /\ ds \in Seq(Car)
         /\ \A i \in DOMAIN cs : cs[i].cid # cid => \E k \in DOMAIN ds : ds[k] = cs[i]
         /\ Keyed(cs) => ds = Without(cs, cid)
<1> DEFINE M == Places(cs, cid)
<1>1. PICK R \in SUBSET M :
        2 * Cardinality(R) <= Cardinality(M) /\ ds = Part(cs, (DOMAIN cs \ M) \cup R)
  BY DEF Deleted
<1> DEFINE I == (DOMAIN cs \ M) \cup R
<1>2. M \subseteq DOMAIN cs /\ I \subseteq DOMAIN cs
  BY DEF Places
<1>3. ds = Part(cs, I)
  BY <1>1
<1>4. \A i \in DOMAIN cs : cs[i].cid # cid => i \in I
  BY DEF Places
<1>5. ASSUME Keyed(cs) PROVE I = {i \in DOMAIN cs : cs[i].cid # cid}
  <2>1. R = {}
    <3>1. CASE M = {}
      BY <3>1
    <3>2. CASE \E i \in DOMAIN cs : M = {i}
      <4>1. PICK i \in DOMAIN cs : M = {i}
        BY <3>2
      <4> HIDE DEF M
      <4>2. Cardinality(M) = 1
        BY <4>1, FS_Singleton
      <4>3. R = {} \/ R = M
        BY <4>1
      <4> QED BY <1>1, <4>2, <4>3
    <3> QED BY <1>5, <3>1, <3>2, OnePlace
  <2> QED BY <2>1 DEF Places
<1> HIDE DEF I, M
<1>6. /\ Part(cs, I) \in Seq(Car)
      /\ \A k \in DOMAIN Part(cs, I) :
           Nth(I, UpTo(I), k) \in I /\ Part(cs, I)[k] = cs[Nth(I, UpTo(I), k)]
      /\ \A i \in I : \E k \in DOMAIN Part(cs, I) : Nth(I, UpTo(I), k) = i
  BY <1>2, PartIs
<1>7. \A i \in DOMAIN cs : cs[i].cid # cid => \E k \in DOMAIN ds : ds[k] = cs[i]
  BY <1>3, <1>4, <1>6
<1> QED BY <1>3, <1>5, <1>6, <1>7 DEF Without

\* An UPDATE leaves every row at its place, and writes the row with a key that
\* no other row has.
LEMMA UpdatedIs ==
  ASSUME NEW cs \in Seq(Car), NEW cid, NEW car \in Car, NEW ds \in Updated(cs, cid, car)
  PROVE  /\ ds \in Seq(Car)
         /\ DOMAIN ds = DOMAIN cs
         /\ \A i \in DOMAIN cs : ds[i] = cs[i] \/ (cs[i].cid = cid /\ ds[i] = car)
         /\ Keyed(cs) => ds = Written(cs, cid, car)
<1>1. Len(cs) \in Nat /\ DOMAIN cs = 1 .. Len(cs) /\ \A i \in DOMAIN cs : cs[i] \in Car
  BY LenProperties, ElementOfSeq
<1>2. cs = [i \in DOMAIN cs |-> cs[i]]
  OBVIOUS
<1>3. CASE Places(cs, cid) = {}
  <2>1. ds = cs
    BY <1>3 DEF Updated
  <2>2. \A i \in DOMAIN cs : cs[i].cid # cid
    BY <1>3 DEF Places
  <2>3. Written(cs, cid, car) = cs
    BY <1>2, <2>2 DEF Written
  <2> QED BY <2>1, <2>3
<1>4. CASE Places(cs, cid) # {}
  <2>1. PICK i \in Places(cs, cid) : ds = [cs EXCEPT ![i] = car]
    BY <1>4 DEF Updated
  <2>2. i \in DOMAIN cs /\ cs[i].cid = cid
    BY DEF Places
  <2>3. DOMAIN ds = DOMAIN cs /\ \A j \in DOMAIN cs : ds[j] = IF j = i THEN car ELSE cs[j]
    BY <2>1, <2>2
  <2>4. ds = [j \in DOMAIN cs |-> IF j = i THEN car ELSE cs[j]]
    BY <1>2, <2>1
  <2>5. ds \in Seq(Car)
    BY <1>1, <2>4
  <2>6. ASSUME Keyed(cs) PROVE ds = Written(cs, cid, car)
    <3>1. \A j \in DOMAIN cs : cs[j].cid = cid <=> j = i
      BY <2>2, <2>6 DEF Keyed
    <3> QED BY <2>4, <3>1 DEF Written
  <2> QED BY <2>2, <2>3, <2>5, <2>6
<1> QED BY <1>3, <1>4

\* How many cars have a code after that.
LEMMA HavingType ==
  ASSUME NEW S, NEW cs \in Seq(S), NEW t
  PROVE  Having(cs, t) \in Nat /\ IsFiniteSet({i \in DOMAIN cs : cs[i].code = t})
<1>1. Len(cs) \in Nat /\ DOMAIN cs = 1 .. Len(cs)
  BY LenProperties
<1>2. IsFiniteSet(1 .. Len(cs))
  BY <1>1, FS_Interval
<1>3. IsFiniteSet({i \in DOMAIN cs : cs[i].code = t})
  BY <1>1, <1>2, FS_Subset
<1> QED BY <1>3, FS_CardinalityType DEF Having

\* A car that is added counts for its type.
LEMMA HavingAppend ==
  ASSUME NEW cs \in Seq(Car), NEW car \in Car, NEW t
  PROVE  Having(Append(cs, car), t) = Having(cs, t) + If(car.code = t, 1)
<1> DEFINE n == Len(cs)
           A == {i \in DOMAIN cs : cs[i].code = t}
           B == {i \in DOMAIN Append(cs, car) : Append(cs, car)[i].code = t}
<1>1. /\ n \in Nat /\ DOMAIN cs = 1 .. n /\ DOMAIN Append(cs, car) = 1 .. n + 1
      /\ \A i \in 1 .. n : Append(cs, car)[i] = cs[i]
      /\ Append(cs, car)[n + 1] = car
  BY AppendIs
<1>2. IsFiniteSet(A) /\ Having(cs, t) \in Nat
  BY HavingType
<1>3. n + 1 \notin A /\ B = IF car.code = t THEN A \cup {n + 1} ELSE A
  BY <1>1
<1>4. Having(cs, t) = Cardinality(A) /\ Having(Append(cs, car), t) = Cardinality(B)
  BY DEF Having
<1> HIDE DEF A, B
<1>5. CASE car.code = t
  <2>1. Cardinality(A \cup {n + 1}) = Cardinality(A) + 1
    BY <1>2, <1>3, FS_AddElement
  <2> QED BY <1>3, <1>4, <1>5, <2>1 DEF If
<1>6. CASE car.code # t
  BY <1>2, <1>3, <1>4, <1>6 DEF If
<1> QED BY <1>5, <1>6

\* A car written over another counts instead of it.
LEMMA HavingWritten ==
  ASSUME NEW cs \in Seq(Car), Keyed(cs), NEW a \in DOMAIN cs, NEW car \in Car, NEW t
  PROVE  Having(Written(cs, cs[a].cid, car), t)
           = Having(cs, t) + If(car.code = t, 1) - If(cs[a].code = t, 1)
<1> DEFINE ds == Written(cs, cs[a].cid, car)
           A == {i \in DOMAIN cs : cs[i].code = t}
           B == {i \in DOMAIN ds : ds[i].code = t}
           C == A \ {a}
<1>1. \A i \in DOMAIN cs : cs[i].cid = cs[a].cid <=> i = a
  BY DEF Keyed
<1>2. /\ DOMAIN ds = DOMAIN cs
      /\ \A i \in DOMAIN cs : ds[i] = IF i = a THEN car ELSE cs[i]
  BY <1>1, WrittenIs
<1>3. IsFiniteSet(A) /\ Having(cs, t) = Cardinality(A) /\ Having(ds, t) = Cardinality(B)
      /\ Cardinality(A) \in Nat
  BY HavingType DEF Having
<1>4. /\ a \in A <=> cs[a].code = t
      /\ B = IF car.code = t THEN C \cup {a} ELSE C
  <2> HIDE DEF ds
  <2> QED BY <1>2
<1> HIDE DEF ds
<1>5. IsFiniteSet(C) /\ Cardinality(C) \in Nat
      /\ Cardinality(C) = IF a \in A THEN Cardinality(A) - 1 ELSE Cardinality(A)
  <2> HIDE DEF A
  <2> QED BY <1>3, FS_RemoveElement, FS_CardinalityType
<1>6. a \notin C
  OBVIOUS
<1> HIDE DEF A, B, C
<1>7. Cardinality(B) = IF car.code = t THEN Cardinality(C) + 1 ELSE Cardinality(C)
  BY <1>4, <1>5, <1>6, FS_AddElement
<1> QED BY <1>3, <1>4, <1>5, <1>7 DEF If, ds

\* A car taken away counts no more.
LEMMA HavingWithout ==
  ASSUME NEW cs \in Seq(Car), Keyed(cs), NEW a \in DOMAIN cs, NEW t
  PROVE  Having(Without(cs, cs[a].cid), t) = Having(cs, t) - If(cs[a].code = t, 1)
<1> DEFINE I == {i \in DOMAIN cs : cs[i].cid # cs[a].cid}
           ds == Part(cs, I)
           at(k) == Nth(I, UpTo(I), k)
           A == {i \in DOMAIN cs : cs[i].code = t}
           B == {i \in DOMAIN ds : ds[i].code = t}
           C == A \ {a}
           f == [k \in B |-> at(k)]
<1>1. \A i \in DOMAIN cs : i \in I <=> i # a
  BY DEF Keyed
<1>2. /\ ds \in Seq(Car)
      /\ \A k \in DOMAIN ds : at(k) \in I /\ ds[k] = cs[at(k)]
      /\ \A k, l \in DOMAIN ds : at(k) = at(l) => k = l
      /\ \A i \in I : \E k \in DOMAIN ds : at(k) = i
  <2>1. I \subseteq DOMAIN cs
    OBVIOUS
  <2> HIDE DEF I
  <2> QED BY <2>1, PartIs
<1>3. /\ IsFiniteSet(A) /\ Having(cs, t) = Cardinality(A) /\ Cardinality(A) \in Nat
      /\ Having(ds, t) = Cardinality(B) /\ IsFiniteSet(B)
  <2> HIDE DEF ds, I
  <2>1. Having(cs, t) \in Nat /\ IsFiniteSet(A)
    BY HavingType
  <2>2. IsFiniteSet(B)
    <3>1. ds \in Seq(Car)
      BY <1>2
    <3> QED BY <3>1, HavingType
  <2> QED BY <2>1, <2>2 DEF Having
<1>4. I \subseteq DOMAIN cs
  OBVIOUS
<1> HIDE DEF I, ds, at
<1>5. f \in Bijection(B, C)
  <2>1. \A k \in B : at(k) \in C
    BY <1>1, <1>2, <1>4
  <2>2. \A i \in C : \E k \in B : at(k) = i
    BY <1>1, <1>2, <1>4
  <2>3. \A k, l \in B : at(k) = at(l) => k = l
    BY <1>2
  <2> HIDE DEF B, C
  <2> QED BY <2>1, <2>2, <2>3 DEF Bijection, Injection, Surjection, IsInjective
<1>6. /\ a \in A <=> cs[a].code = t
  OBVIOUS
<1>7. IsFiniteSet(C)
      /\ Cardinality(C) = IF a \in A THEN Cardinality(A) - 1 ELSE Cardinality(A)
  <2> HIDE DEF A
  <2> QED BY <1>3, FS_RemoveElement
<1> HIDE DEF A, B, C, f
<1>8. Cardinality(B) = Cardinality(C)
  BY <1>3, <1>5, <1>7, FS_Bijection DEF ExistsBijection
<1>9. Having(Without(cs, cs[a].cid), t) = Cardinality(B)
  BY <1>3 DEF Without, ds, I
<1> QED BY <1>3, <1>6, <1>7, <1>8, <1>9 DEF If

-----------------------------------------------------------------------------
\* What the statements do.
\* A finite set of numbers has a greatest.
LEMMA MaxIs ==
  ASSUME NEW S, IsFiniteSet(S), S # {}, S \subseteq Nat
  PROVE  Max(S) \in S /\ \A x \in S : x <= Max(S)
<1> DEFINE R == {r \in S \X S : r[1] >= r[2]}
           m == Nth(S, R, 1)
           above == {y \in S : <<y, m>> \in R}
<1>1. \A x, y \in S : <<x, y>> \in R <=> x >= y
  OBVIOUS
<1>2. Orders(R, S)
  <2> HIDE DEF R
  <2> QED BY <1>1 DEF Orders
<1>3. Cardinality(S) \in Nat /\ Cardinality(S) # 0
  BY FS_CardinalityType, FS_EmptySet
<1>4. m \in S /\ Cardinality(above) = 1
  <2>1. 1 \in 1 .. Cardinality(S)
    BY <1>3
  <2> HIDE DEF R
  <2> QED BY <1>2, <2>1, NthNumbers
<1>5. IsFiniteSet(above)
  BY FS_Subset
<1> HIDE DEF R, m
<1>6. m \in above
  BY <1>1, <1>4
<1>7. \A y \in S : y # m => ~ (y >= m)
  <2> HIDE DEF above
  <2>1. PICK x : above = {x}
    BY <1>4, <1>5, FS_Singleton
  <2>2. above = {m}
    BY <1>6, <2>1
  <2> QED BY <1>1, <1>4, <2>2 DEF above
<1>8. \A y \in S : m >= y
  BY <1>4, <1>7
<1>9. Max(S) \in S /\ \A y \in S : Max(S) >= y
  BY <1>4, <1>8 DEF Max
<1> QED BY <1>4, <1>9

\* The keys of the rows.
LEMMA CidsIs == ASSUME NEW S, NEW cs \in Seq(S)
                PROVE  \A cid : cid \in Cids(cs) <=> \E i \in DOMAIN cs : cs[i].cid = cid
BY DEF Cids, Range

\* What Execute does to the tables.
LEMMA ExecuteSELECT ==
  ASSUME NEW cs, NEW q, NEW r, NEW s, s.op = "SELECT",
         NEW db \in Execute(s, [cars |-> cs, quantity |-> q, reply |-> r])
  PROVE  db = [cars |-> cs, quantity |-> q, reply |-> [type |-> "SELECT", data |-> Rows(cs)]]
BY DEF Execute, Changed, Answer

Quantity(q, code) == IF code \in Types THEN <<q[code]>> ELSE <<>>
\* A question is answered and changes nothing.
LEMMA ExecuteQUANTITY ==
  ASSUME NEW cs, NEW q, NEW r, NEW s, s.op = "QUANTITY",
         NEW db \in Execute(s, [cars |-> cs, quantity |-> q, reply |-> r])
  PROVE  db = [cars |-> cs, quantity |-> q,
               reply |-> [type |-> "SELECT", data |-> Quantity(q, s.code)]]
BY DEF Execute, Changed, Answer, Quantity

\* A car is added when its type is there.
LEMMA ExecuteINSERT ==
  ASSUME NEW cs, NEW q, NEW r, NEW s, s.op = "INSERT",
         NEW db \in Execute(s, [cars |-> cs, quantity |-> q, reply |-> r])
  PROVE  db = [cars |-> Inserted(cs, s.car), quantity |-> q, reply |-> Success]
BY DEF Execute, Changed, Answer

\* Rows with the key are taken away.
LEMMA ExecuteDELETE ==
  ASSUME NEW cs, NEW q, NEW r, NEW s, s.op = "DELETE",
         NEW db \in Execute(s, [cars |-> cs, quantity |-> q, reply |-> r])
  PROVE  \E ds \in Deleted(cs, s.cid) : db = [cars |-> ds, quantity |-> q, reply |-> Success]
BY DEF Execute, Changed, Answer

\* A row with the key is written.
LEMMA ExecuteUPDATE ==
  ASSUME NEW cs, NEW q, NEW r, NEW s, s.op = "UPDATE",
         NEW db \in Execute(s, [cars |-> cs, quantity |-> q, reply |-> r])
  PROVE  \E ds \in Updated(cs, s.cid, s.car) :
           db = [cars |-> ds, quantity |-> q, reply |-> Success]
BY DEF Execute, Changed, Answer

\* The quantity is written when the type is there.
LEMMA ExecuteCORRECT ==
  ASSUME NEW cs, NEW q, NEW r, NEW s, s.op = "CORRECT",
         NEW db \in Execute(s, [cars |-> cs, quantity |-> q, reply |-> r])
  PROVE  db = [cars |-> cs, quantity |-> Corrected(q, s), reply |-> Success]
BY DEF Execute, Changed, Answer

\* The statements of "ws", by what they do.
LEMMA StatementIs ==
  ASSUME NEW s \in OnWs
  PROVE  /\ s.op \in {"SELECT", "INSERT", "DELETE", "UPDATE", "CORRECT"}
         /\ s.op = "INSERT" => s.car \in Car
         /\ s.op = "DELETE" => s.cid \in Nat
         /\ s.op = "UPDATE" => s.cid \in Nat /\ s.car \in Car
         /\ s.op = "CORRECT" => s.code \in Code /\ s.to \in Int
BY DEF OnWs

\* A statement of "ws" keeps the types of the tables.
LEMMA ExecuteTyped ==
  ASSUME NEW cs \in Seq(Car), NEW q \in [Types -> Int], NEW r, NEW s \in OnWs,
         NEW db \in Execute(s, [cars |-> cs, quantity |-> q, reply |-> r])
  PROVE  /\ db = [cars |-> db.cars, quantity |-> db.quantity, reply |-> db.reply]
         /\ db.cars \in Seq(Car) /\ db.quantity \in [Types -> Int] /\ db.reply \in Reply(Car)
<1>1. Success \in Reply(Car)
  BY EmptySeq DEF Success, Reply
<1>2. s.op \in {"SELECT", "INSERT", "DELETE", "UPDATE", "CORRECT"}
  BY StatementIs
<1>3. CASE s.op = "SELECT"
  <2>1. Rows(cs) \in Seq(Car)
    BY RowsAre DEF Car
  <2>2. db = [cars |-> cs, quantity |-> q, reply |-> [type |-> "SELECT", data |-> Rows(cs)]]
    BY <1>3, ExecuteSELECT
  <2> QED BY <2>1, <2>2 DEF Reply
<1>4. CASE s.op = "INSERT"
  <2> DEFINE ds == Inserted(cs, s.car)
  <2>1. ds \in Seq(Car)
    BY <1>4, StatementIs, AppendIs DEF Inserted
  <2>2. db = [cars |-> ds, quantity |-> q, reply |-> Success]
    BY <1>4, ExecuteINSERT
  <2> HIDE DEF ds
  <2> QED BY <1>1, <2>1, <2>2
<1>5. CASE s.op = "DELETE"
  <2>1. PICK ds \in Deleted(cs, s.cid) : db = [cars |-> ds, quantity |-> q, reply |-> Success]
    BY <1>5, ExecuteDELETE
  <2>2. ds \in Seq(Car)
    BY DeletedIs
  <2> QED BY <1>1, <2>1, <2>2
<1>6. CASE s.op = "UPDATE"
  <2>1. PICK ds \in Updated(cs, s.cid, s.car) :
          db = [cars |-> ds, quantity |-> q, reply |-> Success]
    BY <1>6, ExecuteUPDATE
  <2>2. ds \in Seq(Car)
    BY <1>6, StatementIs, UpdatedIs
  <2> QED BY <1>1, <2>1, <2>2
<1>7. CASE s.op = "CORRECT"
  <2> DEFINE p == Corrected(q, s)
  <2>1. p \in [Types -> Int]
    BY <1>7, StatementIs DEF Corrected
  <2>2. db = [cars |-> cs, quantity |-> p, reply |-> Success]
    BY <1>7, ExecuteCORRECT
  <2> HIDE DEF p
  <2> QED BY <1>1, <2>1, <2>2
<1> QED BY <1>2, <1>3, <1>4, <1>5, <1>6, <1>7

\* A question keeps the tables, and its answer is a number or none.
LEMMA QuestionTyped ==
  ASSUME NEW cs \in Seq(Car), NEW q \in [Types -> Int], NEW r, NEW s \in OnWs1,
         NEW db \in Execute(s, [cars |-> cs, quantity |-> q, reply |-> r])
  PROVE  /\ db = [cars |-> cs, quantity |-> q,
                  reply |-> [type |-> "SELECT", data |-> Quantity(q, s.code)]]
         /\ [type |-> "SELECT", data |-> Quantity(q, s.code)] \in Reply(Int)
         /\ s.code \in Code
<1>1. s.op = "QUANTITY" /\ s.code \in Code
  BY DEF OnWs1
<1>2. Quantity(q, s.code) \in Seq(Int)
  BY EmptySeq DEF Quantity
<1>3. db = [cars |-> cs, quantity |-> q,
            reply |-> [type |-> "SELECT", data |-> Quantity(q, s.code)]]
  BY <1>1, ExecuteQUANTITY
<1> QED BY <1>1, <1>2, <1>3 DEF Reply

\* A question, told by what it keeps.
LEMMA QuestionKeeps ==
  ASSUME NEW cs \in Seq(Car), NEW q \in [Types -> Int], NEW r, NEW s \in OnWs1,
         NEW db \in Execute(s, [cars |-> cs, quantity |-> q, reply |-> r])
  PROVE  /\ db = [cars |-> db.cars, quantity |-> db.quantity, reply |-> db.reply]
         /\ db.cars = cs /\ db.quantity = q
<1>1. db = [cars |-> cs, quantity |-> q,
            reply |-> [type |-> "SELECT", data |-> Quantity(q, s.code)]]
  BY QuestionTyped
<1> QED BY <1>1

\* A statement that fails has an answer as well.
LEMMA FailedTyped == ASSUME NEW s, NEW D PROVE Failed(s) \in Reply(D)
BY EmptySeq DEF Failed, Reply

\* One read of the server, told by what it leaves.
Took(l, db, reply, rest, what) ==
  /\ cars' = db.cars /\ quantity' = db.quantity
  /\ up' = [up EXCEPT ![l] = rest]
  /\ down' = [down EXCEPT ![l] = Append(@, reply)]
  /\ faults' = faults \cup what

Start == [cars |-> cars, quantity |-> quantity, reply |-> Success]

\* Two are taken from the front.
LEMMA TailTail ==
  ASSUME NEW S, NEW s \in Seq(S), Len(s) > 1
  PROVE  /\ SubSeq(s, 3, Len(s)) = Tail(Tail(s)) /\ s # <<>> /\ Tail(s) # <<>>
         /\ s[1] \in S /\ s[2] \in S /\ Tail(s) \in Seq(S) /\ Tail(Tail(s)) \in Seq(S)
         /\ Tail(s)[1] = s[2]
<1> DEFINE n == Len(s)
           t == Tail(s)
           u == Tail(Tail(s))
<1>1. s # <<>> /\ n \in Nat /\ n > 1
  BY EmptySeq, LenProperties
<1>2. /\ t \in Seq(S) /\ Len(t) = n - 1
      /\ \A i \in 1 .. n - 1 : t[i] = s[i + 1]
  BY <1>1, HeadTailProperties
<1>3. t # <<>>
  <2>1. Len(t) # 0
    <3> HIDE DEF t, n
    <3> QED BY <1>1, <1>2
  <2> HIDE DEF t
  <2> QED BY <2>1, EmptySeq
<1>4. /\ u \in Seq(S) /\ Len(u) = n - 2
      /\ \A i \in 1 .. n - 2 : u[i] = t[i + 1]
  <2> HIDE DEF t
  <2> QED BY <1>1, <1>2, <1>3, HeadTailProperties
<1>5. \A i \in 1 .. n : s[i] \in S
  BY ElementOfSeq
<1> DEFINE v == SubSeq(s, 3, n)
<1>6. v \in Seq(S) /\ Len(v) = n - 2 /\ \A i \in 1 .. n - 2 : v[i] = s[i + 2]
  <2>1. \A i \in 3 .. n : s[i] \in S
    BY <1>1, <1>5
  <2>2. /\ v \in Seq(S) /\ Len(v) = IF 3 <= n THEN n - 3 + 1 ELSE 0
        /\ \A i \in 1 .. n - 3 + 1 : v[i] = s[3 + i - 1]
    <3> HIDE DEF n
    <3> QED BY <1>1, <2>1, SubSeqProperties
  <2> HIDE DEF v, n
  <2> QED BY <1>1, <2>2
<1>7. u = v
  <2>1. \A i \in 1 .. n - 2 : u[i] = v[i]
    <3> HIDE DEF u, v, t, n
    <3>1. \A i \in 1 .. n - 2 : i + 1 \in 1 .. n - 1 /\ (i + 1) + 1 = i + 2
      BY <1>1
    <3> QED BY <1>2, <1>4, <1>6, <3>1
  <2> HIDE DEF u, v, n
  <2> QED BY <1>1, <1>4, <1>6, <2>1, SeqEqual
<1>8. s[1] \in S /\ s[2] \in S /\ t[1] = s[2]
  <2>1. 1 \in 1 .. n /\ 2 \in 1 .. n /\ 1 \in 1 .. n - 1
    BY <1>1
  <2> QED BY <1>2, <1>5, <2>1
<1> QED BY <1>1, <1>2, <1>3, <1>4, <1>7, <1>8

\* The three ways a read can go, told by what is left.
LEMMA ServeIs ==
  ASSUME TypeOK, NEW l \in Lines, Serve(l)
  PROVE  /\ up[l] # <<>>
         /\ \E one \in Execute(up[l][1], Start) :
              \/ Took(l, one, one.reply, Tail(up[l]), {})
              \/ /\ Calm /\ Len(up[l]) > 1
                 /\ \/ \E two \in Execute(up[l][2], one) :
                         Took(l, two, two.reply, Tail(Tail(up[l])), {"joined"})
                    \/ \E reply \in {one.reply, Failed(up[l][2])} :
                         Took(l, one, reply, Tail(Tail(up[l])), {"garbled"})
<1>1. up[l] \in Seq(OnWs \cup OnWs1)
  <2>1. OnWs \subseteq OnWs \cup OnWs1 /\ OnWs1 \subseteq OnWs \cup OnWs1
    OBVIOUS
  <2>2. up["ws"] \in Seq(OnWs) /\ up["ws1"] \in Seq(OnWs1)
    BY DEF TypeOK
  <2> HIDE DEF OnWs, OnWs1
  <2>3. up["ws"] \in Seq(OnWs \cup OnWs1) /\ up["ws1"] \in Seq(OnWs \cup OnWs1)
    BY <2>1, <2>2, SeqMonotonic
  <2> QED BY <2>3 DEF Lines
<1>2. up[l] # <<>>
  BY DEF Serve
<1>3. SubSeq(up[l], 1 + 1, Len(up[l])) = Tail(up[l])
  BY <1>1, <1>2, TailIs
<1>4. Len(up[l]) > 1 => SubSeq(up[l], 2 + 1, Len(up[l])) = Tail(Tail(up[l]))
  BY <1>1, TailTail
<1> DEFINE Reads(db, n, reply, what) ==
             /\ cars' = db.cars /\ quantity' = db.quantity
             /\ down' = [down EXCEPT ![l] = Append(@, reply)]
             /\ up' = [up EXCEPT ![l] = SubSeq(@, n + 1, Len(@))]
             /\ faults' = faults \cup what
<1>5. \E one \in Execute(up[l][1], Start) :
        \/ Reads(one, 1, one.reply, {})
        \/ /\ Joins(up[l])
           /\ \E two \in Execute(up[l][2], one) : Reads(two, 2, two.reply, {"joined"})
        \/ /\ Joins(up[l])
           /\ \E reply \in {one.reply, Failed(up[l][2])} : Reads(one, 2, reply, {"garbled"})
  BY DEF Serve, Start
<1>6. ASSUME NEW db, NEW reply
      PROVE  Reads(db, 1, reply, {}) => Took(l, db, reply, Tail(up[l]), {})
  BY <1>3 DEF Took
<1>7. Joins(up[l]) => Calm /\ Len(up[l]) > 1
  BY DEF Joins
<1>8. ASSUME NEW db, NEW reply, NEW what, Len(up[l]) > 1
      PROVE  Reads(db, 2, reply, what) => Took(l, db, reply, Tail(Tail(up[l])), what)
  BY <1>4, <1>8 DEF Took
<1> HIDE DEF Reads
<1> QED BY <1>2, <1>5, <1>6, <1>7, <1>8

\* The cars at the start: their keys are different.
LEMMA FirstCarsAre == FirstCars \in Seq(Car) /\ Keyed(FirstCars)
<1>1. FirstCars \in Seq(Car)
  <2>1. [cid: Numbers, code: Codes] \subseteq Car
    BY PagesAssumption DEF Car, Code
  <2> QED BY <2>1, CarsAssumption, SeqMonotonic
<1>2. Keyed(FirstCars)
  BY CarsAssumption DEF Keyed
<1> QED BY <1>1, <1>2

\* A window just opened.
LEMMA FreshIsAPage == Fresh \in Page
BY EmptySeq DEF Fresh, Page, Nothing, Code

\* The types at the start.
LEMMA InitTInv == Init => TInv
<1> SUFFICES ASSUME Init PROVE TInv
  OBVIOUS
<1> DEFINE first == [Fresh EXCEPT !.table = Rows(FirstCars), !.shows = TRUE]
<1>1. first \in Page /\ first.sel = <<>>
  <2>1. Rows(FirstCars) \in Seq(Car)
    BY FirstCarsAre, RowsAre DEF Car
  <2> QED BY <2>1, FreshIsAPage DEF Page, Fresh
<1>2. Fresh \in Page /\ Fresh.sel = <<>>
  BY FreshIsAPage DEF Fresh
<1>3. page = [p \in Pages |-> IF p = FirstPage THEN first ELSE Fresh]
  BY DEF Init
<1> HIDE DEF first
<1>4. page \in [Pages -> Page] /\ \A p \in Pages : page[p].sel = <<>>
  <2> HIDE DEF Init
  <2> QED BY <1>1, <1>2, <1>3
<1>5. SelectedOnce
  BY <1>4 DEF SelectedOnce
<1>6. quantity \in [Types -> Int]
  <2>1. cars \in Seq(Car)
    BY FirstCarsAre DEF Init
  <2>2. \A t : Having(cars, t) \in Nat
    BY <2>1, HavingType
  <2> QED BY <2>2 DEF Init, Count
<1>7. /\ cars \in Seq(Car) /\ clicks \in Nat /\ last \in Pages
  BY FirstCarsAre, PagesAssumption DEF Init
<1>8. /\ up = [l \in Lines |-> <<>>] /\ down = [l \in Lines |-> <<>>]
  BY DEF Init
<1>9. /\ up = [l \in Lines |-> up[l]] /\ down = [l \in Lines |-> down[l]]
      /\ up["ws"] = <<>> /\ up["ws1"] = <<>> /\ down["ws"] = <<>> /\ down["ws1"] = <<>>
  BY <1>8 DEF Lines
<1>10. TypeOK
  BY <1>4, <1>6, <1>7, <1>9, EmptySeq DEF TypeOK
<1> QED BY <1>5, <1>10 DEF TInv

\* One more at the end keeps the type.
LEMMA AppendSeq ==
  ASSUME NEW S, NEW s \in Seq(S), NEW e \in S
  PROVE  Append(s, e) \in Seq(S)
BY AppendIs

\* One line has changed.
LEMMA OneLine ==
  ASSUME NEW f, f = [l \in Lines |-> f[l]], NEW l \in Lines, NEW s, NEW g, g = [f EXCEPT ![l] = s]
  PROVE  g = [m \in Lines |-> g[m]] /\ g[l] = s /\ \A m \in Lines : m # l => g[m] = f[m]
BY DEF Lines

\* Serve keeps the types.
LEMMA ServeTInv == ASSUME TInv, NEW l \in Lines, Serve(l) PROVE TInv'
<1> USE DEF TInv
<1>1. UNCHANGED <<last, page, clicks>>
  BY DEF Serve
<1>2. ASSUME NEW db, NEW reply, NEW rest, NEW what, Took(l, db, reply, rest, what),
             db.cars \in Seq(Car), db.quantity \in [Types -> Int],
             l = "ws" => reply \in Reply(Car) /\ rest \in Seq(OnWs),
             l = "ws1" => reply \in Reply(Int) /\ rest \in Seq(OnWs1)
      PROVE  TInv'
  <2>1. /\ up' = [m \in Lines |-> up'[m]] /\ up'[l] = rest
        /\ \A m \in Lines : m # l => up'[m] = up[m]
    BY <1>2, OneLine DEF TypeOK, Took
  <2>2. /\ down' = [m \in Lines |-> down'[m]] /\ down'[l] = Append(down[l], reply)
        /\ \A m \in Lines : m # l => down'[m] = down[m]
    BY <1>2, OneLine DEF TypeOK, Took
  <2>3. up'["ws"] \in Seq(OnWs) /\ up'["ws1"] \in Seq(OnWs1)
    BY <1>2, <2>1 DEF TypeOK, Lines
  <2>4. down'["ws"] \in Seq(Reply(Car)) /\ down'["ws1"] \in Seq(Reply(Int))
    <3>1. down["ws"] \in Seq(Reply(Car)) /\ down["ws1"] \in Seq(Reply(Int))
      BY DEF TypeOK
    <3>2. l = "ws" => Append(down["ws"], reply) \in Seq(Reply(Car))
      BY <1>2, <3>1, AppendSeq
    <3>3. l = "ws1" => Append(down["ws1"], reply) \in Seq(Reply(Int))
      BY <1>2, <3>1, AppendSeq
    <3> HIDE DEF Reply
    <3> QED BY <2>2, <3>1, <3>2, <3>3 DEF Lines
  <2>5. cars' \in Seq(Car) /\ quantity' \in [Types -> Int]
    BY <1>2 DEF Took
  <2> QED BY <1>1, <2>1, <2>2, <2>3, <2>4, <2>5 DEF TypeOK, SelectedOnce
<1>3. PICK one \in Execute(up[l][1], Start) :
        \/ Took(l, one, one.reply, Tail(up[l]), {})
        \/ /\ Calm /\ Len(up[l]) > 1
           /\ \/ \E two \in Execute(up[l][2], one) :
                   Took(l, two, two.reply, Tail(Tail(up[l])), {"joined"})
              \/ \E reply \in {one.reply, Failed(up[l][2])} :
                   Took(l, one, reply, Tail(Tail(up[l])), {"garbled"})
  BY ServeIs
<1>4. /\ one \in Execute(up[l][1], [cars |-> cars, quantity |-> quantity, reply |-> Success])
      /\ cars \in Seq(Car) /\ quantity \in [Types -> Int]
  BY DEF Start, TypeOK
<1>5. CASE l = "ws"
  <2>1. up[l] \in Seq(OnWs) /\ up[l] # <<>>
    BY <1>5 DEF TypeOK, Serve
  <2>2. up[l][1] \in OnWs /\ Tail(up[l]) \in Seq(OnWs)
    BY <2>1, TailIs
  <2>3. one.cars \in Seq(Car) /\ one.quantity \in [Types -> Int] /\ one.reply \in Reply(Car)
        /\ one = [cars |-> one.cars, quantity |-> one.quantity, reply |-> one.reply]
    BY <1>4, <2>2, ExecuteTyped
  <2>4. Len(up[l]) > 1 => Tail(Tail(up[l])) \in Seq(OnWs) /\ up[l][2] \in OnWs
    BY <2>1, TailTail
  <2>5. CASE Took(l, one, one.reply, Tail(up[l]), {})
    BY <1>2, <1>5, <2>2, <2>3, <2>5
  <2>6. ASSUME Len(up[l]) > 1, NEW two \in Execute(up[l][2], one),
               Took(l, two, two.reply, Tail(Tail(up[l])), {"joined"})
        PROVE  TInv'
    <3>1. two.cars \in Seq(Car) /\ two.quantity \in [Types -> Int] /\ two.reply \in Reply(Car)
      BY <2>3, <2>4, <2>6, ExecuteTyped
    <3> QED BY <1>2, <1>5, <2>4, <2>6, <3>1
  <2>7. ASSUME Len(up[l]) > 1, NEW reply \in {one.reply, Failed(up[l][2])},
               Took(l, one, reply, Tail(Tail(up[l])), {"garbled"})
        PROVE  TInv'
    <3>1. reply \in Reply(Car)
      BY <2>3, FailedTyped
    <3> QED BY <1>2, <1>5, <2>3, <2>4, <2>7, <3>1
  <2> QED BY <1>3, <2>5, <2>6, <2>7
<1>6. CASE l = "ws1"
  <2>1. up[l] \in Seq(OnWs1) /\ up[l] # <<>>
    BY <1>6 DEF TypeOK, Serve
  <2>2. up[l][1] \in OnWs1 /\ Tail(up[l]) \in Seq(OnWs1)
    BY <2>1, TailIs
  <2>3. one.cars \in Seq(Car) /\ one.quantity \in [Types -> Int] /\ one.reply \in Reply(Int)
        /\ one = [cars |-> one.cars, quantity |-> one.quantity, reply |-> one.reply]
    <3> DEFINE r == [type |-> "SELECT", data |-> Quantity(quantity, up[l][1].code)]
    <3>1. one = [cars |-> cars, quantity |-> quantity, reply |-> r] /\ r \in Reply(Int)
      BY <1>4, <2>2, QuestionTyped
    <3> HIDE DEF r
    <3> QED BY <1>4, <3>1
  <2>4. Len(up[l]) > 1 => Tail(Tail(up[l])) \in Seq(OnWs1) /\ up[l][2] \in OnWs1
    BY <2>1, TailTail
  <2>5. CASE Took(l, one, one.reply, Tail(up[l]), {})
    BY <1>2, <1>6, <2>2, <2>3, <2>5
  <2>6. ASSUME Len(up[l]) > 1, NEW two \in Execute(up[l][2], one),
               Took(l, two, two.reply, Tail(Tail(up[l])), {"joined"})
        PROVE  TInv'
    <3> DEFINE r == [type |-> "SELECT", data |-> Quantity(one.quantity, up[l][2].code)]
    <3>1. two \in Execute(up[l][2], [cars |-> one.cars, quantity |-> one.quantity,
                                      reply |-> one.reply])
      BY <2>3
    <3>2. two = [cars |-> one.cars, quantity |-> one.quantity, reply |-> r] /\ r \in Reply(Int)
      BY <2>3, <2>4, <2>6, <3>1, QuestionTyped
    <3> HIDE DEF r
    <3>3. two.cars \in Seq(Car) /\ two.quantity \in [Types -> Int] /\ two.reply \in Reply(Int)
      BY <2>3, <3>2
    <3> QED BY <1>2, <1>6, <2>4, <2>6, <3>3
  <2>7. ASSUME Len(up[l]) > 1, NEW reply \in {one.reply, Failed(up[l][2])},
               Took(l, one, reply, Tail(Tail(up[l])), {"garbled"})
        PROVE  TInv'
    <3>1. reply \in Reply(Int)
      BY <2>3, FailedTyped
    <3> QED BY <1>2, <1>6, <2>3, <2>4, <2>7, <3>1
  <2> QED BY <1>3, <2>5, <2>6, <2>7
<1> QED BY <1>5, <1>6 DEF Lines

Once(s) == \A a, b \in DOMAIN s : s[a] = s[b] => a = b

\* One page has changed.
LEMMA OnePage ==
  ASSUME page \in [Pages -> Page], SelectedOnce,
         NEW p \in Pages, NEW r \in Page, Once(r.sel), page' = [page EXCEPT ![p] = r]
  PROVE  /\ page' \in [Pages -> Page] /\ SelectedOnce'
         /\ page'[p] = r /\ \A o \in Pages : o # p => page'[o] = page[o]
<1>1. /\ page' \in [Pages -> Page]
      /\ page'[p] = r /\ \A o \in Pages : o # p => page'[o] = page[o]
  OBVIOUS
<1>2. SelectedOnce'
  BY <1>1 DEF SelectedOnce, Once
<1> QED BY <1>1, <1>2

\* A page and what is selected on it.
LEMMA SelOnce == ASSUME TInv, NEW p \in Pages
                 PROVE  page[p] \in Page /\ Once(page[p].sel)
BY DEF TInv, TypeOK, SelectedOnce, Once

\* The lines when only those to the server change.
LEMMA SentTInv ==
  ASSUME TInv, NEW ws \in Seq(OnWs), NEW ws1 \in Seq(OnWs1),
         up' = [l \in Lines |-> up'[l]], up'["ws"] = ws, up'["ws1"] = ws1,
         page' \in [Pages -> Page], SelectedOnce',
         clicks' \in Nat, last' \in Pages, UNCHANGED <<cars, quantity, down>>
  PROVE  TInv'
BY DEF TInv, TypeOK

\* RemoveAt takes one out and keeps the order of the others.
LEMMA RemoveAtIs ==
  ASSUME NEW S, NEW s \in Seq(S), NEW k \in 1 .. Len(s)
  PROVE  /\ RemoveAt(s, k) \in Seq(S) /\ DOMAIN RemoveAt(s, k) = 1 .. Len(s) - 1
         /\ \A i \in 1 .. Len(s) - 1 : RemoveAt(s, k)[i] = IF i < k THEN s[i] ELSE s[i + 1]
<1> DEFINE n == Len(s)
           u == SubSeq(s, 1, k - 1)
           v == SubSeq(s, k + 1, n)
<1>1. n \in Nat /\ k \in 1 .. n /\ \A i \in 1 .. n : s[i] \in S
  BY LenProperties, ElementOfSeq
<1> HIDE DEF n
<1>2. u \in Seq(S) /\ Len(u) = k - 1 /\ \A i \in 1 .. k - 1 : u[i] = s[i]
  <2>1. \A i \in 1 .. k - 1 : s[i] \in S
    BY <1>1
  <2>2. /\ u \in Seq(S) /\ Len(u) = IF 1 <= k - 1 THEN k - 1 - 1 + 1 ELSE 0
        /\ \A i \in 1 .. k - 1 - 1 + 1 : u[i] = s[1 + i - 1]
    BY <1>1, <2>1, SubSeqProperties
  <2> HIDE DEF u
  <2>3. \A i \in 1 .. k - 1 : 1 + i - 1 = i /\ i \in 1 .. k - 1 - 1 + 1
    BY <1>1
  <2> QED BY <1>1, <2>2, <2>3
<1>3. v \in Seq(S) /\ Len(v) = n - k /\ \A i \in 1 .. n - k : v[i] = s[k + i]
  <2>1. \A i \in k + 1 .. n : s[i] \in S
    BY <1>1
  <2>2. /\ v \in Seq(S) /\ Len(v) = IF k + 1 <= n THEN n - (k + 1) + 1 ELSE 0
        /\ \A i \in 1 .. n - (k + 1) + 1 : v[i] = s[k + 1 + i - 1]
    BY <1>1, <2>1, SubSeqProperties
  <2> HIDE DEF v
  <2>3. \A i \in 1 .. n - k : k + 1 + i - 1 = k + i /\ i \in 1 .. n - (k + 1) + 1
    BY <1>1
  <2> QED BY <1>1, <2>2, <2>3
<1>4. RemoveAt(s, k) = u \o v
  BY DEF RemoveAt, n
<1> HIDE DEF u, v
<1>5. /\ u \o v \in Seq(S) /\ Len(u \o v) = (k - 1) + (n - k)
      /\ \A i \in 1 .. (k - 1) + (n - k) :
           (u \o v)[i] = IF i <= k - 1 THEN u[i] ELSE v[i - (k - 1)]
  <2>1. /\ u \o v \in Seq(S) /\ Len(u \o v) = Len(u) + Len(v)
        /\ \A i \in 1 .. Len(u) + Len(v) :
             (u \o v)[i] = IF i <= Len(u) THEN u[i] ELSE v[i - Len(u)]
    BY <1>2, <1>3, ConcatProperties
  <2>2. Len(u) = k - 1 /\ Len(v) = n - k
    BY <1>2, <1>3
  <2> QED BY <2>1, <2>2
<1>6. (k - 1) + (n - k) = n - 1
  BY <1>1
<1>7. DOMAIN (u \o v) = 1 .. n - 1
  BY <1>5, <1>6, LenProperties
<1>8. ASSUME NEW i \in 1 .. n - 1
      PROVE  (u \o v)[i] = IF i < k THEN s[i] ELSE s[i + 1]
  <2>1. CASE i < k
    <3>1. i \in 1 .. k - 1 /\ i <= k - 1
      BY <1>1, <2>1
    <3> QED BY <1>2, <1>5, <1>6, <2>1, <3>1
  <2>2. CASE ~ (i < k)
    <3>1. i - (k - 1) \in 1 .. n - k /\ k + (i - (k - 1)) = i + 1 /\ ~ (i <= k - 1)
      BY <1>1, <2>2
    <3>2. (u \o v)[i] = v[i - (k - 1)]
      BY <1>5, <1>6, <3>1
    <3> QED BY <1>3, <2>2, <3>1, <3>2
  <2> QED BY <2>1, <2>2
<1> QED BY <1>4, <1>5, <1>7, <1>8 DEF n

\* A second click on a row leaves no row selected twice.
LEMMA SelectedAgain ==
  ASSUME NEW s \in Seq(Nat \ {0}), Once(s), NEW i \in Nat \ {0}
  PROVE  LET at  == {k \in 1 .. Len(s) : s[k] = i}
             sel == IF at = {} THEN Append(s, i) ELSE RemoveAt(s, Max(at))
         IN sel \in Seq(Nat \ {0}) /\ Once(sel)
<1> DEFINE n == Len(s)
           at == {k \in 1 .. n : s[k] = i}
<1>1. n \in Nat /\ DOMAIN s = 1 .. n
  BY LenProperties
<1>2. CASE at = {}
  <2> DEFINE r == Append(s, i)
  <2>1. /\ r \in Seq(Nat \ {0}) /\ DOMAIN r = 1 .. n + 1
        /\ \A k \in 1 .. n : r[k] = s[k]
        /\ r[n + 1] = i
    BY <1>1, AppendIs
  <2> HIDE DEF r, n
  <2>2. \A k \in 1 .. n : s[k] # i
    BY <1>2
  <2>3. Once(r)
    <3> SUFFICES ASSUME NEW a \in 1 .. n + 1, NEW b \in 1 .. n + 1, r[a] = r[b] PROVE a = b
      BY <2>1 DEF Once
    <3>1. (a \in 1 .. n \/ a = n + 1) /\ (b \in 1 .. n \/ b = n + 1)
      BY <1>1
    <3> QED BY <1>1, <2>1, <2>2, <3>1 DEF Once
  <2> QED BY <1>2, <2>1, <2>3 DEF r, n
<1>3. CASE at # {}
  <2> DEFINE m == Max(at)
             r == RemoveAt(s, m)
  <2>1. IsFiniteSet(at) /\ at \subseteq Nat
    <3>1. IsFiniteSet(1 .. n)
      BY <1>1, FS_Interval
    <3> HIDE DEF n
    <3> QED BY <1>1, <3>1, FS_Subset
  <2>2. m \in 1 .. n
    <3>1. m \in at
      <4> HIDE DEF at
      <4> QED BY <1>3, <2>1, MaxIs
    <3> QED BY <3>1
  <2> HIDE DEF m, at
  <2>3. /\ r \in Seq(Nat \ {0}) /\ DOMAIN r = 1 .. n - 1
        /\ \A k \in 1 .. n - 1 : r[k] = IF k < m THEN s[k] ELSE s[k + 1]
    BY <2>2, RemoveAtIs
  <2> HIDE DEF r, n
  <2>4. Once(r)
    <3> SUFFICES ASSUME NEW a \in 1 .. n - 1, NEW b \in 1 .. n - 1, r[a] = r[b] PROVE a = b
      BY <2>3 DEF Once
    <3> DEFINE old(k) == IF k < m THEN k ELSE k + 1
    <3>1. old(a) \in 1 .. n /\ old(b) \in 1 .. n /\ r[a] = s[old(a)] /\ r[b] = s[old(b)]
      BY <1>1, <2>2, <2>3
    <3>2. old(a) = old(b)
      <4> HIDE DEF old
      <4> QED BY <1>1, <3>1 DEF Once
    <3> QED BY <1>1, <2>2, <3>2
  <2> QED BY <1>3, <2>3, <2>4 DEF m, r, at, n
<1> QED BY <1>2, <1>3

\* The ways a delivery can go.
LEMMA DeliverIs ==
  ASSUME TypeOK, NEW l \in Lines, Deliver(l)
  PROVE  /\ down[l] # <<>> /\ UNCHANGED <<cars, quantity, last, clicks, meant>>
         /\ \/ /\ down' = [down EXCEPT ![l] = Tail(@)]
               /\ UNCHANGED faults
               /\ \/ /\ l = "ws" /\ UNCHANGED up
                     /\ page' = IF page[last].shows /\ down["ws"][1].type = "SELECT"
                                THEN [page EXCEPT ![last].table = down["ws"][1].data] ELSE page
                  \/ /\ l = "ws1" /\ UNCHANGED page
                     /\ up' = IF page[last].ask = Nothing \/ down["ws1"][1].data = <<>> THEN up
                              ELSE [up EXCEPT !["ws"] =
                                      Append(@, Correction(down["ws1"][1].data[1],
                                                           page[last].ask))]
            \/ /\ Calm /\ Len(down[l]) > 1 /\ UNCHANGED <<page, up>>
               /\ down' = [down EXCEPT ![l] = Tail(Tail(@))]
               /\ faults' = faults \cup {"joined"}
<1>1. down[l] \in Seq(Reply(Car) \cup Reply(Int))
  <2>1. /\ Reply(Car) \subseteq Reply(Car) \cup Reply(Int)
        /\ Reply(Int) \subseteq Reply(Car) \cup Reply(Int)
    OBVIOUS
  <2>2. down["ws"] \in Seq(Reply(Car)) /\ down["ws1"] \in Seq(Reply(Int))
    BY DEF TypeOK
  <2> HIDE DEF Reply
  <2>3. /\ down["ws"] \in Seq(Reply(Car) \cup Reply(Int))
        /\ down["ws1"] \in Seq(Reply(Car) \cup Reply(Int))
    BY <2>1, <2>2, SeqMonotonic
  <2> QED BY <2>3 DEF Lines
<1>2. Len(down[l]) > 1 => SubSeq(down[l], 3, Len(down[l])) = Tail(Tail(down[l]))
  <2> HIDE DEF Reply
  <2> QED BY <1>1, TailTail
<1>3. CASE l = "ws"
  BY <1>2, <1>3 DEF Deliver, Joins
<1>4. CASE l = "ws1"
  BY <1>2, <1>4 DEF Deliver, Joins
<1> QED BY <1>3, <1>4 DEF Lines

\* What the handler of ws1 writes.
LEMMA CorrectionIs ==
  ASSUME NEW n \in Int, NEW ask \in [code: Code, delta: {-1, 0, 1}]
  PROVE  /\ Correction(n, ask) \in OnWs
         /\ Correction(n, ask).op = "CORRECT" /\ Correction(n, ask).code = ask.code
         /\ Correction(n, ask).to = n + ask.delta
BY DEF Correction, OnWs

\* Deliver keeps the types.
LEMMA DeliverTInv == ASSUME TInv, NEW l \in Lines, Deliver(l) PROVE TInv'
<1> USE DEF TInv
<1>1. /\ page[last] \in Page /\ down["ws"] \in Seq(Reply(Car)) /\ down["ws1"] \in Seq(Reply(Int))
      /\ up["ws"] \in Seq(OnWs) /\ up["ws1"] \in Seq(OnWs1)
  BY DEF TypeOK
<1>2. UNCHANGED <<cars, quantity, last, clicks>> /\ down[l] # <<>>
  BY DeliverIs
<1>3. ASSUME NEW rest, down' = [down EXCEPT ![l] = rest],
             l = "ws" => rest \in Seq(Reply(Car)), l = "ws1" => rest \in Seq(Reply(Int))
      PROVE  /\ down' = [m \in Lines |-> down'[m]]
             /\ down'["ws"] \in Seq(Reply(Car)) /\ down'["ws1"] \in Seq(Reply(Int))
  <2>1. /\ down' = [m \in Lines |-> down'[m]] /\ down'[l] = rest
        /\ \A m \in Lines : m # l => down'[m] = down[m]
    BY <1>3, OneLine DEF TypeOK
  <2> QED BY <1>1, <1>3, <2>1 DEF Lines
<1>4. /\ l = "ws" => Tail(down[l]) \in Seq(Reply(Car))
      /\ l = "ws1" => Tail(down[l]) \in Seq(Reply(Int))
  BY <1>1, <1>2, TailIs
<1>5. Len(down[l]) > 1 => /\ l = "ws" => Tail(Tail(down[l])) \in Seq(Reply(Car))
                          /\ l = "ws1" => Tail(Tail(down[l])) \in Seq(Reply(Int))
  BY <1>1, <1>2, TailTail
<1>6. /\ down' = [m \in Lines |-> down'[m]]
      /\ down'["ws"] \in Seq(Reply(Car)) /\ down'["ws1"] \in Seq(Reply(Int))
  BY <1>3, <1>4, <1>5, DeliverIs
<1>7. page' \in [Pages -> Page] /\ SelectedOnce'
  <2>1. CASE UNCHANGED page
    BY <2>1 DEF TypeOK, SelectedOnce
  <2>2. CASE l = "ws" /\ page' = [page EXCEPT ![last].table = down["ws"][1].data]
    <3> DEFINE r == [page[last] EXCEPT !.table = down["ws"][1].data]
    <3>1. down["ws"][1] \in Reply(Car)
      BY <1>1, <1>2, <2>2, TailIs
    <3>2. r \in Page /\ r.sel = page[last].sel
      BY <1>1, <3>1 DEF Page, Reply
    <3>3. page' = [page EXCEPT ![last] = r]
      BY <2>2
    <3>4. last \in Pages /\ Once(r.sel) /\ page \in [Pages -> Page]
      BY <3>2, SelOnce DEF TypeOK
    <3> HIDE DEF r
    <3> QED BY <3>2, <3>3, <3>4, OnePage
  <2> QED BY <2>1, <2>2, DeliverIs
<1>8. /\ up' = [m \in Lines |-> up'[m]]
      /\ up'["ws"] \in Seq(OnWs) /\ up'["ws1"] \in Seq(OnWs1)
  <2>1. CASE UNCHANGED up
    BY <2>1 DEF TypeOK
  <2> DEFINE s == Correction(down["ws1"][1].data[1], page[last].ask)
  <2>2. CASE /\ l = "ws1" /\ down["ws1"][1].data # <<>>
             /\ up' = [up EXCEPT !["ws"] = Append(@, s)]
    <3>1. down["ws1"][1] \in Reply(Int)
      BY <1>1, <1>2, <2>2, TailIs
    <3>2. down["ws1"][1].data \in Seq(Int)
      BY <3>1 DEF Reply
    <3>3. down["ws1"][1].data[1] \in Int
      BY <2>2, <3>2, TailIs
    <3>4. page[last].ask \in [code: Code, delta: {-1, 0, 1}]
      BY <1>1 DEF Page
    <3>5. s \in OnWs
      BY <3>3, <3>4, CorrectionIs
    <3> HIDE DEF s
    <3>6. Append(up["ws"], s) \in Seq(OnWs)
      BY <1>1, <3>5, AppendIs
    <3>7. /\ up' = [m \in Lines |-> up'[m]] /\ up'["ws"] = Append(up["ws"], s)
          /\ up'["ws1"] = up["ws1"]
      BY <2>2 DEF TypeOK, Lines
    <3> QED BY <1>1, <3>6, <3>7
  <2> QED BY <2>1, <2>2, DeliverIs
<1> QED BY <1>2, <1>6, <1>7, <1>8 DEF TypeOK

-----------------------------------------------------------------------------
\* The clicks and the timers.
\* What a click sends comes after what is under way.
Sent(ws, ws1) ==
  /\ up' = [l \in Lines |-> up'[l]]
  /\ up'["ws"] = up["ws"] \o ws /\ up'["ws1"] = up["ws1"] \o ws1
  /\ up'["ws"] \in Seq(OnWs) /\ up'["ws1"] \in Seq(OnWs1)

\* What a click leaves alone and where it sends.
LEMMA ClickIs ==
  ASSUME TypeOK, NEW p \in Pages, NEW ws \in Seq(OnWs), NEW ws1 \in Seq(OnWs1), NEW what,
         Click(p, ws, ws1, what)
  PROVE  /\ Calm /\ Sent(ws, ws1)
         /\ clicks' \in Nat /\ UNCHANGED <<cars, quantity, down, last>>
         /\ faults' = faults \cup what \cup Fault("foreign", last # p)
<1>1. up' = [up EXCEPT !["ws"] = @ \o ws, !["ws1"] = @ \o ws1]
  BY DEF Click
<1>2. up = [l \in Lines |-> up[l]] /\ up["ws"] \in Seq(OnWs) /\ up["ws1"] \in Seq(OnWs1)
  BY DEF TypeOK
<1>3. up["ws"] \o ws \in Seq(OnWs) /\ up["ws1"] \o ws1 \in Seq(OnWs1)
  BY <1>2, ConcatProperties
<1>4. /\ up' = [l \in Lines |-> up'[l]]
      /\ up'["ws"] = up["ws"] \o ws /\ up'["ws1"] = up["ws1"] \o ws1
  BY <1>1, <1>2 DEF Lines
<1>5. Sent(ws, ws1)
  BY <1>3, <1>4 DEF Sent
<1> QED BY <1>5 DEF Click, Patient, TypeOK

\* A click keeps the types when the page does.
LEMMA ClickTInv ==
  ASSUME TInv, NEW p \in Pages, NEW ws \in Seq(OnWs), NEW ws1 \in Seq(OnWs1), NEW what,
         Click(p, ws, ws1, what), page' \in [Pages -> Page], SelectedOnce'
  PROVE  TInv'
<1>1. TypeOK
  BY DEF TInv
<1>2. Sent(ws, ws1) /\ clicks' \in Nat /\ UNCHANGED <<cars, quantity, down, last>>
  BY <1>1, ClickIs
<1>3. last' \in Pages
  BY <1>1, <1>2 DEF TypeOK
<1> QED BY <1>2, <1>3, SentTInv DEF Sent

\* Sequences of one and of two.
LEMMA OneStatement ==
  ASSUME NEW S, NEW a \in S, NEW b \in S
  PROVE  <<>> \in Seq(S) /\ <<a>> \in Seq(S) /\ <<a, b>> \in Seq(S)
OBVIOUS

\* What the handlers send are statements.
LEMMA StatementsAre ==
  /\ SELECTCARINFO \in OnWs
  /\ \A car \in Car : [op |-> "INSERT", car |-> car] \in OnWs
  /\ \A cid \in Nat, car \in Car : [op |-> "UPDATE", cid |-> cid, car |-> car] \in OnWs
  /\ \A cid \in Nat : [op |-> "DELETE", cid |-> cid] \in OnWs
  /\ \A code \in Code : [op |-> "QUANTITY", code |-> code] \in OnWs1
BY DEF SELECTCARINFO, OnWs, OnWs1

\* Open keeps the types.
LEMMA OpenTInv == ASSUME TInv, NEW p \in Pages, Open(p) PROVE TInv'
<1>1. page \in [Pages -> Page] /\ SelectedOnce
  BY DEF TInv, TypeOK
<1>2. Fresh \in Page /\ Once(Fresh.sel)
  BY FreshIsAPage DEF Fresh, Once
<1>3. page' = [page EXCEPT ![p] = Fresh]
  BY DEF Open
<1>4. page' \in [Pages -> Page] /\ SelectedOnce'
  BY <1>1, <1>2, <1>3, OnePage
<1> QED BY <1>4 DEF TInv, TypeOK, Open

\* selectSheet, told by what it leaves.
LEMMA selectSheetIs ==
  ASSUME TInv, NEW p \in Pages, selectSheet(p)
  PROVE  /\ Click(p, <<SELECTCARINFO>>, <<>>, {})
         /\ <<SELECTCARINFO>> \in Seq(OnWs) /\ <<>> \in Seq(OnWs1)
         /\ page'[p] = [page[p] EXCEPT !.shows = TRUE]
         /\ \A o \in Pages : o # p => page'[o] = page[o]
         /\ page' \in [Pages -> Page] /\ SelectedOnce' /\ UNCHANGED meant
<1> DEFINE r == [page[p] EXCEPT !.shows = TRUE]
<1>1. page \in [Pages -> Page] /\ SelectedOnce /\ page[p] \in Page /\ Once(page[p].sel)
  BY SelOnce DEF TInv, TypeOK
<1>2. r \in Page /\ r.sel = page[p].sel
  BY <1>1 DEF Page
<1>3. page' = [page EXCEPT ![p] = r]
  BY DEF selectSheet
<1>4. <<SELECTCARINFO>> \in Seq(OnWs) /\ <<>> \in Seq(OnWs1)
  <2>1. SELECTCARINFO \in OnWs
    BY StatementsAre
  <2> HIDE DEF OnWs, OnWs1
  <2> QED BY <2>1, OneStatement
<1> HIDE DEF r
<1>5. /\ page'[p] = r /\ \A o \in Pages : o # p => page'[o] = page[o]
      /\ page' \in [Pages -> Page] /\ SelectedOnce'
  BY <1>1, <1>2, <1>3, OnePage
<1> QED BY <1>4, <1>5 DEF selectSheet, r

\* selectSheet keeps the types.
LEMMA selectSheetTInv == ASSUME TInv, NEW p \in Pages, selectSheet(p) PROVE TInv'
BY selectSheetIs, ClickTInv

\* selectItem changes the selection only.
LEMMA selectItemIs ==
  ASSUME TInv, NEW p \in Pages, NEW i \in 1 .. Len(page[p].table), selectItem(p, i)
  PROVE  /\ page' \in [Pages -> Page] /\ SelectedOnce'
         /\ \A o \in Pages : /\ page'[o].table = page[o].table
                             /\ page'[o].shows = page[o].shows
                             /\ page'[o].ask = page[o].ask
                             /\ page'[o].timers = page[o].timers
                             /\ page'[o].done = page[o].done
<1> DEFINE at  == {k \in 1 .. Len(page[p].sel) : page[p].sel[k] = i}
           sel == IF at = {} THEN Append(page[p].sel, i) ELSE RemoveAt(page[p].sel, Max(at))
           r == [page[p] EXCEPT !.sel = sel]
<1>1. page \in [Pages -> Page] /\ SelectedOnce /\ page[p] \in Page /\ Once(page[p].sel)
  BY SelOnce DEF TInv, TypeOK
<1>2. page' = [page EXCEPT ![p] = r]
  BY DEF selectItem
<1>3. page[p].sel \in Seq(Nat \ {0})
  BY <1>1 DEF Page
<1>4. sel \in Seq(Nat \ {0}) /\ Once(sel)
  <2>1. i \in Nat \ {0}
    OBVIOUS
  <2> QED BY <1>1, <1>3, <2>1, SelectedAgain
<1> HIDE DEF sel
<1>6. r \in Page /\ r.sel = sel
  BY <1>1, <1>4 DEF Page
<1>7. /\ r.table = page[p].table /\ r.shows = page[p].shows /\ r.ask = page[p].ask
      /\ r.timers = page[p].timers /\ r.done = page[p].done
  BY <1>1 DEF Page
<1> HIDE DEF r
<1>8. /\ page'[p] = r /\ \A o \in Pages : o # p => page'[o] = page[o]
      /\ page' \in [Pages -> Page] /\ SelectedOnce'
  BY <1>1, <1>2, <1>4, <1>6, OnePage
<1> QED BY <1>7, <1>8

\* selectItem keeps the types.
LEMMA selectItemTInv ==
  ASSUME TInv, NEW p \in Pages, NEW i \in 1 .. Len(page[p].table), selectItem(p, i)
  PROVE  TInv'
<1>1. page' \in [Pages -> Page] /\ SelectedOnce'
  BY selectItemIs
<1> QED BY <1>1 DEF TInv, TypeOK, selectItem

\* onClickConfirmAdd, told by what it leaves.
LEMMA AddIs ==
  ASSUME TInv, NEW p \in Pages, NEW cid \in Numbers, NEW code \in Codes,
         onClickConfirmAdd(p, cid, code)
  PROVE  LET car == [cid |-> cid, code |-> code]
             ask == [op |-> "QUANTITY", code |-> code]
         IN /\ car \in Car /\ Click(p, AddStatements(car), <<ask>>, Hasty(p) \cup Taken(cid))
            /\ AddStatements(car) \in Seq(OnWs) /\ <<ask>> \in Seq(OnWs1)
            /\ page' \in [Pages -> Page] /\ SelectedOnce'
            /\ page'[p] = [page[p] EXCEPT !.ask = [code |-> code, delta |-> 1], !.done = "add"]
            /\ \A o \in Pages : o # p => page'[o] = page[o]
            /\ UNCHANGED meant
<1> DEFINE car == [cid |-> cid, code |-> code]
           ask == [op |-> "QUANTITY", code |-> code]
           r == [page[p] EXCEPT !.ask = [code |-> code, delta |-> 1], !.done = "add"]
<1>1. page \in [Pages -> Page] /\ SelectedOnce /\ page[p] \in Page /\ Once(page[p].sel)
  BY SelOnce DEF TInv, TypeOK
<1>2. r \in Page /\ r.sel = page[p].sel
  BY <1>1 DEF Page, Code
<1>3. page' = [page EXCEPT ![p] = r]
  BY DEF onClickConfirmAdd
<1>4. car \in Car /\ code \in Code
  BY PagesAssumption DEF Car, Code
<1>5. AddStatements(car) \in Seq(OnWs) /\ <<ask>> \in Seq(OnWs1)
  <2> DEFINE s == [op |-> "INSERT", car |-> car]
  <2>1. SELECTCARINFO \in OnWs /\ s \in OnWs /\ ask \in OnWs1
    BY <1>4, StatementsAre
  <2>2. AddStatements(car) = <<s, SELECTCARINFO>>
    BY DEF AddStatements
  <2> HIDE DEF OnWs, OnWs1, s, ask
  <2> QED BY <2>1, <2>2, OneStatement
<1> HIDE DEF r
<1>6. /\ page'[p] = r /\ \A o \in Pages : o # p => page'[o] = page[o]
      /\ page' \in [Pages -> Page] /\ SelectedOnce'
  BY <1>1, <1>2, <1>3, OnePage
<1> QED BY <1>4, <1>5, <1>6 DEF onClickConfirmAdd, r

\* onClickConfirmAdd keeps the types.
LEMMA AddTInv ==
  ASSUME TInv, NEW p \in Pages, NEW cid \in Numbers, NEW code \in Codes,
         onClickConfirmAdd(p, cid, code) PROVE TInv'
BY AddIs, ClickTInv

\* The rows chosen are rows of the table, each chosen once.
LEMMA ChosenIs ==
  ASSUME TInv, NEW p \in Pages
  PROVE  /\ Len(Chosen(p)) \in Nat /\ DOMAIN Chosen(p) = 1 .. Len(Chosen(p))
         /\ page[p].table \in Seq(Car)
         /\ \A k \in DOMAIN Chosen(p) :
              /\ Chosen(p)[k] \in 1 .. Len(page[p].table)
              /\ page[p].table[Chosen(p)[k]] \in Car
         /\ Once(Chosen(p))
<1> DEFINE s == page[p].sel
           n == Len(page[p].table)
           I == {k \in DOMAIN s : s[k] <= n}
           c == Part(s, I)
           at(k) == Nth(I, UpTo(I), k)
<1>1. s \in Seq(Nat \ {0}) /\ Once(s) /\ page[p].table \in Seq(Car) /\ n \in Nat
  BY SelOnce, LenProperties DEF Page
<1>2. I \subseteq DOMAIN s
  OBVIOUS
<1>3. \A k \in I : s[k] \in 1 .. n
  <2>1. \A k \in DOMAIN s : s[k] \in Nat \ {0}
    BY <1>1, LenProperties, ElementOfSeq
  <2> QED BY <1>1, <2>1
<1>4. /\ c \in Seq(Nat \ {0})
      /\ \A k \in DOMAIN c : at(k) \in I /\ c[k] = s[at(k)]
      /\ \A k, l \in DOMAIN c : at(k) = at(l) => k = l
  <2> HIDE DEF I
  <2> QED BY <1>1, <1>2, PartIs
<1>5. Chosen(p) = c
  BY DEF Chosen
<1> HIDE DEF c, at, I, n
<1>6. \A k \in DOMAIN c : c[k] \in 1 .. n
  BY <1>3, <1>4
<1>7. Once(c)
  BY <1>1, <1>2, <1>4 DEF Once
<1>8. Len(c) \in Nat /\ DOMAIN c = 1 .. Len(c)
  BY <1>4, LenProperties
<1>9. \A j \in 1 .. n : page[p].table[j] \in Car
  BY <1>1, ElementOfSeq DEF n
<1> QED BY <1>1, <1>5, <1>6, <1>7, <1>8, <1>9 DEF n

\* Timer makes timers.
LEMMA TimerIs ==
  ASSUME clicks \in Nat, NEW k \in Nat, NEW del \in BOOLEAN, NEW at \in Nat, NEW row \in Car,
         NEW delta \in {-1, 1}
  PROVE  Timer(k, del, at, row, delta) \in Timers
BY DEF Timer, Timers

\* The timers of a deletion are timers that delete.
LEMMA DeletionsAre ==
  ASSUME TInv, NEW p \in Pages
  PROVE  /\ Deletions(p) \in SUBSET Timers
         /\ \A t \in Deletions(p) : t.del /\ t.delta = -1
<1> DEFINE c == Chosen(p)
           row(k) == page[p].table[c[k]]
<1>1. /\ \A k \in 1 .. Len(c) : c[k] \in Nat /\ row(k) \in Car
      /\ Len(c) \in Nat /\ clicks \in Nat
  BY ChosenIs DEF TInv, TypeOK
<1>2. Deletions(p) = {Timer(k, TRUE, c[k], row(k), -1) : k \in 1 .. Len(c)}
  BY DEF Deletions
<1>3. \A k \in 1 .. Len(c) : Timer(k, TRUE, c[k], row(k), -1) \in Timers
  <2> HIDE DEF c, row
  <2> SUFFICES ASSUME NEW k \in 1 .. Len(c)
               PROVE  Timer(k, TRUE, c[k], row(k), -1) \in Timers
    OBVIOUS
  <2>1. k \in Nat /\ c[k] \in Nat /\ row(k) \in Car
    BY <1>1
  <2> QED BY <1>1, <2>1, TimerIs
<1> HIDE DEF c, row
<1>4. \A k \in 1 .. Len(c) : /\ Timer(k, TRUE, c[k], row(k), -1).del
                             /\ Timer(k, TRUE, c[k], row(k), -1).delta = -1
  BY DEF Timer
<1> QED BY <1>2, <1>3, <1>4

\* onClickConfirmDel, told by what it leaves.
LEMMA DelIs ==
  ASSUME TInv, NEW p \in Pages, onClickConfirmDel(p)
  PROVE  /\ Click(p, <<SELECTCARINFO>>, <<>>, Hasty(p) \cup Stale(p))
         /\ <<SELECTCARINFO>> \in Seq(OnWs) /\ <<>> \in Seq(OnWs1)
         /\ page' \in [Pages -> Page] /\ SelectedOnce'
         /\ page'[p] = [page[p] EXCEPT !.timers = @ \cup Deletions(p), !.sel = <<>>,
                                       !.done = "del"]
         /\ \A o \in Pages : o # p => page'[o] = page[o]
         /\ meant' = meant \cup {page[p].table[i].cid : i \in Range(Chosen(p))}
<1> DEFINE r == [page[p] EXCEPT !.timers = @ \cup Deletions(p), !.sel = <<>>, !.done = "del"]
<1>1. page \in [Pages -> Page] /\ SelectedOnce /\ page[p] \in Page
  BY DEF TInv, TypeOK
<1>2. r \in Page /\ Once(r.sel)
  <2>1. Deletions(p) \in SUBSET Timers
    BY DeletionsAre
  <2>2. page[p].timers \cup Deletions(p) \in SUBSET Timers /\ <<>> \in Seq(Nat \ {0})
    BY <1>1, <2>1, EmptySeq DEF Page
  <2>3. r.sel = <<>> /\ DOMAIN <<>> = {}
    BY <1>1 DEF Page
  <2>4. r \in Page
    <3> HIDE DEF Timers
    <3> QED BY <1>1, <2>2 DEF Page
  <2> QED BY <2>3, <2>4 DEF Once
<1>3. page' = [page EXCEPT ![p] = r]
  BY DEF onClickConfirmDel
<1>4. <<SELECTCARINFO>> \in Seq(OnWs) /\ <<>> \in Seq(OnWs1)
  <2>1. SELECTCARINFO \in OnWs
    BY StatementsAre
  <2> HIDE DEF OnWs, OnWs1
  <2> QED BY <2>1, OneStatement
<1> HIDE DEF r
<1>5. /\ page'[p] = r /\ \A o \in Pages : o # p => page'[o] = page[o]
      /\ page' \in [Pages -> Page] /\ SelectedOnce'
  BY <1>1, <1>2, <1>3, OnePage
<1> QED BY <1>4, <1>5 DEF onClickConfirmDel, r

\* onClickConfirmDel keeps the types.
LEMMA DelTInv == ASSUME TInv, NEW p \in Pages, onClickConfirmDel(p) PROVE TInv'
BY DelIs, ClickTInv

\* what goes wrong with an edit, and what it takes away
Amiss(p, old, new) ==
  Hasty(p) \cup Stale(p) \cup (IF new.cid = old.cid THEN {} ELSE Taken(new.cid))

Renumbered(old, new) == IF new.cid = old.cid THEN {} ELSE {old.cid}

\* onClickConfirmEdit, told by what it leaves.
LEMMA EditIs ==
  ASSUME TInv, NEW p \in Pages, NEW cid \in Numbers, NEW code \in Codes,
         onClickConfirmEdit(p, cid, code)
  PROVE  \E old, new \in Car :
           LET s == [op |-> "UPDATE", cid |-> old.cid, car |-> new]
           IN /\ Click(p, <<s, SELECTCARINFO>>, <<>>, Amiss(p, old, new))
              /\ <<s, SELECTCARINFO>> \in Seq(OnWs) /\ <<>> \in Seq(OnWs1)
              /\ s \in OnWs
              /\ \E i \in DOMAIN page[p].table : old = page[p].table[i]
              /\ EditTimers(old, new) \in SUBSET Timers
              /\ page' \in [Pages -> Page] /\ SelectedOnce'
              /\ page'[p] = [page[p] EXCEPT !.timers = @ \cup EditTimers(old, new),
                                            !.sel = <<>>, !.done = "edit"]
              /\ \A o \in Pages : o # p => page'[o] = page[o]
              /\ meant' = meant \cup Renumbered(old, new)
<1> DEFINE old == page[p].table[page[p].sel[1]]
           new == [cid |-> cid, code |-> code]
           s == [op |-> "UPDATE", cid |-> old.cid, car |-> new]
           r == [page[p] EXCEPT !.timers = @ \cup EditTimers(old, new), !.sel = <<>>,
                                !.done = "edit"]
<1>1. page \in [Pages -> Page] /\ SelectedOnce /\ page[p] \in Page /\ clicks \in Nat
  BY DEF TInv, TypeOK
<1>2. page[p].sel \in Seq(Nat \ {0}) /\ page[p].table \in Seq(Car)
  BY <1>1 DEF Page
<1>3. page[p].sel[1] \in DOMAIN page[p].table /\ old \in Car
  <2>1. Len(page[p].sel) = 1 /\ page[p].sel[1] <= Len(page[p].table)
    BY DEF onClickConfirmEdit
  <2>2. page[p].sel[1] \in Nat \ {0}
    BY <1>2, <2>1, ElementOfSeq
  <2>3. /\ DOMAIN page[p].table = 1 .. Len(page[p].table) /\ Len(page[p].table) \in Nat
        /\ \A i \in 1 .. Len(page[p].table) : page[p].table[i] \in Car
    BY <1>2, LenProperties, ElementOfSeq
  <2> QED BY <2>1, <2>2, <2>3
<1>4. new \in Car
  BY PagesAssumption DEF Car, Code
<1>5. page' = [page EXCEPT ![p] = r]
  BY DEF onClickConfirmEdit
<1>6. /\ Click(p, <<s, SELECTCARINFO>>, <<>>, Amiss(p, old, new))
      /\ meant' = meant \cup Renumbered(old, new)
  BY DEF onClickConfirmEdit, Amiss, Renumbered
<1> HIDE DEF new, old
<1>7. EditTimers(old, new) \in SUBSET Timers
  <2>1. Timer(1, FALSE, 0, old, -1) \in Timers /\ Timer(2, FALSE, 0, new, 1) \in Timers
    BY <1>1, <1>3, <1>4, TimerIs
  <2> QED BY <2>1 DEF EditTimers
<1>8. r \in Page /\ Once(r.sel)
  <2>1. EditTimers(old, new) \in SUBSET Timers
    BY <1>7
  <2>2. page[p].timers \cup EditTimers(old, new) \in SUBSET Timers /\ <<>> \in Seq(Nat \ {0})
    BY <1>1, <2>1, EmptySeq DEF Page
  <2>3. r.sel = <<>> /\ DOMAIN <<>> = {}
    BY <1>1 DEF Page
  <2>4. r \in Page
    <3> HIDE DEF Timers
    <3> QED BY <1>1, <2>2 DEF Page
  <2> QED BY <2>3, <2>4 DEF Once
<1>9. <<s, SELECTCARINFO>> \in Seq(OnWs) /\ <<>> \in Seq(OnWs1) /\ s \in OnWs
  <2>1. old.cid \in Nat
    BY <1>3 DEF Car
  <2>2. SELECTCARINFO \in OnWs /\ s \in OnWs
    BY <1>4, <2>1, StatementsAre
  <2> HIDE DEF OnWs, OnWs1, s
  <2> QED BY <2>2, OneStatement
<1> HIDE DEF r, s
<1>10. /\ page'[p] = r /\ \A o \in Pages : o # p => page'[o] = page[o]
       /\ page' \in [Pages -> Page] /\ SelectedOnce'
  BY <1>1, <1>5, <1>8, OnePage
<1>11. \E i \in DOMAIN page[p].table : old = page[p].table[i]
  BY <1>3 DEF old
<1> QED BY <1>3, <1>4, <1>6, <1>7, <1>9, <1>10, <1>11 DEF r, s

\* onClickConfirmEdit keeps the types.
LEMMA EditTInv ==
  ASSUME TInv, NEW p \in Pages, NEW cid \in Numbers, NEW code \in Codes,
         onClickConfirmEdit(p, cid, code) PROVE TInv'
BY EditIs, ClickTInv

\* A timer, told by what it leaves.
LEMMA FireIs ==
  ASSUME TInv, NEW p \in Pages, NEW t \in page[p].timers, Fire(p, t)
  PROVE  LET delete == [op |-> "DELETE", cid |-> t.row.cid]
             ask == [op |-> "QUANTITY", code |-> t.row.code]
         IN /\ t \in Timers /\ t.row \in Car /\ delete \in OnWs /\ ask \in OnWs1
            /\ up' = [l \in Lines |-> up'[l]]
            /\ up'["ws"] = IF t.del THEN Append(up["ws"], delete) ELSE up["ws"]
            /\ up'["ws1"] = Append(up["ws1"], ask)
            /\ up'["ws"] \in Seq(OnWs) /\ up'["ws1"] \in Seq(OnWs1)
            /\ page' \in [Pages -> Page] /\ SelectedOnce'
            /\ page'[p] = [page[p] EXCEPT !.timers = @ \ {t},
                                          !.ask = [code |-> t.row.code, delta |-> t.delta]]
            /\ \A o \in Pages : o # p => page'[o] = page[o]
            /\ faults' = faults \cup Fault("slow", ~ SilentNet) \cup Fault("foreign", last # p)
            /\ UNCHANGED <<cars, quantity, down, last, clicks, meant>>
<1> DEFINE delete == [op |-> "DELETE", cid |-> t.row.cid]
           ask == [op |-> "QUANTITY", code |-> t.row.code]
           r == [page[p] EXCEPT !.timers = @ \ {t},
                                !.ask = [code |-> t.row.code, delta |-> t.delta]]
<1>1. page \in [Pages -> Page] /\ SelectedOnce /\ page[p] \in Page /\ Once(page[p].sel)
  BY SelOnce DEF TInv, TypeOK
<1>2. page[p].timers \in SUBSET Timers
  BY <1>1 DEF Page
<1>3. t \in Timers /\ t.row \in Car /\ t.delta \in {-1, 1}
  <2>1. t \in Timers
    BY <1>2
  <2> QED BY <2>1 DEF Timers
<1>4. t.row.cid \in Nat /\ t.row.code \in Code
  BY <1>3 DEF Car
<1>5. r \in Page /\ r.sel = page[p].sel
  <2>1. page[p].timers \ {t} \in SUBSET Timers
    BY <1>2
  <2>2. [code |-> t.row.code, delta |-> t.delta] \in [code: Code, delta: {-1, 0, 1}]
    BY <1>3, <1>4
  <2> HIDE DEF Timers
  <2> QED BY <1>1, <2>1, <2>2 DEF Page
<1>6. page' = [page EXCEPT ![p] = r]
  BY DEF Fire, Row
<1>7. delete \in OnWs /\ ask \in OnWs1
  BY <1>4, StatementsAre
<1>8. up' = [up EXCEPT !["ws"] = IF t.del THEN Append(@, delete) ELSE @,
                       !["ws1"] = Append(@, ask)]
  BY DEF Fire, Row
<1> HIDE DEF r, delete, ask
<1>9. /\ page'[p] = r /\ \A o \in Pages : o # p => page'[o] = page[o]
      /\ page' \in [Pages -> Page] /\ SelectedOnce'
  BY <1>1, <1>5, <1>6, OnePage
<1>10. up = [l \in Lines |-> up[l]] /\ up["ws"] \in Seq(OnWs) /\ up["ws1"] \in Seq(OnWs1)
  BY DEF TInv, TypeOK
<1>11. /\ up' = [l \in Lines |-> up'[l]]
       /\ up'["ws"] = IF t.del THEN Append(up["ws"], delete) ELSE up["ws"]
       /\ up'["ws1"] = Append(up["ws1"], ask)
  BY <1>8, <1>10 DEF Lines
<1>12. up'["ws"] \in Seq(OnWs) /\ up'["ws1"] \in Seq(OnWs1)
  <2>1. Append(up["ws"], delete) \in Seq(OnWs) /\ Append(up["ws1"], ask) \in Seq(OnWs1)
    BY <1>7, <1>10, AppendIs
  <2> QED BY <1>10, <1>11, <2>1
<1> QED BY <1>3, <1>7, <1>9, <1>11, <1>12 DEF Fire, r, delete, ask

\* A timer keeps the types.
LEMMA FireTInv ==
  ASSUME TInv, NEW p \in Pages, NEW t \in page[p].timers, Fire(p, t) PROVE TInv'
<1>1. /\ up' = [l \in Lines |-> up'[l]]
      /\ up'["ws"] \in Seq(OnWs) /\ up'["ws1"] \in Seq(OnWs1)
      /\ page' \in [Pages -> Page] /\ SelectedOnce'
      /\ UNCHANGED <<cars, quantity, down, last, clicks, meant>>
  BY FireIs
<1>2. clicks' \in Nat /\ last' \in Pages
  BY <1>1 DEF TInv, TypeOK
<1> QED BY <1>1, <1>2, SentTInv

\* Every step keeps the types.
LEMMA NextTInv == TInv /\ [Next]_vars => TInv'
<1> SUFFICES ASSUME TInv, [Next]_vars PROVE TInv'
  OBVIOUS
<1>1. ASSUME NEW l \in Lines, Serve(l) PROVE TInv'
  BY <1>1, ServeTInv
<1>2. ASSUME NEW l \in Lines, Deliver(l) PROVE TInv'
  BY <1>2, DeliverTInv
<1>3. ASSUME NEW p \in Pages, Open(p) PROVE TInv'
  BY <1>3, OpenTInv
<1>4. ASSUME NEW p \in Pages, selectSheet(p) PROVE TInv'
  BY <1>4, selectSheetTInv
<1>5. ASSUME NEW p \in Pages, NEW i \in 1 .. Len(page[p].table), selectItem(p, i) PROVE TInv'
  BY <1>5, selectItemTInv
<1>6. ASSUME NEW p \in Pages, NEW cid \in Numbers, NEW code \in Codes,
         onClickConfirmAdd(p, cid, code) PROVE TInv'
  BY <1>6, AddTInv
<1>7. ASSUME NEW p \in Pages, NEW cid \in Numbers, NEW code \in Codes,
         onClickConfirmEdit(p, cid, code) PROVE TInv'
  BY <1>7, EditTInv
<1>8. ASSUME NEW p \in Pages, onClickConfirmDel(p) PROVE TInv'
  BY <1>8, DelTInv
<1>9. ASSUME NEW p \in Pages, NEW t \in page[p].timers, Fire(p, t) PROVE TInv'
  BY <1>9, FireTInv
<1>10. CASE UNCHANGED vars
  BY <1>10 DEF vars, TInv, TypeOK, SelectedOnce
<1> QED BY <1>1, <1>2, <1>3, <1>4, <1>5, <1>6, <1>7, <1>8, <1>9, <1>10 DEF Next

\* The tables, the lines, the pages and the numbers keep their types under every
\* handler of admin.jsx, router.js and the server, and no row is selected twice.
THEOREM TypeCorrect == Spec => []TInv
<1> QED BY InitTInv, NextTInv, PTL DEF Spec

-----------------------------------------------------------------------------
\* What disappears from the cars with one statement.
LEMMA ExecuteKeeps ==
  ASSUME NEW cs \in Seq(Car), NEW q \in [Types -> Int], NEW r, NEW s \in OnWs,
         NEW db \in Execute(s, [cars |-> cs, quantity |-> q, reply |-> r]),
         NEW cid \in Cids(cs), cid \notin Cids(db.cars)
  PROVE  \/ s.op = "DELETE" /\ s.cid = cid
         \/ s.op = "UPDATE" /\ s.cid = cid /\ s.car.cid # cid
<1>1. PICK i \in DOMAIN cs : cs[i].cid = cid
  BY CidsIs
<1>2. s.op \in {"SELECT", "INSERT", "DELETE", "UPDATE", "CORRECT"}
  BY StatementIs
<1>3. db.cars \in Seq(Car)
  BY ExecuteTyped
<1>4. \A j \in DOMAIN db.cars : db.cars[j].cid # cid
  BY <1>3, CidsIs
<1>5. CASE s.op = "SELECT"
  <2>1. db.cars = cs
    <3>1. db = [cars |-> cs, quantity |-> q, reply |-> [type |-> "SELECT", data |-> Rows(cs)]]
      BY <1>5, ExecuteSELECT
    <3> QED BY <3>1
  <2> QED BY <1>1, <1>4, <2>1
<1>6. CASE s.op = "CORRECT"
  <2>1. db.cars = cs
    <3>1. db = [cars |-> cs, quantity |-> Corrected(q, s), reply |-> Success]
      BY <1>6, ExecuteCORRECT
    <3> QED BY <3>1
  <2> QED BY <1>1, <1>4, <2>1
<1>7. CASE s.op = "INSERT"
  <2>1. db.cars = IF s.car.code \in Types THEN Append(cs, s.car) ELSE cs
    <3>1. db = [cars |-> Inserted(cs, s.car), quantity |-> q, reply |-> Success]
      BY <1>7, ExecuteINSERT
    <3>2. db.cars = Inserted(cs, s.car)
      BY <3>1
    <3> QED BY <3>2 DEF Inserted
  <2>2. i \in DOMAIN Append(cs, s.car) /\ Append(cs, s.car)[i] = cs[i]
    BY <1>7, AppendIs, StatementIs
  <2> QED BY <1>1, <1>4, <2>1, <2>2
<1>8. CASE s.op = "DELETE"
  <2>1. db.cars \in Deleted(cs, s.cid)
    <3>1. PICK ds \in Deleted(cs, s.cid) : db = [cars |-> ds, quantity |-> q, reply |-> Success]
      BY <1>8, ExecuteDELETE
    <3> QED BY <3>1
  <2>2. cs[i].cid # s.cid => \E k \in DOMAIN db.cars : db.cars[k] = cs[i]
    BY <2>1, DeletedIs
  <2> QED BY <1>1, <1>4, <1>8, <2>2
<1>9. CASE s.op = "UPDATE"
  <2>1. db.cars \in Updated(cs, s.cid, s.car)
    <3>1. PICK ds \in Updated(cs, s.cid, s.car) :
            db = [cars |-> ds, quantity |-> q, reply |-> Success]
      BY <1>9, ExecuteUPDATE
    <3> QED BY <3>1
  <2>2. /\ i \in DOMAIN db.cars
        /\ db.cars[i] = cs[i] \/ (cs[i].cid = s.cid /\ db.cars[i] = s.car)
    BY <1>9, <2>1, StatementIs, UpdatedIs
  <2> QED BY <1>1, <1>4, <1>9, <2>2
<1> QED BY <1>2, <1>5, <1>6, <1>7, <1>8, <1>9

-----------------------------------------------------------------------------
\* Every deletion was meant.
LEMMA TailFrom ==
  ASSUME NEW S, NEW s \in Seq(S), s # <<>>, NEW i \in DOMAIN Tail(s)
  PROVE  \E j \in DOMAIN s : Tail(s)[i] = s[j]
BY TailIs

\* What is left was there before.
LEMMA TailTailFrom ==
  ASSUME NEW S, NEW s \in Seq(S), Len(s) > 1, NEW i \in DOMAIN Tail(Tail(s))
  PROVE  \E j \in DOMAIN s : Tail(Tail(s))[i] = s[j]
<1>1. s # <<>> /\ Tail(s) # <<>> /\ Tail(s) \in Seq(S)
  BY TailTail
<1>2. PICK k \in DOMAIN Tail(s) : Tail(Tail(s))[i] = Tail(s)[k]
  BY <1>1, TailFrom
<1> QED BY <1>1, <1>2, TailFrom

From(u, s, t) ==
  \A i \in DOMAIN u : (\E j \in DOMAIN s : u[i] = s[j]) \/ (\E j \in DOMAIN t : u[i] = t[j])

\* What is in two sequences together was in one of them.
LEMMA ConcatFrom ==
  ASSUME NEW S, NEW s \in Seq(S), NEW t \in Seq(S) PROVE From(s \o t, s, t)
<1> DEFINE u == s \o t
<1>1. /\ u \in Seq(S) /\ Len(u) = Len(s) + Len(t)
      /\ \A k \in 1 .. Len(s) + Len(t) : u[k] = IF k <= Len(s) THEN s[k] ELSE t[k - Len(s)]
  BY ConcatProperties
<1>2. /\ Len(s) \in Nat /\ Len(t) \in Nat /\ DOMAIN s = 1 .. Len(s) /\ DOMAIN t = 1 .. Len(t)
      /\ DOMAIN u = 1 .. Len(s) + Len(t)
  BY <1>1, LenProperties
<1> HIDE DEF u
<1> SUFFICES ASSUME NEW i \in DOMAIN u
             PROVE  (\E j \in DOMAIN s : u[i] = s[j]) \/ (\E j \in DOMAIN t : u[i] = t[j])
  BY DEF From, u
<1>3. CASE i <= Len(s)
  <2>1. i \in 1 .. Len(s)
    BY <1>2, <1>3
  <2> QED BY <1>1, <1>2, <1>3, <2>1
<1>4. CASE ~ (i <= Len(s))
  <2>1. i - Len(s) \in 1 .. Len(t)
    BY <1>2, <1>4
  <2> QED BY <1>1, <1>2, <1>4, <2>1
<1> QED BY <1>3, <1>4

Meant(s, cids) ==
  /\ s.op = "DELETE" => s.cid \in cids
  /\ s.op = "UPDATE" => s.car.cid = s.cid \/ s.cid \in cids

\* The invariant, statement by statement.
LEMMA MeantInvIs ==
  MeantInv <=> /\ \A i \in DOMAIN up["ws"] : Meant(up["ws"][i], meant)
               /\ \A p \in Pages : \A t \in page[p].timers : t.del => t.row.cid \in meant
BY DEF MeantInv, Meant

\* Nothing is on its way to delete a car at the start.
LEMMA InitMeantInv == Init => MeantInv
<1> SUFFICES ASSUME Init PROVE MeantInv
  OBVIOUS
<1>1. up["ws"] = <<>> /\ DOMAIN <<>> = {}
  BY DEF Init, Lines
<1>2. \A p \in Pages : page[p].timers = {}
  <2> SUFFICES ASSUME NEW p \in Pages PROVE page[p].timers = {}
    OBVIOUS
  <2>1. page[p] = [Fresh EXCEPT !.table = Rows(FirstCars), !.shows = TRUE] \/ page[p] = Fresh
    BY DEF Init
  <2> DEFINE first == [Fresh EXCEPT !.table = Rows(FirstCars), !.shows = TRUE]
  <2>2. first.timers = {} /\ Fresh.timers = {}
    BY DEF Fresh
  <2> HIDE DEF first
  <2> QED BY <2>1, <2>2 DEF first
<1> QED BY <1>1, <1>2 DEF MeantInv

\* Other statements under way, all meant.
LEMMA KeepMeantInv ==
  ASSUME TInv, MeantInv, meant \subseteq meant',
         \A i \in DOMAIN up'["ws"] :
           \/ \E j \in DOMAIN up["ws"] : up'["ws"][i] = up["ws"][j]
           \/ Meant(up'["ws"][i], meant'),
         \A p \in Pages : \A t \in page'[p].timers :
           t \in page[p].timers \/ ~ t.del \/ t.row.cid \in meant'
  PROVE  MeantInv'
<1>1. /\ \A i \in DOMAIN up["ws"] : Meant(up["ws"][i], meant)
      /\ \A p \in Pages : \A t \in page[p].timers : t.del => t.row.cid \in meant
  BY MeantInvIs
<1>2. \A i \in DOMAIN up'["ws"] : Meant(up'["ws"][i], meant')
  <2> SUFFICES ASSUME NEW i \in DOMAIN up'["ws"] PROVE Meant(up'["ws"][i], meant')
    OBVIOUS
  <2>1. CASE \E j \in DOMAIN up["ws"] : up'["ws"][i] = up["ws"][j]
    BY <1>1, <2>1 DEF Meant
  <2> QED BY <2>1
<1>3. \A p \in Pages : \A t \in page'[p].timers : t.del => t.row.cid \in meant'
  BY <1>1
<1> QED BY <1>2, <1>3 DEF MeantInv, Meant

\* Serve takes statements only.
LEMMA ServeMeantInv ==
  ASSUME TInv, MeantInv, NEW l \in Lines, Serve(l)
  PROVE  MeantInv' /\ Cids(cars) \ Cids(cars') \subseteq meant'
<1>1. /\ up["ws"] \in Seq(OnWs) /\ up["ws1"] \in Seq(OnWs1)
      /\ up = [m \in Lines |-> up[m]] /\ up[l] # <<>>
      /\ cars \in Seq(Car) /\ quantity \in [Types -> Int]
      /\ \A i \in DOMAIN up["ws"] : Meant(up["ws"][i], meant)
  BY MeantInvIs DEF TInv, TypeOK, Serve
<1>2. UNCHANGED <<page, meant>>
  BY DEF Serve
<1>3. PICK one \in Execute(up[l][1], Start) :
        \/ Took(l, one, one.reply, Tail(up[l]), {})
        \/ /\ Calm /\ Len(up[l]) > 1
           /\ \/ \E two \in Execute(up[l][2], one) :
                   Took(l, two, two.reply, Tail(Tail(up[l])), {"joined"})
              \/ \E reply \in {one.reply, Failed(up[l][2])} :
                   Took(l, one, reply, Tail(Tail(up[l])), {"garbled"})
  BY ServeIs DEF TInv
<1>4. \/ up' = [up EXCEPT ![l] = Tail(up[l])]
      \/ Len(up[l]) > 1 /\ up' = [up EXCEPT ![l] = Tail(Tail(up[l]))]
  BY <1>3 DEF Took
<1>5. \A i \in DOMAIN up'["ws"] : \E j \in DOMAIN up["ws"] : up'["ws"][i] = up["ws"][j]
  <2>1. CASE l = "ws1"
    <3>1. up'["ws"] = up["ws"]
      BY <1>1, <1>4, <2>1, OneLine DEF Lines
    <3> QED BY <3>1
  <2>2. CASE l = "ws"
    <3>1. \/ up'["ws"] = Tail(up["ws"])
          \/ Len(up["ws"]) > 1 /\ up'["ws"] = Tail(Tail(up["ws"]))
      BY <1>1, <1>4, <2>2, OneLine DEF Lines
    <3>2. \A i \in DOMAIN Tail(up["ws"]) :
            \E j \in DOMAIN up["ws"] : Tail(up["ws"])[i] = up["ws"][j]
      BY <1>1, <2>2, TailFrom
    <3>3. Len(up["ws"]) > 1 =>
            \A i \in DOMAIN Tail(Tail(up["ws"])) :
              \E j \in DOMAIN up["ws"] : Tail(Tail(up["ws"]))[i] = up["ws"][j]
      BY <1>1, TailTailFrom
    <3> QED BY <3>1, <3>2, <3>3
  <2> QED BY <2>1, <2>2 DEF Lines
<1>6. MeantInv'
  BY <1>2, <1>5, KeepMeantInv
<1>7. ASSUME NEW cid \in Cids(cars), cid \notin Cids(cars')
      PROVE  cid \in meant
  <2>1. one \in Execute(up[l][1], [cars |-> cars, quantity |-> quantity, reply |-> Success])
    BY DEF Start
  <2>2. \/ cars' = one.cars
        \/ Len(up[l]) > 1 /\ \E two \in Execute(up[l][2], one) : cars' = two.cars
    BY <1>3 DEF Took
  <2>3. CASE l = "ws1"
    <3>1. up[l][1] \in OnWs1 /\ (Len(up[l]) > 1 => up[l][2] \in OnWs1)
      BY <1>1, <2>3, TailIs, TailTail
    <3>2. /\ one = [cars |-> one.cars, quantity |-> one.quantity, reply |-> one.reply]
          /\ one.cars = cars /\ one.quantity = quantity
      BY <1>1, <2>1, <3>1, QuestionKeeps
    <3>3. ASSUME Len(up[l]) > 1, NEW two \in Execute(up[l][2], one) PROVE two.cars = cars
      <4>1. two \in Execute(up[l][2], [cars |-> one.cars, quantity |-> one.quantity,
                                        reply |-> one.reply])
        BY <3>2
      <4>2. one.cars \in Seq(Car) /\ one.quantity \in [Types -> Int]
        BY <1>1, <3>2
      <4>3. two.cars = one.cars
        BY <3>1, <3>3, <4>1, <4>2, QuestionKeeps
      <4> QED BY <3>2, <4>3
    <3>4. cars' = cars
      BY <2>2, <3>2, <3>3
    <3> QED BY <1>7, <3>4
  <2>4. CASE l = "ws"
    <3>1. /\ up[l][1] \in OnWs /\ Meant(up[l][1], meant)
          /\ Len(up[l]) > 1 => up[l][2] \in OnWs /\ Meant(up[l][2], meant)
      <4>1. /\ 1 \in DOMAIN up[l] /\ up[l][1] \in OnWs
            /\ Len(up[l]) > 1 => 2 \in DOMAIN up[l] /\ up[l][2] \in OnWs
        BY <1>1, <2>4, TailIs, TailTail
      <4> QED BY <1>1, <2>4, <4>1
    <3>2. /\ one = [cars |-> one.cars, quantity |-> one.quantity, reply |-> one.reply]
          /\ one.cars \in Seq(Car) /\ one.quantity \in [Types -> Int]
      BY <1>1, <2>1, <3>1, ExecuteTyped
    <3>3. cid \notin Cids(one.cars) => cid \in meant
      <4>1. ASSUME cid \notin Cids(one.cars)
            PROVE  \/ up[l][1].op = "DELETE" /\ up[l][1].cid = cid
                   \/ up[l][1].op = "UPDATE" /\ up[l][1].cid = cid /\ up[l][1].car.cid # cid
        BY <1>1, <1>7, <2>1, <3>1, <4>1, ExecuteKeeps
      <4> QED BY <3>1, <4>1 DEF Meant
    <3>4. ASSUME Len(up[l]) > 1, NEW two \in Execute(up[l][2], one),
                 cid \in Cids(one.cars), cid \notin Cids(two.cars)
          PROVE  cid \in meant
      <4>1. two \in Execute(up[l][2], [cars |-> one.cars, quantity |-> one.quantity,
                                        reply |-> one.reply])
        BY <3>2
      <4>2. \/ up[l][2].op = "DELETE" /\ up[l][2].cid = cid
            \/ up[l][2].op = "UPDATE" /\ up[l][2].cid = cid /\ up[l][2].car.cid # cid
        BY <3>1, <3>2, <3>4, <4>1, ExecuteKeeps
      <4> QED BY <3>1, <3>4, <4>2 DEF Meant
    <3> QED BY <1>7, <2>2, <3>3, <3>4
  <2> QED BY <2>3, <2>4 DEF Lines
<1>8. Cids(cars) \ Cids(cars') \subseteq meant'
  BY <1>2, <1>7
<1> QED BY <1>6, <1>8

\* Deliver sends corrections only, which delete nothing.
LEMMA DeliverMeantInv ==
  ASSUME TInv, MeantInv, NEW l \in Lines, Deliver(l) PROVE MeantInv'
<1>1. /\ up["ws"] \in Seq(OnWs) /\ up = [m \in Lines |-> up[m]] /\ page \in [Pages -> Page]
      /\ last \in Pages /\ UNCHANGED meant /\ faults \subseteq faults'
  BY DeliverIs DEF TInv, TypeOK
<1>2. \A p \in Pages : page'[p].timers = page[p].timers
  <2>1. CASE UNCHANGED page
    BY <2>1
  <2>2. CASE page' = [page EXCEPT ![last].table = down["ws"][1].data]
    BY <1>1, <2>2 DEF Page
  <2> QED BY <2>1, <2>2, DeliverIs DEF TInv
<1>3. ASSUME NEW i \in DOMAIN up'["ws"]
      PROVE  \/ \E j \in DOMAIN up["ws"] : up'["ws"][i] = up["ws"][j]
             \/ Meant(up'["ws"][i], meant')
  <2>1. CASE UNCHANGED up
    BY <1>3, <2>1
  <2> DEFINE s == Correction(down["ws1"][1].data[1], page[last].ask)
  <2>2. CASE up' = [up EXCEPT !["ws"] = Append(@, s)]
    <3>1. up'["ws"] = Append(up["ws"], s)
      BY <1>1, <2>2 DEF Lines
    <3>2. Meant(s, meant')
      BY DEF Meant, Correction
    <3>3. up["ws"] \in Seq(OnWs \cup {s})
      <4> HIDE DEF OnWs, s
      <4> QED BY <1>1, SeqMonotonic
    <3> HIDE DEF s
    <3>4. /\ \A k \in DOMAIN up["ws"] : Append(up["ws"], s)[k] = up["ws"][k]
          /\ DOMAIN up["ws"] = 1 .. Len(up["ws"]) /\ Len(up["ws"]) \in Nat
          /\ DOMAIN Append(up["ws"], s) = 1 .. Len(up["ws"]) + 1
          /\ Append(up["ws"], s)[Len(up["ws"]) + 1] = s
      <4> HIDE DEF OnWs
      <4> QED BY <3>3, AppendIs
    <3>5. i \in DOMAIN up["ws"] \/ i = Len(up["ws"]) + 1
      BY <1>3, <3>1, <3>4
    <3> QED BY <3>1, <3>2, <3>4, <3>5
  <2> QED BY <2>1, <2>2, DeliverIs DEF TInv
<1> QED BY <1>1, <1>2, <1>3, KeepMeantInv

\* A click keeps the invariant when what it sends and its timers were meant.
LEMMA ClickMeantInv ==
  ASSUME TInv, MeantInv, NEW p \in Pages, NEW ws \in Seq(OnWs), NEW ws1 \in Seq(OnWs1),
         NEW what, Click(p, ws, ws1, what), meant \subseteq meant',
         \A i \in DOMAIN ws : Meant(ws[i], meant'),
         \A o \in Pages : \A t \in page'[o].timers :
           t \in page[o].timers \/ ~ t.del \/ t.row.cid \in meant'
  PROVE  MeantInv'
<1>1. up'["ws"] = up["ws"] \o ws /\ faults \subseteq faults' /\ up["ws"] \in Seq(OnWs)
  BY ClickIs DEF Sent, TInv, TypeOK
<1>2. ASSUME NEW i \in DOMAIN up'["ws"]
      PROVE  \/ \E j \in DOMAIN up["ws"] : up'["ws"][i] = up["ws"][j]
             \/ Meant(up'["ws"][i], meant')
  <2>1. \/ \E j \in DOMAIN up["ws"] : up'["ws"][i] = up["ws"][j]
        \/ \E j \in DOMAIN ws : up'["ws"][i] = ws[j]
    <3>1. From(up["ws"] \o ws, up["ws"], ws)
      <4> HIDE DEF OnWs
      <4> QED BY <1>1, ConcatFrom
    <3> QED BY <1>1, <1>2, <3>1 DEF From
  <2> QED BY <2>1
<1> QED BY <1>1, <1>2, KeepMeantInv

\* Reading the sheet deletes nothing.
LEMMA SelectIsMeant == ASSUME NEW cids PROVE Meant(SELECTCARINFO, cids)
BY DEF Meant, SELECTCARINFO

\* selectSheet deletes nothing.
LEMMA selectSheetMeantInv ==
  ASSUME TInv, MeantInv, NEW p \in Pages, selectSheet(p) PROVE MeantInv'
<1>1. \A o \in Pages : page'[o].timers = page[o].timers
  <2>1. page[p] \in Page
    BY SelOnce
  <2>2. page'[p] = [page[p] EXCEPT !.shows = TRUE]
    BY selectSheetIs
  <2>3. page'[p].timers = page[p].timers
    BY <2>1, <2>2 DEF Page
  <2> QED BY <2>3, selectSheetIs
<1>2. \A i \in DOMAIN <<SELECTCARINFO>> : Meant(<<SELECTCARINFO>>[i], meant')
  BY SelectIsMeant
<1>3. /\ Click(p, <<SELECTCARINFO>>, <<>>, {}) /\ UNCHANGED meant
      /\ <<SELECTCARINFO>> \in Seq(OnWs) /\ <<>> \in Seq(OnWs1)
  BY selectSheetIs
<1> QED BY <1>1, <1>2, <1>3, ClickMeantInv

\* onClickConfirmAdd deletes nothing.
LEMMA AddMeantInv ==
  ASSUME TInv, MeantInv, NEW p \in Pages, NEW cid \in Numbers, NEW code \in Codes,
         onClickConfirmAdd(p, cid, code)
  PROVE  MeantInv'
<1> DEFINE car == [cid |-> cid, code |-> code]
           ask == [op |-> "QUANTITY", code |-> code]
           what == Hasty(p) \cup Taken(cid)
<1>1. /\ Click(p, AddStatements(car), <<ask>>, what)
      /\ AddStatements(car) \in Seq(OnWs) /\ <<ask>> \in Seq(OnWs1)
      /\ page'[p] = [page[p] EXCEPT !.ask = [code |-> code, delta |-> 1], !.done = "add"]
      /\ \A o \in Pages : o # p => page'[o] = page[o]
  BY AddIs, SelOnce
<1>2. \A o \in Pages : page'[o].timers = page[o].timers
  <2>1. page[p] \in Page
    BY SelOnce
  <2>2. page'[p].timers = page[p].timers
    BY <1>1, <2>1 DEF Page
  <2> QED BY <1>1, <2>2
<1>3. \A i \in DOMAIN AddStatements(car) : Meant(AddStatements(car)[i], meant')
  <2>1. Meant([op |-> "INSERT", car |-> car], meant')
    BY DEF Meant
  <2> HIDE DEF car
  <2> QED BY <2>1, SelectIsMeant DEF AddStatements
<1>4. UNCHANGED meant
  BY DEF onClickConfirmAdd
<1> HIDE DEF car, ask, what
<1> QED BY <1>1, <1>2, <1>3, <1>4, ClickMeantInv

\* What onClickConfirmDel is going to delete is put into meant.
LEMMA DelMeantInv ==
  ASSUME TInv, MeantInv, NEW p \in Pages, onClickConfirmDel(p) PROVE MeantInv'
<1>1. /\ Click(p, <<SELECTCARINFO>>, <<>>, Hasty(p) \cup Stale(p))
      /\ <<SELECTCARINFO>> \in Seq(OnWs) /\ <<>> \in Seq(OnWs1)
      /\ page'[p] = [page[p] EXCEPT !.timers = @ \cup Deletions(p), !.sel = <<>>,
                                    !.done = "del"]
      /\ \A o \in Pages : o # p => page'[o] = page[o]
      /\ meant' = meant \cup {page[p].table[i].cid : i \in Range(Chosen(p))}
  BY DelIs
<1>2. \A t \in Deletions(p) : t.row.cid \in meant'
  <2> SUFFICES ASSUME NEW k \in 1 .. Len(Chosen(p))
               PROVE  page[p].table[Chosen(p)[k]].cid \in meant'
    BY DEF Deletions, Timer
  <2>1. Chosen(p)[k] \in Range(Chosen(p))
    BY ChosenIs DEF Range
  <2> QED BY <1>1, <2>1
<1>3. /\ page'[p].timers = page[p].timers \cup Deletions(p)
      /\ \A o \in Pages : o # p => page'[o].timers = page[o].timers
  BY <1>1 DEF TInv, TypeOK, Page
<1>4. \A i \in DOMAIN <<SELECTCARINFO>> : Meant(<<SELECTCARINFO>>[i], meant')
  BY SelectIsMeant
<1>5. \A o \in Pages : \A t \in page'[o].timers : t \in page[o].timers \/ t.row.cid \in meant'
  BY <1>2, <1>3
<1> QED BY <1>1, <1>4, <1>5, ClickMeantInv

\* A cid that onClickConfirmEdit is going to write another over is put into meant.
LEMMA EditMeantInv ==
  ASSUME TInv, MeantInv, NEW p \in Pages, NEW cid \in Numbers, NEW code \in Codes,
         onClickConfirmEdit(p, cid, code)
  PROVE  MeantInv'
<1>1. PICK old \in Car, new \in Car :
        LET s == [op |-> "UPDATE", cid |-> old.cid, car |-> new]
        IN /\ Click(p, <<s, SELECTCARINFO>>, <<>>, Amiss(p, old, new))
           /\ <<s, SELECTCARINFO>> \in Seq(OnWs) /\ <<>> \in Seq(OnWs1)
           /\ s \in OnWs
           /\ \E i \in DOMAIN page[p].table : old = page[p].table[i]
           /\ EditTimers(old, new) \in SUBSET Timers
           /\ page' \in [Pages -> Page] /\ SelectedOnce'
           /\ page'[p] = [page[p] EXCEPT !.timers = @ \cup EditTimers(old, new),
                                         !.sel = <<>>, !.done = "edit"]
           /\ \A o \in Pages : o # p => page'[o] = page[o]
           /\ meant' = meant \cup Renumbered(old, new)
  BY EditIs, Zenon
<1> DEFINE s == [op |-> "UPDATE", cid |-> old.cid, car |-> new]
<1>2. new.cid # old.cid => old.cid \in meant'
  BY <1>1 DEF Renumbered
<1>3. Meant(s, meant')
  BY <1>2 DEF Meant
<1>4. \A t \in EditTimers(old, new) : ~ t.del
  BY DEF EditTimers, Timer
<1>5. /\ page'[p].timers = page[p].timers \cup EditTimers(old, new)
      /\ \A o \in Pages : o # p => page'[o].timers = page[o].timers
  BY <1>1 DEF TInv, TypeOK, Page
<1>6. /\ Click(p, <<s, SELECTCARINFO>>, <<>>, Amiss(p, old, new))
      /\ <<s, SELECTCARINFO>> \in Seq(OnWs) /\ <<>> \in Seq(OnWs1) /\ meant \subseteq meant'
  BY <1>1
<1> HIDE DEF s
<1>7. \A i \in DOMAIN <<s, SELECTCARINFO>> : Meant(<<s, SELECTCARINFO>>[i], meant')
  BY <1>3, SelectIsMeant
<1>8. \A o \in Pages : \A t \in page'[o].timers : t \in page[o].timers \/ ~ t.del
  BY <1>4, <1>5
<1> QED BY <1>6, <1>7, <1>8, ClickMeantInv

\* A timer deletes the row it was made for.
LEMMA FireMeantInv ==
  ASSUME TInv, MeantInv, NEW p \in Pages, NEW t \in page[p].timers, Fire(p, t) PROVE MeantInv'
<1> DEFINE s == [op |-> "DELETE", cid |-> t.row.cid]
<1>1. /\ UNCHANGED meant /\ faults \subseteq faults' /\ up["ws"] \in Seq(OnWs) /\ s \in OnWs
      /\ up'["ws"] = IF t.del THEN Append(up["ws"], s) ELSE up["ws"]
  BY FireIs DEF TInv, TypeOK
<1>2. \A o \in Pages : page'[o].timers \subseteq page[o].timers
  <2>1. page[p] \in Page
    BY SelOnce
  <2>2. page'[p] = [page[p] EXCEPT !.timers = @ \ {t},
                                   !.ask = [code |-> t.row.code, delta |-> t.delta]]
    BY FireIs
  <2>3. page'[p].timers = page[p].timers \ {t}
    BY <2>1, <2>2 DEF Page
  <2> QED BY <2>3, FireIs
<1>3. t.del => Meant(s, meant')
  BY <1>1 DEF MeantInv, Meant
<1> HIDE DEF s
<1>4. ASSUME NEW i \in DOMAIN up'["ws"]
      PROVE  \/ \E j \in DOMAIN up["ws"] : up'["ws"][i] = up["ws"][j]
             \/ Meant(up'["ws"][i], meant')
  <2>1. CASE ~ t.del
    BY <1>1, <1>4, <2>1
  <2>2. CASE t.del
    <3>1. /\ \A k \in DOMAIN up["ws"] : Append(up["ws"], s)[k] = up["ws"][k]
          /\ DOMAIN up["ws"] = 1 .. Len(up["ws"]) /\ Len(up["ws"]) \in Nat
          /\ DOMAIN Append(up["ws"], s) = 1 .. Len(up["ws"]) + 1
          /\ Append(up["ws"], s)[Len(up["ws"]) + 1] = s
      <4> HIDE DEF OnWs
      <4> QED BY <1>1, AppendIs
    <3>2. i \in DOMAIN up["ws"] \/ i = Len(up["ws"]) + 1
      BY <1>1, <1>4, <2>2, <3>1
    <3> QED BY <1>1, <1>3, <2>2, <3>1, <3>2
  <2> QED BY <2>1, <2>2
<1> QED BY <1>1, <1>2, <1>4, KeepMeantInv

\* Steps that send nothing.
LEMMA SameMeantInv ==
  ASSUME TInv, MeantInv, UNCHANGED <<up, meant>>,
         \A p \in Pages : page'[p].timers \subseteq page[p].timers
  PROVE  MeantInv'
BY KeepMeantInv

\* what a step keeps and what it deletes
Meanwhile == MeantInv' /\ Cids(cars) \ Cids(cars') \subseteq meant'

\* Every step keeps the invariant and deletes what was meant only.
LEMMA NextMeantInv ==
  TInv /\ MeantInv /\ [Next]_vars
    => MeantInv' /\ Cids(cars) \ Cids(cars') \subseteq meant'
<1> SUFFICES ASSUME TInv, MeantInv, [Next]_vars
             PROVE  /\ MeantInv'
                    /\ Cids(cars) \ Cids(cars') \subseteq meant'
  OBVIOUS
<1>0. UNCHANGED cars /\ MeantInv' => Meanwhile
  BY DEF Meanwhile
<1>1. ASSUME NEW l \in Lines, Serve(l) PROVE Meanwhile
  BY <1>1, ServeMeantInv DEF Meanwhile
<1>2. ASSUME NEW l \in Lines, Deliver(l) PROVE Meanwhile
  BY <1>0, <1>2, DeliverMeantInv DEF Deliver
<1>3. ASSUME NEW p \in Pages, Open(p) PROVE Meanwhile
  <2>1. \A o \in Pages : page'[o].timers \subseteq page[o].timers
    BY <1>3, FreshIsAPage DEF Open, Fresh, TInv, TypeOK
  <2>2. faults \subseteq faults' /\ UNCHANGED <<up, meant, cars>>
    BY <1>3 DEF Open
  <2> QED BY <1>0, <2>1, <2>2, SameMeantInv
<1>4. ASSUME NEW p \in Pages, selectSheet(p) PROVE Meanwhile
  BY <1>0, <1>4, selectSheetMeantInv DEF selectSheet, Click
<1>5. ASSUME NEW p \in Pages, NEW i \in 1 .. Len(page[p].table), selectItem(p, i) PROVE Meanwhile
  <2>1. \A o \in Pages : page'[o].timers \subseteq page[o].timers
    BY <1>5, selectItemIs
  <2>2. faults \subseteq faults' /\ UNCHANGED <<up, meant, cars>>
    BY <1>5 DEF selectItem
  <2> QED BY <1>0, <2>1, <2>2, SameMeantInv
<1>6. ASSUME NEW p \in Pages, NEW cid \in Numbers, NEW code \in Codes,
         onClickConfirmAdd(p, cid, code) PROVE Meanwhile
  BY <1>0, <1>6, AddMeantInv DEF onClickConfirmAdd, Click
<1>7. ASSUME NEW p \in Pages, NEW cid \in Numbers, NEW code \in Codes,
         onClickConfirmEdit(p, cid, code) PROVE Meanwhile
  BY <1>0, <1>7, EditMeantInv DEF onClickConfirmEdit, Click
<1>8. ASSUME NEW p \in Pages, onClickConfirmDel(p) PROVE Meanwhile
  BY <1>0, <1>8, DelMeantInv DEF onClickConfirmDel, Click
<1>9. ASSUME NEW p \in Pages, NEW t \in page[p].timers, Fire(p, t) PROVE Meanwhile
  BY <1>0, <1>9, FireMeantInv DEF Fire
<1>10. ASSUME UNCHANGED vars PROVE Meanwhile
  <2>1. /\ faults \subseteq faults' /\ UNCHANGED <<up, meant, cars>>
        /\ \A o \in Pages : page'[o].timers \subseteq page[o].timers
    BY <1>10 DEF vars
  <2> QED BY <1>0, <2>1, SameMeantInv
<1>11. Meanwhile
  BY <1>1, <1>2, <1>3, <1>4, <1>5, <1>6, <1>7, <1>8, <1>9, <1>10 DEF Next
<1> QED BY <1>11 DEF Meanwhile

\* A cid disappears only when a user has confirmed the deletion of a row that
\* showed it or an edit that writes another over it, however late the timers of
\* onClickConfirmDel are, whatever is joined or lost and whatever cids two cars have.
THEOREM DeletionsWereMeant == Spec => DeletesMeant
<1>1. TInv /\ MeantInv /\ [Next]_vars
        => [Cids(cars) \ Cids(cars') \subseteq meant']_vars
  BY NextMeantInv
<1>2. Spec => [](TInv /\ MeantInv)
  <2>1. TInv /\ MeantInv /\ [Next]_vars => (TInv /\ MeantInv)'
    BY NextTInv, NextMeantInv
  <2> QED BY InitTInv, InitMeantInv, <2>1, PTL DEF Spec
<1> QED BY <1>1, <1>2, PTL DEF Spec, DeletesMeant

-----------------------------------------------------------------------------
\* The rows on display.
\* What is still to be read or shown, after one statement or reply more or less.
LEMMA ReadAfterTail ==
  ASSUME NEW ws \in Seq(OnWs), ws # <<>>, WillBeRead(ws)
  PROVE  WillBeRead(Tail(ws)) \/ (ws[1].op = "SELECT" /\ NoChange(Tail(ws)))
<1> DEFINE n == Len(ws)
           tl == Tail(ws)
<1>1. /\ n \in Nat \ {0} /\ DOMAIN ws = 1 .. n /\ DOMAIN tl = 1 .. n - 1
      /\ \A i \in 1 .. n - 1 : tl[i] = ws[i + 1]
  <2> HIDE DEF OnWs
  <2> QED BY TailIs
<1> HIDE DEF n, tl
<1>2. PICK i \in 1 .. n :
        ws[i].op = "SELECT" /\ \A j \in 1 .. n : j > i => ws[j].op \notin ChangeOps
  BY <1>1 DEF WillBeRead
<1>3. CASE i = 1
  <2>1. \A k \in 1 .. n - 1 : tl[k].op \notin ChangeOps
    <3> SUFFICES ASSUME NEW k \in 1 .. n - 1 PROVE tl[k].op \notin ChangeOps
      OBVIOUS
    <3>1. k + 1 \in 1 .. n /\ k + 1 > i
      BY <1>1, <1>3
    <3> QED BY <1>1, <1>2, <3>1
  <2> QED BY <1>1, <1>2, <1>3, <2>1 DEF NoChange, tl
<1>4. CASE i # 1
  <2>1. i - 1 \in 1 .. n - 1 /\ (i - 1) + 1 = i
    BY <1>1, <1>4
  <2>2. tl[i - 1].op = "SELECT"
    BY <1>1, <1>2, <2>1
  <2>3. \A k \in 1 .. n - 1 : k > i - 1 => tl[k].op \notin ChangeOps
    <3> SUFFICES ASSUME NEW k \in 1 .. n - 1, k > i - 1 PROVE tl[k].op \notin ChangeOps
      OBVIOUS
    <3>1. k + 1 \in 1 .. n /\ k + 1 > i
      BY <1>1
    <3> QED BY <1>1, <1>2, <3>1
  <2> QED BY <1>1, <2>1, <2>2, <2>3 DEF WillBeRead, tl
<1> QED BY <1>3, <1>4

\* Where there is no change, none comes by taking one away.
LEMMA NoChangeAfterTail ==
  ASSUME NEW ws \in Seq(OnWs), ws # <<>>, NoChange(ws)
  PROVE  NoChange(Tail(ws)) /\ ws[1].op \notin ChangeOps
<1>1. /\ 1 \in DOMAIN ws
      /\ \A i \in DOMAIN Tail(ws) : i + 1 \in DOMAIN ws /\ Tail(ws)[i] = ws[i + 1]
  <2> HIDE DEF OnWs
  <2> QED BY TailIs
<1> QED BY <1>1 DEF NoChange

\* A statement that changes nothing, at the end.
LEMMA AppendNoChange ==
  ASSUME NEW ws \in Seq(OnWs), NEW s \in OnWs, s.op \notin ChangeOps
  PROVE  /\ NoChange(ws) => NoChange(Append(ws, s))
         /\ WillBeRead(ws) => WillBeRead(Append(ws, s))
<1> DEFINE n == Len(ws)
           a == Append(ws, s)
<1>1. /\ n \in Nat /\ DOMAIN ws = 1 .. n /\ DOMAIN a = 1 .. n + 1
      /\ \A i \in 1 .. n : a[i] = ws[i]
      /\ a[n + 1] = s
  <2> HIDE DEF OnWs
  <2> QED BY AppendIs
<1> HIDE DEF n, a
<1>2. \A i \in 1 .. n + 1 : i \in 1 .. n \/ i = n + 1
  BY <1>1
<1>3. NoChange(ws) => NoChange(a)
  BY <1>1, <1>2 DEF NoChange
<1>4. ASSUME WillBeRead(ws) PROVE WillBeRead(a)
  <2>1. PICK i \in 1 .. n :
          ws[i].op = "SELECT" /\ \A j \in 1 .. n : j > i => ws[j].op \notin ChangeOps
    BY <1>1, <1>4 DEF WillBeRead
  <2>2. i \in DOMAIN a /\ a[i].op = "SELECT"
    BY <1>1, <2>1
  <2>3. \A j \in DOMAIN a : j > i => a[j].op \notin ChangeOps
    BY <1>1, <1>2, <2>1
  <2> QED BY <2>2, <2>3 DEF WillBeRead
<1> QED BY <1>3, <1>4 DEF a

\* The sheet is read after all that is under way.
LEMMA ReadAtTheEnd ==
  ASSUME NEW ws \in Seq(OnWs), NEW v \in Seq(OnWs), v # <<>>, v[Len(v)] = SELECTCARINFO
  PROVE  WillBeRead(ws \o v)
<1> DEFINE n == Len(ws)
           m == Len(v)
           w == ws \o v
<1>1. n \in Nat /\ m \in Nat /\ m # 0
  BY LenProperties, EmptySeq
<1>2. /\ w \in Seq(OnWs) /\ Len(w) = n + m
      /\ \A i \in 1 .. n + m : w[i] = IF i <= n THEN ws[i] ELSE v[i - n]
  BY ConcatProperties
<1>3. DOMAIN w = 1 .. n + m
  BY <1>2, LenProperties
<1>4. v[m].op = "SELECT"
  BY DEF SELECTCARINFO
<1> HIDE DEF n, m, w
<1>5. n + m \in 1 .. n + m /\ ~ (n + m <= n) /\ (n + m) - n = m
  BY <1>1
<1>6. w[n + m].op = "SELECT"
  BY <1>2, <1>4, <1>5
<1>7. \A j \in 1 .. n + m : ~ (j > n + m)
  BY <1>1
<1> QED BY <1>3, <1>5, <1>6, <1>7 DEF WillBeRead, w

\* A reply that shows the rows there are, or leaves the sheet as it was.
LEMMA ShownAfterAppend ==
  ASSUME NEW cs, NEW dn \in Seq(Reply(Car)), NEW table, NEW r \in Reply(Car),
         \/ r.type # "SELECT" /\ WillBeShown(cs, dn, table)
         \/ r.type = "SELECT" /\ r.data = Rows(cs)
  PROVE  WillBeShown(cs, Append(dn, r), table)
<1> DEFINE n == Len(dn)
           a == Append(dn, r)
<1>1. /\ n \in Nat /\ DOMAIN dn = 1 .. n /\ DOMAIN a = 1 .. n + 1
      /\ \A i \in 1 .. n : a[i] = dn[i]
      /\ a[n + 1] = r
  <2> HIDE DEF Reply
  <2> QED BY AppendIs
<1> HIDE DEF n, a
<1>2. \A i \in 1 .. n + 1 : i \in 1 .. n \/ i = n + 1
  BY <1>1
<1>3. CASE r.type # "SELECT" /\ WillBeShown(cs, dn, table)
  <2>1. CASE (\A i \in DOMAIN dn : dn[i].type # "SELECT") /\ table = Rows(cs)
    <3>1. \A i \in DOMAIN a : a[i].type # "SELECT"
      BY <1>1, <1>2, <1>3, <2>1
    <3> QED BY <2>1, <3>1 DEF WillBeShown, a
  <2>2. ASSUME NEW i \in DOMAIN dn, dn[i].type = "SELECT", dn[i].data = Rows(cs),
               \A j \in DOMAIN dn : j > i => dn[j].type # "SELECT"
        PROVE  WillBeShown(cs, a, table)
    <3>1. i \in DOMAIN a /\ a[i] = dn[i]
      BY <1>1, <2>2
    <3>2. \A j \in DOMAIN a : j > i => a[j].type # "SELECT"
      BY <1>1, <1>2, <1>3, <2>2
    <3> QED BY <2>2, <3>1, <3>2 DEF WillBeShown
  <2> QED BY <1>3, <2>1, <2>2 DEF WillBeShown, a
<1>4. CASE r.type = "SELECT" /\ r.data = Rows(cs)
  <2>1. n + 1 \in DOMAIN a /\ a[n + 1] = r /\ \A j \in DOMAIN a : ~ (j > n + 1)
    BY <1>1
  <2> QED BY <1>4, <2>1 DEF WillBeShown, a
<1> QED BY <1>3, <1>4

\* The first reply comes in.
LEMMA ShownAfterTail ==
  ASSUME NEW cs, NEW dn \in Seq(Reply(Car)), NEW table, dn # <<>>, WillBeShown(cs, dn, table)
  PROVE  WillBeShown(cs, Tail(dn), IF dn[1].type = "SELECT" THEN dn[1].data ELSE table)
<1> DEFINE n == Len(dn)
           tl == Tail(dn)
           new == IF dn[1].type = "SELECT" THEN dn[1].data ELSE table
<1>1. /\ n \in Nat \ {0} /\ DOMAIN dn = 1 .. n /\ DOMAIN tl = 1 .. n - 1
      /\ \A i \in 1 .. n - 1 : tl[i] = dn[i + 1]
  <2> HIDE DEF Reply
  <2> QED BY TailIs
<1> HIDE DEF n, tl
<1>2. \A k \in 1 .. n - 1 : k + 1 \in 1 .. n
  BY <1>1
<1>3. CASE (\A i \in DOMAIN dn : dn[i].type # "SELECT") /\ table = Rows(cs)
  <2>1. \A k \in DOMAIN tl : tl[k].type # "SELECT"
    BY <1>1, <1>2, <1>3
  <2>2. new = Rows(cs)
    BY <1>1, <1>3
  <2> HIDE DEF new
  <2>3. WillBeShown(cs, tl, new)
    BY <2>1, <2>2 DEF WillBeShown
  <2> QED BY <2>3 DEF new, tl
<1>4. ASSUME NEW i \in 1 .. n, dn[i].type = "SELECT", dn[i].data = Rows(cs),
             \A j \in 1 .. n : j > i => dn[j].type # "SELECT"
      PROVE  WillBeShown(cs, tl, new)
  <2>1. CASE i = 1
    <3>1. \A k \in DOMAIN tl : tl[k].type # "SELECT"
      <4> SUFFICES ASSUME NEW k \in 1 .. n - 1 PROVE tl[k].type # "SELECT"
        BY <1>1
      <4>1. k + 1 \in 1 .. n /\ k + 1 > i
        BY <1>1, <2>1
      <4> QED BY <1>1, <1>4, <4>1
    <3>2. new = Rows(cs)
      BY <1>4, <2>1
    <3> HIDE DEF new
    <3> QED BY <3>1, <3>2 DEF WillBeShown
  <2>2. CASE i # 1
    <3>1. i - 1 \in 1 .. n - 1 /\ (i - 1) + 1 = i
      BY <1>1, <2>2
    <3>2. tl[i - 1] = dn[i]
      BY <1>1, <3>1
    <3>3. \A k \in 1 .. n - 1 : k > i - 1 => tl[k].type # "SELECT"
      <4> SUFFICES ASSUME NEW k \in 1 .. n - 1, k > i - 1 PROVE tl[k].type # "SELECT"
        OBVIOUS
      <4>1. k + 1 \in 1 .. n /\ k + 1 > i
        BY <1>1
      <4> QED BY <1>1, <1>4, <4>1
    <3> HIDE DEF new
    <3> QED BY <1>1, <1>4, <3>1, <3>2, <3>3 DEF WillBeShown
  <2> QED BY <2>1, <2>2
<1> QED BY <1>1, <1>3, <1>4 DEF WillBeShown, tl

\* The sheet at the start shows the cars there are.
LEMMA InitFreshInv == Init => FreshInv
<1> SUFFICES ASSUME Init PROVE FreshInv
  OBVIOUS
<1> DEFINE first == [Fresh EXCEPT !.table = Rows(FirstCars), !.shows = TRUE]
<1>1. first.done = "none" /\ Fresh.done = "none"
  BY DEF Fresh
<1> HIDE DEF first
<1>2. page = [p \in Pages |-> IF p = FirstPage THEN first ELSE Fresh] /\ last \in Pages
  BY PagesAssumption DEF Init, first
<1>3. page[last].done = "none"
  <2> HIDE DEF Init
  <2> QED BY <1>1, <1>2
<1> QED BY <1>3 DEF FreshInv

\* A statement is executed: what it changes will be read by a later SELECT, and
\* what it reads is the answer to be shown.
LEMMA CurrentAfterOne ==
  ASSUME NEW cs \in Seq(Car), NEW q \in [Types -> Int], NEW r, NEW ws \in Seq(OnWs), ws # <<>>,
         NEW dn \in Seq(Reply(Car)), NEW pg, Current(cs, ws, dn, pg),
         NEW db \in Execute(ws[1], [cars |-> cs, quantity |-> q, reply |-> r])
  PROVE  Current(db.cars, Tail(ws), Append(dn, db.reply), pg)
<1> DEFINE s == ws[1]
<1>1. s \in OnWs /\ s.op \in {"SELECT", "INSERT", "DELETE", "UPDATE", "CORRECT"}
  <2>1. s \in OnWs
    <3> HIDE DEF OnWs
    <3> QED BY TailIs
  <2> HIDE DEF s
  <2> QED BY <2>1, StatementIs
<1>2. db.reply \in Reply(Car)
  <2> HIDE DEF OnWs, Reply, s
  <2> QED BY <1>1, ExecuteTyped DEF s
<1>3. \/ WillBeRead(Tail(ws))
      \/ s.op = "SELECT" /\ NoChange(Tail(ws))
      \/ /\ s.op \notin ChangeOps /\ NoChange(Tail(ws))
         /\ WillBeShown(cs, dn, pg.table)
      \/ ~ pg.shows
  BY ReadAfterTail, NoChangeAfterTail DEF Current
<1>4. CASE s.op = "SELECT"
  <2>1. db = [cars |-> cs, quantity |-> q, reply |-> [type |-> "SELECT", data |-> Rows(cs)]]
    <3> HIDE DEF s
    <3> QED BY <1>4, ExecuteSELECT DEF s
  <2>2. db.cars = cs /\ db.reply.type = "SELECT" /\ db.reply.data = Rows(cs)
    BY <2>1
  <2>3. WillBeShown(cs, Append(dn, db.reply), pg.table)
    <3> HIDE DEF Reply
    <3> QED BY <1>2, <2>2, ShownAfterAppend
  <2> QED BY <1>3, <2>2, <2>3 DEF Current
<1>5. CASE s.op = "CORRECT"
  <2>1. db = [cars |-> cs, quantity |-> Corrected(q, s), reply |-> Success]
    <3> HIDE DEF s
    <3> QED BY <1>5, ExecuteCORRECT DEF s
  <2>2. db.cars = cs /\ db.reply.type = "OK"
    BY <2>1 DEF Success
  <2>3. WillBeShown(cs, dn, pg.table) => WillBeShown(cs, Append(dn, db.reply), pg.table)
    <3> HIDE DEF Reply
    <3> QED BY <1>2, <2>2, ShownAfterAppend
  <2> QED BY <1>3, <1>5, <2>2, <2>3 DEF Current
<1>6. CASE s.op \in ChangeOps
  <2>1. WillBeRead(Tail(ws)) \/ ~ pg.shows
    BY <1>3, <1>6 DEF ChangeOps
  <2> QED BY <2>1 DEF Current
<1> QED BY <1>1, <1>4, <1>5, <1>6 DEF ChangeOps

\* Serve keeps what is to be shown.
LEMMA ServeFreshInv ==
  ASSUME TInv, FreshInv, NEW l \in Lines, Serve(l) PROVE FreshInv'
<1> SUFFICES ASSUME Followed(faults'), page[last].done \in {"add", "edit"}
             PROVE  Current(cars', up'["ws"], down'["ws"], page[last])
  BY DEF FreshInv, Serve
<1>1. /\ up["ws"] \in Seq(OnWs) /\ up["ws1"] \in Seq(OnWs1) /\ down["ws"] \in Seq(Reply(Car))
      /\ up = [m \in Lines |-> up[m]] /\ down = [m \in Lines |-> down[m]] /\ up[l] # <<>>
      /\ cars \in Seq(Car) /\ quantity \in [Types -> Int]
  BY DEF TInv, TypeOK, Serve
<1>2. PICK one \in Execute(up[l][1], Start) : Took(l, one, one.reply, Tail(up[l]), {})
  <2>1. PICK one \in Execute(up[l][1], Start) :
          \/ Took(l, one, one.reply, Tail(up[l]), {})
          \/ \E two \in Execute(up[l][2], one) :
               Took(l, two, two.reply, Tail(Tail(up[l])), {"joined"})
          \/ \E reply \in {one.reply, Failed(up[l][2])} :
               Took(l, one, reply, Tail(Tail(up[l])), {"garbled"})
    <3> HIDE DEF Start
    <3> QED BY ServeIs DEF TInv
  <2>2. \A db, reply, rest : /\ ~ Took(l, db, reply, rest, {"joined"})
                            /\ ~ Took(l, db, reply, rest, {"garbled"})
    BY DEF Took, Followed
  <2>3. Took(l, one, one.reply, Tail(up[l]), {})
    BY <2>1, <2>2
  <2> QED BY <2>3
<1>3. one \in Execute(up[l][1], [cars |-> cars, quantity |-> quantity, reply |-> Success])
  BY DEF Start
<1>4. Current(cars, up["ws"], down["ws"], page[last])
  BY <1>2 DEF FreshInv, Took
<1>5. /\ cars' = one.cars
      /\ up'[l] = Tail(up[l]) /\ \A m \in Lines : m # l => up'[m] = up[m]
      /\ down'[l] = Append(down[l], one.reply) /\ \A m \in Lines : m # l => down'[m] = down[m]
  BY <1>1, <1>2, OneLine DEF Took
<1>6. CASE l = "ws"
  <2>1. Current(one.cars, Tail(up["ws"]), Append(down["ws"], one.reply), page[last])
    <3> HIDE DEF OnWs, Reply
    <3> QED BY <1>1, <1>3, <1>4, <1>6, CurrentAfterOne
  <2> QED BY <1>5, <1>6, <2>1
<1>7. CASE l = "ws1"
  <2>1. up[l][1] \in OnWs1
    BY <1>1, <1>7, TailIs
  <2> DEFINE r == [type |-> "SELECT", data |-> Quantity(quantity, up[l][1].code)]
  <2>2. one = [cars |-> cars, quantity |-> quantity, reply |-> r]
    <3>1. /\ one \in Execute(up[l][1],
                            [cars |-> cars, quantity |-> quantity, reply |-> Success])
          /\ cars \in Seq(Car) /\ quantity \in [Types -> Int]
      BY <1>1, <1>3
    <3>2. one = [cars |-> cars, quantity |-> quantity, reply |-> r] /\ r \in Reply(Int)
      BY <2>1, <3>1, QuestionTyped
    <3> QED BY <3>2
  <2> HIDE DEF r
  <2>3. one.cars = cars
    BY <2>2
  <2>4. up'["ws"] = up["ws"] /\ down'["ws"] = down["ws"]
    BY <1>5, <1>7 DEF Lines
  <2> QED BY <1>4, <1>5, <2>3, <2>4
<1> QED BY <1>6, <1>7 DEF Lines

\* Deliver keeps what is to be shown.
LEMMA DeliverFreshInv ==
  ASSUME TInv, FreshInv, NEW l \in Lines, Deliver(l) PROVE FreshInv'
<1>1. /\ up["ws"] \in Seq(OnWs) /\ down["ws"] \in Seq(Reply(Car))
      /\ up = [m \in Lines |-> up[m]] /\ down = [m \in Lines |-> down[m]] /\ down[l] # <<>>
      /\ page \in [Pages -> Page] /\ last \in Pages /\ page[last] \in Page
  BY DEF TInv, TypeOK, Deliver
<1>2. /\ UNCHANGED <<cars, last>>
      /\ page'[last].done = page[last].done /\ page'[last].shows = page[last].shows
      /\ page'[last].timers = page[last].timers
  <2>1. CASE UNCHANGED page
    BY <2>1, DeliverIs DEF TInv
  <2>2. CASE page' = [page EXCEPT ![last].table = down["ws"][1].data]
    BY <1>1, <2>2, DeliverIs DEF Page, TInv
  <2> QED BY <2>1, <2>2, DeliverIs DEF TInv
<1> SUFFICES ASSUME Followed(faults'), page[last].done \in {"add", "edit"}
             PROVE  Current(cars, up'["ws"], down'["ws"], page'[last])
  BY <1>2 DEF FreshInv
<1>3. "joined" \notin faults'
  BY DEF Followed
<1>4. UNCHANGED faults /\ down' = [down EXCEPT ![l] = Tail(@)]
  BY <1>3, DeliverIs DEF TInv
<1>5. Current(cars, up["ws"], down["ws"], page[last])
  BY <1>4 DEF FreshInv
<1>6. CASE l = "ws"
  <2>1. up' = up /\ page' = IF page[last].shows /\ down["ws"][1].type = "SELECT"
                            THEN [page EXCEPT ![last].table = down["ws"][1].data] ELSE page
    BY <1>3, <1>6, DeliverIs DEF TInv
  <2>2. down'["ws"] = Tail(down["ws"])
    BY <1>1, <1>4, <1>6 DEF Lines
  <2>3. page[last].shows =>
          page'[last].table = IF down["ws"][1].type = "SELECT" THEN down["ws"][1].data
                              ELSE page[last].table
    <3>1. CASE page[last].shows /\ down["ws"][1].type = "SELECT"
      <4>1. page' = [page EXCEPT ![last].table = down["ws"][1].data]
        BY <2>1, <3>1
      <4> QED BY <1>1, <3>1, <4>1 DEF Page
    <3>2. CASE ~ (page[last].shows /\ down["ws"][1].type = "SELECT")
      BY <2>1, <3>2
    <3> QED BY <3>1, <3>2
  <2>4. WillBeShown(cars, down["ws"], page[last].table)
          => WillBeShown(cars, Tail(down["ws"]),
                         IF down["ws"][1].type = "SELECT" THEN down["ws"][1].data
                         ELSE page[last].table)
    <3> HIDE DEF Reply
    <3> QED BY <1>1, <1>6, ShownAfterTail
  <2> QED BY <1>2, <1>5, <2>1, <2>2, <2>3, <2>4 DEF Current
<1>7. CASE l = "ws1"
  <2>1. down'["ws"] = down["ws"] /\ page' = page
    BY <1>1, <1>3, <1>4, <1>7, DeliverIs DEF Lines, TInv
  <2>2. CASE up' = up
    BY <1>5, <2>1, <2>2
  <2> DEFINE s == Correction(down["ws1"][1].data[1], page[last].ask)
  <2>3. CASE down["ws1"][1].data # <<>> /\ up' = [up EXCEPT !["ws"] = Append(@, s)]
    <3>1. up'["ws"] = Append(up["ws"], s)
      BY <1>1, <2>3 DEF Lines
    <3>2. s \in OnWs
      <4>1. down["ws1"] \in Seq(Reply(Int))
        BY DEF TInv, TypeOK
      <4>2. down["ws1"][1] \in Reply(Int)
        BY <1>1, <1>7, <4>1, TailIs
      <4>3. down["ws1"][1].data \in Seq(Int)
        BY <4>2 DEF Reply
      <4>4. down["ws1"][1].data[1] \in Int
        BY <2>3, <4>3, TailIs
      <4>5. page[last].ask \in [code: Code, delta: {-1, 0, 1}]
        BY <1>1 DEF Page
      <4> QED BY <4>4, <4>5, CorrectionIs
    <3>3. s.op = "CORRECT"
      BY DEF Correction
    <3> HIDE DEF s
    <3>4. /\ NoChange(up["ws"]) => NoChange(Append(up["ws"], s))
          /\ WillBeRead(up["ws"]) => WillBeRead(Append(up["ws"], s))
      <4>1. s.op \notin ChangeOps
        BY <3>3 DEF ChangeOps
      <4> HIDE DEF OnWs
      <4> QED BY <1>1, <3>2, <4>1, AppendNoChange
    <3> QED BY <1>5, <2>1, <3>1, <3>4 DEF Current
  <2> QED BY <1>3, <1>7, <2>2, <2>3, DeliverIs DEF TInv
<1> QED BY <1>6, <1>7 DEF Lines

\* The page that connected last asks to read the sheet, after all it has sent.
LEMMA ClickFreshInv ==
  ASSUME TInv, FreshInv, NEW p \in Pages, NEW ws \in Seq(OnWs), NEW ws1 \in Seq(OnWs1),
         NEW what, Click(p, ws, ws1, what), ws # <<>>, ws[Len(ws)] = SELECTCARINFO,
         p = last /\ Followed(faults') /\ page'[p].done \in {"add", "edit"}
           => \A t \in page'[p].timers : ~ t.del
  PROVE  FreshInv'
<1>1. /\ last' = last /\ up'["ws"] = up["ws"] \o ws /\ up["ws"] \in Seq(OnWs)
      /\ faults' = faults \cup what \cup Fault("foreign", last # p)
  BY ClickIs DEF Sent, TInv, TypeOK
<1> SUFFICES ASSUME Followed(faults'), page'[last].done \in {"add", "edit"}
             PROVE  Current(cars', up'["ws"], down'["ws"], page'[last])
  BY <1>1 DEF FreshInv
<1>2. p = last
  BY <1>1 DEF Followed, Fault
<1>3. WillBeRead(up["ws"] \o ws)
  <2> HIDE DEF OnWs, SELECTCARINFO
  <2> QED BY <1>1, ReadAtTheEnd
<1> QED BY <1>1, <1>2, <1>3 DEF Current

\* The last of one and of two.
LEMMA OneOrTwo ==
  /\ \A a : <<a>> # <<>> /\ <<a>>[Len(<<a>>)] = a
  /\ \A a, b : <<a, b>> # <<>> /\ <<a, b>>[Len(<<a, b>>)] = b
OBVIOUS

\* selectSheet reads the sheet again.
LEMMA selectSheetFreshInv ==
  ASSUME TInv, FreshInv, NEW p \in Pages, selectSheet(p) PROVE FreshInv'
<1>1. /\ Click(p, <<SELECTCARINFO>>, <<>>, {})
      /\ <<SELECTCARINFO>> \in Seq(OnWs) /\ <<>> \in Seq(OnWs1)
      /\ page[p] \in Page /\ page'[p] = [page[p] EXCEPT !.shows = TRUE]
  BY selectSheetIs, SelOnce
<1>2. page'[p].done = page[p].done /\ page'[p].timers = page[p].timers
  BY <1>1 DEF Page
<1>3. ASSUME p = last, Followed(faults'), page'[p].done \in {"add", "edit"}
      PROVE  \A t \in page'[p].timers : ~ t.del
  <2>1. faults \subseteq faults'
    BY <1>1 DEF Click
  <2>2. Followed(faults)
    BY <1>3, <2>1 DEF Followed
  <2> QED BY <1>2, <1>3, <2>2 DEF FreshInv, Current
<1> HIDE DEF SELECTCARINFO
<1> QED BY <1>1, <1>3, OneOrTwo, ClickFreshInv

\* onClickConfirmAdd reads the sheet after its INSERT.
LEMMA AddFreshInv ==
  ASSUME TInv, FreshInv, NEW p \in Pages, NEW cid \in Numbers, NEW code \in Codes,
         onClickConfirmAdd(p, cid, code)
  PROVE  FreshInv'
<1> DEFINE car == [cid |-> cid, code |-> code]
           ask == [op |-> "QUANTITY", code |-> code]
           s == [op |-> "INSERT", car |-> car]
           what == Hasty(p) \cup Taken(cid)
<1>1. /\ Click(p, AddStatements(car), <<ask>>, what)
      /\ AddStatements(car) \in Seq(OnWs) /\ <<ask>> \in Seq(OnWs1)
      /\ page[p] \in Page
      /\ page'[p] = [page[p] EXCEPT !.ask = [code |-> code, delta |-> 1], !.done = "add"]
  BY AddIs, SelOnce
<1>2. AddStatements(car) = <<s, SELECTCARINFO>>
  BY DEF AddStatements
<1>3. page'[p].timers = page[p].timers
  BY <1>1 DEF Page
<1>4. ASSUME Followed(faults') PROVE \A t \in page'[p].timers : ~ t.del
  <2>1. Quiet
    BY <1>1, <1>4 DEF Click, Hasty, Fault, Followed
  <2> QED BY <1>3, <2>1 DEF Quiet
<1> DEFINE ws == AddStatements(car)
<1>5. ws # <<>> /\ ws[Len(ws)] = SELECTCARINFO
  <2>1. ws = <<s, SELECTCARINFO>>
    BY <1>2
  <2> HIDE DEF SELECTCARINFO, s, ws
  <2> QED BY <2>1, OneOrTwo
<1>6. /\ Click(p, ws, <<ask>>, what) /\ ws \in Seq(OnWs) /\ <<ask>> \in Seq(OnWs1)
  BY <1>1
<1> HIDE DEF ws, ask, what
<1> QED BY <1>4, <1>5, <1>6, ClickFreshInv

\* A deletion is not what the invariant speaks of.
LEMMA DelFreshInv ==
  ASSUME TInv, FreshInv, NEW p \in Pages, onClickConfirmDel(p) PROVE FreshInv'
<1>1. /\ Click(p, <<SELECTCARINFO>>, <<>>, Hasty(p) \cup Stale(p))
      /\ <<SELECTCARINFO>> \in Seq(OnWs) /\ <<>> \in Seq(OnWs1)
      /\ page[p] \in Page
      /\ page'[p] = [page[p] EXCEPT !.timers = @ \cup Deletions(p), !.sel = <<>>,
                                    !.done = "del"]
  BY DelIs, SelOnce
<1>2. page'[p].done = "del"
  BY <1>1 DEF Page
<1>3. page'[p].done \in {"add", "edit"} => \A t \in page'[p].timers : ~ t.del
  BY <1>2
<1> HIDE DEF SELECTCARINFO
<1> QED BY <1>1, <1>3, OneOrTwo, ClickFreshInv

\* onClickConfirmEdit reads the sheet after its UPDATE.
LEMMA EditFreshInv ==
  ASSUME TInv, FreshInv, NEW p \in Pages, NEW cid \in Numbers, NEW code \in Codes,
         onClickConfirmEdit(p, cid, code)
  PROVE  FreshInv'
<1>1. PICK old \in Car, new \in Car :
        LET s == [op |-> "UPDATE", cid |-> old.cid, car |-> new]
        IN /\ Click(p, <<s, SELECTCARINFO>>, <<>>, Amiss(p, old, new))
           /\ <<s, SELECTCARINFO>> \in Seq(OnWs) /\ <<>> \in Seq(OnWs1)
           /\ page'[p] = [page[p] EXCEPT !.timers = @ \cup EditTimers(old, new),
                                         !.sel = <<>>, !.done = "edit"]
           /\ \A o \in Pages : o # p => page'[o] = page[o]
  BY EditIs
<1> DEFINE s == [op |-> "UPDATE", cid |-> old.cid, car |-> new]
           what == Amiss(p, old, new)
<1>2. /\ Click(p, <<s, SELECTCARINFO>>, <<>>, what)
      /\ <<s, SELECTCARINFO>> \in Seq(OnWs) /\ <<>> \in Seq(OnWs1)
  BY <1>1
<1>3. \A t \in EditTimers(old, new) : ~ t.del
  BY DEF EditTimers, Timer
<1>4. page'[p].timers = page[p].timers \cup EditTimers(old, new)
  BY <1>1, SelOnce DEF Page
<1>5. ASSUME Followed(faults') PROVE \A t \in page'[p].timers : ~ t.del
  <2>1. Quiet
    BY <1>2, <1>5 DEF Click, Amiss, Hasty, Fault, Followed
  <2> QED BY <1>3, <1>4, <2>1 DEF Quiet
<1> HIDE DEF SELECTCARINFO, s, what
<1> QED BY <1>2, <1>5, OneOrTwo, ClickFreshInv

\* The timers of an edit change no car.
LEMMA FireFreshInv ==
  ASSUME TInv, FreshInv, NEW p \in Pages, NEW t \in page[p].timers, Fire(p, t)
  PROVE  FreshInv'
<1>1. /\ up'["ws"] = IF t.del THEN Append(up["ws"], [op |-> "DELETE", cid |-> t.row.cid])
                     ELSE up["ws"]
      /\ page[p] \in Page
      /\ page'[p] = [page[p] EXCEPT !.timers = @ \ {t},
                                    !.ask = [code |-> t.row.code, delta |-> t.delta]]
      /\ faults' = faults \cup Fault("slow", ~ SilentNet) \cup Fault("foreign", last # p)
      /\ UNCHANGED <<cars, down, last>>
  BY FireIs, SelOnce
<1> SUFFICES ASSUME Followed(faults'), page'[last].done \in {"add", "edit"}
             PROVE  Current(cars, up'["ws"], down["ws"], page'[last])
  BY <1>1 DEF FreshInv
<1>2. p = last /\ Followed(faults)
  BY <1>1 DEF Followed, Fault
<1>3. /\ page'[p].timers = page[p].timers \ {t} /\ page'[p].done = page[p].done
      /\ page'[p].shows = page[p].shows /\ page'[p].table = page[p].table
  BY <1>1 DEF Page
<1>4. Current(cars, up["ws"], down["ws"], page[last])
  BY <1>2, <1>3 DEF FreshInv
<1>5. ~ t.del
  BY <1>2, <1>4 DEF Current
<1> QED BY <1>1, <1>2, <1>3, <1>4, <1>5 DEF Current

\* Every step keeps what is to be shown.
LEMMA NextFreshInv == TInv /\ FreshInv /\ [Next]_vars => FreshInv'
<1> SUFFICES ASSUME TInv, FreshInv, [Next]_vars PROVE FreshInv'
  OBVIOUS
<1>1. ASSUME NEW l \in Lines, Serve(l) PROVE FreshInv'
  BY <1>1, ServeFreshInv
<1>2. ASSUME NEW l \in Lines, Deliver(l) PROVE FreshInv'
  BY <1>2, DeliverFreshInv
<1>3. ASSUME NEW p \in Pages, Open(p) PROVE FreshInv'
  <2>1. page'[p] = Fresh /\ last' = p
    BY <1>3 DEF Open, TInv, TypeOK
  <2> QED BY <2>1 DEF FreshInv, Fresh
<1>4. ASSUME NEW p \in Pages, selectSheet(p) PROVE FreshInv'
  BY <1>4, selectSheetFreshInv
<1>5. ASSUME NEW p \in Pages, NEW i \in 1 .. Len(page[p].table), selectItem(p, i) PROVE FreshInv'
  <2>1. UNCHANGED <<up, cars, down, last, faults>> /\ last \in Pages
    BY <1>5 DEF selectItem, TInv, TypeOK
  <2>2. /\ page'[last].table = page[last].table /\ page'[last].shows = page[last].shows
        /\ page'[last].timers = page[last].timers /\ page'[last].done = page[last].done
    BY <1>5, <2>1, selectItemIs
  <2> QED BY <2>1, <2>2 DEF FreshInv, Current
<1>6. ASSUME NEW p \in Pages, NEW cid \in Numbers, NEW code \in Codes,
         onClickConfirmAdd(p, cid, code) PROVE FreshInv'
  BY <1>6, AddFreshInv
<1>7. ASSUME NEW p \in Pages, NEW cid \in Numbers, NEW code \in Codes,
         onClickConfirmEdit(p, cid, code) PROVE FreshInv'
  BY <1>7, EditFreshInv
<1>8. ASSUME NEW p \in Pages, onClickConfirmDel(p) PROVE FreshInv'
  BY <1>8, DelFreshInv
<1>9. ASSUME NEW p \in Pages, NEW t \in page[p].timers, Fire(p, t) PROVE FreshInv'
  BY <1>9, FireFreshInv
<1>10. CASE UNCHANGED vars
  BY <1>10 DEF vars, FreshInv
<1> QED BY <1>1, <1>2, <1>3, <1>4, <1>5, <1>6, <1>7, <1>8, <1>9, <1>10 DEF Next

\* When nothing is under way, what is to be shown is shown.
LEMMA FreshInvShows == TInv /\ FreshInv => ShownFresh
<1> SUFFICES ASSUME TInv, FreshInv, Quiet, Followed(faults), page[last].shows,
                    page[last].done \in {"add", "edit"}
             PROVE  page[last].table = Rows(cars)
  BY DEF ShownFresh, Followed
<1>1. Current(cars, up["ws"], down["ws"], page[last])
  BY DEF FreshInv
<1>2. up["ws"] = <<>> /\ down["ws"] = <<>>
  BY DEF Quiet, SilentNet, Lines
<1>3. DOMAIN <<>> = {}
  OBVIOUS
<1>4. ~ WillBeRead(up["ws"])
  BY <1>2, <1>3 DEF WillBeRead
<1>5. WillBeShown(cars, down["ws"], page[last].table)
  BY <1>1, <1>4 DEF Current
<1> QED BY <1>2, <1>3, <1>5 DEF WillBeShown

\* Once nothing is under way, the SELECT that onClickConfirmAdd and
\* onClickConfirmEdit send has brought the rows of the server on display,
\* unless something of what ShownFresh leaves out has happened.
THEOREM ChangesAreShown == Spec => []ShownFresh
<1>1. TInv /\ FreshInv /\ [Next]_vars => (TInv /\ FreshInv)'
  BY NextTInv, NextFreshInv
<1> QED BY InitTInv, InitFreshInv, <1>1, FreshInvShows, PTL DEF Spec

-----------------------------------------------------------------------------
\* The books.
\* v has the change of ws, or neither has one; the same of the correction.
SameChange(v, ws) ==
  /\ \A i \in DOMAIN v : v[i].op \in ChangeOps => \E j \in DOMAIN ws : ws[j] = v[i]
  /\ NoChange(v) => NoChange(ws)
  /\ NoChange(ws) => NoChange(v)
  /\ OneChange(v)

OnlyCorrection(ws) ==
  \A i, j \in DOMAIN ws : ws[i].op = "CORRECT" /\ ws[j].op = "CORRECT" => i = j

SameCorrection(v, ws) ==
  /\ \A i \in DOMAIN v : v[i].op = "CORRECT" => \E j \in DOMAIN ws : ws[j] = v[i]
  /\ NoCorrection(v) => NoCorrection(ws)
  /\ NoCorrection(ws) => NoCorrection(v)
  /\ OnlyCorrection(v)

\* The same change on the same rows has the same effect.
LEMMA SameEffect ==
  ASSUME NEW cs, NEW ws, NEW v, NEW t, NEW d, SameChange(v, ws), Effect(cs, ws, t, d)
  PROVE  Effect(cs, v, t, d)
<1>1. NoChange(v) => d = 0
  BY DEF SameChange, Effect
<1>2. ASSUME NEW i \in DOMAIN v
      PROVE  /\ v[i].op = "INSERT" => v[i].car.cid \notin Cids(cs) /\ d = If(v[i].car.code = t, 1)
             /\ v[i].op = "DELETE" =>
                  \E a \in DOMAIN cs : cs[a].cid = v[i].cid /\ d = - If(cs[a].code = t, 1)
             /\ v[i].op = "UPDATE" =>
                  \E a \in DOMAIN cs : /\ cs[a].cid = v[i].cid
                                       /\ d = If(v[i].car.code = t, 1) - If(cs[a].code = t, 1)
  <2>1. CASE v[i].op \in ChangeOps
    <3>1. PICK j \in DOMAIN ws : ws[j] = v[i]
      BY <2>1 DEF SameChange
    <3> QED BY <3>1 DEF Effect
  <2>2. CASE v[i].op \notin ChangeOps
    BY <2>2 DEF ChangeOps
  <2> QED BY <2>1, <2>2
<1> QED BY <1>1, <1>2 DEF Effect

\* No change has no effect.
LEMMA NoEffect == ASSUME NEW cs, NEW ws, NEW t, NoChange(ws) PROVE Effect(cs, ws, t, 0)
BY DEF NoChange, Effect, ChangeOps

\* The same correction owes the same.
LEMMA SameOwed ==
  ASSUME NEW q, NEW ws, NEW v, NEW ws1, NEW dn1, NEW ask, NEW t, NEW c,
         SameCorrection(v, ws), Owed(q, ws, ws1, dn1, ask, t, c)
  PROVE  Owed(q, v, ws1, dn1, ask, t, c)
BY DEF SameCorrection, Owed

\* No correction owes nothing.
LEMMA NothingOwed ==
  ASSUME NEW q, NEW ws, NEW ask, NEW t, NoCorrection(ws)
  PROVE  Owed(q, ws, <<>>, <<>>, ask, t, 0)
BY DEF NoCorrection, Owed

\* The same correction is still the only one.
LEMMA SameOneCorrection ==
  ASSUME NEW ws, NEW v, NEW ws1, NEW dn1, SameCorrection(v, ws), OneCorrection(ws, ws1, dn1)
  PROVE  OneCorrection(v, ws1, dn1)
BY DEF SameCorrection, OneCorrection, OnlyCorrection

\* The timers of a click stay in order as long as their rows stay.
Kept(cs, ds, timers) ==
  \A u \in timers :
    u.del /\ (\E a \in DOMAIN cs : cs[a] = u.row) => \E a \in DOMAIN ds : ds[a] = u.row

\* The timers still have their rows.
LEMMA SameOneClick ==
  ASSUME NEW cs, NEW ds, NEW ws, NEW v, NEW timers, OneClick(cs, ws, timers),
         Kept(cs, ds, timers), SameChange(v, ws) \/ NoChange(v)
  PROVE  OneClick(ds, v, timers)
<1>1. \A u \in timers : u.del => \E a \in DOMAIN ds : ds[a] = u.row
  BY DEF OneClick, Kept
<1>2. ASSUME NEW u \in timers, u.del, NEW i \in DOMAIN v
      PROVE  v[i].op \notin {"INSERT", "UPDATE"} /\ (v[i].op = "DELETE" => v[i].cid # u.row.cid)
  <2>1. CASE v[i].op \in ChangeOps
    <3>1. PICK j \in DOMAIN ws : ws[j] = v[i]
      BY <2>1 DEF SameChange, NoChange
    <3> QED BY <1>2, <3>1 DEF OneClick
  <2>2. CASE v[i].op \notin ChangeOps
    BY <2>2 DEF ChangeOps
  <2> QED BY <2>1, <2>2
<1> QED BY <1>1, <1>2 DEF OneClick

\* Rows that stay are kept.
LEMMA NothingMoved == ASSUME NEW cs, NEW timers PROVE Kept(cs, cs, timers)
BY DEF Kept

\* The first statement goes, and is the change, the correction or neither.
LEMMA TailSame ==
  ASSUME NEW ws \in Seq(OnWs), ws # <<>>, OneChange(ws), OnlyCorrection(ws)
  PROVE  /\ ws[1].op \notin ChangeOps => SameChange(Tail(ws), ws)
         /\ ws[1].op \in ChangeOps => NoChange(Tail(ws)) /\ ~ NoChange(ws)
         /\ ws[1].op # "CORRECT" => SameCorrection(Tail(ws), ws)
         /\ ws[1].op = "CORRECT" => NoCorrection(Tail(ws)) /\ ~ NoCorrection(ws)
         /\ OneChange(Tail(ws)) /\ OnlyCorrection(Tail(ws))
<1> DEFINE n == Len(ws)
           v == Tail(ws)
<1>1. /\ n \in Nat \ {0} /\ DOMAIN ws = 1 .. n /\ DOMAIN v = 1 .. n - 1
      /\ \A i \in 1 .. n - 1 : v[i] = ws[i + 1]
  <2> HIDE DEF OnWs
  <2> QED BY TailIs
<1> HIDE DEF n, v
<1>2. /\ 1 \in DOMAIN ws
      /\ \A i \in DOMAIN v : i + 1 \in DOMAIN ws /\ i + 1 # 1 /\ v[i] = ws[i + 1]
      /\ \A i, j \in DOMAIN v : i + 1 = j + 1 => i = j
      /\ \A j \in DOMAIN ws : j = 1 \/ \E i \in DOMAIN v : v[i] = ws[j]
  <2>1. 1 \in 1 .. n /\ \A i \in 1 .. n - 1 : i + 1 \in 1 .. n /\ i + 1 # 1
    BY <1>1
  <2>2. \A i, j \in 1 .. n - 1 : i + 1 = j + 1 => i = j
    BY <1>1
  <2>3. ASSUME NEW j \in 1 .. n, j # 1 PROVE \E i \in 1 .. n - 1 : v[i] = ws[j]
    <3>1. j - 1 \in 1 .. n - 1 /\ (j - 1) + 1 = j
      BY <1>1, <2>3
    <3>2. v[j - 1] = ws[j]
      BY <1>1, <3>1
    <3> QED BY <3>1, <3>2
  <2> QED BY <1>1, <2>1, <2>2, <2>3
<1>3. OneChange(v) /\ OnlyCorrection(v)
  BY <1>2 DEF OneChange, OnlyCorrection
<1>4. ws[1].op \notin ChangeOps => SameChange(v, ws)
  BY <1>2, <1>3 DEF SameChange, NoChange
<1>5. ws[1].op \in ChangeOps => NoChange(v) /\ ~ NoChange(ws)
  BY <1>2 DEF OneChange, NoChange
<1>6. ws[1].op # "CORRECT" => SameCorrection(v, ws)
  BY <1>2, <1>3 DEF SameCorrection, NoCorrection
<1>7. ws[1].op = "CORRECT" => NoCorrection(v) /\ ~ NoCorrection(ws)
  BY <1>2 DEF OnlyCorrection, NoCorrection
<1> QED BY <1>3, <1>4, <1>5, <1>6, <1>7 DEF v

\* A statement with no change comes.
LEMMA AppendSame ==
  ASSUME NEW ws \in Seq(OnWs), NEW s \in OnWs, s.op \notin ChangeOps,
         OneChange(ws), OnlyCorrection(ws)
  PROVE  /\ SameChange(Append(ws, s), ws)
         /\ s.op # "CORRECT" => SameCorrection(Append(ws, s), ws)
         /\ s.op = "CORRECT" /\ NoCorrection(ws) =>
              /\ OnlyCorrection(Append(ws, s)) /\ ~ NoCorrection(Append(ws, s))
              /\ \A i \in DOMAIN Append(ws, s) :
                   Append(ws, s)[i].op = "CORRECT" => Append(ws, s)[i] = s
<1> DEFINE n == Len(ws)
           v == Append(ws, s)
<1>1. /\ n \in Nat /\ DOMAIN ws = 1 .. n /\ DOMAIN v = 1 .. n + 1
      /\ \A i \in 1 .. n : v[i] = ws[i]
      /\ v[n + 1] = s
  <2> HIDE DEF OnWs
  <2> QED BY AppendIs
<1> HIDE DEF n, v
<1>2. /\ \A i \in DOMAIN v : i = n + 1 \/ (i \in DOMAIN ws /\ v[i] = ws[i])
      /\ \A i \in DOMAIN ws : i \in DOMAIN v /\ v[i] = ws[i]
      /\ n + 1 \in DOMAIN v /\ v[n + 1] = s
  <2>1. \A i \in 1 .. n + 1 : i = n + 1 \/ i \in 1 .. n
    BY <1>1
  <2>2. \A i \in 1 .. n : i \in 1 .. n + 1
    BY <1>1
  <2>3. n + 1 \in 1 .. n + 1
    BY <1>1
  <2> QED BY <1>1, <2>1, <2>2, <2>3
<1>3. OneChange(v)
  BY <1>2 DEF OneChange
<1>4. SameChange(v, ws)
  BY <1>2, <1>3 DEF SameChange, NoChange
<1>5. s.op # "CORRECT" => OnlyCorrection(v)
  BY <1>2 DEF OnlyCorrection
<1>6. s.op # "CORRECT" => SameCorrection(v, ws)
  BY <1>2, <1>5 DEF SameCorrection, NoCorrection
<1>7. s.op = "CORRECT" /\ NoCorrection(ws) =>
        /\ OnlyCorrection(v) /\ ~ NoCorrection(v)
        /\ \A i \in DOMAIN v : v[i].op = "CORRECT" => v[i] = s
  BY <1>2 DEF OnlyCorrection, NoCorrection
<1> QED BY <1>4, <1>6, <1>7 DEF v

\* The updates there were are still in place.
LEMMA InPlaceAfter ==
  ASSUME NEW cs, NEW ws, NEW v, InPlace(cs, ws), SameChange(v, ws)
  PROVE  InPlace(cs, v)
<1> SUFFICES ASSUME NEW i \in DOMAIN v, v[i].op = "UPDATE"
             PROVE  v[i].car.cid = v[i].cid \/ v[i].car.cid \notin Cids(cs)
  BY DEF InPlace
<1>1. PICK j \in DOMAIN ws : ws[j] = v[i]
  BY DEF SameChange, ChangeOps
<1> QED BY <1>1 DEF InPlace

\* What changes nothing is in place.
LEMMA NothingInPlace == ASSUME NEW cs, NEW v, NoChange(v) PROVE InPlace(cs, v)
BY DEF NoChange, ChangeOps, InPlace

\* The cars change as the change under way says, and the books stay.
LEMMA BooksChanged ==
  ASSUME NEW cs, NEW ds, NEW q, NEW ws, NEW v, NEW ws1, NEW dn1, NEW ask, NEW timers,
         Books(cs, q, ws, ws1, dn1, ask, timers),
         SameCorrection(v, ws), NoChange(v), Kept(cs, ds, timers), Keyed(ds),
         \A t \in Types : Having(cs, t) \in Int,
         \A t \in Types : \A d \in Int :
           Effect(cs, ws, t, d) => Having(ds, t) = Having(cs, t) + d
  PROVE  Books(ds, q, v, ws1, dn1, ask, timers)
<1>1. OneChange(v)
  BY DEF NoChange, OneChange
<1>2. OneCorrection(v, ws1, dn1) /\ Asked(q, ws1, dn1, ask)
  BY SameOneCorrection DEF Books
<1>3. OneClick(ds, v, timers) /\ InPlace(ds, v)
  BY SameOneClick, NothingInPlace DEF Books
<1>4. ASSUME NEW t \in Types PROVE Balanced(ds, q, v, ws1, dn1, ask, timers, t)
  <2>1. PICK d \in Int, c \in Int, e \in Int :
          /\ Effect(cs, ws, t, d) /\ Owed(q, ws, ws1, dn1, ask, t, c) /\ Timed(timers, t, e)
          /\ Having(cs, t) + d = q[t] + c + e
    BY DEF Books, Balanced
  <2>2. Effect(ds, v, t, 0) /\ Owed(q, v, ws1, dn1, ask, t, c)
    BY <2>1, NoEffect, SameOwed
  <2>3. Having(ds, t) = q[t] + c + e
    BY <2>1
  <2>4. Having(ds, t) + 0 = q[t] + c + e
    <3>1. Having(ds, t) = Having(cs, t) + d /\ Having(cs, t) \in Int
      BY <2>1
    <3> QED BY <2>3, <3>1
  <2> QED BY <2>1, <2>2, <2>4 DEF Balanced
<1> QED BY <1>1, <1>2, <1>3, <1>4 DEF Books

\* Statements that change nothing come or go.
LEMMA BooksSame ==
  ASSUME NEW cs, NEW q, NEW ws, NEW v, NEW ws1, NEW dn1, NEW ask, NEW timers,
         Books(cs, q, ws, ws1, dn1, ask, timers),
         SameCorrection(v, ws), SameChange(v, ws)
  PROVE  Books(cs, q, v, ws1, dn1, ask, timers)
<1>1. OneChange(v) /\ (NoChange(v) <=> NoChange(ws))
  BY DEF SameChange
<1>2. OneCorrection(v, ws1, dn1) /\ Asked(q, ws1, dn1, ask)
  BY SameOneCorrection DEF Books
<1>3. OneClick(cs, v, timers) /\ InPlace(cs, v)
  BY SameOneClick, InPlaceAfter, NothingMoved DEF Books
<1>4. ASSUME NEW t \in Types PROVE Balanced(cs, q, v, ws1, dn1, ask, timers, t)
  <2>1. PICK d \in Int, c \in Int, e \in Int :
          /\ Effect(cs, ws, t, d) /\ Owed(q, ws, ws1, dn1, ask, t, c) /\ Timed(timers, t, e)
          /\ Having(cs, t) + d = q[t] + c + e
    BY DEF Books, Balanced
  <2>2. Effect(cs, v, t, d) /\ Owed(q, v, ws1, dn1, ask, t, c)
    BY <2>1, SameEffect, SameOwed
  <2> QED BY <2>1, <2>2 DEF Balanced
<1> QED BY <1>1, <1>2, <1>3, <1>4 DEF Books

\* The correction is written: the quantity is what was owed, and none is under way.
LEMMA BooksCorrected ==
  ASSUME NEW cs, NEW q \in [Types -> Int], NEW s \in OnWs, NEW ws, NEW v, NEW ws1, NEW dn1,
         NEW ask, NEW timers,
         Books(cs, q, ws, ws1, dn1, ask, timers),
         s.op = "CORRECT", \E i \in DOMAIN ws : ws[i] = s, NoCorrection(v), SameChange(v, ws)
  PROVE  Books(cs, Corrected(q, s), v, ws1, dn1, ask, timers)
<1>1. OneChange(v) /\ (NoChange(v) <=> NoChange(ws))
  BY DEF SameChange
<1>2. ws1 = <<>> /\ dn1 = <<>>
  BY DEF Books, OneCorrection, NoCorrection
<1>3. OneCorrection(v, ws1, dn1) /\ Asked(Corrected(q, s), ws1, dn1, ask)
  BY <1>2 DEF NoCorrection, OneCorrection, Asked
<1>4. OneClick(cs, v, timers) /\ InPlace(cs, v)
  BY SameOneClick, InPlaceAfter, NothingMoved DEF Books
<1>5. ASSUME NEW t \in Types PROVE Balanced(cs, Corrected(q, s), v, ws1, dn1, ask, timers, t)
  <2>1. PICK d \in Int, c \in Int, e \in Int :
          /\ Effect(cs, ws, t, d) /\ Owed(q, ws, ws1, dn1, ask, t, c) /\ Timed(timers, t, e)
          /\ Having(cs, t) + d = q[t] + c + e
    BY DEF Books, Balanced
  <2>2. Effect(cs, v, t, d)
    BY <2>1, SameEffect
  <2>3. c = If(s.code = t, s.to - q[t])
    BY <2>1 DEF Owed
  <2>4. Owed(Corrected(q, s), v, ws1, dn1, ask, t, 0)
    BY <1>2, NothingOwed
  <2>5. Corrected(q, s)[t] = IF s.code = t THEN s.to ELSE q[t]
    BY DEF Corrected
  <2>6. q[t] \in Int /\ s.to \in Int
    BY StatementIs
  <2>7. Corrected(q, s)[t] = q[t] + c
    BY <2>3, <2>5, <2>6 DEF If
  <2>8. Having(cs, t) + d = Corrected(q, s)[t] + 0 + e
    BY <2>1, <2>6, <2>7
  <2> DEFINE p == Corrected(q, s)
  <2> HIDE DEF p
  <2>9. Balanced(cs, p, v, ws1, dn1, ask, timers, t)
    BY <2>1, <2>2, <2>4, <2>8 DEF Balanced, p
  <2> QED BY <2>9 DEF p
<1> QED BY <1>1, <1>3, <1>4, <1>5 DEF Books

\* What each change does to the cars.
LEMMA HavingInt == ASSUME NEW cs \in Seq(Car) PROVE \A t : Having(cs, t) \in Int
<1>1. \A t : Having(cs, t) \in Nat
  BY HavingType
<1> QED BY <1>1

\* The rows after an INSERT.
LEMMA InsertedIs ==
  ASSUME NEW cs \in Seq(Car), NEW car \in Car, Keyed(cs),
         car.code \in Types => car.cid \notin Cids(cs),
         NEW ds, ds = Inserted(cs, car)
  PROVE  /\ Keyed(ds)
         /\ \A i \in DOMAIN cs : \E k \in DOMAIN ds : ds[k] = cs[i]
         /\ \A k \in DOMAIN ds : ds[k] = car \/ \E i \in DOMAIN cs : ds[k] = cs[i]
         /\ \A t \in Types : Having(ds, t) = Having(cs, t) + If(car.code = t, 1)
<1>1. CASE car.code \notin Types
  <2>1. ds = cs
    BY <1>1 DEF Inserted
  <2>2. \A t \in Types : If(car.code = t, 1) = 0
    BY <1>1 DEF If
  <2>3. \A t \in Types : Having(cs, t) \in Nat
    BY HavingType
  <2> QED BY <2>1, <2>2, <2>3
<1>2. CASE car.code \in Types
  <2>1. ds = Append(cs, car)
    BY <1>2 DEF Inserted
  <2>2. /\ Append(cs, car) \in Seq(Car) /\ Len(cs) \in Nat /\ DOMAIN cs = 1 .. Len(cs)
        /\ DOMAIN Append(cs, car) = 1 .. Len(cs) + 1
        /\ \A i \in DOMAIN cs : Append(cs, car)[i] = cs[i]
        /\ Append(cs, car)[Len(cs) + 1] = car
    BY AppendIs
  <2> DEFINE n == Len(cs)
  <2> HIDE DEF n
  <2>3. /\ DOMAIN ds = 1 .. n + 1 /\ DOMAIN cs = 1 .. n /\ n \in Nat
        /\ \A i \in 1 .. n : ds[i] = cs[i]
        /\ ds[n + 1] = car
    BY <2>1, <2>2 DEF n
  <2>4. \A k \in 1 .. n + 1 : k \in 1 .. n \/ k = n + 1
    BY <2>3
  <2>5. \A k \in 1 .. n : k \in 1 .. n + 1
    BY <2>3
  <2>6. \A i \in DOMAIN cs : cs[i].cid # car.cid
    BY <1>2, CidsIs
  <2>7. Keyed(ds)
    BY <2>3, <2>4, <2>6 DEF Keyed
  <2>8. \A t \in Types : Having(ds, t) = Having(cs, t) + If(car.code = t, 1)
    BY <2>1, HavingAppend
  <2> QED BY <2>1, <2>2, <2>3, <2>4, <2>5, <2>7, <2>8
<1> QED BY <1>1, <1>2

\* An UPDATE in place keeps the keys.
LEMMA WrittenKeyed ==
  ASSUME NEW cs \in Seq(Car), NEW cid, NEW car \in Car, Keyed(cs),
         car.cid = cid \/ car.cid \notin Cids(cs)
  PROVE  Keyed(Written(cs, cid, car))
<1>1. /\ DOMAIN Written(cs, cid, car) = DOMAIN cs
      /\ \A i \in DOMAIN cs : Written(cs, cid, car)[i] = IF cs[i].cid = cid THEN car ELSE cs[i]
  BY WrittenIs
<1>2. \A i \in DOMAIN cs : cs[i].cid # car.cid \/ car.cid = cid
  BY CidsIs
<1> QED BY <1>1, <1>2 DEF Keyed

\* The books balance after a statement.
LEMMA BooksAfterOne ==
  ASSUME NEW cs \in Seq(Car), NEW q \in [Types -> Int], NEW r, NEW ws \in Seq(OnWs), ws # <<>>,
         NEW ws1, NEW dn1, NEW ask, NEW timers,
         Books(cs, q, ws, ws1, dn1, ask, timers),
         NEW db \in Execute(ws[1], [cars |-> cs, quantity |-> q, reply |-> r])
  PROVE  Books(db.cars, db.quantity, Tail(ws), ws1, dn1, ask, timers)
<1> DEFINE s == ws[1]
           v == Tail(ws)
<1>1. s \in OnWs /\ 1 \in DOMAIN ws
  <2> HIDE DEF OnWs
  <2> QED BY TailIs
<1>2. OneChange(ws) /\ OnlyCorrection(ws)
  BY DEF Books, OneCorrection, OnlyCorrection
<1>3. /\ s.op \notin ChangeOps => SameChange(v, ws)
      /\ s.op \in ChangeOps => NoChange(v) /\ ~ NoChange(ws)
      /\ s.op # "CORRECT" => SameCorrection(v, ws)
      /\ s.op = "CORRECT" => NoCorrection(v)
  <2> HIDE DEF OnWs
  <2> QED BY <1>2, TailSame
<1>4. Keyed(cs)
  BY DEF Books
<1> HIDE DEF s, v
<1>5. db \in Execute(s, [cars |-> cs, quantity |-> q, reply |-> r])
  BY DEF s
<1>6. s.op \in {"SELECT", "INSERT", "DELETE", "UPDATE", "CORRECT"}
  BY <1>1, StatementIs
<1>7. \A t \in Types : Having(cs, t) \in Int
  BY HavingInt
<1>8. s = ws[1]
  BY DEF s
<1> DEFINE Goal(ds, p) == Books(ds, p, v, ws1, dn1, ask, timers)
<1>9. CASE s.op = "SELECT"
  <2>1. db = [cars |-> cs, quantity |-> q, reply |-> [type |-> "SELECT", data |-> Rows(cs)]]
    BY <1>5, <1>9, ExecuteSELECT
  <2>2. Goal(cs, q)
    BY <1>3, <1>9, BooksSame DEF ChangeOps
  <2>3. db.cars = cs /\ db.quantity = q
    BY <2>1
  <2> QED BY <2>2, <2>3 DEF v
<1>10. CASE s.op = "CORRECT"
  <2> DEFINE p == Corrected(q, s)
  <2>1. db = [cars |-> cs, quantity |-> p, reply |-> Success]
    BY <1>5, <1>10, ExecuteCORRECT
  <2>2. Goal(cs, p)
    <3>1. s.op \notin ChangeOps /\ \E i \in DOMAIN ws : ws[i] = s
      BY <1>1, <1>8, <1>10 DEF ChangeOps
    <3>2. Books(cs, Corrected(q, s), v, ws1, dn1, ask, timers)
      <4> HIDE DEF OnWs
      <4> QED BY <1>1, <1>3, <1>10, <3>1, BooksCorrected
    <3> QED BY <3>2
  <2> HIDE DEF p
  <2>3. db.cars = cs /\ db.quantity = p
    BY <2>1
  <2> QED BY <2>2, <2>3 DEF v
<1>11. ASSUME s.op \in ChangeOps, NEW ds, Kept(cs, ds, timers), Keyed(ds),
              \A t \in Types : \A d \in Int :
                Effect(cs, ws, t, d) => Having(ds, t) = Having(cs, t) + d
       PROVE  Books(ds, q, v, ws1, dn1, ask, timers)
  <2>1. SameCorrection(v, ws) /\ NoChange(v)
    BY <1>3, <1>11 DEF ChangeOps
  <2> QED BY <1>7, <1>11, <2>1, BooksChanged
<1>12. CASE s.op = "INSERT"
  <2> DEFINE ds == Inserted(cs, s.car)
  <2>1. db = [cars |-> ds, quantity |-> q, reply |-> Success]
    BY <1>5, <1>12, ExecuteINSERT
  <2>2. ASSUME NEW t \in Types, NEW d \in Int, Effect(cs, ws, t, d)
        PROVE  s.car.cid \notin Cids(cs) /\ d = If(s.car.code = t, 1)
    BY <1>1, <1>8, <1>12, <2>2 DEF Effect
  <2>3. s.car.code \in Types => s.car.cid \notin Cids(cs)
    BY <2>2 DEF Books, Balanced
  <2> HIDE DEF ds
  <2>4. /\ Keyed(ds)
        /\ \A i \in DOMAIN cs : \E k \in DOMAIN ds : ds[k] = cs[i]
        /\ \A t \in Types : Having(ds, t) = Having(cs, t) + If(s.car.code = t, 1)
    <3>1. s.car \in Car
      BY <1>1, <1>12, StatementIs
    <3>2. ds = Inserted(cs, s.car)
      BY DEF ds
    <3> QED BY <1>4, <2>3, <3>1, <3>2, InsertedIs
  <2>5. Kept(cs, ds, timers)
    BY <2>4 DEF Kept
  <2>6. Goal(ds, q)
    BY <1>11, <1>12, <2>2, <2>4, <2>5 DEF ChangeOps
  <2>7. db.cars = ds /\ db.quantity = q
    BY <2>1
  <2> QED BY <2>6, <2>7 DEF v
<1>13. CASE s.op = "DELETE"
  <2>1. PICK ds \in Deleted(cs, s.cid) : db = [cars |-> ds, quantity |-> q, reply |-> Success]
    BY <1>5, <1>13, ExecuteDELETE
  <2> DEFINE cid == s.cid
  <2>2. ds = Without(cs, cid)
    BY <1>4, DeletedIs
  <2>3. /\ \A i \in DOMAIN cs : cs[i].cid # cid => \E k \in DOMAIN ds : ds[k] = cs[i]
        /\ Keyed(ds)
    <3> HIDE DEF cid
    <3> QED BY <1>4, <2>2, WithoutIs
  <2>4. ASSUME NEW t \in Types, NEW d \in Int, Effect(cs, ws, t, d)
        PROVE  Having(ds, t) = Having(cs, t) + d
    <3>1. PICK a \in DOMAIN cs : cs[a].cid = cid /\ d = - If(cs[a].code = t, 1)
      BY <1>1, <1>8, <1>13, <2>4 DEF Effect
    <3>2. Having(Without(cs, cs[a].cid), t) = Having(cs, t) - If(cs[a].code = t, 1)
      BY <1>4, HavingWithout
    <3>3. Having(ds, t) = Having(cs, t) - If(cs[a].code = t, 1)
      BY <2>2, <3>1, <3>2
    <3> QED BY <1>7, <3>1, <3>3 DEF If
  <2>5. Kept(cs, ds, timers)
    <3>1. \A u \in timers : u.del => cid # u.row.cid
      BY <1>1, <1>8, <1>13 DEF Books, OneClick
    <3> QED BY <2>3, <3>1 DEF Kept
  <2>6. Goal(ds, q)
    BY <1>11, <1>13, <2>3, <2>4, <2>5 DEF ChangeOps
  <2>7. db.cars = ds /\ db.quantity = q
    BY <2>1
  <2> QED BY <2>6, <2>7 DEF v
<1>14. CASE s.op = "UPDATE"
  <2>1. PICK ds \in Updated(cs, s.cid, s.car) :
          db = [cars |-> ds, quantity |-> q, reply |-> Success]
    BY <1>5, <1>14, ExecuteUPDATE
  <2>2. s.car \in Car
    BY <1>1, <1>14, StatementIs
  <2>3. ds = Written(cs, s.cid, s.car)
    BY <1>4, <2>2, UpdatedIs
  <2>4. Keyed(ds)
    <3>1. s.car.cid = s.cid \/ s.car.cid \notin Cids(cs)
      BY <1>1, <1>8, <1>14 DEF Books, InPlace
    <3> QED BY <1>4, <2>2, <2>3, <3>1, WrittenKeyed
  <2>5. ASSUME NEW t \in Types, NEW d \in Int, Effect(cs, ws, t, d)
        PROVE  Having(ds, t) = Having(cs, t) + d
    <3>1. PICK a \in DOMAIN cs :
            cs[a].cid = s.cid /\ d = If(s.car.code = t, 1) - If(cs[a].code = t, 1)
      BY <1>1, <1>8, <1>14, <2>5 DEF Effect
    <3>2. Having(Written(cs, cs[a].cid, s.car), t)
            = Having(cs, t) + If(s.car.code = t, 1) - If(cs[a].code = t, 1)
      BY <1>4, <2>2, HavingWritten
    <3>3. Having(ds, t) = Having(cs, t) + If(s.car.code = t, 1) - If(cs[a].code = t, 1)
      BY <2>3, <3>1, <3>2
    <3> QED BY <1>7, <3>1, <3>3 DEF If
  <2>6. Kept(cs, ds, timers)
    <3>1. \A u \in timers : ~ u.del
      BY <1>1, <1>8, <1>14 DEF Books, OneClick
    <3> QED BY <3>1 DEF Kept
  <2>7. Goal(ds, q)
    BY <1>11, <1>14, <2>4, <2>5, <2>6 DEF ChangeOps
  <2>8. db.cars = ds /\ db.quantity = q
    BY <2>1
  <2> QED BY <2>7, <2>8 DEF v
<1> QED BY <1>6, <1>9, <1>10, <1>12, <1>13, <1>14

\* A question is answered with the quantity that is to be corrected.
LEMMA BooksAnswered ==
  ASSUME NEW cs, NEW q, NEW ws, NEW ws1 \in Seq(OnWs1), ws1 # <<>>, NEW dn1, NEW ask,
         NEW timers, Books(cs, q, ws, ws1, dn1, ask, timers),
         NEW r, r.data = Quantity(q, ws1[1].code)
  PROVE  /\ Len(ws1) = 1 /\ Tail(ws1) = <<>> /\ dn1 = <<>>
         /\ Books(cs, q, ws, <<>>, <<r>>, ask, timers)
<1>1. dn1 = <<>> /\ Len(ws1) = 1 /\ NoCorrection(ws) /\ ws1[1].code = ask.code /\ ask.delta # 0
  BY DEF Books, OneCorrection, Asked
<1>2. Tail(ws1) = <<>>
  <2>1. DOMAIN Tail(ws1) = {} /\ Tail(ws1) \in Seq(OnWs1)
    <3>1. Tail(ws1) \in Seq(OnWs1) /\ DOMAIN Tail(ws1) = 1 .. Len(ws1) - 1
      <4> HIDE DEF OnWs1
      <4> QED BY TailIs
    <3> QED BY <1>1, <3>1
  <2> HIDE DEF OnWs1
  <2> QED BY <2>1, EmptyIs
<1>3. <<r>> # <<>> /\ Len(<<r>>) = 1 /\ <<r>>[1] = r
  OBVIOUS
<1>4. r.data = IF ask.code \in Types THEN <<q[ask.code]>> ELSE <<>>
  BY <1>1 DEF Quantity
<1> DEFINE dn == <<r>>
<1> HIDE DEF dn
<1>5. dn # <<>> /\ Len(dn) = 1 /\ dn[1] = r
  BY <1>3 DEF dn
<1>6. OneCorrection(ws, <<>>, dn) /\ Asked(q, <<>>, dn, ask)
  BY <1>1, <1>4, <1>5 DEF Books, OneCorrection, Asked
<1>7. ASSUME NEW t \in Types PROVE Balanced(cs, q, ws, <<>>, dn, ask, timers, t)
  <2>1. \A c : Owed(q, ws, ws1, dn1, ask, t, c) => Owed(q, ws, <<>>, dn, ask, t, c)
    BY <1>1, <1>5 DEF Owed, NoCorrection
  <2> QED BY <2>1 DEF Books, Balanced
<1>8. Books(cs, q, ws, <<>>, dn, ask, timers)
  BY <1>6, <1>7 DEF Books
<1> QED BY <1>1, <1>2, <1>8 DEF dn

\* what is sent when the answer comes in
Rectified(ws, dn1, ask) ==
  IF dn1[1].data = <<>> THEN ws ELSE Append(ws, Correction(dn1[1].data[1], ask))

\* The answer is delivered, and the correction sent, if there is a quantity.
LEMMA BooksToCorrect ==
  ASSUME NEW cs, NEW q \in [Types -> Int], NEW ws \in Seq(OnWs), NEW ws1,
         NEW dn1 \in Seq(Reply(Int)), dn1 # <<>>, NEW ask \in [code: Code, delta: {-1, 0, 1}],
         NEW timers, Books(cs, q, ws, ws1, dn1, ask, timers)
  PROVE  /\ Len(dn1) = 1 /\ Tail(dn1) = <<>> /\ ws1 = <<>> /\ ask # Nothing
         /\ Books(cs, q, Rectified(ws, dn1, ask), <<>>, <<>>, ask, timers)
<1> DEFINE s == Correction(dn1[1].data[1], ask)
           w == Rectified(ws, dn1, ask)
<1>1. /\ ws1 = <<>> /\ Len(dn1) = 1 /\ NoCorrection(ws) /\ ask.delta # 0
      /\ dn1[1].data = IF ask.code \in Types THEN <<q[ask.code]>> ELSE <<>>
  BY DEF Books, OneCorrection, Asked
<1>2. Tail(dn1) = <<>>
  <2>1. DOMAIN Tail(dn1) = {} /\ Tail(dn1) \in Seq(Reply(Int))
    <3>1. Tail(dn1) \in Seq(Reply(Int)) /\ DOMAIN Tail(dn1) = 1 .. Len(dn1) - 1
      <4> HIDE DEF Reply
      <4> QED BY TailIs
    <3> QED BY <1>1, <3>1
  <2> HIDE DEF Reply
  <2> QED BY <2>1, EmptyIs
<1>3. ask # Nothing
  BY <1>1 DEF Nothing
<1>4. \A t \in Types : \A c \in Int :
        Owed(q, ws, ws1, dn1, ask, t, c) => c = If(ask.code = t, ask.delta)
  BY DEF Owed
<1>5. ASSUME dn1[1].data = <<>> PROVE Books(cs, q, ws, <<>>, <<>>, ask, timers)
  <2>1. ask.code \notin Types
    <3>1. \A x : <<x>> # <<>>
      OBVIOUS
    <3> QED BY <1>1, <1>5, <3>1
  <2>2. ASSUME NEW t \in Types PROVE Balanced(cs, q, ws, <<>>, <<>>, ask, timers, t)
    <3>1. \A c \in Int : Owed(q, ws, ws1, dn1, ask, t, c) => c = 0
      BY <1>4, <2>1 DEF If
    <3>2. Owed(q, ws, <<>>, <<>>, ask, t, 0)
      BY <1>1, NothingOwed
    <3> QED BY <3>1, <3>2 DEF Books, Balanced
  <2>3. OneCorrection(ws, <<>>, <<>>) /\ Asked(q, <<>>, <<>>, ask)
    BY <1>1 DEF OneCorrection, NoCorrection, Asked
  <2> QED BY <2>2, <2>3 DEF Books
<1>6. ASSUME dn1[1].data # <<>> PROVE Books(cs, q, Append(ws, s), <<>>, <<>>, ask, timers)
  <2>1. ask.code \in Types /\ dn1[1].data[1] = q[ask.code]
    BY <1>1, <1>6
  <2>2. q[ask.code] \in Int
    BY <2>1
  <2>3. s \in OnWs /\ s.op = "CORRECT" /\ s.code = ask.code /\ s.to = q[ask.code] + ask.delta
    <3>1. s = Correction(q[ask.code], ask)
      BY <2>1
    <3> QED BY <2>2, <3>1, CorrectionIs
  <2> HIDE DEF s
  <2> DEFINE v == Append(ws, s)
  <2>4. /\ SameChange(v, ws) /\ OnlyCorrection(v) /\ ~ NoCorrection(v)
        /\ \A i \in DOMAIN v : v[i].op = "CORRECT" => v[i] = s
    <3>1. s.op \notin ChangeOps /\ OneChange(ws) /\ OnlyCorrection(ws)
      BY <1>1, <2>3 DEF ChangeOps, Books, NoCorrection, OnlyCorrection
    <3> HIDE DEF OnWs
    <3> QED BY <1>1, <2>3, <3>1, AppendSame
  <2> HIDE DEF v
  <2>5. OneCorrection(v, <<>>, <<>>) /\ Asked(q, <<>>, <<>>, ask)
    BY <2>4 DEF OneCorrection, OnlyCorrection, Asked
  <2>6. OneChange(v) /\ (NoChange(v) <=> NoChange(ws))
    BY <2>4 DEF SameChange
  <2>7. OneClick(cs, v, timers) /\ InPlace(cs, v)
    BY <2>4, SameOneClick, InPlaceAfter, NothingMoved DEF Books
  <2>8. ASSUME NEW t \in Types PROVE Balanced(cs, q, v, <<>>, <<>>, ask, timers, t)
    <3>1. PICK d \in Int, c \in Int, e \in Int :
            /\ Effect(cs, ws, t, d) /\ Owed(q, ws, ws1, dn1, ask, t, c) /\ Timed(timers, t, e)
            /\ Having(cs, t) + d = q[t] + c + e
      BY DEF Books, Balanced
    <3>2. Effect(cs, v, t, d)
      BY <2>4, <3>1, SameEffect
    <3>3. c = If(s.code = t, s.to - q[t])
      <4>1. c = If(ask.code = t, ask.delta)
        BY <1>4, <3>1
      <4>2. (q[ask.code] + ask.delta) - q[ask.code] = ask.delta
        BY <2>2
      <4> QED BY <2>3, <4>1, <4>2 DEF If
    <3>4. Owed(q, v, <<>>, <<>>, ask, t, c)
      BY <2>4, <3>3 DEF Owed, NoCorrection
    <3> QED BY <3>1, <3>2, <3>4 DEF Balanced
  <2>9. Books(cs, q, v, <<>>, <<>>, ask, timers)
    BY <2>5, <2>6, <2>7, <2>8 DEF Books
  <2> QED BY <2>9 DEF v
<1>7. CASE dn1[1].data = <<>>
  <2>1. w = ws
    BY <1>7 DEF Rectified
  <2> QED BY <1>1, <1>2, <1>3, <1>5, <1>7, <2>1
<1>8. CASE dn1[1].data # <<>>
  <2>1. w = Append(ws, s)
    BY <1>8 DEF Rectified
  <2> QED BY <1>1, <1>2, <1>3, <1>6, <1>8, <2>1
<1> QED BY <1>7, <1>8

\* Nothing is under way.
LEMMA BooksClosed ==
  ASSUME NEW cs \in Seq(Car), NEW q \in [Types -> Int], NEW ask,
         Books(cs, q, <<>>, <<>>, <<>>, ask, {})
  PROVE  \A t \in Types : q[t] = Having(cs, t)
<1> SUFFICES ASSUME NEW t \in Types PROVE q[t] = Having(cs, t)
  OBVIOUS
<1>1. PICK d \in Int, c \in Int, e \in Int :
        /\ Effect(cs, <<>>, t, d) /\ Owed(q, <<>>, <<>>, <<>>, ask, t, c) /\ Timed({}, t, e)
        /\ Having(cs, t) + d = q[t] + c + e
  BY DEF Books, Balanced
<1>2. DOMAIN <<>> = {}
  OBVIOUS
<1>3. d = 0
  BY <1>1, <1>2 DEF Effect, NoChange
<1>4. c = 0
  BY <1>1, <1>2 DEF Owed, NoCorrection
<1>5. e = 0
  BY <1>1 DEF Timed, If
<1>6. Having(cs, t) \in Int /\ q[t] \in Int
  BY HavingInt
<1>7. Having(cs, t) + 0 = q[t] + 0 + 0
  BY <1>1, <1>3, <1>4, <1>5
<1> QED BY <1>6, <1>7

Closed(cs, q) == \A t \in Types : q[t] = Having(cs, t)

\* One change, and the sheet read after it.
LEMMA ChangeAndRead ==
  ASSUME NEW s, s.op \in ChangeOps, NEW v, v = <<s, SELECTCARINFO>>
  PROVE  /\ \A i \in DOMAIN v : v[i] = s \/ v[i].op = "SELECT"
         /\ OneChange(v) /\ ~ NoChange(v) /\ NoCorrection(v) /\ OnlyCorrection(v)
<1>1. DOMAIN v = {1, 2} /\ v[1] = s /\ v[2].op = "SELECT"
  BY DEF SELECTCARINFO
<1>2. s.op # "CORRECT" /\ "SELECT" \notin ChangeOps
  BY DEF ChangeOps
<1> QED BY <1>1, <1>2 DEF OneChange, NoChange, NoCorrection, OnlyCorrection

\* The books are opened by adding a car.
LEMMA BooksAdd ==
  ASSUME NEW cs \in Seq(Car), NEW q \in [Types -> Int], Closed(cs, q), Keyed(cs), NEW car \in Car,
         car.cid \notin Cids(cs), NEW v, v = <<[op |-> "INSERT", car |-> car], SELECTCARINFO>>,
         NEW ask, ask = [code |-> car.code, delta |-> 1],
         NEW w, w = <<[op |-> "QUANTITY", code |-> car.code]>>
  PROVE  Books(cs, q, v, w, <<>>, ask, {})
<1> DEFINE s == [op |-> "INSERT", car |-> car]
<1>1. s.op = "INSERT" /\ s.car = car /\ s.op \in ChangeOps
  BY DEF ChangeOps
<1>2. v = <<s, SELECTCARINFO>>
  OBVIOUS
<1> HIDE DEF s
<1>3. /\ \A i \in DOMAIN v : v[i] = s \/ v[i].op = "SELECT"
      /\ OneChange(v) /\ ~ NoChange(v) /\ NoCorrection(v) /\ OnlyCorrection(v)
  BY <1>1, <1>2, ChangeAndRead
<1>4. Len(w) = 1 /\ w # <<>> /\ w[1].code = car.code
  OBVIOUS
<1>5. OneCorrection(v, w, <<>>) /\ Asked(q, w, <<>>, ask)
  BY <1>3, <1>4 DEF OneCorrection, OnlyCorrection, Asked
<1>6. OneClick(cs, v, {}) /\ InPlace(cs, v)
  BY <1>1, <1>3 DEF OneClick, InPlace
<1>7. ASSUME NEW t \in Types PROVE Balanced(cs, q, v, w, <<>>, ask, {}, t)
  <2> DEFINE d == If(car.code = t, 1)
  <2>1. d \in Int
    BY DEF If
  <2> HIDE DEF d
  <2>2. Effect(cs, v, t, d)
    BY <1>1, <1>3 DEF Effect, d
  <2>3. Owed(q, v, w, <<>>, ask, t, d)
    BY <1>3, <1>4 DEF Owed, NoCorrection, d
  <2>4. Timed({}, t, 0)
    BY DEF Timed, If
  <2>5. Having(cs, t) + d = q[t] + d + 0
    BY <2>1, HavingInt DEF Closed
  <2> QED BY <2>1, <2>2, <2>3, <2>4, <2>5 DEF Balanced
<1> HIDE DEF Closed
<1> QED BY <1>3, <1>5, <1>6, <1>7 DEF Books

\* The books are opened by deleting cars.
LEMMA BooksDel ==
  ASSUME NEW cs \in Seq(Car), NEW q \in [Types -> Int], Closed(cs, q), Keyed(cs), NEW ask,
         NEW timers, \A u \in timers : u.del /\ u.delta = -1 /\ \E a \in DOMAIN cs : cs[a] = u.row,
         \A u, w \in timers : u.row.cid = w.row.cid => u = w
  PROVE  Books(cs, q, <<SELECTCARINFO>>, <<>>, <<>>, ask, timers)
<1> DEFINE v == <<SELECTCARINFO>>
<1>1. \A i \in DOMAIN v : v[i].op = "SELECT"
  BY DEF SELECTCARINFO
<1> HIDE DEF v
<1>2. OneChange(v) /\ NoChange(v) /\ NoCorrection(v)
  BY <1>1 DEF OneChange, NoChange, NoCorrection, ChangeOps
<1>3. OneCorrection(v, <<>>, <<>>) /\ Asked(q, <<>>, <<>>, ask)
  BY <1>2 DEF OneCorrection, NoCorrection, Asked
<1>4. OneClick(cs, v, timers) /\ InPlace(cs, v)
  BY <1>1 DEF OneClick, InPlace
<1>5. ASSUME NEW t \in Types PROVE Balanced(cs, q, v, <<>>, <<>>, ask, timers, t)
  <2>1. Effect(cs, v, t, 0) /\ Owed(q, v, <<>>, <<>>, ask, t, 0)
    BY <1>2, NoEffect, NothingOwed
  <2>2. Timed(timers, t, 0)
    BY DEF Timed, If
  <2>3. Having(cs, t) + 0 = q[t] + 0 + 0
    BY HavingInt DEF Closed
  <2> QED BY <2>1, <2>2, <2>3 DEF Balanced
<1> QED BY <1>2, <1>3, <1>4, <1>5 DEF Books, v

\* The books are opened by editing a car.
LEMMA BooksEdit ==
  ASSUME clicks \in Nat, NEW cs \in Seq(Car), NEW q \in [Types -> Int], Closed(cs, q), Keyed(cs),
         NEW ask, NEW old \in Car, NEW new \in Car, \E a \in DOMAIN cs : cs[a] = old,
         new.cid = old.cid \/ new.cid \notin Cids(cs),
         NEW v, v = <<[op |-> "UPDATE", cid |-> old.cid, car |-> new], SELECTCARINFO>>
  PROVE  Books(cs, q, v, <<>>, <<>>, ask, EditTimers(old, new))
<1> DEFINE s == [op |-> "UPDATE", cid |-> old.cid, car |-> new]
           timers == EditTimers(old, new)
<1>1. s.op = "UPDATE" /\ s.cid = old.cid /\ s.car = new /\ s.op \in ChangeOps
  BY DEF ChangeOps
<1>2. v = <<s, SELECTCARINFO>>
  OBVIOUS
<1> HIDE DEF s
<1>3. /\ \A i \in DOMAIN v : v[i] = s \/ v[i].op = "SELECT"
      /\ OneChange(v) /\ ~ NoChange(v) /\ NoCorrection(v) /\ OnlyCorrection(v)
  BY <1>1, <1>2, ChangeAndRead
<1>4. OneCorrection(v, <<>>, <<>>) /\ Asked(q, <<>>, <<>>, ask)
  BY <1>3 DEF OneCorrection, OnlyCorrection, Asked
<1>5. InPlace(cs, v)
  BY <1>1, <1>3 DEF InPlace
<1> DEFINE one == Timer(1, FALSE, 0, old, -1)
           two == Timer(2, FALSE, 0, new, 1)
<1>6. /\ timers = {one, two}
      /\ one.del = FALSE /\ one.k = 1 /\ one.row = old /\ one.delta = -1
      /\ two.del = FALSE /\ two.k = 2 /\ two.row = new /\ two.delta = 1
  BY DEF EditTimers, Timer
<1> HIDE DEF timers, one, two
<1>7. OneClick(cs, v, timers) /\ \A u \in timers : ~ u.del
  <2>1. \A u \in timers : ~ u.del
    BY <1>6
  <2>2. \A u, w \in timers : u.del = w.del
    BY <1>6
  <2>3. \A u, w \in timers : u.k = w.k => u = w
    BY <1>6
  <2>4. \A u \in timers : u.k \in {1, 2} /\ u.delta = IF u.k = 1 THEN -1 ELSE 1
    BY <1>6
  <2> QED BY <2>1, <2>2, <2>3, <2>4 DEF OneClick
<1>8. ASSUME NEW t \in Types PROVE Balanced(cs, q, v, <<>>, <<>>, ask, timers, t)
  <2> DEFINE d == If(new.code = t, 1) - If(old.code = t, 1)
  <2>1. d \in Int
    BY DEF If
  <2>2. Timed(timers, t, d)
    <3>1. /\ (\E u \in timers : ~ u.del /\ u.k = 2 /\ u.row.code = t) <=> new.code = t
          /\ (\E u \in timers : ~ u.del /\ u.k = 1 /\ u.row.code = t) <=> old.code = t
      BY <1>6
    <3> QED BY <3>1 DEF Timed, If
  <2> HIDE DEF d
  <2>3. Effect(cs, v, t, d)
    <3>1. PICK a \in DOMAIN cs : cs[a] = old
      OBVIOUS
    <3>2. cs[a].cid = s.cid /\ d = If(s.car.code = t, 1) - If(cs[a].code = t, 1)
      BY <1>1, <3>1 DEF d
    <3>3. \A i \in DOMAIN v : v[i].op \notin {"INSERT", "DELETE"}
      BY <1>1, <1>3
    <3>4. ASSUME NEW i \in DOMAIN v, v[i].op = "UPDATE"
          PROVE  cs[a].cid = v[i].cid /\ d = If(v[i].car.code = t, 1) - If(cs[a].code = t, 1)
      <4>1. v[i] = s
        BY <1>3, <3>4
      <4> QED BY <3>2, <4>1
    <3> QED BY <1>3, <3>3, <3>4 DEF Effect
  <2>4. Owed(q, v, <<>>, <<>>, ask, t, 0)
    BY <1>3, NothingOwed
  <2>5. Having(cs, t) + d = q[t] + 0 + d
    BY <2>1, HavingInt DEF Closed
  <2> QED BY <2>1, <2>2, <2>3, <2>4, <2>5 DEF Balanced
<1> QED BY <1>3, <1>4, <1>5, <1>7, <1>8 DEF Books, timers

\* what a timer sends on ws and ws1, and what the handler of ws1 waits for then
Removal(u) == IF u.del THEN <<[op |-> "DELETE", cid |-> u.row.cid]>> ELSE <<>>
Question(u) == <<[op |-> "QUANTITY", code |-> u.row.code]>>
Waiting(u)  == [code |-> u.row.code, delta |-> u.delta]

\* A timer moves what it is about from the timers to the lines.
LEMMA BooksFire ==
  ASSUME NEW cs \in Seq(Car), NEW q \in [Types -> Int], NEW old, NEW timers \in SUBSET Timers,
         Books(cs, q, <<>>, <<>>, <<>>, old, timers),
         NEW u \in timers
  PROVE  Books(cs, q, Removal(u), Question(u), <<>>, Waiting(u), timers \ {u})
<1> DEFINE v == Removal(u)
           w == Question(u)
           ask == Waiting(u)
<1> DEFINE s == [op |-> "DELETE", cid |-> u.row.cid]
           rest == timers \ {u}
<1>1. s.op = "DELETE" /\ s.cid = u.row.cid /\ s.op \in ChangeOps
  BY DEF ChangeOps
<1>2. /\ \A i \in DOMAIN v : i = 1 /\ v[i] = s /\ u.del
      /\ u.del => 1 \in DOMAIN v
  BY DEF Removal
<1> HIDE DEF s
<1>3. OneChange(v) /\ (NoChange(v) <=> ~ u.del) /\ NoCorrection(v)
  BY <1>1, <1>2 DEF OneChange, NoChange, NoCorrection
<1>4. /\ Len(w) = 1 /\ w # <<>> /\ w[1].code = u.row.code
      /\ ask.code = u.row.code /\ ask.delta = u.delta
  BY DEF Question, Waiting
<1> HIDE DEF v, w, ask
<1>5. u \in Timers /\ u.delta \in {-1, 1} /\ u.del \in BOOLEAN
  BY DEF Timers
<1>6. OneCorrection(v, w, <<>>) /\ Asked(q, w, <<>>, ask)
  BY <1>3, <1>4, <1>5 DEF OneCorrection, NoCorrection, Asked
<1>7. OneClick(cs, <<>>, timers)
  BY DEF Books
<1>8. OneClick(cs, v, rest)
  <2>1. \A x \in rest : x \in timers /\ x # u
    OBVIOUS
  <2> HIDE DEF rest
  <2>2. ASSUME NEW x \in rest, x.del, NEW i \in DOMAIN v
        PROVE  v[i].op \notin {"INSERT", "UPDATE"} /\ (v[i].op = "DELETE" => v[i].cid # x.row.cid)
    <3>1. u.del /\ v[i] = s
      BY <1>2
    <3> QED BY <1>1, <1>7, <2>1, <2>2, <3>1 DEF OneClick
  <2> QED BY <1>7, <2>1, <2>2 DEF OneClick
<1>9. InPlace(cs, v)
  BY <1>1, <1>2 DEF InPlace
<1>10. Keyed(cs)
  BY DEF Books
<1>12. ASSUME NEW t \in Types PROVE Balanced(cs, q, v, w, <<>>, ask, rest, t)
  <2>1. PICK d0 \in Int, c0 \in Int, e \in Int :
          /\ Effect(cs, <<>>, t, d0) /\ Owed(q, <<>>, <<>>, <<>>, old, t, c0)
          /\ Timed(timers, t, e) /\ Having(cs, t) + d0 = q[t] + c0 + e
    BY DEF Books, Balanced
  <2>2. DOMAIN <<>> = {}
    OBVIOUS
  <2>3. d0 = 0 /\ c0 = 0
    BY <2>1, <2>2 DEF Effect, NoChange, Owed, NoCorrection
  <2>4. Having(cs, t) = q[t] + e /\ Having(cs, t) \in Int /\ q[t] \in Int
    <3>1. Having(cs, t) \in Int /\ q[t] \in Int
      BY HavingInt
    <3> QED BY <2>1, <2>3, <3>1
  <2> DEFINE c == If(u.row.code = t, u.delta)
  <2>5. c \in Int /\ Owed(q, v, w, <<>>, ask, t, c)
    BY <1>3, <1>4, <1>5 DEF Owed, NoCorrection, If
  <2>6. CASE u.del
    <3>1. (\A x \in timers : x.del) /\ u.delta = -1
      BY <1>7, <2>6 DEF OneClick
    <3>2. e = 0 /\ Timed(rest, t, 0)
      BY <2>1, <3>1 DEF Timed, If
    <3>3. Effect(cs, v, t, c)
      <4>1. PICK a \in DOMAIN cs : cs[a] = u.row
        BY <1>7, <2>6 DEF OneClick
      <4>2. cs[a].cid = s.cid /\ c = - If(cs[a].code = t, 1)
        BY <1>1, <3>1, <4>1 DEF If
      <4> HIDE DEF c
      <4> QED BY <1>1, <1>2, <1>3, <2>6, <4>2 DEF Effect
    <3> HIDE DEF c
    <3>4. Having(cs, t) + c = q[t] + c + 0
      BY <2>4, <2>5, <3>2
    <3> QED BY <2>5, <3>2, <3>3, <3>4 DEF Balanced
  <2>7. CASE ~ u.del
    <3>1. /\ \A x \in timers : ~ x.del
          /\ \A x, y \in timers : x.k = y.k => x = y
          /\ u.k \in {1, 2} /\ u.delta = IF u.k = 1 THEN -1 ELSE 1
      BY <1>7, <2>7 DEF OneClick
    <3>2. Timed(rest, t, e - c)
      <4> DEFINE Has(T, k) == \E x \in T : ~ x.del /\ x.k = k /\ x.row.code = t
             f(T, k) == If(Has(T, k), 1)
      <4>1. f(timers, u.k) = If(u.row.code = t, 1)
        BY <3>1 DEF If
      <4>2. f(rest, u.k) = 0
        BY <3>1 DEF If
      <4>3. \A k \in {1, 2} : k # u.k => f(rest, k) = f(timers, k)
        <5> SUFFICES ASSUME NEW k \in {1, 2}, k # u.k PROVE f(rest, k) = f(timers, k)
          OBVIOUS
        <5>1. Has(rest, k) <=> Has(timers, k)
          OBVIOUS
        <5> QED BY <5>1 DEF If
      <4>4. e = f(timers, 2) - f(timers, 1)
        BY <2>1 DEF Timed
      <4>5. \A T, k : f(T, k) \in Int
        BY DEF If
      <4> HIDE DEF f
      <4>6. e - c = f(rest, 2) - f(rest, 1)
        <5>1. CASE u.k = 1
          <6>0. f(rest, 2) = f(timers, 2)
            BY <4>3, <5>1
          <6>1. f(timers, 1) = If(u.row.code = t, 1) /\ f(rest, 1) = 0
            BY <4>1, <4>2, <5>1
          <6>2. c = - If(u.row.code = t, 1)
            BY <3>1, <5>1 DEF If
          <6> HIDE DEF c
          <6> QED BY <2>5, <4>4, <4>5, <6>0, <6>1, <6>2
        <5>2. CASE u.k = 2
          <6>0. f(rest, 1) = f(timers, 1)
            BY <4>3, <5>2
          <6>1. f(timers, 2) = If(u.row.code = t, 1) /\ f(rest, 2) = 0
            BY <4>1, <4>2, <5>2
          <6>2. c = If(u.row.code = t, 1)
            BY <3>1, <5>2 DEF If
          <6> HIDE DEF c
          <6> QED BY <2>5, <4>4, <4>5, <6>0, <6>1, <6>2
        <5> QED BY <3>1, <5>1, <5>2
      <4> HIDE DEF c, rest
      <4> QED BY <4>6 DEF Timed, f
    <3>3. Effect(cs, v, t, 0)
      BY <1>3, <2>7, NoEffect
    <3> HIDE DEF c
    <3>4. Having(cs, t) + 0 = q[t] + c + (e - c) /\ e - c \in Int
      BY <2>4, <2>5
    <3> HIDE DEF rest
    <3> QED BY <2>5, <3>2, <3>3, <3>4 DEF Balanced
  <2> QED BY <1>5, <2>6, <2>7
<1> HIDE DEF rest
<1>13. Books(cs, q, v, w, <<>>, ask, rest)
  BY <1>3, <1>6, <1>8, <1>9, <1>10, <1>12 DEF Books
<1> QED BY <1>13 DEF rest, v, w, ask

Right(all) == all \subseteq {"joined"}

\* The invariant with its condition named.
LEMMA BooksInvIs ==
  BooksInv <=>
    (Right(faults) =>
       /\ Books(cars, quantity, up["ws"], up["ws1"], down["ws1"], page[last].ask,
                page[last].timers)
       /\ \A p \in Pages : p # last => page[p].timers = {})
BY DEF BooksInv, Right

\* The same of the next state.
LEMMA BooksInvNext ==
  ASSUME Right(faults') =>
           /\ Books(cars', quantity', up'["ws"], up'["ws1"], down'["ws1"], page'[last'].ask,
                    page'[last'].timers)
           /\ \A p \in Pages : p # last' => page'[p].timers = {}
  PROVE  BooksInv'
BY DEF BooksInv, Right

\* The books balance at the start.
LEMMA InitBooksInv == Init => BooksInv
<1> SUFFICES ASSUME Init PROVE BooksInv
  OBVIOUS
<1> DEFINE first == [Fresh EXCEPT !.table = Rows(FirstCars), !.shows = TRUE]
<1>1. first.timers = {} /\ Fresh.timers = {} /\ first.ask = Nothing
  BY DEF Fresh
<1>2. /\ page = [p \in Pages |-> IF p = FirstPage THEN first ELSE Fresh]
      /\ last = FirstPage /\ cars = FirstCars /\ faults = {}
      /\ up["ws"] = <<>> /\ up["ws1"] = <<>> /\ down["ws1"] = <<>>
      /\ quantity = [t \in Types |-> Having(cars, t)]
  BY DEF Init, Lines, Count
<1> HIDE DEF first
<1>3. page[last] = first /\ \A p \in Pages : page[p].timers = {}
  <2> HIDE DEF Init
  <2> QED BY <1>1, <1>2, PagesAssumption
<1>4. Keyed(cars) /\ cars \in Seq(Car)
  BY <1>2, FirstCarsAre
<1>5. DOMAIN <<>> = {}
  OBVIOUS
<1>7. NoChange(<<>>) /\ NoCorrection(<<>>) /\ OneChange(<<>>) /\ InPlace(cars, <<>>)
  BY <1>5 DEF NoChange, NoCorrection, OneChange, InPlace
<1>8. OneCorrection(<<>>, <<>>, <<>>) /\ Asked(quantity, <<>>, <<>>, Nothing)
  BY <1>5 DEF OneCorrection, Asked
<1>9. OneClick(cars, <<>>, {})
  BY DEF OneClick
<1>10. ASSUME NEW t \in Types
       PROVE  Balanced(cars, quantity, <<>>, <<>>, <<>>, Nothing, {}, t)
  <2>1. Effect(cars, <<>>, t, 0) /\ Owed(quantity, <<>>, <<>>, <<>>, Nothing, t, 0)
    BY <1>7, NoEffect, NothingOwed
  <2>2. Timed({}, t, 0)
    BY DEF Timed, If
  <2>3. Having(cars, t) + 0 = quantity[t] + 0 + 0
    <3>1. quantity[t] = Having(cars, t)
      BY <1>2
    <3> HIDE DEF Init
    <3>2. Having(cars, t) \in Int
      BY <1>4, HavingInt
    <3> QED BY <3>1, <3>2
  <2> HIDE DEF Init
  <2> QED BY <2>1, <2>2, <2>3 DEF Balanced
<1>11. Books(cars, quantity, <<>>, <<>>, <<>>, Nothing, {})
  BY <1>4, <1>7, <1>8, <1>9, <1>10 DEF Books
<1> QED BY <1>1, <1>2, <1>3, <1>11, BooksInvIs

\* The books balance after two statements.
LEMMA BooksAfterTwo ==
  ASSUME NEW cs \in Seq(Car), NEW q \in [Types -> Int], NEW r, NEW ws \in Seq(OnWs), Len(ws) > 1,
         NEW ws1, NEW dn1, NEW ask, NEW timers, Books(cs, q, ws, ws1, dn1, ask, timers),
         NEW one \in Execute(ws[1], [cars |-> cs, quantity |-> q, reply |-> r]),
         NEW two \in Execute(ws[2], one)
  PROVE  Books(two.cars, two.quantity, Tail(Tail(ws)), ws1, dn1, ask, timers)
<1> DEFINE v == Tail(ws)
<1>1. /\ ws # <<>> /\ ws[1] \in OnWs
      /\ v \in Seq(OnWs) /\ v # <<>> /\ v[1] = ws[2]
  <2> HIDE DEF OnWs
  <2> QED BY TailTail
<1>2. /\ one.cars \in Seq(Car) /\ one.quantity \in [Types -> Int]
      /\ one = [cars |-> one.cars, quantity |-> one.quantity, reply |-> one.reply]
  BY <1>1, ExecuteTyped
<1>3. Books(one.cars, one.quantity, v, ws1, dn1, ask, timers)
  <2> HIDE DEF OnWs
  <2> QED BY <1>1, BooksAfterOne
<1> DEFINE cs1 == one.cars
           q1 == one.quantity
           r1 == one.reply
<1>4. two \in Execute(v[1], [cars |-> cs1, quantity |-> q1, reply |-> r1])
  BY <1>1, <1>2
<1>5. cs1 \in Seq(Car) /\ q1 \in [Types -> Int] /\ Books(cs1, q1, v, ws1, dn1, ask, timers)
  BY <1>2, <1>3
<1> HIDE DEF v, cs1, q1, r1, OnWs
<1>6. Books(two.cars, two.quantity, Tail(v), ws1, dn1, ask, timers)
  BY <1>1, <1>4, <1>5, BooksAfterOne
<1> QED BY <1>6 DEF v

\* Serve keeps the books.
LEMMA ServeBooksInv ==
  ASSUME TInv, BooksInv, NEW l \in Lines, Serve(l) PROVE BooksInv'
<1> DEFINE ask == page[last].ask
           timers == page[last].timers
<1> SUFFICES ASSUME Right(faults')
             PROVE  /\ Books(cars', quantity', up'["ws"], up'["ws1"], down'["ws1"], ask, timers)
                    /\ \A p \in Pages : p # last => page[p].timers = {}
  <2>1. UNCHANGED <<last, page>>
    BY DEF Serve
  <2> QED BY <2>1, BooksInvNext
<1>1. /\ up["ws"] \in Seq(OnWs) /\ up["ws1"] \in Seq(OnWs1) /\ down["ws1"] \in Seq(Reply(Int))
      /\ up = [m \in Lines |-> up[m]] /\ down = [m \in Lines |-> down[m]] /\ up[l] # <<>>
      /\ cars \in Seq(Car) /\ quantity \in [Types -> Int]
  BY DEF TInv, TypeOK, Serve
<1>2. PICK one \in Execute(up[l][1], Start) :
        \/ Took(l, one, one.reply, Tail(up[l]), {})
        \/ /\ Len(up[l]) > 1
           /\ \E two \in Execute(up[l][2], one) :
                Took(l, two, two.reply, Tail(Tail(up[l])), {"joined"})
  <2>1. PICK one \in Execute(up[l][1], Start) :
          \/ Took(l, one, one.reply, Tail(up[l]), {})
          \/ /\ Len(up[l]) > 1
             /\ \/ \E two \in Execute(up[l][2], one) :
                     Took(l, two, two.reply, Tail(Tail(up[l])), {"joined"})
                \/ \E reply \in {one.reply, Failed(up[l][2])} :
                     Took(l, one, reply, Tail(Tail(up[l])), {"garbled"})
    <3> HIDE DEF Start
    <3> QED BY ServeIs DEF TInv
  <2>2. \A db, reply, rest : ~ Took(l, db, reply, rest, {"garbled"})
    BY DEF Took, Right
  <2> QED BY <2>1, <2>2
<1>3. one \in Execute(up[l][1], [cars |-> cars, quantity |-> quantity, reply |-> Success])
  BY DEF Start
<1>4. Right(faults)
  BY <1>2 DEF Took, Right
<1>5. /\ Books(cars, quantity, up["ws"], up["ws1"], down["ws1"], ask, timers)
      /\ \A p \in Pages : p # last => page[p].timers = {}
  BY <1>4, BooksInvIs
<1> HIDE DEF ask, timers
<1>6. CASE l = "ws"
  <2> DEFINE ws == up["ws"]
             ws1 == up["ws1"]
             dn1 == down["ws1"]
  <2>1. /\ ws \in Seq(OnWs) /\ ws # <<>>
        /\ Books(cars, quantity, ws, ws1, dn1, ask, timers)
        /\ one \in Execute(ws[1], [cars |-> cars, quantity |-> quantity, reply |-> Success])
    BY <1>1, <1>3, <1>5, <1>6
  <2>2. ASSUME NEW db, NEW rest, NEW what, Took("ws", db, db.reply, rest, what)
        PROVE  /\ up'["ws1"] = ws1 /\ down'["ws1"] = dn1
               /\ cars' = db.cars /\ quantity' = db.quantity /\ up'["ws"] = rest
    BY <1>1, <2>2 DEF Took, Lines
  <2>3. CASE Took("ws", one, one.reply, Tail(ws), {})
    <3>1. Books(one.cars, one.quantity, Tail(ws), ws1, dn1, ask, timers)
      <4> HIDE DEF ws, ws1, dn1, OnWs
      <4> QED BY <1>1, <2>1, BooksAfterOne
    <3> QED BY <1>5, <2>2, <2>3, <3>1
  <2>4. ASSUME Len(ws) > 1, NEW two \in Execute(ws[2], one),
               Took("ws", two, two.reply, Tail(Tail(ws)), {"joined"})
        PROVE  Books(cars', quantity', up'["ws"], up'["ws1"], down'["ws1"], ask, timers)
    <3>1. Books(two.cars, two.quantity, Tail(Tail(ws)), ws1, dn1, ask, timers)
      <4> HIDE DEF ws, ws1, dn1, OnWs
      <4> QED BY <1>1, <2>1, <2>4, BooksAfterTwo
    <3> QED BY <2>2, <2>4, <3>1
  <2> QED BY <1>2, <1>5, <1>6, <2>3, <2>4
<1>7. CASE l = "ws1"
  <2> DEFINE r == [type |-> "SELECT", data |-> Quantity(quantity, up["ws1"][1].code)]
  <2>1. up["ws1"][1] \in OnWs1
    BY <1>1, <1>7, TailIs
  <2>2. one = [cars |-> cars, quantity |-> quantity, reply |-> r]
    <3>1. /\ one \in Execute(up["ws1"][1],
                            [cars |-> cars, quantity |-> quantity, reply |-> Success])
          /\ cars \in Seq(Car) /\ quantity \in [Types -> Int]
      BY <1>1, <1>3, <1>7
    <3>2. one = [cars |-> cars, quantity |-> quantity, reply |-> r] /\ r \in Reply(Int)
      BY <2>1, <3>1, QuestionTyped
    <3> QED BY <3>2
  <2>3. r.data = Quantity(quantity, up["ws1"][1].code)
    OBVIOUS
  <2> HIDE DEF r
  <2>4. /\ Len(up["ws1"]) = 1 /\ Tail(up["ws1"]) = <<>> /\ down["ws1"] = <<>>
        /\ Books(cars, quantity, up["ws"], <<>>, <<r>>, ask, timers)
    <3> HIDE DEF OnWs1
    <3> QED BY <1>1, <1>5, <1>7, <2>3, BooksAnswered
  <2>5. Took(l, one, one.reply, Tail(up[l]), {})
    BY <1>2, <1>7, <2>4
  <2>6. one.cars = cars /\ one.quantity = quantity /\ one.reply = r
    BY <2>2
  <2>7. /\ cars' = cars /\ quantity' = quantity
        /\ up'["ws1"] = <<>> /\ down'["ws1"] = Append(<<>>, r)
        /\ up'["ws"] = up["ws"]
    BY <1>1, <1>7, <2>4, <2>5, <2>6, OneLine DEF Took, Lines
  <2>8. Append(<<>>, r) = <<r>>
    OBVIOUS
  <2> QED BY <1>5, <2>4, <2>7, <2>8
<1> QED BY <1>6, <1>7 DEF Lines

\* Deliver keeps the books.
LEMMA DeliverBooksInv ==
  ASSUME TInv, BooksInv, NEW l \in Lines, Deliver(l) PROVE BooksInv'
<1>1. /\ up["ws"] \in Seq(OnWs) /\ down["ws1"] \in Seq(Reply(Int)) /\ quantity \in [Types -> Int]
      /\ up = [m \in Lines |-> up[m]] /\ down = [m \in Lines |-> down[m]] /\ down[l] # <<>>
      /\ page \in [Pages -> Page] /\ last \in Pages /\ page[last] \in Page
  BY DEF TInv, TypeOK, Deliver
<1>2. \A p \in Pages : page'[p].ask = page[p].ask /\ page'[p].timers = page[p].timers
  <2>1. CASE UNCHANGED page
    BY <2>1
  <2>2. CASE page' = [page EXCEPT ![last].table = down["ws"][1].data]
    BY <1>1, <2>2 DEF Page
  <2> QED BY <2>1, <2>2, DeliverIs DEF TInv
<1>3. UNCHANGED <<cars, quantity, last>>
  BY DeliverIs DEF TInv
<1> DEFINE ask == page[last].ask
           timers == page[last].timers
<1>9. \/ /\ down' = [down EXCEPT ![l] = Tail(@)]
         /\ \/ l = "ws"
            \/ /\ l = "ws1"
               /\ up' = IF ask = Nothing \/ down["ws1"][1].data = <<>> THEN up
                        ELSE [up EXCEPT !["ws"] =
                                Append(@, Correction(down["ws1"][1].data[1], ask))]
      \/ Len(down[l]) > 1
  <2> HIDE DEF Correction
  <2> QED BY DeliverIs DEF TInv
<1> SUFFICES ASSUME Right(faults')
             PROVE  /\ Books(cars, quantity, up'["ws"], up'["ws1"], down'["ws1"], ask, timers)
                    /\ \A p \in Pages : p # last => page[p].timers = {}
  BY <1>1, <1>2, <1>3, BooksInvNext
<1>4. Right(faults)
  BY DeliverIs DEF Right, TInv
<1>5. /\ Books(cars, quantity, up["ws"], up["ws1"], down["ws1"], ask, timers)
      /\ \A p \in Pages : p # last => page[p].timers = {}
  BY <1>4, BooksInvIs
<1>6. ask \in [code: Code, delta: {-1, 0, 1}]
  BY <1>1 DEF Page
<1>7. CASE l = "ws"
  <2>1. up' = up /\ down'["ws1"] = down["ws1"]
    BY <1>1, <1>7, DeliverIs DEF Lines, TInv
  <2> QED BY <1>5, <2>1
<1>8. CASE l = "ws1"
  <2> DEFINE ws == up["ws"]
             ws1 == up["ws1"]
             dn1 == down["ws1"]
             s == Correction(dn1[1].data[1], ask)
             w == Rectified(ws, dn1, ask)
  <2>1. /\ ws \in Seq(OnWs) /\ dn1 \in Seq(Reply(Int)) /\ dn1 # <<>>
        /\ Books(cars, quantity, ws, ws1, dn1, ask, timers)
    BY <1>1, <1>5, <1>8
  <2>3. w = IF dn1[1].data = <<>> THEN ws ELSE Append(ws, s)
    BY DEF Rectified
  <2>4. /\ Len(dn1) = 1 /\ Tail(dn1) = <<>> /\ ws1 = <<>> /\ ask # Nothing
        /\ Books(cars, quantity, w, <<>>, <<>>, ask, timers)
    <3>1. quantity \in [Types -> Int]
      BY <1>1
    <3> HIDE DEF ask, timers, ws, ws1, dn1
    <3>2. /\ Len(dn1) = 1 /\ Tail(dn1) = <<>> /\ ws1 = <<>> /\ ask # Nothing
          /\ Books(cars, quantity, Rectified(ws, dn1, ask), <<>>, <<>>, ask, timers)
      BY <3>1, <1>6, <2>1, BooksToCorrect, Zenon
    <3> QED BY <3>2
  <2>5. /\ down' = [down EXCEPT !["ws1"] = Tail(@)]
        /\ up' = IF ask = Nothing \/ dn1[1].data = <<>> THEN up
                 ELSE [up EXCEPT !["ws"] = Append(@, s)]
    <3>1. ~ Len(down["ws1"]) > 1
      BY <2>4
    <3>2. \/ /\ down' = [down EXCEPT !["ws1"] = Tail(@)]
             /\ up' = IF ask = Nothing \/ dn1[1].data = <<>> THEN up
                      ELSE [up EXCEPT !["ws"] = Append(@, s)]
          \/ Len(down["ws1"]) > 1
      BY <1>8, <1>9
    <3> QED BY <3>1, <3>2
  <2>6. down'["ws1"] = <<>>
    BY <1>1, <2>4, <2>5 DEF Lines
  <2>7. up'["ws"] = w /\ up'["ws1"] = <<>>
    <3> HIDE DEF s
    <3> QED BY <1>1, <2>3, <2>4, <2>5 DEF Lines
  <2> HIDE DEF s, ws, w
  <2> QED BY <1>5, <2>4, <2>5, <2>6, <2>7
<1> QED BY <1>7, <1>8 DEF Lines

\* Nothing before, nothing after, one after.
LEMMA ConcatIs ==
  ASSUME NEW S, NEW s \in Seq(S)
  PROVE  /\ <<>> \o s = s /\ s \o <<>> = s
         /\ \A e \in S : s \o <<e>> = Append(s, e)
BY ConcatEmptySeq, AppendIsConcat

\* When nothing is under way the books are closed.
LEMMA QuietIs ==
  ASSUME TInv, BooksInv, Quiet, Right(faults)
  PROVE  /\ up["ws"] = <<>> /\ up["ws1"] = <<>> /\ down["ws1"] = <<>>
         /\ \A p \in Pages : page[p].timers = {}
         /\ Closed(cars, quantity)
         /\ Keyed(cars)
         /\ Books(cars, quantity, <<>>, <<>>, <<>>, page[last].ask, {})
<1>1. /\ up["ws"] = <<>> /\ up["ws1"] = <<>> /\ down["ws1"] = <<>>
      /\ \A p \in Pages : page[p].timers = {}
  BY DEF Quiet, SilentNet, Lines
<1>2. /\ cars \in Seq(Car) /\ quantity \in [Types -> Int] /\ last \in Pages
  BY DEF TInv, TypeOK
<1>3. /\ Books(cars, quantity, up["ws"], up["ws1"], down["ws1"], page[last].ask,
               page[last].timers)
  BY BooksInvIs
<1> DEFINE ask == page[last].ask
<1>4. Books(cars, quantity, <<>>, <<>>, <<>>, ask, {})
  BY <1>1, <1>2, <1>3
<1> HIDE DEF ask
<1>5. Closed(cars, quantity)
  BY <1>2, <1>4, BooksClosed DEF Closed
<1>6. Keyed(cars)
  BY <1>4 DEF Books
<1> QED BY <1>1, <1>4, <1>5, <1>6 DEF ask

\* A statement with no change comes after the others.
LEMMA BooksRead ==
  ASSUME NEW cs, NEW q, NEW ws \in Seq(OnWs), NEW ws1, NEW dn1, NEW ask, NEW timers,
         Books(cs, q, ws, ws1, dn1, ask, timers)
  PROVE  Books(cs, q, Append(ws, SELECTCARINFO), ws1, dn1, ask, timers)
<1> DEFINE v == Append(ws, SELECTCARINFO)
<1>1. /\ SELECTCARINFO \in OnWs /\ SELECTCARINFO.op \notin ChangeOps
      /\ SELECTCARINFO.op # "CORRECT"
  BY StatementsAre DEF SELECTCARINFO, ChangeOps
<1>2. OneChange(ws) /\ OnlyCorrection(ws)
  BY DEF Books, OneCorrection, OnlyCorrection
<1>3. SameChange(v, ws) /\ SameCorrection(v, ws)
  <2> HIDE DEF OnWs, SELECTCARINFO
  <2> QED BY <1>1, <1>2, AppendSame
<1> HIDE DEF v
<1>4. Books(cs, q, v, ws1, dn1, ask, timers)
  BY <1>3, BooksSame
<1> QED BY <1>4 DEF v

\* What the handler waits for is of no account when nothing is under way.
LEMMA BooksAsk ==
  ASSUME NEW cs, NEW q, NEW ask, Books(cs, q, <<>>, <<>>, <<>>, ask, {}), NEW other
  PROVE  Books(cs, q, <<>>, <<>>, <<>>, other, {})
<1>1. Asked(q, <<>>, <<>>, other)
  BY DEF Asked
<1>2. \A t, c : Owed(q, <<>>, <<>>, <<>>, ask, t, c) => Owed(q, <<>>, <<>>, <<>>, other, t, c)
  BY DEF Owed
<1>3. ASSUME NEW t \in Types PROVE Balanced(cs, q, <<>>, <<>>, <<>>, other, {}, t)
  BY <1>2 DEF Books, Balanced
<1> QED BY <1>1, <1>3 DEF Books

\* Open keeps the books: what it forgets was done with.
LEMMA OpenBooksInv == ASSUME TInv, BooksInv, NEW p \in Pages, Open(p) PROVE BooksInv'
<1> SUFFICES ASSUME Right(faults')
             PROVE  /\ Books(cars', quantity', up'["ws"], up'["ws1"], down'["ws1"],
                             page'[last'].ask, page'[last'].timers)
                    /\ \A o \in Pages : o # last' => page'[o].timers = {}
  BY BooksInvNext
<1>1. Calm /\ faults' = faults \cup Fault("reloaded", ~ Quiet)
  BY DEF Open, Patient
<1>2. Quiet
  BY <1>1 DEF Right, Fault
<1>3. Right(faults)
  BY <1>1 DEF Right
<1>4. /\ last' = p /\ UNCHANGED <<cars, quantity, up, down>>
      /\ page'[p] = Fresh /\ \A o \in Pages : o # p => page'[o] = page[o]
  BY DEF Open, TInv, TypeOK
<1>5. /\ up["ws"] = <<>> /\ up["ws1"] = <<>> /\ down["ws1"] = <<>>
      /\ \A o \in Pages : page[o].timers = {}
      /\ Books(cars, quantity, <<>>, <<>>, <<>>, page[last].ask, {})
  BY <1>2, <1>3, QuietIs
<1>6. Books(cars, quantity, <<>>, <<>>, <<>>, Nothing, {})
  BY <1>5, BooksAsk
<1>7. Fresh.ask = Nothing /\ Fresh.timers = {}
  BY DEF Fresh
<1> QED BY <1>4, <1>5, <1>6, <1>7

\* selectSheet keeps the books.
LEMMA selectSheetBooksInv ==
  ASSUME TInv, BooksInv, NEW p \in Pages, selectSheet(p) PROVE BooksInv'
<1> SUFFICES ASSUME Right(faults')
             PROVE  /\ Books(cars', quantity', up'["ws"], up'["ws1"], down'["ws1"],
                             page'[last'].ask, page'[last'].timers)
                    /\ \A o \in Pages : o # last' => page'[o].timers = {}
  BY BooksInvNext
<1>1. /\ Click(p, <<SELECTCARINFO>>, <<>>, {})
      /\ <<SELECTCARINFO>> \in Seq(OnWs) /\ <<>> \in Seq(OnWs1)
      /\ page'[p] = [page[p] EXCEPT !.shows = TRUE]
      /\ \A o \in Pages : o # p => page'[o] = page[o]
      /\ page[p] \in Page /\ last \in Pages
  BY selectSheetIs, SelOnce DEF TInv, TypeOK
<1>2. \A o \in Pages : page'[o].ask = page[o].ask /\ page'[o].timers = page[o].timers
  BY <1>1 DEF Page
<1>3. /\ Sent(<<SELECTCARINFO>>, <<>>) /\ UNCHANGED <<cars, quantity, down, last>>
      /\ faults' = faults \cup {} \cup Fault("foreign", last # p)
  <2> HIDE DEF SELECTCARINFO
  <2> QED BY <1>1, ClickIs DEF TInv
<1>4. Right(faults)
  BY <1>3 DEF Right
<1> DEFINE ws == up["ws"]
           ws1 == up["ws1"]
           dn1 == down["ws1"]
           ask == page[last].ask
           timers == page[last].timers
<1>5. /\ ws \in Seq(OnWs) /\ ws1 \in Seq(OnWs1)
      /\ Books(cars, quantity, ws, ws1, dn1, ask, timers)
     
      /\ \A o \in Pages : o # last => page[o].timers = {}
  BY <1>4, BooksInvIs DEF TInv, TypeOK
<1>6. up'["ws"] = Append(ws, SELECTCARINFO) /\ up'["ws1"] = ws1
  BY <1>3, <1>5, ConcatIs, StatementsAre DEF Sent
<1>7. down'["ws1"] = dn1 /\ page'[last].ask = ask /\ page'[last].timers = timers
  BY <1>1, <1>2, <1>3
<1> HIDE DEF ws, ws1, dn1, ask, timers, SELECTCARINFO
<1>8. Books(cars, quantity, Append(ws, SELECTCARINFO), ws1, dn1, ask, timers)
  BY <1>5, BooksRead
<1> QED BY <1>1, <1>2, <1>3, <1>5, <1>6, <1>7, <1>8

\* selectItem keeps the books.
LEMMA selectItemBooksInv ==
  ASSUME TInv, BooksInv, NEW p \in Pages, NEW i \in 1 .. Len(page[p].table), selectItem(p, i)
  PROVE  BooksInv'
<1>1. UNCHANGED <<up, cars, quantity, down, last, faults>> /\ last \in Pages
  BY DEF selectItem, TInv, TypeOK
<1>2. \A o \in Pages : page'[o].ask = page[o].ask /\ page'[o].timers = page[o].timers
  BY selectItemIs
<1> QED BY <1>1, <1>2 DEF BooksInv

\* A change is confirmed on the page that is last when nothing is under way.
LEMMA ConfirmIs ==
  ASSUME TInv, BooksInv, NEW p \in Pages, NEW ws \in Seq(OnWs), NEW ws1 \in Seq(OnWs1), NEW what,
         Click(p, ws, ws1, what), Hasty(p) \subseteq what, Right(faults')
  PROVE  /\ p = last /\ last' = last /\ cars' = cars /\ quantity' = quantity
         /\ faults' = what
         /\ up'["ws"] = ws /\ up'["ws1"] = ws1 /\ down'["ws1"] = <<>>
         /\ \A o \in Pages : page[o].timers = {}
         /\ cars \in Seq(Car) /\ quantity \in [Types -> Int]
         /\ Closed(cars, quantity) /\ Keyed(cars)
<1>1. /\ faults = {} /\ Sent(ws, ws1) /\ UNCHANGED <<cars, quantity, down, last>>
      /\ faults' = what \cup Fault("foreign", last # p)
  <2>1. /\ Calm /\ Sent(ws, ws1) /\ UNCHANGED <<cars, quantity, down, last>>
        /\ faults' = faults \cup what \cup Fault("foreign", last # p)
    BY ClickIs DEF TInv
  <2>2. faults = {}
    BY <2>1 DEF Calm, Right
  <2> QED BY <2>1, <2>2
<1>2. Quiet /\ p = last /\ faults' = what
  <2>1. ~ ("hasty" \in what) /\ ~ ("foreign" \in Fault("foreign", last # p))
    BY <1>1 DEF Right
  <2> QED BY <1>1, <2>1 DEF Hasty, Fault
<1>3. Right(faults)
  BY <1>1 DEF Right
<1>4. /\ up["ws"] = <<>> /\ up["ws1"] = <<>> /\ down["ws1"] = <<>>
      /\ \A o \in Pages : page[o].timers = {}
      /\ Closed(cars, quantity)
      /\ Keyed(cars)
  BY <1>2, <1>3, QuietIs
<1>5. up'["ws"] = ws /\ up'["ws1"] = ws1
  BY <1>1, <1>4, ConcatIs DEF Sent
<1> QED BY <1>1, <1>2, <1>3, <1>4, <1>5 DEF TInv, TypeOK

\* onClickConfirmAdd keeps the books.
LEMMA AddBooksInv ==
  ASSUME TInv, BooksInv, NEW p \in Pages, NEW cid \in Numbers, NEW code \in Codes,
         onClickConfirmAdd(p, cid, code)
  PROVE  BooksInv'
<1> SUFFICES ASSUME Right(faults')
             PROVE  /\ Books(cars', quantity', up'["ws"], up'["ws1"], down'["ws1"],
                             page'[last'].ask, page'[last'].timers)
                    /\ \A o \in Pages : o # last' => page'[o].timers = {}
  BY BooksInvNext
<1> DEFINE car == [cid |-> cid, code |-> code]
           what == Hasty(p) \cup Taken(cid)
           v == AddStatements(car)
           w == <<[op |-> "QUANTITY", code |-> code]>>
           ask == [code |-> code, delta |-> 1]
<1>1. /\ car \in Car /\ Click(p, v, w, what) /\ v \in Seq(OnWs) /\ w \in Seq(OnWs1)
      /\ page[p] \in Page /\ page'[p] = [page[p] EXCEPT !.ask = ask, !.done = "add"]
      /\ \A o \in Pages : o # p => page'[o] = page[o]
  BY AddIs, SelOnce
<1>2. /\ p = last /\ last' = last /\ cars' = cars /\ quantity' = quantity
      /\ faults' = what
      /\ up'["ws"] = v /\ up'["ws1"] = w /\ down'["ws1"] = <<>>
      /\ \A o \in Pages : page[o].timers = {}
      /\ cars \in Seq(Car) /\ quantity \in [Types -> Int]
      /\ Closed(cars, quantity) /\ Keyed(cars)
  <2>1. Hasty(p) \subseteq what
    OBVIOUS
  <2> HIDE DEF v, w, car, what
  <2> QED BY <1>1, <2>1, ConfirmIs
<1>3. cid \notin Cids(cars)
  BY <1>2 DEF Right, Taken, Fault
<1>4. page'[p].ask = ask /\ page'[p].timers = {} /\ \A o \in Pages : page'[o].timers = {}
  BY <1>1, <1>2 DEF Page
<1>5. car.cid = cid /\ car.code = code
  OBVIOUS
<1>6. v = <<[op |-> "INSERT", car |-> car], SELECTCARINFO>>
  BY DEF AddStatements
<1>7. Books(cars, quantity, v, w, <<>>, ask, {})
  <2>1. ask = [code |-> car.code, delta |-> 1] /\ w = <<[op |-> "QUANTITY", code |-> car.code]>>
    BY <1>5
  <2> HIDE DEF v, w, car, ask
  <2> QED BY <1>1, <1>2, <1>3, <1>5, <1>6, <2>1, BooksAdd
<1> HIDE DEF v, w, ask, car
<1> QED BY <1>1, <1>2, <1>4, <1>7

\* The timers of a deletion are about different cars.
LEMMA DeletionsOnce ==
  ASSUME TInv, NEW p \in Pages, page[p].table = Rows(cars), Keyed(cars)
  PROVE  /\ \A u \in Deletions(p) : \E a \in DOMAIN cars : cars[a] = u.row
         /\ \A u, w \in Deletions(p) : u.row.cid = w.row.cid => u = w
<1> DEFINE c == Chosen(p)
           place(k) == Nth(DOMAIN cars, RowOrder(cars), k)
           timer(k) == Timer(k, TRUE, c[k], page[p].table[c[k]], -1)
<1>1. /\ cars \in Seq(Car) /\ page[p].table = Rows(cars)
      /\ DOMAIN c = 1 .. Len(c) /\ \A k \in DOMAIN c : c[k] \in 1 .. Len(page[p].table)
      /\ page[p].table \in Seq(Car) /\ Once(c)
  BY ChosenIs DEF TInv, TypeOK
<1>2. /\ DOMAIN Rows(cars) = DOMAIN cars
      /\ \A k \in DOMAIN cars : Rows(cars)[k] = cars[place(k)] /\ place(k) \in DOMAIN cars
      /\ \A k, l \in DOMAIN cars : place(k) = place(l) => k = l
  <2>1. \A x \in Car : x.cid \in Nat
    BY DEF Car
  <2> HIDE DEF place, Car
  <2> QED BY <1>1, <2>1, RowsAre DEF place
<1>3. DOMAIN page[p].table = 1 .. Len(page[p].table)
  BY <1>1, LenProperties
<1>4. \A k \in DOMAIN c : c[k] \in DOMAIN cars
  BY <1>1, <1>2, <1>3
<1>5. Deletions(p) = {timer(k) : k \in DOMAIN c}
  BY <1>1 DEF Deletions
<1>6. \A k \in DOMAIN c : timer(k).row = Rows(cars)[c[k]]
  BY <1>1 DEF Timer
<1> HIDE DEF c, place, timer
<1>7. \A k \in DOMAIN c : timer(k).row = cars[place(c[k])] /\ place(c[k]) \in DOMAIN cars
  BY <1>2, <1>4, <1>6
<1>8. ASSUME NEW k \in DOMAIN c, NEW l \in DOMAIN c, timer(k).row.cid = timer(l).row.cid
      PROVE  k = l
  <2>1. place(c[k]) = place(c[l])
    BY <1>7, <1>8 DEF Keyed
  <2>2. c[k] = c[l]
    BY <1>2, <1>4, <2>1
  <2> QED BY <1>1, <2>2 DEF Once
<1> QED BY <1>5, <1>7, <1>8

\* onClickConfirmDel keeps the books.
LEMMA DelBooksInv ==
  ASSUME TInv, BooksInv, NEW p \in Pages, onClickConfirmDel(p) PROVE BooksInv'
<1> SUFFICES ASSUME Right(faults')
             PROVE  /\ Books(cars', quantity', up'["ws"], up'["ws1"], down'["ws1"],
                             page'[last'].ask, page'[last'].timers)
                    /\ \A o \in Pages : o # last' => page'[o].timers = {}
  BY BooksInvNext
<1> DEFINE v == <<SELECTCARINFO>>
           what == Hasty(p) \cup Stale(p)
           timers == Deletions(p)
<1>1. /\ Click(p, v, <<>>, what) /\ v \in Seq(OnWs) /\ <<>> \in Seq(OnWs1)
      /\ page[p] \in Page
      /\ page'[p] = [page[p] EXCEPT !.timers = @ \cup timers, !.sel = <<>>, !.done = "del"]
      /\ \A o \in Pages : o # p => page'[o] = page[o]
  BY DelIs, SelOnce
<1>2. /\ p = last /\ last' = last /\ cars' = cars /\ quantity' = quantity
      /\ faults' = what
      /\ up'["ws"] = v /\ up'["ws1"] = <<>> /\ down'["ws1"] = <<>>
      /\ \A o \in Pages : page[o].timers = {}
      /\ cars \in Seq(Car) /\ quantity \in [Types -> Int]
      /\ Closed(cars, quantity) /\ Keyed(cars)
  <2>1. Hasty(p) \subseteq what
    OBVIOUS
  <2> HIDE DEF v, what
  <2> QED BY <1>1, <2>1, ConfirmIs
<1>3. page[p].table = Rows(cars)
  BY <1>2 DEF Stale, Fault, Right
<1>4. /\ page'[p].ask = page[p].ask /\ page'[p].timers = timers
      /\ \A o \in Pages : o # p => page'[o].timers = {}
  BY <1>1, <1>2 DEF Page
<1>5. /\ \A u \in timers : u.del /\ u.delta = -1 /\ \E a \in DOMAIN cars : cars[a] = u.row
      /\ \A u, w \in timers : u.row.cid = w.row.cid => u = w
  BY <1>2, <1>3, DeletionsAre, DeletionsOnce
<1> DEFINE ask == page[p].ask
<1> HIDE DEF timers, ask
<1>6. Books(cars, quantity, v, <<>>, <<>>, ask, timers)
  BY <1>2, <1>5, BooksDel
<1> HIDE DEF v
<1> QED BY <1>1, <1>2, <1>4, <1>6 DEF ask

\* onClickConfirmEdit keeps the books.
LEMMA EditBooksInv ==
  ASSUME TInv, BooksInv, NEW p \in Pages, NEW cid \in Numbers, NEW code \in Codes,
         onClickConfirmEdit(p, cid, code)
  PROVE  BooksInv'
<1> SUFFICES ASSUME Right(faults')
             PROVE  /\ Books(cars', quantity', up'["ws"], up'["ws1"], down'["ws1"],
                             page'[last'].ask, page'[last'].timers)
                    /\ \A o \in Pages : o # last' => page'[o].timers = {}
  BY BooksInvNext
<1>1. PICK old \in Car, new \in Car :
        LET s == [op |-> "UPDATE", cid |-> old.cid, car |-> new]
        IN /\ Click(p, <<s, SELECTCARINFO>>, <<>>, Amiss(p, old, new))
           /\ <<s, SELECTCARINFO>> \in Seq(OnWs) /\ <<>> \in Seq(OnWs1)
           /\ \E i \in DOMAIN page[p].table : old = page[p].table[i]
           /\ page'[p] = [page[p] EXCEPT !.timers = @ \cup EditTimers(old, new),
                                         !.sel = <<>>, !.done = "edit"]
           /\ \A o \in Pages : o # p => page'[o] = page[o]
  BY EditIs
<1> DEFINE s == [op |-> "UPDATE", cid |-> old.cid, car |-> new]
           v == <<s, SELECTCARINFO>>
           what == Amiss(p, old, new)
           timers == EditTimers(old, new)
<1>2. Click(p, v, <<>>, what) /\ v \in Seq(OnWs) /\ <<>> \in Seq(OnWs1) /\ page[p] \in Page
  BY <1>1, SelOnce
<1>3. /\ p = last /\ last' = last /\ cars' = cars /\ quantity' = quantity
      /\ faults' = what
      /\ up'["ws"] = v /\ up'["ws1"] = <<>> /\ down'["ws1"] = <<>>
      /\ \A o \in Pages : page[o].timers = {}
      /\ cars \in Seq(Car) /\ quantity \in [Types -> Int]
      /\ Closed(cars, quantity) /\ Keyed(cars)
  <2>1. Hasty(p) \subseteq what
    BY DEF Amiss
  <2> HIDE DEF v, what
  <2> QED BY <1>2, <2>1, ConfirmIs
<1>4. page[p].table = Rows(cars) /\ (new.cid = old.cid \/ new.cid \notin Cids(cars))
  <2>1. "stale" \notin what /\ "duplicate" \notin what
    BY <1>3 DEF Right
  <2> QED BY <2>1 DEF Amiss, Stale, Taken, Fault
<1>5. \E a \in DOMAIN cars : cars[a] = old
  <2>1. /\ DOMAIN Rows(cars) = DOMAIN cars
        /\ \A k \in DOMAIN cars : \E a \in DOMAIN cars : Rows(cars)[k] = cars[a]
    <3>1. \A x \in Car : x.cid \in Nat
      BY DEF Car
    <3> QED BY <1>3, <3>1, RowsAre
  <2> QED BY <1>1, <1>4, <2>1
<1>6. /\ page'[p].ask = page[p].ask /\ page'[p].timers = timers
      /\ \A o \in Pages : o # p => page'[o].timers = {}
  <2>1. page'[p] = [page[p] EXCEPT !.timers = @ \cup timers, !.sel = <<>>, !.done = "edit"]
    BY <1>1
  <2>2. \A o \in Pages : o # p => page'[o].timers = {}
    BY <1>1, <1>3
  <2> HIDE DEF timers
  <2>3. page'[p].ask = page[p].ask /\ page'[p].timers = page[p].timers \cup timers
    BY <1>2, <2>1 DEF Page
  <2> QED BY <1>3, <2>2, <2>3
<1> DEFINE ask == page[p].ask
<1> HIDE DEF ask
<1>7. Books(cars, quantity, v, <<>>, <<>>, ask, timers)
  <2>1. clicks \in Nat
    BY DEF TInv, TypeOK
  <2> QED BY <1>3, <1>4, <1>5, <2>1, BooksEdit, Zenon
<1> HIDE DEF v, timers
<1> QED BY <1>3, <1>6, <1>7 DEF ask

\* A timer keeps the books.
LEMMA FireBooksInv ==
  ASSUME TInv, BooksInv, NEW p \in Pages, NEW t \in page[p].timers, Fire(p, t) PROVE BooksInv'
<1> SUFFICES ASSUME Right(faults')
             PROVE  /\ Books(cars', quantity', up'["ws"], up'["ws1"], down'["ws1"],
                             page'[last'].ask, page'[last'].timers)
                    /\ \A o \in Pages : o # last' => page'[o].timers = {}
  BY BooksInvNext
<1> DEFINE v == Removal(t)
           w == Question(t)
           delete == [op |-> "DELETE", cid |-> t.row.cid]
           query == [op |-> "QUANTITY", code |-> t.row.code]
           ask == Waiting(t)
           old == page[last].ask
           timers == page[last].timers
<1>1. /\ t \in Timers /\ delete \in OnWs /\ query \in OnWs1
      /\ up'["ws"] = IF t.del THEN Append(up["ws"], delete) ELSE up["ws"]
      /\ up'["ws1"] = Append(up["ws1"], query)
      /\ page'[p] = [page[p] EXCEPT !.timers = @ \ {t}, !.ask = ask]
      /\ \A o \in Pages : o # p => page'[o] = page[o]
      /\ faults' = faults \cup Fault("slow", ~ SilentNet) \cup Fault("foreign", last # p)
      /\ UNCHANGED <<cars, quantity, down, last>>
  BY FireIs DEF Waiting
<1>2. SilentNet /\ p = last /\ faults' = faults
  <2>1. ~ ("slow" \in Fault("slow", ~ SilentNet)) /\ ~ ("foreign" \in Fault("foreign", last # p))
    BY <1>1 DEF Right
  <2> QED BY <1>1, <2>1 DEF Fault
<1>3. Right(faults)
  BY <1>2
<1>4. up["ws"] = <<>> /\ up["ws1"] = <<>> /\ down["ws1"] = <<>>
  BY <1>2 DEF SilentNet, Lines
<1>5. /\ Books(cars, quantity, <<>>, <<>>, <<>>, old, timers)
      /\ \A o \in Pages : o # last => page[o].timers = {}
  BY <1>3, <1>4, BooksInvIs
<1>6. up'["ws"] = v /\ up'["ws1"] = w
  <2>1. Append(up["ws"], delete) = <<delete>> /\ Append(up["ws1"], query) = <<query>>
    BY <1>4
  <2> QED BY <1>1, <1>4, <2>1 DEF Removal, Question
<1>7. /\ cars \in Seq(Car) /\ quantity \in [Types -> Int] /\ timers \in SUBSET Timers
      /\ t \in timers /\ page[p] \in Page
  BY <1>2, SelOnce DEF TInv, TypeOK, Page
<1>8. /\ page'[p].ask = ask /\ page'[p].timers = timers \ {t}
      /\ \A o \in Pages : o # p => page'[o].timers = {}
  BY <1>1, <1>2, <1>5, <1>7 DEF Page
<1>9. Books(cars, quantity, v, w, <<>>, ask, timers \ {t})
  <2> HIDE DEF timers, old
  <2>1. cars \in Seq(Car) /\ quantity \in [Types -> Int]
    BY <1>7
  <2>2. timers \in SUBSET Timers /\ t \in timers
    BY <1>7
  <2>3. Books(cars, quantity, <<>>, <<>>, <<>>, old, timers)
    BY <1>5
  <2>4. Books(cars, quantity, Removal(t), Question(t), <<>>, Waiting(t), timers \ {t})
    BY <2>1, <2>2, <2>3, BooksFire
  <2> QED BY <2>4
<1> HIDE DEF v, w, ask, timers
<1> QED BY <1>1, <1>2, <1>4, <1>6, <1>8, <1>9

\* Every step keeps the books.
LEMMA NextBooksInv == TInv /\ BooksInv /\ [Next]_vars => BooksInv'
<1> SUFFICES ASSUME TInv, BooksInv, [Next]_vars PROVE BooksInv'
  OBVIOUS
<1>1. ASSUME NEW l \in Lines, Serve(l) PROVE BooksInv'
  BY <1>1, ServeBooksInv
<1>2. ASSUME NEW l \in Lines, Deliver(l) PROVE BooksInv'
  BY <1>2, DeliverBooksInv
<1>3. ASSUME NEW p \in Pages, Open(p) PROVE BooksInv'
  BY <1>3, OpenBooksInv
<1>4. ASSUME NEW p \in Pages, selectSheet(p) PROVE BooksInv'
  BY <1>4, selectSheetBooksInv
<1>5. ASSUME NEW p \in Pages, NEW i \in 1 .. Len(page[p].table), selectItem(p, i) PROVE BooksInv'
  BY <1>5, selectItemBooksInv
<1>6. ASSUME NEW p \in Pages, NEW cid \in Numbers, NEW code \in Codes,
         onClickConfirmAdd(p, cid, code) PROVE BooksInv'
  BY <1>6, AddBooksInv
<1>7. ASSUME NEW p \in Pages, NEW cid \in Numbers, NEW code \in Codes,
         onClickConfirmEdit(p, cid, code) PROVE BooksInv'
  BY <1>7, EditBooksInv
<1>8. ASSUME NEW p \in Pages, onClickConfirmDel(p) PROVE BooksInv'
  BY <1>8, DelBooksInv
<1>9. ASSUME NEW p \in Pages, NEW t \in page[p].timers, Fire(p, t) PROVE BooksInv'
  BY <1>9, FireBooksInv
<1>10. CASE UNCHANGED vars
  BY <1>10 DEF vars, BooksInv
<1> QED BY <1>1, <1>2, <1>3, <1>4, <1>5, <1>6, <1>7, <1>8, <1>9, <1>10 DEF Next

\* When nothing is under way, every quantity is the number of cars.
LEMMA BooksInvCloses == TInv /\ BooksInv => QuantityExact
<1> SUFFICES ASSUME TInv, BooksInv, Quiet, Right(faults)
             PROVE  \A t \in Types : quantity[t] = Count(t)
  BY DEF QuantityExact, Right
<1> QED BY QuietIs DEF Closed, Count

\* Whenever nothing is under way, every CAR_TYPE.quantity is the number of cars of its
\* type, unless something of what QuantityExact leaves out has happened.
THEOREM QuantitiesFollow == Spec => []QuantityExact
<1>1. Spec => []TInv
  BY TypeCorrect
<1>2. Init => BooksInv
  BY InitBooksInv
<1>3. TInv /\ BooksInv /\ [Next]_vars => BooksInv'
  BY NextBooksInv
<1>4. TInv /\ BooksInv => QuantityExact
  BY BooksInvCloses
<1> QED BY <1>1, <1>2, <1>3, <1>4, PTL DEF Spec

=============================================================================
