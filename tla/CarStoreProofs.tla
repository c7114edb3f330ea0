--------------------------- MODULE CarStoreProofs ---------------------------
(***************************************************************************)
(* Theorems about CarStore for every value of its constants.  The          *)
(* inductive invariant is TypeOK and TailInv with what the representation  *)
(* of the lists as sets of rows is good for (LinkInv) and the finiteness   *)
(* of the three tables: finiteness makes the cardinalities numbers, and     *)
(* TailInv is what keeps an INSERT from cutting the list it appends to.     *)
(***************************************************************************)
EXTENDS CarStore, FiniteSetTheorems, TLAPS

FiniteInv == IsFiniteSet(types) /\ IsFiniteSet(cars) /\ IsFiniteSet(orders)

\* The three sets stand for lists under head: no two nodes share an address,
\* and every row hangs under a row of the table above.
LinkInv ==
  LET nodes == types \cup cars \cup orders IN
  /\ \A r \in nodes : r.at <= brk
  /\ \A r, s \in nodes : r.at = s.at => r = s
  /\ cars = Under(cars, types)
  /\ orders = Under(orders, cars)

IInv == TypeOK /\ FiniteInv /\ LinkInv /\ TailInv

-----------------------------------------------------------------------------
\* The counters stay within unsigned int whatever is added or subtracted.
LEMMA CounterRange ==
  ASSUME NEW n \in 0 .. UMOD - 1, NEW k \in Int
  PROVE  Plus(n, k) \in 0 .. UMOD - 1 /\ Minus(n, k) \in 0 .. UMOD - 1
<1>1. n + k \in Int /\ n - k \in Int
  OBVIOUS
<1>2. \A a \in Int : a % UMOD \in 0 .. UMOD - 1
  BY UModAssumption
<1> QED BY <1>1, <1>2 DEF Plus, Minus

\* Any part of a finite table is finite, and its size is a natural number.
LEMMA PartIsFinite ==
  ASSUME NEW S, IsFiniteSet(S), NEW T, T \subseteq S
  PROVE  IsFiniteSet(T) /\ Cardinality(T) \in Nat
BY FS_Subset, FS_CardinalityType

\* Replacing a row of a finite table leaves it finite.
LEMMA SwapIsFinite ==
  ASSUME NEW S, IsFiniteSet(S), NEW x, NEW y
  PROVE  IsFiniteSet((S \ {x}) \cup {y})
BY FS_RemoveElement, FS_AddElement

-----------------------------------------------------------------------------
LEMMA InitIInv == Init => IInv
<1> SUFFICES ASSUME Init PROVE IInv
  OBVIOUS
<1>1. TypeOK
  BY BoundsAssumption, UModAssumption
     DEF Init, TypeOK, Tables, NoTable, Replies, Sentinel
<1>2. FiniteInv
  BY FS_EmptySet DEF Init, FiniteInv
<1>3. LinkInv /\ TailInv
  BY DEF Init, LinkInv, TailInv, Under, Sentinel
<1> QED BY <1>1, <1>2, <1>3 DEF IInv

\* The counters of an INSERT keep their types.
LEMMA CountRowType ==
  ASSUME TypeOK, NEW ti \in Tables, CountRow(ti)
  PROVE  /\ icnt' \in [Tables -> 0 .. UMOD - 1]
         /\ ccnt' \in 0 .. MaxRows
         /\ inserting' \in Tables \cup {NoTable}
         /\ reply' \in Replies
<1>1. icnt \in [Tables -> 0 .. UMOD - 1] /\ icnt[ti] \in 0 .. UMOD - 1
  BY DEF TypeOK
<1>2. Plus(icnt[ti], 1) \in 0 .. UMOD - 1
  BY <1>1, CounterRange
<1>3. icnt' \in [Tables -> 0 .. UMOD - 1]
  BY <1>1, <1>2 DEF CountRow
<1>4. ccnt' \in 0 .. MaxRows
  BY BoundsAssumption DEF TypeOK, CountRow
<1> QED BY <1>3, <1>4 DEF TypeOK, CountRow

\* A node at the next address shares it with no other.
LEMMA FreshNode ==
  ASSUME IInv, NEW n, n.at = brk + 1
  PROVE  LET nodes == types \cup cars \cup orders \cup {n} IN
         /\ \A r \in nodes : r.at <= brk + 1
         /\ \A r, s \in nodes : r.at = s.at => r = s
<1> DEFINE nodes == types \cup cars \cup orders
<1>1. brk \in Int /\ \A r \in nodes : r.at \in Int /\ r.at <= brk
  BY DEF IInv, LinkInv, TypeOK, CarType, CarInfo, RentOrder, Address
<1>2. \A r, s \in nodes : r.at = s.at => r = s
  BY DEF IInv, LinkInv
<1>3. \A r \in nodes : r.at # n.at
  BY <1>1
<1> QED BY <1>1, <1>2, <1>3

LEMMA InsertCarTypeIInv ==
  ASSUME IInv, NEW code \in Codes, NEW quantity \in Quantities,
         InsertCarType(code, quantity)
  PROVE  IInv'
<1> DEFINE new == [at |-> brk + 1, up |-> Sentinel, code |-> code, quantity |-> quantity]
<1>1. brk \in Nat /\ brk + 1 \in Address /\ brk' = brk + 1 /\ ct_ptr' = brk + 1
  BY BoundsAssumption DEF IInv, TypeOK, InsertCarType, Address
<1>2. new \in CarType
  BY <1>1 DEF CarType
<1>5. /\ icnt' \in [Tables -> 0 .. UMOD - 1] /\ ccnt' \in 0 .. MaxRows
      /\ inserting' \in Tables \cup {NoTable} /\ reply' \in Replies
  BY CountRowType DEF IInv, InsertCarType, Tables
<1>3. CASE OnList(ct_ptr)
  <2>1. types' = types \cup {new}
    <3>1. \A t \in types : t.at <= ct_ptr
      BY DEF IInv, TailInv, IsTail
    <3> QED BY <3>1, <1>3 DEF InsertCarType
  <2>2. cars' = cars /\ orders' = orders
    BY <2>1 DEF InsertCarType, IInv, LinkInv, Under, AddressesOf
  <2>3. TypeOK'
    <3> QED BY <1>1, <1>2, <1>5, <2>1, <2>2 DEF IInv, TypeOK, Address
  <2>4. FiniteInv'
    BY <2>1, <2>2, FS_AddElement DEF IInv, FiniteInv
  <2>5. LinkInv'
    <3>1. cars' = Under(cars', types') /\ orders' = Under(orders', cars')
      BY <2>1, <2>2 DEF IInv, LinkInv, Under, AddressesOf
    <3>2. (types \cup cars \cup orders)' = types \cup cars \cup orders \cup {new}
      BY <2>1, <2>2
    <3> QED BY <3>1, <3>2, <1>1, FreshNode DEF IInv, LinkInv
  <2>6. TailInv'
    <3>1. \A r \in types : r.at \in Int /\ r.at <= brk
      BY DEF IInv, LinkInv, TypeOK, CarType, Address
    <3>2. new \in types' /\ new.at = ct_ptr' /\ \A r \in types' : r.at <= ct_ptr'
      BY <3>1, <1>1, <2>1
    <3> QED BY <3>2, <1>1 DEF TailInv, IsTail, AddressesOf
  <2> QED BY <2>3, <2>4, <2>5, <2>6 DEF IInv
<1>4. CASE ~OnList(ct_ptr)
  <2>1. types = {}
    BY <1>4 DEF OnList, IInv, TailInv, IsTail
  <2>2. types' = {} /\ cars' = {} /\ orders' = {}
    BY <1>4, <2>1 DEF InsertCarType, Under, AddressesOf
  <2>3. TypeOK'
    <3> QED BY <1>1, <1>5, <2>2 DEF IInv, TypeOK, Address
  <2>4. FiniteInv'
    BY <2>2, FS_EmptySet DEF FiniteInv
  <2>5. LinkInv' /\ TailInv'
    BY <1>1, <2>2 DEF LinkInv, TailInv, Under
  <2> QED BY <2>3, <2>4, <2>5 DEF IInv
<1> QED BY <1>3, <1>4

LEMMA InsertCarInfoIInv ==
  ASSUME IInv, NEW cid \in Cids, NEW code \in Codes, InsertCarInfo(cid, code)
  PROVE  IInv'
<1> DEFINE homes == Homes(types, "code", code)
<1>1. /\ icnt' \in [Tables -> 0 .. UMOD - 1] /\ ccnt' \in 0 .. MaxRows
      /\ inserting' \in Tables \cup {NoTable} /\ reply' \in Replies
  BY CountRowType DEF IInv, InsertCarInfo, Tables
<1>2. types' = types /\ orders' = orders /\ ct_ptr' = ct_ptr
  BY DEF InsertCarInfo
<1>3. CASE cars' = cars /\ brk' = brk
  BY <1>1, <1>2, <1>3
     DEF IInv, TypeOK, FiniteInv, LinkInv, TailInv, IsTail, Under, AddressesOf
<1>4. CASE /\ brk < MaxNodes /\ brk' = brk + 1
           /\ \E t \in homes : /\ First("CAR_TYPE", homes, t)
                              /\ cars' = cars \cup {[at |-> brk + 1, up |-> t.at,
                                                     cid |-> cid, code |-> code]}
  <2>1. PICK t \in homes : cars' = cars \cup {[at |-> brk + 1, up |-> t.at,
                                               cid |-> cid, code |-> code]}
    BY <1>4
  <2> DEFINE new == [at |-> brk + 1, up |-> t.at, cid |-> cid, code |-> code]
  <2>2. brk \in Nat /\ brk + 1 \in Address
    BY <1>4, BoundsAssumption DEF IInv, TypeOK, Address
  <2>3. t \in types /\ t.at \in Address
    BY DEF Homes, IInv, TypeOK, CarType
  <2>4. new \in CarInfo
    BY <2>2, <2>3 DEF CarInfo
  <2>5. TypeOK'
    BY <1>1, <1>2, <1>4, <2>1, <2>2, <2>4 DEF IInv, TypeOK, Address
  <2>6. FiniteInv'
    BY <1>2, <2>1, FS_AddElement DEF IInv, FiniteInv
  <2>7. LinkInv'
    <3>1. cars' = Under(cars', types') /\ orders' = Under(orders', cars')
      BY <1>2, <2>1, <2>3 DEF IInv, LinkInv, Under, AddressesOf
    <3>2. (types \cup cars \cup orders)' = types \cup cars \cup orders \cup {new}
      BY <1>2, <2>1
    <3> QED BY <3>1, <3>2, <1>4, <2>2, FreshNode DEF IInv, LinkInv
  <2>8. TailInv'
    BY <1>2, <1>4, <2>2 DEF IInv, TypeOK, TailInv, IsTail, AddressesOf
  <2> QED BY <2>5, <2>6, <2>7, <2>8 DEF IInv
<1> QED BY <1>3, <1>4 DEF InsertCarInfo

LEMMA InsertRentOrderIInv ==
  ASSUME IInv, NEW oid \in Oids, NEW cid \in Cids, InsertRentOrder(oid, cid)
  PROVE  IInv'
<1> DEFINE homes == Homes(cars, "cid", cid)
<1>1. /\ icnt' \in [Tables -> 0 .. UMOD - 1] /\ ccnt' \in 0 .. MaxRows
      /\ inserting' \in Tables \cup {NoTable} /\ reply' \in Replies
  BY CountRowType DEF IInv, InsertRentOrder, Tables
<1>2. types' = types /\ cars' = cars /\ ct_ptr' = ct_ptr
  BY DEF InsertRentOrder
<1>3. CASE orders' = orders /\ brk' = brk
  BY <1>1, <1>2, <1>3
     DEF IInv, TypeOK, FiniteInv, LinkInv, TailInv, IsTail, Under, AddressesOf
<1>4. CASE /\ brk < MaxNodes /\ brk' = brk + 1
           /\ \E c \in homes : /\ First("CAR_INFO", homes, c)
                              /\ orders' = orders \cup {[at |-> brk + 1, up |-> c.at,
                                                         oid |-> oid, cid |-> cid]}
  <2>1. PICK c \in homes : orders' = orders \cup {[at |-> brk + 1, up |-> c.at,
                                                   oid |-> oid, cid |-> cid]}
    BY <1>4
  <2> DEFINE new == [at |-> brk + 1, up |-> c.at, oid |-> oid, cid |-> cid]
  <2>2. brk \in Nat /\ brk + 1 \in Address
    BY <1>4, BoundsAssumption DEF IInv, TypeOK, Address
  <2>3. c \in cars /\ c.at \in Address
    BY DEF Homes, IInv, TypeOK, CarInfo
  <2>4. new \in RentOrder
    BY <2>2, <2>3 DEF RentOrder
  <2>5. TypeOK'
    BY <1>1, <1>2, <1>4, <2>1, <2>2, <2>4 DEF IInv, TypeOK, Address
  <2>6. FiniteInv'
    BY <1>2, <2>1, FS_AddElement DEF IInv, FiniteInv
  <2>7. LinkInv'
    <3>1. cars' = Under(cars', types') /\ orders' = Under(orders', cars')
      BY <1>2, <2>1, <2>3 DEF IInv, LinkInv, Under, AddressesOf
    <3>2. (types \cup cars \cup orders)' = types \cup cars \cup orders \cup {new}
      BY <1>2, <2>1
    <3> QED BY <3>1, <3>2, <1>4, <2>2, FreshNode DEF IInv, LinkInv
  <2>8. TailInv'
    BY <1>2, <1>4, <2>2 DEF IInv, TypeOK, TailInv, IsTail, AddressesOf
  <2> QED BY <2>5, <2>6, <2>7, <2>8 DEF IInv
<1> QED BY <1>3, <1>4 DEF InsertRentOrder

\* The steps that leave the store as it is.
LEMMA SameStoreIInv ==
  ASSUME IInv, UNCHANGED store,
         inserting' \in Tables \cup {NoTable},
         ccnt' \in 0 .. MaxRows,
         reply' \in Replies
  PROVE  IInv'
BY DEF IInv, TypeOK, FiniteInv, LinkInv, TailInv, IsTail, Under, AddressesOf, store

-----------------------------------------------------------------------------
\* Removing a row with everything under it leaves no orphan; the rest of the
\* invariant only needs the tables to shrink.
LEMMA ShrinkIInv ==
  ASSUME IInv,
         types' \subseteq types, cars' \subseteq cars, orders' \subseteq orders,
         cars' = Under(cars', types'), orders' = Under(orders', cars'),
         brk' = brk, ct_ptr' \in 0 .. brk,
         types' # {} => IsTail(ct_ptr', types'),
         icnt' \in [Tables -> 0 .. UMOD - 1],
         UNCHANGED <<inserting, ccnt>>, reply' \in Replies
  PROVE  IInv'
<1>1. TypeOK'
  BY BoundsAssumption DEF IInv, TypeOK
<1>2. FiniteInv'
  BY PartIsFinite DEF IInv, FiniteInv
<1>3. LinkInv' /\ TailInv'
  BY DEF IInv, LinkInv, TailInv, TypeOK
<1> QED BY <1>1, <1>2, <1>3 DEF IInv

LEMMA DeleteCarTypeIInv ==
  ASSUME IInv, NEW col, NEW v, DeleteCarType(col, v)
  PROVE  IInv'
<1> DEFINE M  == Matching(types, col, v)
           CI == Under(cars, M)
           RO == Under(orders, CI)
<1>1. PICK U \in SUBSET M :
        /\ types' = types \ U
        /\ cars' = cars \ Subtree(cars, U)
        /\ orders' = orders \ Subtree(orders, Subtree(cars, U))
        /\ \E q \in {ct_ptr} \cup AddressesOf(types \ U) :
             /\ IF M = {} THEN q = ct_ptr ELSE update_ct_ptr(types \ U, ct_ptr, q)
             /\ ct_ptr' = q
  BY DEF DeleteCarType
<1>2. cars' = Under(cars', types') /\ orders' = Under(orders', cars')
  BY <1>1 DEF IInv, LinkInv, Under, Subtree, AddressesOf
<1>3. ct_ptr' \in 0 .. brk /\ (types' # {} => IsTail(ct_ptr', types'))
  <2>1. ct_ptr \in 0 .. brk /\ \A t \in types : t.at \in 0 .. brk
    BY DEF IInv, TypeOK, TailInv, LinkInv, CarType, Address
  <2>2. CASE M = {}
    BY <1>1, <2>1, <2>2 DEF IInv, TailInv
  <2>3. CASE M # {}
    BY <1>1, <2>1, <2>3 DEF update_ct_ptr, AddressesOf
  <2> QED BY <2>2, <2>3
<1>4. icnt' \in [Tables -> 0 .. UMOD - 1]
  <2>1. Cardinality(M) \in Nat /\ Cardinality(CI) \in Nat /\ Cardinality(RO) \in Nat
    BY PartIsFinite DEF IInv, FiniteInv, Matching, Under
  <2>2. /\ Minus(icnt["CAR_TYPE"], Cardinality(M)) \in 0 .. UMOD - 1
        /\ Minus(icnt["CAR_INFO"], Cardinality(CI)) \in 0 .. UMOD - 1
        /\ Minus(icnt["RENT_ORDER"], Cardinality(RO)) \in 0 .. UMOD - 1
    BY <2>1, CounterRange DEF IInv, TypeOK, Tables
  <2> QED BY <2>2 DEF IInv, TypeOK, DeleteCarType, Tables
<1>5. brk' = brk /\ UNCHANGED <<inserting, ccnt>> /\ reply' \in Replies
  BY DEF DeleteCarType, Replies
<1> QED BY <1>1, <1>2, <1>3, <1>4, <1>5, ShrinkIInv DEF Under

LEMMA DeleteCarInfoIInv ==
  ASSUME IInv, NEW col, NEW v, DeleteCarInfo(col, v)
  PROVE  IInv'
<1> DEFINE M  == Matching(cars, col, v)
           RO == Under(orders, M)
<1>1. PICK U \in SUBSET M : cars' = cars \ U /\ orders' = orders \ Subtree(orders, U)
  BY DEF DeleteCarInfo
<1>2. cars' = Under(cars', types') /\ orders' = Under(orders', cars')
  BY <1>1 DEF IInv, LinkInv, Under, Subtree, AddressesOf, DeleteCarInfo
<1>3. icnt' \in [Tables -> 0 .. UMOD - 1]
  <2>1. Cardinality(M) \in Nat /\ Cardinality(RO) \in Nat
    BY PartIsFinite DEF IInv, FiniteInv, Matching, Under
  <2>2. /\ Minus(icnt["CAR_INFO"], Cardinality(M)) \in 0 .. UMOD - 1
        /\ Minus(icnt["RENT_ORDER"], Cardinality(RO)) \in 0 .. UMOD - 1
    BY <2>1, CounterRange DEF IInv, TypeOK, Tables
  <2> QED BY <2>2 DEF IInv, TypeOK, DeleteCarInfo, Tables
<1>4. /\ UNCHANGED <<types, brk, inserting, ccnt>> /\ reply' \in Replies
      /\ ct_ptr' \in 0 .. brk /\ (types' # {} => IsTail(ct_ptr', types'))
  BY DEF DeleteCarInfo, Replies, IInv, TailInv, TypeOK, IsTail, AddressesOf
<1> QED BY <1>1, <1>2, <1>3, <1>4, ShrinkIInv DEF Under

LEMMA DeleteRentOrderIInv ==
  ASSUME IInv, NEW col, NEW v, DeleteRentOrder(col, v)
  PROVE  IInv'
<1> DEFINE M == Matching(orders, col, v)
<1>1. PICK U \in SUBSET M : orders' = orders \ U
  BY DEF DeleteRentOrder
<1>2. cars' = Under(cars', types') /\ orders' = Under(orders', cars')
  BY <1>1 DEF IInv, LinkInv, Under, AddressesOf, DeleteRentOrder
<1>3. icnt' \in [Tables -> 0 .. UMOD - 1]
  <2>1. Cardinality(M) \in Nat
    BY PartIsFinite DEF IInv, FiniteInv, Matching
  <2>2. Minus(icnt["RENT_ORDER"], Cardinality(M)) \in 0 .. UMOD - 1
    BY <2>1, CounterRange DEF IInv, TypeOK, Tables
  <2> QED BY <2>2 DEF IInv, TypeOK, DeleteRentOrder, Tables
<1>4. /\ UNCHANGED <<types, cars, brk, inserting, ccnt>> /\ reply' \in Replies
      /\ ct_ptr' \in 0 .. brk /\ (types' # {} => IsTail(ct_ptr', types'))
  BY DEF DeleteRentOrder, Replies, IInv, TailInv, TypeOK, IsTail, AddressesOf
<1> QED BY <1>1, <1>2, <1>3, <1>4, ShrinkIInv

-----------------------------------------------------------------------------
\* No node is in two tables.
LEMMA TablesDisjoint ==
  ASSUME TypeOK
  PROVE  types \cap cars = {} /\ types \cap orders = {} /\ cars \cap orders = {}
<1>1. types \cap cars = {} /\ types \cap orders = {}
  BY DEF TypeOK, CarType, CarInfo, RentOrder, Address, Sentinel
<1>2. \A c \in CarInfo : "oid" \notin DOMAIN c
  BY DEF CarInfo
<1>3. \A o \in RentOrder : "oid" \in DOMAIN o
  BY DEF RentOrder
<1> QED BY <1>1, <1>2, <1>3 DEF TypeOK

\* Rewriting the columns of one node keeps the addresses distinct.
LEMMA RewriteDistinct ==
  ASSUME IInv, NEW t, NEW new, t \in types \cup cars \cup orders, new.at = t.at
  PROVE  \A r, s \in ((types \cup cars \cup orders) \ {t}) \cup {new} :
           r.at = s.at => r = s
BY DEF IInv, LinkInv

LEMMA UpdateCarTypeIInv ==
  ASSUME IInv, NEW col, NEW v, NEW code \in Codes, NEW quantity \in Quantities,
         UpdateCarType(col, v, code, quantity)
  PROVE  IInv'
<1> DEFINE M == Matching(types, col, v)
<1>1. /\ UNCHANGED <<cars, orders, ct_ptr, brk, icnt, inserting, ccnt>>
      /\ reply' \in Replies
  BY DEF UpdateCarType, Answer, Replies
<1>2. CASE types' = types
  BY <1>1, <1>2 DEF IInv, TypeOK, FiniteInv, LinkInv, TailInv, IsTail, Under, AddressesOf
<1>3. CASE \E t \in M : types' = (types \ {t})
                       \cup {[t EXCEPT !.code = code, !.quantity = quantity]}
  <2>1. PICK t \in types : types' = (types \ {t})
                       \cup {[t EXCEPT !.code = code, !.quantity = quantity]}
    BY <1>3 DEF Matching
  <2> DEFINE new == [t EXCEPT !.code = code, !.quantity = quantity]
  <2>2. new \in CarType /\ new.at = t.at
    BY DEF IInv, TypeOK, CarType
  <2>3. AddressesOf(types') = AddressesOf(types)
    BY <2>1, <2>2 DEF AddressesOf
  <2>4. TypeOK'
    BY <1>1, <2>1, <2>2 DEF IInv, TypeOK
  <2>5. FiniteInv'
    BY <1>1, <2>1, SwapIsFinite DEF IInv, FiniteInv
  <2>6. LinkInv'
    <3>1. Under(cars', types') = cars' /\ Under(orders', cars') = orders'
      BY <1>1, <2>3 DEF IInv, LinkInv, Under
    <3>2. (types \cup cars \cup orders)'
            = ((types \cup cars \cup orders) \ {t}) \cup {new}
      BY <1>1, <2>1, TablesDisjoint DEF IInv
    <3>3. \A r \in (types \cup cars \cup orders)' : r.at <= brk'
      BY <1>1, <2>2, <3>2 DEF IInv, LinkInv
    <3> QED BY <3>1, <3>2, <3>3, <2>2, RewriteDistinct DEF LinkInv
  <2>7. TailInv'
    BY <1>1, <2>1, <2>2, <2>3 DEF IInv, TailInv, IsTail
  <2> QED BY <2>4, <2>5, <2>6, <2>7 DEF IInv
<1> QED BY <1>2, <1>3 DEF UpdateCarType

LEMMA UpdateCarInfoIInv ==
  ASSUME IInv, NEW col, NEW v, NEW cid \in Cids, NEW code \in Codes,
         UpdateCarInfo(col, v, cid, code)
  PROVE  IInv'
<1> DEFINE M == Matching(cars, col, v)
<1>1. /\ UNCHANGED <<types, orders, ct_ptr, brk, icnt, inserting, ccnt>>
      /\ reply' \in Replies
  BY DEF UpdateCarInfo, Answer, Replies
<1>2. CASE cars' = cars
  BY <1>1, <1>2 DEF IInv, TypeOK, FiniteInv, LinkInv, TailInv, IsTail, Under, AddressesOf
<1>3. CASE \E c \in M : cars' = (cars \ {c}) \cup {[c EXCEPT !.cid = cid, !.code = code]}
  <2>1. PICK c \in cars : cars' = (cars \ {c})
                       \cup {[c EXCEPT !.cid = cid, !.code = code]}
    BY <1>3 DEF Matching
  <2> DEFINE new == [c EXCEPT !.cid = cid, !.code = code]
  <2>2. new \in CarInfo /\ new.at = c.at /\ new.up = c.up
    BY DEF IInv, TypeOK, CarInfo
  <2>3. AddressesOf(cars') = AddressesOf(cars)
    BY <2>1, <2>2 DEF AddressesOf
  <2>4. TypeOK'
    BY <1>1, <2>1, <2>2 DEF IInv, TypeOK
  <2>5. FiniteInv'
    BY <1>1, <2>1, SwapIsFinite DEF IInv, FiniteInv
  <2>6. LinkInv'
    <3>1. Under(cars', types') = cars' /\ Under(orders', cars') = orders'
      BY <1>1, <2>1, <2>2, <2>3 DEF IInv, LinkInv, Under
    <3>2. (types \cup cars \cup orders)'
            = ((types \cup cars \cup orders) \ {c}) \cup {new}
      BY <1>1, <2>1, TablesDisjoint DEF IInv
    <3>3. \A r \in (types \cup cars \cup orders)' : r.at <= brk'
      BY <1>1, <2>2, <3>2 DEF IInv, LinkInv
    <3> QED BY <3>1, <3>2, <3>3, <2>2, RewriteDistinct DEF LinkInv
  <2>7. TailInv'
    BY <1>1 DEF IInv, TailInv, IsTail, AddressesOf
  <2> QED BY <2>4, <2>5, <2>6, <2>7 DEF IInv
<1> QED BY <1>2, <1>3 DEF UpdateCarInfo

LEMMA UpdateRentOrderIInv ==
  ASSUME IInv, NEW col, NEW v, NEW oid \in Oids, NEW cid \in Cids,
         UpdateRentOrder(col, v, oid, cid)
  PROVE  IInv'
<1> DEFINE M == Matching(orders, col, v)
<1>1. /\ UNCHANGED <<types, cars, ct_ptr, brk, icnt, inserting, ccnt>>
      /\ reply' \in Replies
  BY DEF UpdateRentOrder, Answer, Replies
<1>2. CASE orders' = orders
  BY <1>1, <1>2 DEF IInv, TypeOK, FiniteInv, LinkInv, TailInv, IsTail, Under, AddressesOf
<1>3. CASE \E o \in M : orders' = (orders \ {o}) \cup {[o EXCEPT !.oid = oid, !.cid = cid]}
  <2>1. PICK o \in orders : orders' = (orders \ {o})
                       \cup {[o EXCEPT !.oid = oid, !.cid = cid]}
    BY <1>3 DEF Matching
  <2> DEFINE new == [o EXCEPT !.oid = oid, !.cid = cid]
  <2>2. new \in RentOrder /\ new.at = o.at /\ new.up = o.up
    BY DEF IInv, TypeOK, RentOrder
  <2>4. TypeOK'
    BY <1>1, <2>1, <2>2 DEF IInv, TypeOK
  <2>5. FiniteInv'
    BY <1>1, <2>1, SwapIsFinite DEF IInv, FiniteInv
  <2>6. LinkInv'
    <3>1. Under(cars', types') = cars' /\ Under(orders', cars') = orders'
      BY <1>1, <2>1, <2>2 DEF IInv, LinkInv, Under
    <3>2. (types \cup cars \cup orders)'
            = ((types \cup cars \cup orders) \ {o}) \cup {new}
      BY <1>1, <2>1, TablesDisjoint DEF IInv
    <3>3. \A r \in (types \cup cars \cup orders)' : r.at <= brk'
      BY <1>1, <2>2, <3>2 DEF IInv, LinkInv
    <3> QED BY <3>1, <3>2, <3>3, <2>2, RewriteDistinct DEF LinkInv
  <2>7. TailInv'
    BY <1>1 DEF IInv, TailInv, IsTail, AddressesOf
  <2> QED BY <2>4, <2>5, <2>6, <2>7 DEF IInv
<1> QED BY <1>2, <1>3 DEF UpdateRentOrder

-----------------------------------------------------------------------------
LEMMA NextIInv == IInv /\ [Next]_vars => IInv'
<1> SUFFICES ASSUME IInv, [Next]_vars PROVE IInv'
  OBVIOUS
<1>1. CASE InsertNext
  <2>1. ASSUME NEW ti \in Tables, InsertBegin(ti) PROVE IInv'
    BY <2>1, SameStoreIInv, BoundsAssumption DEF InsertBegin, IInv, TypeOK
  <2>2. CASE InsertMismatch
    BY <2>2, SameStoreIInv, BoundsAssumption DEF InsertMismatch, Replies
  <2>3. CASE InsertEnd
    BY <2>3, SameStoreIInv, BoundsAssumption DEF InsertEnd, Replies
  <2> QED BY <1>1, <2>1, <2>2, <2>3, InsertCarTypeIInv, InsertCarInfoIInv,
             InsertRentOrderIInv DEF InsertNext
<1>2. CASE DeleteNext
  BY <1>2, DeleteCarTypeIInv, DeleteCarInfoIInv, DeleteRentOrderIInv DEF DeleteNext
<1>3. CASE UpdateNext
  BY <1>3, UpdateCarTypeIInv, UpdateCarInfoIInv, UpdateRentOrderIInv DEF UpdateNext
<1>4. CASE Refuse
  BY <1>4, SameStoreIInv DEF Refuse, IInv, TypeOK, Replies
<1>5. CASE UNCHANGED vars
  BY <1>5, SameStoreIInv DEF vars, store, IInv, TypeOK
<1> QED BY <1>1, <1>2, <1>3, <1>4, <1>5 DEF Next

\* The inductive invariant holds in every reachable state.
THEOREM Invariance == Spec => []IInv
BY InitIInv, NextIInv, PTL DEF Spec

\* The variables keep their types, for any values and any bounds.
THEOREM TypeCorrect == Spec => []TypeOK
<1>1. IInv => TypeOK
  BY DEF IInv
<1> QED BY Invariance, <1>1, PTL

\* ct_ptr is the last linked car type whenever there is one.
THEOREM TailCorrect == Spec => []TailInv
<1>1. IInv => TailInv
  BY DEF IInv
<1> QED BY Invariance, <1>1, PTL

\* What an INSERT of car types has taken so far is linked, or the list under
\* head is empty: TailInv says where the next one goes, and that the last one
\* taken is the one ct_ptr is on.
TakenInv ==
  /\ RowsLinked
  /\ inserting = "CAR_TYPE" /\ ccnt > 0 => ct_ptr = brk /\ brk > 0

LEMMA InsertCarTypeTaken ==
  ASSUME IInv, TakenInv, NEW code \in Codes, NEW quantity \in Quantities,
         InsertCarType(code, quantity)
  PROVE  TakenInv'
<1>1. /\ brk \in Nat /\ ccnt \in Nat /\ brk' = brk + 1 /\ ccnt' = ccnt + 1
      /\ ct_ptr' = brk + 1 /\ inserting = "CAR_TYPE" /\ inserting' = "CAR_TYPE"
  BY BoundsAssumption DEF IInv, TypeOK, InsertCarType, CountRow
<1>2. CASE OnList(ct_ptr)
  <2>1. \A t \in types : t.at <= ct_ptr
    BY DEF IInv, TailInv, IsTail
  <2> DEFINE new == [at |-> brk + 1, up |-> Sentinel, code |-> code, quantity |-> quantity]
  <2>2. AddressesOf(types') = AddressesOf(types) \cup {brk + 1}
    <3>1. types' = types \cup {new} /\ new.at = brk + 1
      BY <1>2, <2>1 DEF InsertCarType
    <3> HIDE DEF new
    <3> QED BY <3>1 DEF AddressesOf
  <2>3. Taken \subseteq AddressesOf(types)
    <3>1. CASE types # {}
      BY <1>1, <3>1 DEF TakenInv, RowsLinked
    <3>2. CASE types = {}
      <4>1. ct_ptr = 0
        BY <1>2, <3>2 DEF OnList, AddressesOf, Sentinel
      <4>2. ccnt = 0
        BY <1>1, <4>1 DEF TakenInv
      <4> QED BY <1>1, <4>2 DEF Taken
    <3> QED BY <3>1, <3>2
  <2>4. Taken' \subseteq Taken \cup {brk + 1}
    BY <1>1 DEF Taken
  <2> QED BY <1>1, <2>2, <2>3, <2>4 DEF TakenInv, RowsLinked
<1>3. CASE ~ OnList(ct_ptr)
  <2>1. types' = {}
    BY <1>3 DEF OnList, IInv, TailInv, IsTail, InsertCarType
  <2> QED BY <1>1, <2>1 DEF TakenInv, RowsLinked
<1> QED BY <1>2, <1>3

LEMMA NextTaken == IInv /\ TakenInv /\ [Next]_vars => TakenInv'
<1> SUFFICES ASSUME IInv, TakenInv, [Next]_vars PROVE TakenInv'
  OBVIOUS
<1>1. CASE InsertNext
  <2>1. ASSUME NEW ti \in Tables, InsertBegin(ti) PROVE TakenInv'
    <3>1. brk' = brk /\ brk \in Nat /\ ccnt' = 0
      BY <2>1 DEF InsertBegin, store, IInv, TypeOK
    <3> QED BY <3>1 DEF TakenInv, RowsLinked, Taken
  <2>2. ASSUME NEW cid \in Cids, NEW code \in Codes, InsertCarInfo(cid, code)
        PROVE  TakenInv'
    BY <2>2 DEF InsertCarInfo, CountRow, TakenInv, RowsLinked
  <2>3. ASSUME NEW oid \in Oids, NEW cid \in Cids, InsertRentOrder(oid, cid)
        PROVE  TakenInv'
    BY <2>3 DEF InsertRentOrder, CountRow, TakenInv, RowsLinked
  <2>4. CASE InsertMismatch \/ InsertEnd
    BY <2>4 DEF InsertMismatch, InsertEnd, NoTable, TakenInv, RowsLinked
  <2> QED BY <1>1, <2>1, <2>2, <2>3, <2>4, InsertCarTypeTaken DEF InsertNext
<1>2. CASE DeleteNext \/ UpdateNext \/ Refuse
  <2>1. inserting' = NoTable
    BY <1>2 DEF DeleteNext, DeleteCarType, DeleteCarInfo, DeleteRentOrder,
       UpdateNext, UpdateCarType, UpdateCarInfo, UpdateRentOrder, Answer, Refuse
  <2> QED BY <2>1 DEF TakenInv, RowsLinked, NoTable
<1>3. CASE UNCHANGED vars
  BY <1>3 DEF vars, TakenInv, RowsLinked, Taken
<1> QED BY <1>1, <1>2, <1>3 DEF Next

\* The rows an INSERT of car types has taken are in the table, whatever ends
\* it, unless a DELETE had emptied the table before.
THEOREM RowsAreLinked == Spec => []RowsLinked
<1>1. Init => TakenInv
  BY DEF Init, TakenInv, RowsLinked, NoTable
<1>2. TakenInv => RowsLinked
  BY DEF TakenInv
<1> QED BY Invariance, <1>1, NextTaken, <1>2, PTL DEF Spec

-----------------------------------------------------------------------------
\* A pass leaves a match on its chain only when it has just unlinked the one
\* before it: what stays can be mapped one to one into what goes.
LEMMA PassHalves ==
  ASSUME NEW rows, IsFiniteSet(rows), \A r \in rows : r.at \in Int,
         \A r, s \in rows : r.at = s.at => r = s,
         NEW col, NEW v,
         NEW U \in SUBSET Matching(rows, col, v), Unlinks(rows, Matching(rows, col, v), U)
  PROVE  Halves(rows, rows \ U, col, v)
<1> DEFINE M == Matching(rows, col, v)
           stay == M \ U
           before == [n \in stay |-> CHOOSE m \in U : JustBefore(m, n, rows)]
<1>1. Matching(rows \ U, col, v) = stay /\ rows \ M \subseteq rows \ U
  BY DEF Matching
<1>2. IsFiniteSet(M) /\ IsFiniteSet(U) /\ IsFiniteSet(stay)
  BY FS_Subset DEF Matching
<1>3. \A n \in stay : before[n] \in U /\ JustBefore(before[n], n, rows)
  BY DEF Unlinks
<1>4. before \in Injection(stay, U)
  <2>1. ASSUME NEW n \in stay, NEW p \in stay, before[n] = before[p] PROVE n = p
    <3>1. n \in rows /\ p \in rows
      BY DEF Matching
    <3>2. JustBefore(before[n], n, rows) /\ JustBefore(before[n], p, rows)
      BY <1>3, <2>1
    <3>3. ~ (n.at < p.at) /\ ~ (p.at < n.at)
      BY <3>1, <3>2 DEF JustBefore
    <3> QED BY <3>1, <3>3
  <2>2. before \in [stay -> U]
    BY <1>3
  <2> HIDE DEF before, stay
  <2> QED BY <2>1, <2>2 DEF Injection, IsInjective
<1>5. Cardinality(stay) <= Cardinality(U)
  <2> HIDE DEF before, stay
  <2> QED BY <1>2, <1>4, FS_Injection
<1>6. Cardinality(stay) = Cardinality(M) - Cardinality(U)
  <2>1. M \cap U = U
    BY DEF Matching
  <2> QED BY <1>2, <2>1, FS_Difference
<1>7. Cardinality(M) \in Nat /\ Cardinality(U) \in Nat /\ Cardinality(stay) \in Nat
  BY <1>2, FS_CardinalityType
<1> HIDE DEF stay, before
<1>8. 2 * Cardinality(stay) <= Cardinality(M)
  <2> HIDE DEF M
  <2> QED BY <1>5, <1>6, <1>7
<1> QED BY <1>1, <1>8 DEF Halves

\* Every DELETE removes at least half of the matching rows of its table, and
\* none of the others.
THEOREM DeletesHalve == Spec => DeleteHalves
<1> DEFINE Half ==
             reply' = "success" /\ inserting' = inserting =>
               /\ \A V \in Text(Codes) :
                    /\ Halves(types, types', "code", V) \/ ~ DeleteCarType("code", V)
                    /\ Halves(cars, cars', "code", V) \/ ~ DeleteCarInfo("code", V)
               /\ \A V \in Number(Quantities) :
                    Halves(types, types', "quantity", V) \/ ~ DeleteCarType("quantity", V)
               /\ \A V \in Number(Cids) :
                    /\ Halves(cars, cars', "cid", V) \/ ~ DeleteCarInfo("cid", V)
                    /\ Halves(orders, orders', "cid", V) \/ ~ DeleteRentOrder("cid", V)
               /\ \A V \in Text(Oids) :
                    Halves(orders, orders', "oid", V) \/ ~ DeleteRentOrder("oid", V)
<1>1. ASSUME IInv PROVE Half
  <2>1. /\ \A r \in types : r.at \in Int
        /\ \A r \in cars : r.at \in Int
        /\ \A r \in orders : r.at \in Int
    BY <1>1 DEF IInv, TypeOK, CarType, CarInfo, RentOrder, Address
  <2>2. /\ \A r, s \in types : r.at = s.at => r = s
        /\ \A r, s \in cars : r.at = s.at => r = s
        /\ \A r, s \in orders : r.at = s.at => r = s
    BY <1>1 DEF IInv, LinkInv
  <2>3. ASSUME NEW col, NEW v, DeleteCarType(col, v) PROVE Halves(types, types', col, v)
    <3>1. PICK U \in SUBSET Matching(types, col, v) :
            Unlinks(types, Matching(types, col, v), U) /\ types' = types \ U
      BY <2>3 DEF DeleteCarType
    <3> QED BY <1>1, <2>1, <2>2, <3>1, PassHalves DEF IInv, FiniteInv
  <2>4. ASSUME NEW col, NEW v, DeleteCarInfo(col, v) PROVE Halves(cars, cars', col, v)
    <3>1. PICK U \in SUBSET Matching(cars, col, v) :
            Unlinks(cars, Matching(cars, col, v), U) /\ cars' = cars \ U
      BY <2>4 DEF DeleteCarInfo
    <3> QED BY <1>1, <2>1, <2>2, <3>1, PassHalves DEF IInv, FiniteInv
  <2>5. ASSUME NEW col, NEW v, DeleteRentOrder(col, v) PROVE Halves(orders, orders', col, v)
    <3>1. PICK U \in SUBSET Matching(orders, col, v) :
            Unlinks(orders, Matching(orders, col, v), U) /\ orders' = orders \ U
      BY <2>5 DEF DeleteRentOrder
    <3> QED BY <1>1, <2>1, <2>2, <3>1, PassHalves DEF IInv, FiniteInv
  <2> QED BY <2>3, <2>4, <2>5
<1>2. IInv /\ [Next]_vars => [Half]_vars
  BY <1>1
<1> QED BY Invariance, <1>2, PTL DEF Spec, DeleteHalves

-----------------------------------------------------------------------------
(***************************************************************************)
(* When clients keep the rules of the tables.                              *)
(*                                                                         *)
(* Their statements are some of those of CarStore, so IInv holds as it     *)
(* stands.  What they add is that no two rows of a table share a key: a    *)
(* DELETE then matches one row at most, unlinks what it counted, and the   *)
(* counters follow the lists.                                              *)
(***************************************************************************)
KeysInv ==
  /\ \A s, t \in types : s.code = t.code => s = t
  /\ \A c, d \in cars : c.cid = d.cid => c = d
  /\ \A o, p \in orders : o.oid = p.oid => o = p

KInv == IInv /\ KeysInv /\ CountsCover /\ TypeCountExact

-----------------------------------------------------------------------------
\* A statement that keeps the rules is a statement.
LEMMA KeyedIsNext == KeyedNext => Next
<1>1. KeyedInsert => InsertNext
  BY DEF KeyedInsert, InsertNext, FreeCodes, FreeCids, FreeOids
<1>2. /\ \A v \in Codes : {v} \in Text(Codes)
      /\ \A v \in Cids : {v} \in Number(Cids)
      /\ \A v \in Oids : {v} \in Text(Oids)
  BY DEF Text, Number
<1>3. KeyedDelete => DeleteNext
  BY <1>2 DEF KeyedDelete, DeleteNext
<1>4. KeyedUpdate => UpdateNext
  BY <1>2 DEF KeyedUpdate, UpdateNext, FreeCodes, FreeCids, FreeOids
<1> QED BY <1>1, <1>3, <1>4 DEF KeyedNext, Next

LEMMA KeyedIInv == ASSUME IInv, [KeyedNext]_vars PROVE IInv'
BY KeyedIsNext, NextIInv

\* The counters do not wrap while they cover what is taken away and there is
\* room for one more.
LEMMA PlainCounters ==
  ASSUME NEW n \in 0 .. UMOD - 1, NEW k \in Nat
  PROVE  /\ n + 1 < UMOD => Plus(n, 1) = n + 1
         /\ k <= n => Minus(n, k) = n - k
<1>1. \A a \in 0 .. UMOD - 1 : a % UMOD = a
  BY UModAssumption
<1> QED BY <1>1, UModAssumption DEF Plus, Minus

\* What is left of a finite table when some of its rows go.
LEMMA DropPart ==
  ASSUME NEW S, IsFiniteSet(S), NEW T, T \subseteq S
  PROVE  /\ Cardinality(S) \in Nat /\ Cardinality(T) \in Nat
         /\ Cardinality(T) <= Cardinality(S)
         /\ Cardinality(S \ T) = Cardinality(S) - Cardinality(T)
<1>1. /\ IsFiniteSet(T) /\ IsFiniteSet(S \ T) /\ Cardinality(T) <= Cardinality(S)
      /\ Cardinality(S) \in Nat /\ Cardinality(T) \in Nat /\ Cardinality(S \ T) \in Nat
  BY FS_Subset, FS_CardinalityType
<1>2. S = (S \ T) \cup T /\ (S \ T) \cap T = {}
  OBVIOUS
<1>3. Cardinality(S) = Cardinality(S \ T) + Cardinality(T) - Cardinality({})
  BY <1>1, <1>2, FS_Union
<1> QED BY <1>1, <1>3, FS_EmptySet

\* A row more.
LEMMA AddRow ==
  ASSUME NEW S, IsFiniteSet(S), NEW x
  PROVE  /\ Cardinality(S) \in Nat /\ Cardinality(S \cup {x}) \in Nat
         /\ Cardinality(S \cup {x}) <= Cardinality(S) + 1
         /\ x \notin S => Cardinality(S \cup {x}) = Cardinality(S) + 1
<1>1. IsFiniteSet(S \cup {x}) /\ Cardinality(S \cup {x}) =
        IF x \in S THEN Cardinality(S) ELSE Cardinality(S) + 1
  BY FS_AddElement
<1>2. Cardinality(S) \in Nat /\ Cardinality(S \cup {x}) \in Nat
  BY <1>1, FS_CardinalityType
<1> QED BY <1>1, <1>2

\* One pass over the chains unlinks the only match there is.
LEMMA OnlyMatch ==
  ASSUME NEW rows, NEW M \in SUBSET rows, NEW U \in SUBSET M, Unlinks(rows, M, U),
         \A m, n \in M : m = n, \A m \in M : m.at \in Int
  PROVE  U = M
BY DEF Unlinks, JustBefore

-----------------------------------------------------------------------------
LEMMA InitKInv == Init => KInv
<1> SUFFICES ASSUME Init PROVE KInv
  OBVIOUS
<1>1. KeysInv
  BY DEF Init, KeysInv
<1>2. CountsCover /\ TypeCountExact
  BY FS_EmptySet DEF Init, CountsCover, TypeCountExact, Tables
<1> QED BY <1>1, <1>2, InitIInv DEF KInv

\* Steps that leave the store as it is.
LEMMA SameStoreKInv ==
  ASSUME KInv, IInv', UNCHANGED store
  PROVE  KInv'
BY DEF KInv, KeysInv, CountsCover, TypeCountExact, store

LEMMA InsertCarTypeKInv ==
  ASSUME KInv, IInv', NEW code \in Codes \ {t.code : t \in types},
         NEW quantity \in Quantities, NoWrap("CAR_TYPE"), InsertCarType(code, quantity)
  PROVE  KInv'
<1> DEFINE new == [at |-> brk + 1, up |-> Sentinel, code |-> code, quantity |-> quantity]
<1>1. /\ brk \in Nat /\ ct_ptr' = brk + 1
      /\ icnt["CAR_TYPE"] \in 0 .. UMOD - 1 /\ icnt \in [Tables -> 0 .. UMOD - 1]
  BY DEF KInv, IInv, TypeOK, InsertCarType, Tables
<1>2. icnt' = [icnt EXCEPT !["CAR_TYPE"] = icnt["CAR_TYPE"] + 1]
  BY <1>1, PlainCounters DEF InsertCarType, CountRow, NoWrap
<1>3. /\ IsFiniteSet(types) /\ Cardinality(types) \in Nat
      /\ Cardinality(cars) \in Nat /\ Cardinality(orders) \in Nat
  BY FS_CardinalityType DEF KInv, IInv, FiniteInv
<1>4. CASE OnList(ct_ptr)
  <2>1. types' = types \cup {new}
    <3>1. \A t \in types : t.at <= ct_ptr
      BY DEF KInv, IInv, TailInv, IsTail
    <3> QED BY <3>1, <1>4 DEF InsertCarType
  <2>2. cars' = cars /\ orders' = orders
    BY <2>1 DEF InsertCarType, KInv, IInv, LinkInv, Under, AddressesOf
  <2>3. new \notin types /\ Cardinality(types') = Cardinality(types) + 1
    <3>1. new \notin types
      <4>1. new.code = code
        OBVIOUS
      <4> QED BY <4>1
    <3>2. types' = types \cup {new} /\ IsFiniteSet(types)
      BY <2>1, <1>3
    <3> HIDE DEF new
    <3> QED BY <3>1, <3>2, AddRow
  <2>4. KeysInv'
    BY <2>1, <2>2 DEF KInv, KeysInv
  <2>5. types # {} \/ ct_ptr = Sentinel
    BY <1>4 DEF OnList, AddressesOf
  <2>6. CountsCover' /\ TypeCountExact'
    BY <1>1, <1>2, <1>3, <2>2, <2>3, <2>5 DEF KInv, CountsCover, TypeCountExact, Tables
  <2> QED BY <2>4, <2>6 DEF KInv
<1>5. CASE ~ OnList(ct_ptr)
  <2>1. types = {}
    BY <1>5 DEF OnList, KInv, IInv, TailInv, IsTail
  <2>2. types' = {} /\ cars' = {} /\ orders' = {}
    BY <1>5, <2>1 DEF InsertCarType, Under, AddressesOf
  <2>3. KeysInv'
    BY <2>2 DEF KeysInv
  <2>4. CountsCover' /\ TypeCountExact'
    BY <1>1, <1>2, <2>2, FS_EmptySet DEF CountsCover, TypeCountExact, Tables, Sentinel
  <2> QED BY <2>3, <2>4 DEF KInv
<1> QED BY <1>4, <1>5

LEMMA InsertCarInfoKInv ==
  ASSUME KInv, IInv', NEW cid \in Cids \ {c.cid : c \in cars}, NEW code \in Codes,
         NoWrap("CAR_INFO"), InsertCarInfo(cid, code)
  PROVE  KInv'
<1> DEFINE homes == Homes(types, "code", code)
<1>1. types' = types /\ orders' = orders /\ ct_ptr' = ct_ptr
  BY DEF InsertCarInfo
<1>2. icnt["CAR_INFO"] \in 0 .. UMOD - 1 /\ icnt \in [Tables -> 0 .. UMOD - 1]
  BY DEF KInv, IInv, TypeOK, Tables
<1>3. icnt' = [icnt EXCEPT !["CAR_INFO"] = icnt["CAR_INFO"] + 1]
  BY <1>2, PlainCounters DEF InsertCarInfo, CountRow, NoWrap
<1>4. IsFiniteSet(cars) /\ Cardinality(cars) \in Nat
  BY FS_CardinalityType DEF KInv, IInv, FiniteInv
<1>5. CASE cars' = cars
  BY <1>1, <1>2, <1>3, <1>4, <1>5
     DEF KInv, KeysInv, CountsCover, TypeCountExact, Tables
<1>6. CASE \E t \in homes : cars' = cars \cup {[at |-> brk + 1, up |-> t.at,
                                                 cid |-> cid, code |-> code]}
  <2>1. PICK t \in homes : cars' = cars \cup {[at |-> brk + 1, up |-> t.at,
                                               cid |-> cid, code |-> code]}
    BY <1>6
  <2>2. t \in types /\ t.code = code
    BY DEF Homes
  <2>3. KeysInv'
    BY <1>1, <2>1 DEF KInv, KeysInv
  <2>5. Cardinality(cars') \in Nat /\ Cardinality(cars') <= Cardinality(cars) + 1
    BY <2>1, <1>4, AddRow
  <2>6. CountsCover' /\ TypeCountExact'
    BY <1>1, <1>2, <1>3, <1>4, <2>5 DEF KInv, CountsCover, TypeCountExact, Tables
  <2> QED BY <2>3, <2>6 DEF KInv
<1> QED BY <1>5, <1>6 DEF InsertCarInfo

LEMMA InsertRentOrderKInv ==
  ASSUME KInv, IInv', NEW oid \in Oids \ {o.oid : o \in orders}, NEW cid \in Cids,
         NoWrap("RENT_ORDER"), InsertRentOrder(oid, cid)
  PROVE  KInv'
<1> DEFINE homes == Homes(cars, "cid", cid)
<1>1. types' = types /\ cars' = cars /\ ct_ptr' = ct_ptr
  BY DEF InsertRentOrder
<1>2. icnt["RENT_ORDER"] \in 0 .. UMOD - 1 /\ icnt \in [Tables -> 0 .. UMOD - 1]
  BY DEF KInv, IInv, TypeOK, Tables
<1>3. icnt' = [icnt EXCEPT !["RENT_ORDER"] = icnt["RENT_ORDER"] + 1]
  BY <1>2, PlainCounters DEF InsertRentOrder, CountRow, NoWrap
<1>4. IsFiniteSet(orders) /\ Cardinality(orders) \in Nat
  BY FS_CardinalityType DEF KInv, IInv, FiniteInv
<1>5. CASE orders' = orders
  BY <1>1, <1>2, <1>3, <1>4, <1>5
     DEF KInv, KeysInv, CountsCover, TypeCountExact, Tables
<1>6. CASE \E c \in homes : orders' = orders \cup {[at |-> brk + 1, up |-> c.at,
                                                     oid |-> oid, cid |-> cid]}
  <2>1. PICK c \in homes : orders' = orders \cup {[at |-> brk + 1, up |-> c.at,
                                                   oid |-> oid, cid |-> cid]}
    BY <1>6
  <2>2. c \in cars /\ c.cid = cid
    BY DEF Homes
  <2>3. KeysInv'
    BY <1>1, <2>1 DEF KInv, KeysInv
  <2>5. Cardinality(orders') \in Nat /\ Cardinality(orders') <= Cardinality(orders) + 1
    BY <2>1, <1>4, AddRow
  <2>6. CountsCover' /\ TypeCountExact'
    BY <1>1, <1>2, <1>3, <1>4, <2>5 DEF KInv, CountsCover, TypeCountExact, Tables
  <2> QED BY <2>3, <2>6 DEF KInv
<1> QED BY <1>5, <1>6 DEF InsertRentOrder

-----------------------------------------------------------------------------
\* What a DELETE counts and what it takes off the lists: the one row M that
\* matches, and what is under it.
LEMMA DeleteCarTypeExact ==
  ASSUME KInv, NEW v, DeleteCarType("code", {v})
  PROVE  LET M == Matching(types, "code", {v})
         IN /\ types' = types \ M
            /\ cars' = cars \ Under(cars, M)
            /\ orders' = orders \ Under(orders, Under(cars, M))
<1> DEFINE M == Matching(types, "code", {v})
<1>1. PICK U \in SUBSET M :
        /\ Unlinks(types, M, U)
        /\ types' = types \ U
        /\ cars' = cars \ Subtree(cars, U)
        /\ orders' = orders \ Subtree(orders, Subtree(cars, U))
  BY DEF DeleteCarType
<1>2. M \subseteq types /\ \A m, n \in M : m = n
  BY DEF Matching, KInv, KeysInv
<1>3. \A m \in M : m.at \in Int
  BY <1>2 DEF KInv, IInv, TypeOK, CarType, Address
<1>4. U = M
  BY <1>1, <1>2, <1>3, OnlyMatch
<1> QED BY <1>1, <1>4 DEF Subtree

LEMMA DeleteCarTypeKInv ==
  ASSUME KInv, IInv', NEW v, DeleteCarType("code", {v})
  PROVE  KInv'
<1> DEFINE M  == Matching(types, "code", {v})
           CI == Under(cars, M)
           RO == Under(orders, CI)
<1>1. types' = types \ M /\ cars' = cars \ CI /\ orders' = orders \ RO
  BY DeleteCarTypeExact
<1>2. M \subseteq types /\ CI \subseteq cars /\ RO \subseteq orders
  BY DEF Matching, Under
<1>3. KeysInv'
  BY <1>1 DEF KInv, KeysInv
<1> HIDE DEF M, CI, RO
<1>5. /\ IsFiniteSet(types) /\ IsFiniteSet(cars) /\ IsFiniteSet(orders)
      /\ icnt \in [Tables -> 0 .. UMOD - 1]
  BY DEF KInv, IInv, FiniteInv, TypeOK
<1>6. /\ Cardinality(types) \in Nat /\ Cardinality(M) \in Nat
      /\ Cardinality(M) <= Cardinality(types)
      /\ Cardinality(types') = Cardinality(types) - Cardinality(M)
  BY <1>1, <1>2, <1>5, DropPart
<1>7. /\ Cardinality(cars) \in Nat /\ Cardinality(CI) \in Nat
      /\ Cardinality(CI) <= Cardinality(cars)
      /\ Cardinality(cars') = Cardinality(cars) - Cardinality(CI)
  BY <1>1, <1>2, <1>5, DropPart
<1>8. /\ Cardinality(orders) \in Nat /\ Cardinality(RO) \in Nat
      /\ Cardinality(RO) <= Cardinality(orders)
      /\ Cardinality(orders') = Cardinality(orders) - Cardinality(RO)
  BY <1>1, <1>2, <1>5, DropPart
<1>9. /\ icnt["CAR_TYPE"] >= Cardinality(types) /\ icnt["CAR_INFO"] >= Cardinality(cars)
      /\ icnt["RENT_ORDER"] >= Cardinality(orders)
      /\ icnt["CAR_TYPE"] \in 0 .. UMOD - 1 /\ icnt["CAR_INFO"] \in 0 .. UMOD - 1
      /\ icnt["RENT_ORDER"] \in 0 .. UMOD - 1
  BY <1>5 DEF KInv, CountsCover, Tables
<1>10. icnt' = [icnt EXCEPT !["CAR_TYPE"]   = Minus(@, Cardinality(M)),
                            !["CAR_INFO"]   = Minus(@, Cardinality(CI)),
                            !["RENT_ORDER"] = Minus(@, Cardinality(RO))]
  BY DEF DeleteCarType, M, CI, RO
<1>11. /\ icnt'["CAR_TYPE"] = Minus(icnt["CAR_TYPE"], Cardinality(M))
       /\ icnt'["CAR_INFO"] = Minus(icnt["CAR_INFO"], Cardinality(CI))
       /\ icnt'["RENT_ORDER"] = Minus(icnt["RENT_ORDER"], Cardinality(RO))
  BY <1>5, <1>10 DEF Tables
<1>12. /\ icnt'["CAR_TYPE"] = icnt["CAR_TYPE"] - Cardinality(M)
       /\ icnt'["CAR_INFO"] = icnt["CAR_INFO"] - Cardinality(CI)
       /\ icnt'["RENT_ORDER"] = icnt["RENT_ORDER"] - Cardinality(RO)
  BY <1>6, <1>7, <1>8, <1>9, <1>11, PlainCounters
<1>13. CountsCover'
  BY <1>6, <1>7, <1>8, <1>9, <1>12 DEF CountsCover
<1>14. TypeCountExact'
  <2>1. CASE M = {}
    <3>1. types' = types /\ Cardinality(M) = 0 /\ ct_ptr' = ct_ptr
      BY <1>1, <2>1, FS_EmptySet DEF DeleteCarType, M
    <3> QED BY <1>9, <1>12, <3>1 DEF KInv, TypeCountExact
  <2>2. CASE M # {}
    BY <1>2, <1>6, <1>9, <1>12, <2>2 DEF KInv, TypeCountExact
  <2> QED BY <2>1, <2>2
<1> QED BY <1>3, <1>13, <1>14 DEF KInv

LEMMA DeleteCarInfoKInv ==
  ASSUME KInv, IInv', NEW v, DeleteCarInfo("cid", {v})
  PROVE  KInv'
<1> DEFINE M  == Matching(cars, "cid", {v})
           RO == Under(orders, M)
<1>1. PICK U \in SUBSET M : /\ Unlinks(cars, M, U)
                            /\ cars' = cars \ U /\ orders' = orders \ Subtree(orders, U)
  BY DEF DeleteCarInfo
<1>2. M \subseteq cars /\ RO \subseteq orders /\ \A m, n \in M : m = n
  BY DEF Matching, Under, KInv, KeysInv
<1>3. \A m \in M : m.at \in Int
  <2>1. \A r \in cars : r.at \in Int
    BY DEF KInv, IInv, TypeOK, CarInfo, Address
  <2> QED BY <1>2, <2>1
<1>4. U = M
  BY <1>1, <1>2, <1>3, OnlyMatch
<1>5. types' = types /\ ct_ptr' = ct_ptr /\ cars' = cars \ M /\ orders' = orders \ RO
  BY <1>1, <1>4 DEF Subtree, DeleteCarInfo
<1>6. KeysInv'
  BY <1>5 DEF KInv, KeysInv
<1>8. icnt' = [icnt EXCEPT !["CAR_INFO"]   = Minus(@, Cardinality(M)),
                           !["RENT_ORDER"] = Minus(@, Cardinality(RO))]
  BY DEF DeleteCarInfo
<1> HIDE DEF M, RO
<1>9. /\ IsFiniteSet(cars) /\ IsFiniteSet(orders) /\ icnt \in [Tables -> 0 .. UMOD - 1]
  BY DEF KInv, IInv, FiniteInv, TypeOK
<1>10. /\ Cardinality(cars) \in Nat /\ Cardinality(M) \in Nat
       /\ Cardinality(M) <= Cardinality(cars)
       /\ Cardinality(cars') = Cardinality(cars) - Cardinality(M)
  BY <1>2, <1>5, <1>9, DropPart
<1>11. /\ Cardinality(orders) \in Nat /\ Cardinality(RO) \in Nat
       /\ Cardinality(RO) <= Cardinality(orders)
       /\ Cardinality(orders') = Cardinality(orders) - Cardinality(RO)
  BY <1>2, <1>5, <1>9, DropPart
<1>12. /\ icnt["CAR_INFO"] >= Cardinality(cars) /\ icnt["RENT_ORDER"] >= Cardinality(orders)
       /\ icnt["CAR_INFO"] \in 0 .. UMOD - 1 /\ icnt["RENT_ORDER"] \in 0 .. UMOD - 1
  BY <1>9 DEF KInv, CountsCover, Tables
<1>13. /\ icnt'["CAR_TYPE"] = icnt["CAR_TYPE"]
       /\ icnt'["CAR_INFO"] = Minus(icnt["CAR_INFO"], Cardinality(M))
       /\ icnt'["RENT_ORDER"] = Minus(icnt["RENT_ORDER"], Cardinality(RO))
  BY <1>8, <1>9 DEF Tables
<1>14. /\ icnt'["CAR_INFO"] = icnt["CAR_INFO"] - Cardinality(M)
       /\ icnt'["RENT_ORDER"] = icnt["RENT_ORDER"] - Cardinality(RO)
  BY <1>10, <1>11, <1>12, <1>13, PlainCounters
<1>15. CountsCover' /\ TypeCountExact'
  BY <1>5, <1>10, <1>11, <1>12, <1>13, <1>14 DEF KInv, CountsCover, TypeCountExact
<1> QED BY <1>6, <1>15 DEF KInv

LEMMA DeleteRentOrderKInv ==
  ASSUME KInv, IInv', NEW v, DeleteRentOrder("oid", {v})
  PROVE  KInv'
<1> DEFINE M == Matching(orders, "oid", {v})
<1>1. PICK U \in SUBSET M : Unlinks(orders, M, U) /\ orders' = orders \ U
  BY DEF DeleteRentOrder
<1>2. M \subseteq orders /\ \A m, n \in M : m = n
  BY DEF Matching, KInv, KeysInv
<1>3. \A m \in M : m.at \in Int
  <2>1. \A r \in orders : r.at \in Int
    BY DEF KInv, IInv, TypeOK, RentOrder, Address
  <2> QED BY <1>2, <2>1
<1>4. U = M
  BY <1>1, <1>2, <1>3, OnlyMatch
<1>5. UNCHANGED <<types, cars, ct_ptr>> /\ orders' = orders \ M
  BY <1>1, <1>4 DEF DeleteRentOrder
<1>6. KeysInv'
  BY <1>5 DEF KInv, KeysInv
<1>7. icnt' = [icnt EXCEPT !["RENT_ORDER"] = Minus(@, Cardinality(M))]
  BY DEF DeleteRentOrder
<1> HIDE DEF M
<1>8. IsFiniteSet(orders) /\ icnt \in [Tables -> 0 .. UMOD - 1]
  BY DEF KInv, IInv, FiniteInv, TypeOK
<1>9. /\ Cardinality(orders) \in Nat /\ Cardinality(M) \in Nat
      /\ Cardinality(M) <= Cardinality(orders)
      /\ Cardinality(orders') = Cardinality(orders) - Cardinality(M)
  BY <1>2, <1>5, <1>8, DropPart
<1>10. icnt["RENT_ORDER"] >= Cardinality(orders) /\ icnt["RENT_ORDER"] \in 0 .. UMOD - 1
  BY <1>8 DEF KInv, CountsCover, Tables
<1>11. /\ icnt'["CAR_TYPE"] = icnt["CAR_TYPE"] /\ icnt'["CAR_INFO"] = icnt["CAR_INFO"]
       /\ icnt'["RENT_ORDER"] = Minus(icnt["RENT_ORDER"], Cardinality(M))
  BY <1>7, <1>8 DEF Tables
<1>12. icnt'["RENT_ORDER"] = icnt["RENT_ORDER"] - Cardinality(M)
  BY <1>9, <1>10, <1>11, PlainCounters
<1>13. CountsCover' /\ TypeCountExact'
  BY <1>5, <1>9, <1>10, <1>11, <1>12 DEF KInv, CountsCover, TypeCountExact
<1> QED BY <1>6, <1>13 DEF KInv

\* One row for another that is not there.
LEMMA SwapRow ==
  ASSUME NEW S, IsFiniteSet(S), NEW x \in S, NEW y, y \notin S \ {x}
  PROVE  Cardinality((S \ {x}) \cup {y}) = Cardinality(S)
<1>1. IsFiniteSet(S \ {x}) /\ Cardinality(S \ {x}) = Cardinality(S) - 1
  BY FS_RemoveElement
<1>2. Cardinality(S) \in Nat
  BY FS_CardinalityType
<1>3. Cardinality((S \ {x}) \cup {y}) = Cardinality(S \ {x}) + 1
  BY <1>1, AddRow
<1> QED BY <1>1, <1>2, <1>3

LEMMA UpdateCarTypeKInv ==
  ASSUME KInv, IInv', NEW v, NEW code \in {v} \cup FreeCodes, NEW quantity,
         UpdateCarType("code", {v}, code, quantity)
  PROVE  KInv'
<1> DEFINE M == Matching(types, "code", {v})
<1>1. UNCHANGED <<cars, orders, ct_ptr, brk, icnt>>
  BY DEF UpdateCarType, Answer
<1>2. CASE types' = types
  BY <1>1, <1>2 DEF KInv, KeysInv, CountsCover, TypeCountExact
<1>3. CASE \E t \in M : types' = (types \ {t}) \cup {[t EXCEPT !.code = code, !.quantity = quantity]}
  <2>1. PICK t \in M : types' = (types \ {t}) \cup {[t EXCEPT !.code = code, !.quantity = quantity]}
    BY <1>3
  <2> DEFINE new == [t EXCEPT !.code = code, !.quantity = quantity]
  <2>2. t \in types /\ t.code = v
    BY DEF Matching
  <2>3. new.at = t.at /\ new.code = code
    BY <2>2 DEF KInv, IInv, TypeOK, CarType
  <2>4. types' = (types \ {t}) \cup {new}
    BY <2>1
  <2>5. \A s \in types \ {t} : s.at # t.at /\ s.code # code
    BY <2>2 DEF KInv, KeysInv, IInv, LinkInv, FreeCodes
  <2>6. new \notin types \ {t}
    BY <2>3, <2>5
  <2> HIDE DEF new
  <2>7. Cardinality(types') = Cardinality(types)
    BY <2>2, <2>4, <2>6, SwapRow DEF KInv, IInv, FiniteInv
  <2>8. KeysInv'
    BY <1>1, <2>3, <2>4, <2>5 DEF KInv, KeysInv
  <2>9. CountsCover' /\ TypeCountExact'
    BY <1>1, <2>2, <2>7 DEF KInv, CountsCover, TypeCountExact
  <2> QED BY <2>8, <2>9 DEF KInv
<1> QED BY <1>2, <1>3 DEF UpdateCarType

LEMMA UpdateCarInfoKInv ==
  ASSUME KInv, IInv', NEW v, NEW cid \in {v} \cup FreeCids, NEW code,
         UpdateCarInfo("cid", {v}, cid, code)
  PROVE  KInv'
<1> DEFINE M == Matching(cars, "cid", {v})
<1>1. UNCHANGED <<types, orders, ct_ptr, brk, icnt>>
  BY DEF UpdateCarInfo, Answer
<1>2. CASE cars' = cars
  BY <1>1, <1>2 DEF KInv, KeysInv, CountsCover, TypeCountExact
<1>3. CASE \E t \in M : cars' = (cars \ {t}) \cup {[t EXCEPT !.cid = cid, !.code = code]}
  <2>1. PICK t \in M : cars' = (cars \ {t}) \cup {[t EXCEPT !.cid = cid, !.code = code]}
    BY <1>3
  <2> DEFINE new == [t EXCEPT !.cid = cid, !.code = code]
  <2>2. t \in cars /\ t.cid = v
    BY DEF Matching
  <2>3. new.at = t.at /\ new.cid = cid
    BY <2>2 DEF KInv, IInv, TypeOK, CarInfo
  <2>4. cars' = (cars \ {t}) \cup {new}
    BY <2>1
  <2>5. \A s \in cars \ {t} : s.at # t.at /\ s.cid # cid
    BY <2>2 DEF KInv, KeysInv, IInv, LinkInv, FreeCids
  <2>6. new \notin cars \ {t}
    BY <2>3, <2>5
  <2> HIDE DEF new
  <2>7. Cardinality(cars') = Cardinality(cars)
    BY <2>2, <2>4, <2>6, SwapRow DEF KInv, IInv, FiniteInv
  <2>8. KeysInv'
    BY <1>1, <2>3, <2>4, <2>5 DEF KInv, KeysInv
  <2>9. CountsCover' /\ TypeCountExact'
    BY <1>1, <2>2, <2>7 DEF KInv, CountsCover, TypeCountExact
  <2> QED BY <2>8, <2>9 DEF KInv
<1> QED BY <1>2, <1>3 DEF UpdateCarInfo

LEMMA UpdateRentOrderKInv ==
  ASSUME KInv, IInv', NEW v, NEW oid \in {v} \cup FreeOids, NEW cid,
         UpdateRentOrder("oid", {v}, oid, cid)
  PROVE  KInv'
<1> DEFINE M == Matching(orders, "oid", {v})
<1>1. UNCHANGED <<types, cars, ct_ptr, brk, icnt>>
  BY DEF UpdateRentOrder, Answer
<1>2. CASE orders' = orders
  BY <1>1, <1>2 DEF KInv, KeysInv, CountsCover, TypeCountExact
<1>3. CASE \E t \in M : orders' = (orders \ {t}) \cup {[t EXCEPT !.oid = oid, !.cid = cid]}
  <2>1. PICK t \in M : orders' = (orders \ {t}) \cup {[t EXCEPT !.oid = oid, !.cid = cid]}
    BY <1>3
  <2> DEFINE new == [t EXCEPT !.oid = oid, !.cid = cid]
  <2>2. t \in orders /\ t.oid = v
    BY DEF Matching
  <2>3. new.at = t.at /\ new.oid = oid
    BY <2>2 DEF KInv, IInv, TypeOK, RentOrder
  <2>4. orders' = (orders \ {t}) \cup {new}
    BY <2>1
  <2>5. \A s \in orders \ {t} : s.at # t.at /\ s.oid # oid
    BY <2>2 DEF KInv, KeysInv, IInv, LinkInv, FreeOids
  <2>6. new \notin orders \ {t}
    BY <2>3, <2>5
  <2> HIDE DEF new
  <2>7. Cardinality(orders') = Cardinality(orders)
    BY <2>2, <2>4, <2>6, SwapRow DEF KInv, IInv, FiniteInv
  <2>8. KeysInv'
    BY <1>1, <2>3, <2>4, <2>5 DEF KInv, KeysInv
  <2>9. CountsCover' /\ TypeCountExact'
    BY <1>1, <2>2, <2>7 DEF KInv, CountsCover, TypeCountExact
  <2> QED BY <2>8, <2>9 DEF KInv
<1> QED BY <1>2, <1>3 DEF UpdateRentOrder

-----------------------------------------------------------------------------
LEMMA NextKInv == KInv /\ [KeyedNext]_vars => KInv'
<1> SUFFICES ASSUME KInv, [KeyedNext]_vars PROVE KInv'
  OBVIOUS
<1>1. IInv'
  BY KeyedIInv DEF KInv
<1>2. CASE KeyedInsert
  <2>1. ASSUME NEW ti \in Tables, InsertBegin(ti) PROVE KInv'
    BY <1>1, <2>1, SameStoreKInv DEF InsertBegin
  <2>2. CASE InsertMismatch \/ InsertEnd
    BY <1>1, <2>2, SameStoreKInv DEF InsertMismatch, InsertEnd
  <2> QED BY <1>1, <1>2, <2>1, <2>2, InsertCarTypeKInv, InsertCarInfoKInv,
             InsertRentOrderKInv DEF KeyedInsert, FreeCodes, FreeCids, FreeOids
<1>3. CASE KeyedDelete
  BY <1>1, <1>3, DeleteCarTypeKInv, DeleteCarInfoKInv, DeleteRentOrderKInv DEF KeyedDelete
<1>4. CASE KeyedUpdate
  BY <1>1, <1>4, UpdateCarTypeKInv, UpdateCarInfoKInv, UpdateRentOrderKInv DEF KeyedUpdate
<1>5. CASE UNCHANGED vars
  BY <1>1, <1>5, SameStoreKInv DEF vars, store
<1> QED BY <1>2, <1>3, <1>4, <1>5 DEF KeyedNext

\* The inductive invariant holds in every state clients that keep the rules
\* can lead the store to.
THEOREM KeyedInvariance == KeyedSpec => []KInv
BY InitKInv, NextKInv, PTL DEF KeyedSpec

\* The arrays load_record allocates are never shorter than the lists it
\* copies.
THEOREM CountersCover == KeyedSpec => []CountsCover
<1>1. KInv => CountsCover
  BY DEF KInv
<1> QED BY KeyedInvariance, <1>1, PTL

\* The server knows how many car types there are until it loses their list.
THEOREM TypesCounted == KeyedSpec => []TypeCountExact
<1>1. KInv => TypeCountExact
  BY DEF KInv
<1> QED BY KeyedInvariance, <1>1, PTL

=============================================================================
