------------------------------ MODULE CarStore ------------------------------
(***************************************************************************)
(* The in-memory database of the Crims server: the three-level list        *)
(* head -> CarTypeNode -> CarInfoNode -> RentOrderNode of database.c and    *)
(* the statements that change it (insert.c, delete.c, update.c).           *)
(*                                                                         *)
(* A node is a row with the address `at` calloc gave it and the address    *)
(* `up` of the node whose chain it is on (0, the sentinel head, for a car  *)
(* type).  Addresses grow with every allocation and nodes are only ever    *)
(* appended at the end of a chain, so the chain of a node is the set of    *)
(* rows with the same `up`, in the order of their addresses.  Nothing is   *)
(* freed: an address is never used twice.                                  *)
(***************************************************************************)
EXTENDS Integers, FiniteSets

CONSTANTS
  Codes,       \* car type codes (CAR_TYPE.code, CAR_INFO.code)
  Quantities,  \* values of CAR_TYPE.quantity
  Cids,        \* car ids (CAR_INFO.cid, RENT_ORDER.cid)
  Oids,        \* order ids (RENT_ORDER.oid)
  MaxNodes,    \* bound: nodes allocated in one life of the server
  MaxRows,     \* bound: rows of one INSERT statement
  UMOD         \* 2^32 in the code: icnt[] is an array of unsigned int

ASSUME BoundsAssumption == MaxNodes \in Nat /\ MaxRows \in Nat \ {0}
ASSUME UModAssumption   == UMOD \in Nat \ {0}

VARIABLES
  types, cars, orders,  \* the rows linked under head
  ct_ptr,     \* address of the node the next car type is appended to
  brk,        \* number of nodes allocated so far
  icnt,       \* rows per table, as the server counts them
  inserting,  \* the table of the INSERT under way, or NoTable
  ccnt,       \* rows that INSERT has counted
  reply       \* status in json_buffer: what the client is sent

store == <<types, cars, orders, ct_ptr, brk, icnt>>
vars  == <<types, cars, orders, ct_ptr, brk, icnt, inserting, ccnt, reply>>

Tables   == {"CAR_TYPE", "CAR_INFO", "RENT_ORDER"}
NoTable  == "none"
Replies  == {"none", "success", "error"}
Sentinel == 0
Address  == 1 .. MaxNodes

CarType   == [at: Address, up: {Sentinel}, code: Codes, quantity: Quantities]
CarInfo   == [at: Address, up: Address, cid: Cids, code: Codes]
RentOrder == [at: Address, up: Address, oid: Oids, cid: Cids]

Init ==
  /\ types = {} /\ cars = {} /\ orders = {}
  /\ ct_ptr = Sentinel
  /\ brk = 0
  /\ icnt = [ti \in Tables |-> 0]
  /\ inserting = NoTable
  /\ ccnt = 0
  /\ reply = "none"

-----------------------------------------------------------------------------
\* The lists.

AddressesOf(rows) == {r.at : r \in rows}
Under(rows, ups)  == {r \in rows : r.up \in AddressesOf(ups)}

\* A node can be reached from head when it is the sentinel or a linked row.
OnList(p) == p \in {Sentinel} \cup AddressesOf(types)

\* The rows a new row may hang under: those whose key is v.
Homes(rows, key, v) == {r \in rows : r[key] = v}

\* What becomes unreachable when the nodes `gone` are unlinked.
Subtree(rows, gone) == Under(rows, gone)

\* p is the address of the last node of a non-empty chain
IsTail(p, rows) == p \in AddressesOf(rows) /\ \A r \in rows : r.at <= p

\* The order in which the nested loops visit the rows of one table.
CarAt(a)        == CHOOSE c \in cars : c.at = a
Lex(a, b, c, d) == a < c \/ (a = c /\ b < d)
Before(ti, r, s) ==
  CASE ti = "CAR_TYPE"   -> r.at < s.at
    [] ti = "CAR_INFO"   -> Lex(r.up, r.at, s.up, s.at)
    [] ti = "RENT_ORDER" -> IF r.up = s.up THEN r.at < s.at
                            ELSE Lex(CarAt(r.up).up, r.up, CarAt(s.up).up, s.up)
First(ti, rows, r) == r \in rows /\ \A s \in rows : s = r \/ Before(ti, r, s)

Plus(n, k)        == (n + k) % UMOD
MinusSigned(n, k) == n - k
Minus(n, k)       == (n - k) % UMOD

-----------------------------------------------------------------------------
(* INSERT INTO <table> VALUES (...), (...): do_insert takes the value lists *)
(* one by one; a row is in the store before the types of the next one are  *)
(* looked at.                                                              *)

InsertBegin(ti) ==
  /\ inserting = NoTable
  /\ inserting' = ti
  /\ ccnt' = 0
  /\ UNCHANGED <<store, reply>>

CountRowTwice(ti) ==
  /\ inserting = ti
  /\ ccnt < MaxRows
  /\ ccnt' = ccnt + 1
  /\ icnt' = [icnt EXCEPT ![ti] = Plus(@, 2)]
  /\ UNCHANGED <<inserting, reply>>

CountRowLocally(ti) ==
  /\ inserting = ti
  /\ ccnt < MaxRows
  /\ ccnt' = ccnt + 1
  /\ UNCHANGED <<icnt, inserting, reply>>

\* the part every row shares: the two counters, before the row is placed
CountRow(ti) ==
  /\ inserting = ti
  /\ ccnt < MaxRows
  /\ ccnt' = ccnt + 1
  /\ icnt' = [icnt EXCEPT ![ti] = Plus(@, 1)]
  /\ UNCHANGED <<inserting, reply>>

\* ct_ptr->next = new: the new node ends the list ct_ptr is on, which is not
\* the one under head when ct_ptr is a node that was unlinked.
InsertCarType(code, quantity) ==
  /\ CountRow("CAR_TYPE")
  /\ brk < MaxNodes
  /\ brk' = brk + 1
  /\ ct_ptr' = brk + 1
  /\ types' = IF OnList(ct_ptr)
              THEN {t \in types : t.at <= ct_ptr}
                     \cup {[at |-> brk + 1, up |-> Sentinel,
                            code |-> code, quantity |-> quantity]}
              ELSE types
  /\ cars' = Under(cars, types')
  /\ orders' = Under(orders, cars')

\* under the first car type with the code of the car, or nowhere
InsertCarInfo(cid, code) ==
  LET homes == Homes(types, "code", code) IN
  /\ CountRow("CAR_INFO")
  /\ UNCHANGED <<types, orders, ct_ptr>>
  /\ \/ /\ homes = {}
        /\ UNCHANGED <<cars, brk>>
     \/ /\ brk < MaxNodes
        /\ brk' = brk + 1
        /\ \E t \in homes :
             /\ First("CAR_TYPE", homes, t)
             /\ cars' = cars \cup {[at |-> brk + 1, up |-> t.at,
                                    cid |-> cid, code |-> code]}

\* under the first car with the cid of the order, or nowhere
InsertRentOrder(oid, cid) ==
  LET homes == Homes(cars, "cid", cid) IN
  /\ CountRow("RENT_ORDER")
  /\ UNCHANGED <<types, cars, ct_ptr>>
  /\ \/ /\ homes = {}
        /\ UNCHANGED <<orders, brk>>
     \/ /\ brk < MaxNodes
        /\ brk' = brk + 1
        /\ \E c \in homes :
             /\ First("CAR_INFO", homes, c)
             /\ orders' = orders \cup {[at |-> brk + 1, up |-> c.at,
                                        oid |-> oid, cid |-> cid]}

\* a value whose type does not fit its column ends the statement at once
InsertMismatch ==
  /\ inserting # NoTable
  /\ inserting' = NoTable
  /\ reply' = "error"
  /\ ccnt' = 0
  /\ UNCHANGED store

InsertEnd ==
  /\ inserting # NoTable
  /\ ccnt > 0
  /\ inserting' = NoTable
  /\ reply' = "success"
  /\ ccnt' = 0
  /\ UNCHANGED store

-----------------------------------------------------------------------------
(* A condition <column> = <literal> is given by the values of the column   *)
(* is_equal finds equal to the literal.  Of a string that is its value     *)
(* (letter case aside).  A number is compared by the type of the literal   *)
(* and not of the column: a float literal reads the bytes of an int as     *)
(* those of a float, and compares them with its own read as an int; for    *)
(* the types is_equal has no case for it returns ERROR, which is not zero, *)
(* and every row matches.  So the literal of a number stands for any set   *)
(* of values.                                                              *)

Text(S)   == {{v} : v \in S}
Number(S) == SUBSET S

Matching(rows, col, V) == {r \in rows : r[col] \in V}

-----------------------------------------------------------------------------
(* DELETE FROM <table> WHERE col = v.  traverse_delete unlinks a matching  *)
(* node through pct, pci or pro, which hold the node visited just before,   *)
(* unlinked or not: when that one was unlinked the write goes to a node no *)
(* list holds and the match stays.  The counters go down all the same.     *)

JustBefore(m, n, rows) ==
  /\ m \in rows /\ m.up = n.up /\ m.at < n.at
  /\ \A k \in rows : ~(k.up = n.up /\ m.at < k.at /\ k.at < n.at)

\* a pass that stops at its first match
UnlinksFirst(rows, M, U) ==
  \A n \in M : n \in U <=> \A m \in M : n.at <= m.at

\* U is what one pass over the chains of rows unlinks when M matches
Unlinks(rows, M, U) ==
  \A n \in M : n \in U <=> ~ \E m \in U : JustBefore(m, n, rows)

\* ct_ptr is left where it was
update_ct_ptr_never(rows, p, q) == q = p

\* ct_ptr becomes the last car type; with none left it keeps its value
update_ct_ptr(rows, p, q) ==
  IF rows = {} THEN q = p ELSE IsTail(q, rows)

DeleteCarType(col, V) ==
  LET M  == Matching(types, col, V)
      CI == Under(cars, M)
      RO == Under(orders, CI)
  IN
  /\ inserting = NoTable
  /\ \E U \in SUBSET M :
       /\ Unlinks(types, M, U)
       /\ types' = types \ U
       /\ cars' = cars \ Subtree(cars, U)
       /\ orders' = orders \ Subtree(orders, Subtree(cars, U))
       /\ \E q \in {ct_ptr} \cup AddressesOf(types \ U) :
            /\ IF M = {} THEN q = ct_ptr ELSE update_ct_ptr(types \ U, ct_ptr, q)
            /\ ct_ptr' = q
  /\ icnt' = [icnt EXCEPT !["CAR_TYPE"]   = Minus(@, Cardinality(M)),
                          !["CAR_INFO"]   = Minus(@, Cardinality(CI)),
                          !["RENT_ORDER"] = Minus(@, Cardinality(RO))]
  /\ reply' = "success"
  /\ UNCHANGED <<brk, inserting, ccnt>>

DeleteCarInfo(col, V) ==
  LET M  == Matching(cars, col, V)
      RO == Under(orders, M)
  IN
  /\ inserting = NoTable
  /\ \E U \in SUBSET M :
       /\ Unlinks(cars, M, U)
       /\ cars' = cars \ U
       /\ orders' = orders \ Subtree(orders, U)
  /\ icnt' = [icnt EXCEPT !["CAR_INFO"]   = Minus(@, Cardinality(M)),
                          !["RENT_ORDER"] = Minus(@, Cardinality(RO))]
  /\ reply' = "success"
  /\ UNCHANGED <<types, ct_ptr, brk, inserting, ccnt>>

DeleteRentOrder(col, V) ==
  LET M == Matching(orders, col, V) IN
  /\ inserting = NoTable
  /\ \E U \in SUBSET M : Unlinks(orders, M, U) /\ orders' = orders \ U
  /\ icnt' = [icnt EXCEPT !["RENT_ORDER"] = Minus(@, Cardinality(M))]
  /\ reply' = "success"
  /\ UNCHANGED <<types, cars, ct_ptr, brk, inserting, ccnt>>

-----------------------------------------------------------------------------
(* UPDATE <table> SET ... WHERE col = v.  traverse_update rewrites the     *)
(* first match of the traversal and returns; the node stays on its chain   *)
(* whatever columns it is given.  genericg_update falls off its end without *)
(* a value when every column is known, so the caller reads either status;  *)
(* when a column is unknown the columns before it are already written and   *)
(* the status is an error.                                                 *)

Answer(M) ==
  /\ inserting = NoTable
  /\ reply' \in IF M = {} THEN {"success"} ELSE {"success", "error"}
  /\ UNCHANGED <<ct_ptr, brk, icnt, inserting, ccnt>>

UpdateCarType(col, V, code, quantity) ==
  LET M == Matching(types, col, V) IN
  /\ Answer(M)
  /\ UNCHANGED <<cars, orders>>
  /\ IF M = {} THEN UNCHANGED types
     ELSE \E t \in M :
            /\ First("CAR_TYPE", M, t)
            /\ types' = (types \ {t})
                         \cup {[t EXCEPT !.code = code, !.quantity = quantity]}

UpdateCarInfo(col, V, cid, code) ==
  LET M == Matching(cars, col, V) IN
  /\ Answer(M)
  /\ UNCHANGED <<types, orders>>
  /\ IF M = {} THEN UNCHANGED cars
     ELSE \E c \in M :
            /\ First("CAR_INFO", M, c)
            /\ cars' = (cars \ {c}) \cup {[c EXCEPT !.cid = cid, !.code = code]}

UpdateRentOrder(col, V, oid, cid) ==
  LET M == Matching(orders, col, V) IN
  /\ Answer(M)
  /\ UNCHANGED <<types, cars>>
  /\ IF M = {} THEN UNCHANGED orders
     ELSE \E o \in M :
            /\ First("RENT_ORDER", M, o)
            /\ orders' = (orders \ {o}) \cup {[o EXCEPT !.oid = oid, !.cid = cid]}

\* An unknown table, a condition other than <column> = <value>, or a value
\* whose type does not fit the column of the condition.
Refuse ==
  /\ inserting = NoTable
  /\ reply' = "error"
  /\ UNCHANGED <<store, inserting, ccnt>>

-----------------------------------------------------------------------------
(* Statements arrive in any order and with any values.                     *)

InsertNext ==
  \/ \E ti \in Tables : InsertBegin(ti)
  \/ \E code \in Codes, q \in Quantities : InsertCarType(code, q)
  \/ \E cid \in Cids, code \in Codes : InsertCarInfo(cid, code)
  \/ \E oid \in Oids, cid \in Cids : InsertRentOrder(oid, cid)
  \/ InsertMismatch
  \/ InsertEnd

DeleteNext ==
  \/ \E V \in Text(Codes) : DeleteCarType("code", V)
  \/ \E V \in Number(Quantities) : DeleteCarType("quantity", V)
  \/ \E V \in Number(Cids) : DeleteCarInfo("cid", V)
  \/ \E V \in Text(Codes) : DeleteCarInfo("code", V)
  \/ \E V \in Text(Oids) : DeleteRentOrder("oid", V)
  \/ \E V \in Number(Cids) : DeleteRentOrder("cid", V)

UpdateNext ==
  \/ \E code \in Codes, q \in Quantities :
       \/ \E V \in Text(Codes) : UpdateCarType("code", V, code, q)
       \/ \E V \in Number(Quantities) : UpdateCarType("quantity", V, code, q)
  \/ \E cid \in Cids, code \in Codes :
       \/ \E V \in Number(Cids) : UpdateCarInfo("cid", V, cid, code)
       \/ \E V \in Text(Codes) : UpdateCarInfo("code", V, cid, code)
  \/ \E oid \in Oids, cid \in Cids :
       \/ \E V \in Text(Oids) : UpdateRentOrder("oid", V, oid, cid)
       \/ \E V \in Number(Cids) : UpdateRentOrder("cid", V, oid, cid)

Next == InsertNext \/ DeleteNext \/ UpdateNext \/ Refuse

Spec == Init /\ [][Next]_vars

-----------------------------------------------------------------------------
(* The same server used by clients whose primary keys are keys, with the    *)
(* statements the sheets of the administration page send: INSERT of a row, *)
(* with a key no row of the table has; DELETE of a row by its key; UPDATE   *)
(* of a row by its key, which may write every column, the key (its old     *)
(* value or one no row has) and the columns that relate tables included.   *)
(* Nobody need know whether the parent of a row exists.                    *)

NoWrap(ti) == icnt[ti] + 1 < UMOD

FreeCodes == Codes \ {t.code : t \in types}
FreeCids  == Cids \ {c.cid : c \in cars}
FreeOids  == Oids \ {o.oid : o \in orders}

KeyedInsert ==
  \/ \E ti \in Tables : InsertBegin(ti)
  \/ \E code \in FreeCodes, q \in Quantities :
       NoWrap("CAR_TYPE") /\ InsertCarType(code, q)
  \/ \E cid \in FreeCids, code \in Codes :
       NoWrap("CAR_INFO") /\ InsertCarInfo(cid, code)
  \/ \E oid \in FreeOids, cid \in Cids :
       NoWrap("RENT_ORDER") /\ InsertRentOrder(oid, cid)
  \/ InsertMismatch
  \/ InsertEnd

KeyedDelete ==
  \/ \E v \in Codes : DeleteCarType("code", {v})
  \/ \E v \in Cids : DeleteCarInfo("cid", {v})
  \/ \E v \in Oids : DeleteRentOrder("oid", {v})

KeyedUpdate ==
  \/ \E v \in Codes, q \in Quantities :
       \E code \in {v} \cup FreeCodes : UpdateCarType("code", {v}, code, q)
  \/ \E v \in Cids, code \in Codes :
       \E cid \in {v} \cup FreeCids : UpdateCarInfo("cid", {v}, cid, code)
  \/ \E v \in Oids, cid \in Cids :
       \E oid \in {v} \cup FreeOids : UpdateRentOrder("oid", {v}, oid, cid)

KeyedNext == KeyedInsert \/ KeyedDelete \/ KeyedUpdate

KeyedSpec == Init /\ [][KeyedNext]_vars

-----------------------------------------------------------------------------
\* The variables hold what their C types allow.
TypeOK ==
  /\ types \subseteq CarType
  /\ cars \subseteq CarInfo
  /\ orders \subseteq RentOrder
  /\ ct_ptr \in 0 .. MaxNodes
  /\ brk \in 0 .. MaxNodes
  /\ icnt \in [Tables -> 0 .. UMOD - 1]
  /\ inserting \in Tables \cup {NoTable}
  /\ ccnt \in 0 .. MaxRows
  /\ reply \in Replies

\* As long as a car type is linked, ct_ptr is the last one, so the next car
\* type is appended to the list under head and cuts nothing off it:
\* update_ct_ptr runs late enough in traverse_delete.
TailInv ==
  /\ ct_ptr <= brk
  /\ types # {} => IsTail(ct_ptr, types)

\* While an INSERT of car types is under way all the rows it has taken so far
\* are linked, so those before a value that does not fit stay when it fails,
\* and one that ends has inserted every row it answers for; unless the list
\* under head was emptied by a DELETE before.
Taken == brk - ccnt + 1 .. brk
RowsLinked == inserting = "CAR_TYPE" /\ types # {} => Taken \subseteq AddressesOf(types)

\* The documents say so without the exception: an INSERT of car types that is
\* answered with success has put its rows into the table.
InsertedRowsAreThere ==
  [][inserting = "CAR_TYPE" /\ InsertEnd => Taken \subseteq AddressesOf(types)]_vars

\* A DELETE removes at least half of the rows that match, so that a condition
\* only one row meets removes it, and no row of the table that does not match.
Halves(rows, left, col, V) ==
  /\ 2 * Cardinality(Matching(left, col, V)) <= Cardinality(Matching(rows, col, V))
  /\ rows \ Matching(rows, col, V) \subseteq left

DeleteHalves ==
  [][reply' = "success" /\ inserting' = inserting =>
     /\ \A V \in Text(Codes) :
          /\ Halves(types, types', "code", V) \/ ~ DeleteCarType("code", V)
          /\ Halves(cars, cars', "code", V) \/ ~ DeleteCarInfo("code", V)
     /\ \A V \in Number(Quantities) :
          Halves(types, types', "quantity", V) \/ ~ DeleteCarType("quantity", V)
     /\ \A V \in Number(Cids) :
          /\ Halves(cars, cars', "cid", V) \/ ~ DeleteCarInfo("cid", V)
          /\ Halves(orders, orders', "cid", V) \/ ~ DeleteRentOrder("cid", V)
     /\ \A V \in Text(Oids) :
          Halves(orders, orders', "oid", V) \/ ~ DeleteRentOrder("oid", V)
    ]_vars

-----------------------------------------------------------------------------
(* Properties of the server under clients whose primary keys are keys.     *)

\* load_record allocates icnt[ti] rows and then stores one per node it meets:
\* the counter is never below the number of nodes linked, also behind an
\* INSERT that failed after part of its rows, and behind an UPDATE of the
\* columns a row is nested by.
CountsCover ==
  /\ icnt["CAR_TYPE"]   >= Cardinality(types)
  /\ icnt["CAR_INFO"]   >= Cardinality(cars)
  /\ icnt["RENT_ORDER"] >= Cardinality(orders)

\* The number of car types is exact until the list under head is lost.
TypeCountExact ==
  (types # {} \/ ct_ptr = Sentinel) => icnt["CAR_TYPE"] = Cardinality(types)

=============================================================================
