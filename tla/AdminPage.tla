----------------------------- MODULE AdminPage -----------------------------
(***************************************************************************)
(* The administration page (admin.jsx) on its sheet of cars, the relay     *)
(* (router.js) and the server behind it.                                   *)
(*                                                                         *)
(* A page talks on two sockets.  On "ws" it changes cars and reads the     *)
(* sheet again; on "ws1" it asks for the quantity of a car type, and the   *)
(* handler of the answer writes the corrected quantity on "ws".  The relay *)
(* has one connection to the server for all pages on each, and sends what  *)
(* comes back to the page that connected last.                             *)
(*                                                                         *)
(* Nothing keeps a user from typing the cid of another car, from clicking  *)
(* before the last click is done, a page from being opened twice or the    *)
(* network from joining messages: any of it happens here, and faults       *)
(* remembers what did.  A cid may be typed twice and the story goes on;    *)
(* it goes no further than to the end of the first other mishap.           *)
(***************************************************************************)
EXTENDS Integers, FiniteSets, Sequences, SequencesExt, FiniteSetsExt

CONSTANTS
  Pages,       \* browser windows
  FirstPage,   \* the one that is open from the start, its sheet chosen
  Types,       \* codes of the car types there are
  Codes,       \* codes a user may type
  Numbers,     \* cids a user may type
  FirstCars,   \* the cars there are at the start, a sequence
  MaxClicks,   \* bound: clicks that send something, and windows opened
  MaxUnderWay  \* bound: messages and timers under way when the user does the next thing

ASSUME PagesAssumption == FirstPage \in Pages /\ Types \subseteq Codes /\ Numbers \subseteq Nat

\* CID is meant to be the primary key of CAR_INFO: it is at the start
ASSUME CarsAssumption ==
  /\ FirstCars \in Seq([cid: Numbers, code: Codes])
  /\ \A i, j \in DOMAIN FirstCars : FirstCars[i].cid = FirstCars[j].cid => i = j

VARIABLES
  cars,        \* the rows of CAR_INFO, [cid, code], a sequence
  quantity,    \* CAR_TYPE.quantity, of each type
  up,          \* statements under way to the server, by line
  down,        \* replies under way to the relay, by line
  last,        \* globalWs, globalWs1: the page that connected last
  page,        \* the state of each page
  clicks,      \* clicks so far
  meant,       \* cids of rows a user has confirmed to be deleted, or to get another cid
  faults       \* what went wrong so far, as the clauses of the actions name it

vars == <<cars, quantity, up, down, last, page, clicks, meant, faults>>

Lines == {"ws", "ws1"}
Nothing == [code |-> "none", delta |-> 0]

\* table: carInfo; sel: curCarInfo; shows: whether ws has a handler; ask: the
\* handler of ws1; timers: those of setTimeout; done: the change confirmed last
Fresh == [table |-> <<>>, sel |-> <<>>, shows |-> FALSE, ask |-> Nothing, timers |-> {},
          done |-> "none"]

\* the x with k elements of S up to it, in the order R of pairs <<before, after>>
Nth(S, R, k) == CHOOSE x \in S : Cardinality({y \in S : <<y, x>> \in R}) = k

UpTo(I) == {r \in I \X I : r[1] <= r[2]}

\* the elements of s at the places in I
Part(s, I) == [k \in 1 .. Cardinality(I) |-> s[Nth(I, UpTo(I), k)]]

\* the sheet, ordered by cid
RowOrder(cs) ==
  {r \in (DOMAIN cs) \X (DOMAIN cs) :
     \/ cs[r[1]].cid < cs[r[2]].cid
     \/ cs[r[1]].cid = cs[r[2]].cid /\ r[1] <= r[2]}

Rows(cs) == [k \in DOMAIN cs |-> cs[Nth(DOMAIN cs, RowOrder(cs), k)]]

Cids(cs) == {c.cid : c \in Range(cs)}
Having(cs, code) == Cardinality({i \in DOMAIN cs : cs[i].code = code})
Count(code) == Having(cars, code)

Init ==
  /\ cars = FirstCars
  /\ quantity = [t \in Types |-> Count(t)]
  /\ up = [l \in Lines |-> <<>>] /\ down = [l \in Lines |-> <<>>]
  /\ last = FirstPage
  /\ page = [p \in Pages |->
       IF p = FirstPage THEN [Fresh EXCEPT !.table = Rows(FirstCars), !.shows = TRUE]
       ELSE Fresh]
  /\ clicks = 0 /\ meant = {} /\ faults = {}

SilentNet == \A l \in Lines : up[l] = <<>> /\ down[l] = <<>>
Quiet == SilentNet /\ \A p \in Pages : page[p].timers = {}

UnderWay ==
  Len(up["ws"]) + Len(up["ws1"]) + Len(down["ws"]) + Len(down["ws1"])
    + Cardinality(UNION {page[p].timers : p \in Pages})

\* bound: one thing goes wrong, with all that follows from it, cids that are
\* typed twice apart
Calm == faults \subseteq {"duplicate"}

Joins(messages) == Calm /\ Len(messages) > 1

Fault(name, happens) == IF happens THEN {name} ELSE {}

-----------------------------------------------------------------------------
\* The server: what a statement can do and what it answers.  Of several cars
\* with one cid, an UPDATE writes the one that comes first in the lists of the
\* types, and a DELETE takes at least half (DeleteHalves of CarStore): which ones
\* is left open, as the order of cars with one cid on the sheet is.
SELECTCARINFO == [op |-> "SELECT"]
Success  == [type |-> "OK", data |-> <<>>]

\* a SELECT that fails has no data
Failed(s) == [type |-> IF s.op \in {"SELECT", "QUANTITY"} THEN "SELECT" ELSE "OK", data |-> <<>>]

Places(cs, cid) == {i \in DOMAIN cs : cs[i].cid = cid}

Deleted(cs, cid) ==
  {Part(cs, (DOMAIN cs \ Places(cs, cid)) \cup missed) :
     missed \in {R \in SUBSET Places(cs, cid) :
                  2 * Cardinality(R) <= Cardinality(Places(cs, cid))}}

Updated(cs, cid, car) ==
  IF Places(cs, cid) = {} THEN {cs} ELSE {[cs EXCEPT ![i] = car] : i \in Places(cs, cid)}

Inserted(cs, car) == IF car.code \in Types THEN Append(cs, car) ELSE cs

Changed(s, cs) ==
  CASE s.op = "INSERT" -> {Inserted(cs, s.car)}
    [] s.op = "DELETE" -> Deleted(cs, s.cid)
    [] s.op = "UPDATE" -> Updated(cs, s.cid, s.car)
    [] OTHER -> {cs}

Corrected(q, s) == IF s.code \in Types THEN [q EXCEPT ![s.code] = s.to] ELSE q

Answer(s, db) ==
  CASE s.op = "SELECT" -> [type |-> "SELECT", data |-> Rows(db.cars)]
    [] s.op = "QUANTITY" ->
         [type |-> "SELECT", data |-> IF s.code \in Types THEN <<db.quantity[s.code]>> ELSE <<>>]
    [] OTHER -> Success

Execute(s, db) ==
  {[cars     |-> cs,
    quantity |-> IF s.op = "CORRECT" THEN Corrected(db.quantity, s) ELSE db.quantity,
    reply    |-> Answer(s, db)] : cs \in Changed(s, db.cars)}

\* One read: a statement, or two that have arrived together, of which the
\* second may be spoilt by what the first left in single_command.  There is one
\* reply to a read, the last one written: the parser may have no statement for
\* the second, and nothing is written then.
Serve(l) ==
  /\ up[l] # <<>>
  /\ LET start == [cars |-> cars, quantity |-> quantity, reply |-> Success]
         Reads(db, n, reply, what) ==
           /\ cars' = db.cars /\ quantity' = db.quantity
           /\ down' = [down EXCEPT ![l] = Append(@, reply)]
           /\ up' = [up EXCEPT ![l] = SubSeq(@, n + 1, Len(@))]
           /\ faults' = faults \cup what
     IN \E one \in Execute(up[l][1], start) :
          \/ Reads(one, 1, one.reply, {})
          \/ /\ Joins(up[l])
             /\ \E two \in Execute(up[l][2], one) : Reads(two, 2, two.reply, {"joined"})
          \/ /\ Joins(up[l])
             /\ \E reply \in {one.reply, Failed(up[l][2])} : Reads(one, 2, reply, {"garbled"})
  /\ UNCHANGED <<last, page, clicks, meant>>

-----------------------------------------------------------------------------
\* The relay and the handlers of the page that is last.

\* ws1.onmessage
Correction(n, ask) == [op |-> "CORRECT", code |-> ask.code, to |-> n + ask.delta]

\* One message of the browser is one reply, or two that arrived together,
\* which are no JSON.  A reply without rows has no quantity to read.
Deliver(l) ==
  /\ down[l] # <<>>
  /\ LET p == last
         msg == down[l][1]
     IN \/ /\ down' = [down EXCEPT ![l] = Tail(@)]
           /\ IF l = "ws"
              THEN /\ page' = IF page[p].shows /\ msg.type = "SELECT"
                               THEN [page EXCEPT ![p].table = msg.data] ELSE page
                   /\ UNCHANGED up
              ELSE /\ up' = IF page[p].ask = Nothing \/ msg.data = <<>> THEN up
                            ELSE [up EXCEPT !["ws"] =
                                    Append(@, Correction(msg.data[1], page[p].ask))]
                   /\ UNCHANGED page
           /\ UNCHANGED faults
        \/ /\ Joins(down[l])
           /\ down' = [down EXCEPT ![l] = SubSeq(@, 3, Len(@))]
           /\ faults' = faults \cup {"joined"}
           /\ UNCHANGED <<page, up>>
  /\ UNCHANGED <<cars, quantity, last, clicks, meant>>

-----------------------------------------------------------------------------
\* The user.
Patient == clicks < MaxClicks /\ Calm /\ UnderWay <= MaxUnderWay

\* A window is opened or loaded again: it has no state and is the last one.
Open(p) ==
  /\ Patient
  /\ clicks' = clicks + 1
  /\ last' = p
  /\ page' = [page EXCEPT ![p] = Fresh]
  /\ faults' = faults \cup Fault("reloaded", ~ Quiet)
  /\ UNCHANGED <<cars, quantity, up, down, meant>>

\* A click of page p that sends these statements on ws and ws1.
Click(p, ws, ws1, what) ==
  /\ Patient
  /\ clicks' = clicks + 1
  /\ up' = [up EXCEPT !["ws"] = @ \o ws, !["ws1"] = @ \o ws1]
  /\ faults' = faults \cup what \cup Fault("foreign", last # p)
  /\ UNCHANGED <<cars, quantity, down, last>>

selectSheet(p) ==
  /\ Click(p, <<SELECTCARINFO>>, <<>>, {})
  /\ page' = [page EXCEPT ![p].shows = TRUE]
  /\ UNCHANGED meant

\* A second click on a row takes it out again.
selectItem(p, i) ==
  LET at  == {k \in 1 .. Len(page[p].sel) : page[p].sel[k] = i}
      sel == IF at = {} THEN Append(page[p].sel, i) ELSE RemoveAt(page[p].sel, Max(at))
  IN /\ Patient
     /\ page' = [page EXCEPT ![p].sel = sel]
     /\ UNCHANGED <<cars, quantity, up, down, last, clicks, meant, faults>>

\* a change is confirmed while the one before is still under way, or from rows
\* that are not those of the server any more
Hasty(p) == Fault("hasty", ~ Quiet)
Stale(p) == Fault("stale", page[p].table # Rows(cars))

\* another car has the cid
Taken(cid) == Fault("duplicate", cid \in Cids(cars))

AddFirstRead(car) == <<SELECTCARINFO, [op |-> "INSERT", car |-> car]>>
AddStatements(car) == <<[op |-> "INSERT", car |-> car], SELECTCARINFO>>

\* The number is what the user has typed: nothing looks whether a car has it.
onClickConfirmAdd(p, cid, code) ==
  /\ page[p].sel = <<>>
  /\ Click(p, AddStatements([cid |-> cid, code |-> code]),
           <<[op |-> "QUANTITY", code |-> code]>>, Hasty(p) \cup Taken(cid))
  /\ page' = [page EXCEPT ![p].ask = [code |-> code, delta |-> 1], ![p].done = "add"]
  /\ UNCHANGED meant

\* what the timers of one click do, in this order; row is the one that was in
\* the table at this place when the click came
Timer(k, del, at, row, delta) ==
  [click |-> clicks + 1, k |-> k, del |-> del, at |-> at, row |-> row, delta |-> delta]

Chosen(p) ==
  Part(page[p].sel, {k \in DOMAIN page[p].sel : page[p].sel[k] <= Len(page[p].table)})

Deletions(p) ==
  {Timer(k, TRUE, Chosen(p)[k], page[p].table[Chosen(p)[k]], -1) :
     k \in 1 .. Len(Chosen(p))}

onClickConfirmDel(p) ==
  /\ page[p].sel # <<>>
  /\ Click(p, <<SELECTCARINFO>>, <<>>, Hasty(p) \cup Stale(p))
  /\ page' = [page EXCEPT ![p].timers = @ \cup Deletions(p), ![p].sel = <<>>,
                          ![p].done = "del"]
  /\ meant' = meant \cup {page[p].table[i].cid : i \in Range(Chosen(p))}

EditNewOnly(old, new) == {Timer(1, FALSE, 0, new, 1)}
EditTimers(old, new)  == {Timer(1, FALSE, 0, old, -1), Timer(2, FALSE, 0, new, 1)}

\* What is written over the row that is selected is what the form has, which is
\* what the user has typed and for the rest editingCarInfo, the row clicked on
\* when one was left: it may be the one that the click took out.
onClickConfirmEdit(p, cid, code) ==
  /\ Len(page[p].sel) = 1 /\ page[p].sel[1] <= Len(page[p].table)
  /\ LET old == page[p].table[page[p].sel[1]]
         new == [cid |-> cid, code |-> code]
         renumbered == IF cid = old.cid THEN {} ELSE {old.cid}
     IN /\ Click(p, <<[op |-> "UPDATE", cid |-> old.cid, car |-> new], SELECTCARINFO>>, <<>>,
                 Hasty(p) \cup Stale(p) \cup (IF cid = old.cid THEN {} ELSE Taken(cid)))
        /\ page' = [page EXCEPT ![p].timers = @ \cup EditTimers(old, new),
                                ![p].sel = <<>>, ![p].done = "edit"]
        /\ meant' = meant \cup renumbered

\* the row a timer works on: the callback keeps the table of its click
RowShown(p, t) == IF t.at \in 1 .. Len(page[p].table) THEN page[p].table[t.at] ELSE t.row
Row(p, t)      == t.row

\* A timer of setTimeout: those of one click are 200 ms apart, which need not
\* be enough for the answer to the one before.
Fire(p, t) ==
  /\ \A u \in page[p].timers : u.click = t.click => t.k <= u.k
  /\ SilentNet \/ Calm
  /\ up' = [up EXCEPT
       !["ws"]  = IF t.del THEN Append(@, [op |-> "DELETE", cid |-> Row(p, t).cid]) ELSE @,
       !["ws1"] = Append(@, [op |-> "QUANTITY", code |-> Row(p, t).code])]
  /\ page' = [page EXCEPT ![p].timers = @ \ {t},
                          ![p].ask = [code |-> Row(p, t).code, delta |-> t.delta]]
  /\ faults' = faults \cup Fault("slow", ~ SilentNet) \cup Fault("foreign", last # p)
  /\ UNCHANGED <<cars, quantity, down, last, clicks, meant>>

-----------------------------------------------------------------------------
Next ==
  \/ \E l \in Lines : Serve(l) \/ Deliver(l)
  \/ \E p \in Pages :
       \/ Open(p)
       \/ selectSheet(p)
       \/ \E i \in 1 .. Len(page[p].table) : selectItem(p, i)
       \/ \E cid \in Numbers, code \in Codes :
            onClickConfirmAdd(p, cid, code) \/ onClickConfirmEdit(p, cid, code)
       \/ onClickConfirmDel(p)
       \/ \E t \in page[p].timers : Fire(p, t)

Spec == Init /\ [][Next]_vars

-----------------------------------------------------------------------------
\* A cid, by which the page knows a car, disappears only when a user has confirmed
\* the deletion of a row that showed it or an edit that writes another over it,
\* however late the timers are, whatever the table shows by then, whatever cids
\* are typed twice, and whatever answers are lost, joined or sent to another page.
DeletesMeant == [][Cids(cars) \ Cids(cars') \subseteq meant']_vars

\* Once nothing is under way, the quantity of every type has followed its cars,
\* as long as no cid was typed that another car had, no change was confirmed
\* before the one before it was through or from an old table, no timer was early,
\* no statement was lost, no window was loaded again in between and the page that
\* sent the statements is the one that connected last.
QuantityExact ==
  Quiet /\ faults \subseteq {"joined"} => \A t \in Types : quantity[t] = Count(t)

\* Then the page that connected last also shows the rows there are, if the last
\* thing confirmed on it was to add or to edit one, no change came before the
\* one before it was through, no answer was lost or joined and no page has sent
\* anything that was not the last.
ShownFresh ==
  Quiet /\ faults \cap {"hasty", "garbled", "joined", "foreign"} = {} =>
    (page[last].shows /\ page[last].done \in {"add", "edit"} =>
       page[last].table = Rows(cars))

\* What doc/gui.md says of all three: after adding, deleting and editing the
\* SELECT is sent again to bring the rows on display up to date.
ShownAfterDelete ==
  Quiet /\ Calm /\ page[last].done = "del" => page[last].table = Rows(cars)

=============================================================================
