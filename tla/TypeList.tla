------------------------------ MODULE TypeList ------------------------------
(***************************************************************************)
(* The list of car types as database.c, delete.c and update.c keep it: the *)
(* `next` fields, the cursors ct and pct of traverse_delete and            *)
(* traverse_update, one step per node visited.  CarStore abstracts a list  *)
(* to the set of its rows and a traversal to one step; here the pointers   *)
(* are shown to implement that.  The lists of cars and of orders are       *)
(* walked by the same loops (pci/ci, pro/ro), so one level stands for all. *)
(***************************************************************************)
EXTENDS Integers, FiniteSets

CONSTANTS
  Codes, Quantities,   \* values of the two columns of a car type
  MaxNodes, MaxRows, UMOD   \* the bounds of CarStore

ASSUME ValuesAssumption == Codes # {} /\ Quantities # {}
ASSUME ListAssumption == MaxNodes \in Nat /\ MaxRows \in Nat \ {0} /\ UMOD \in Nat \ {0}

VARIABLES
  next,       \* next[a]: the `next` field of the node at address a
  row,        \* row[a]: the columns of the node at address a
  ct_ptr, brk,
  icnt,       \* icnt[TABLE_CAR_TYPE]
  inserting,  \* TRUE while do_insert is in its loop
  ccnt,
  walk,       \* the traversal under way: "none", "delete" or "update"
  ct, pct,    \* its cursors
  cond,       \* its condition: a column and the values equal to its literal
  reply,
  was         \* history: the list when the traversal began

vars == <<next, row, ct_ptr, brk, icnt, inserting, ccnt, walk, ct, pct, cond,
          reply, was>>

Head    == 0
Nil     == -1
Pointer == {Nil} \cup 0 .. MaxNodes
Columns == [code: Codes, quantity: Quantities]
Conditions == ({"code"} \X {{v} : v \in Codes}) \cup ({"quantity"} \X SUBSET Quantities)
NoRow   == [code |-> CHOOSE c \in Codes : TRUE, quantity |-> CHOOSE q \in Quantities : TRUE]
NoCond  == CHOOSE c \in Conditions : TRUE

\* The nodes a loop from head->next visits: those in every set of nodes that
\* no `next` field, that of head or of a member, leads out of.
Closed(nxt) ==
  {S \in SUBSET (1 .. MaxNodes) :
     \A a \in S \cup {Head} : nxt[a] # Nil => nxt[a] \in S}
Linked(nxt) ==
  LET C == Closed(nxt) IN {a \in 1 .. MaxNodes : \A S \in C : a \in S}

\* The rows under head in the form CarStore gives them.
Rows == {[at |-> a, up |-> Head, code |-> row[a].code, quantity |-> row[a].quantity] :
           a \in Linked(next)}
Now == [types |-> Rows, ct_ptr |-> ct_ptr, icnt |-> icnt]

Init ==
  /\ next = [a \in 0 .. MaxNodes |-> Nil]
  /\ row = [a \in 1 .. MaxNodes |-> NoRow]
  /\ ct_ptr = Head /\ brk = 0 /\ icnt = 0
  /\ inserting = FALSE /\ ccnt = 0
  /\ walk = "none" /\ ct = Nil /\ pct = Nil /\ cond = NoCond
  /\ reply = "none"
  /\ was = [types |-> {}, ct_ptr |-> Head, icnt |-> 0]

-----------------------------------------------------------------------------
Idle == ~inserting /\ walk = "none"

InsertBegin ==
  /\ Idle
  /\ inserting' = TRUE /\ ccnt' = 0
  /\ UNCHANGED <<next, row, ct_ptr, brk, icnt, walk, ct, pct, cond, reply, was>>

\* ct_ptr->next = calloc(...); ct_ptr = ct_ptr->next; ct_ptr->next = NULL
insert_car_type(code, quantity) ==
  LET new == brk + 1 IN
  /\ inserting /\ ccnt < MaxRows /\ brk < MaxNodes
  /\ icnt' = (icnt + 1) % UMOD /\ ccnt' = ccnt + 1
  /\ brk' = new
  /\ next' = [next EXCEPT ![ct_ptr] = new, ![new] = Nil]
  /\ row' = [row EXCEPT ![new] = [code |-> code, quantity |-> quantity]]
  /\ ct_ptr' = new
  /\ UNCHANGED <<inserting, walk, ct, pct, cond, reply, was>>

InsertEnd ==
  /\ inserting
  /\ inserting' = FALSE /\ ccnt' = 0
  /\ reply' \in IF ccnt > 0 THEN {"success", "error"} ELSE {"error"}
  /\ UNCHANGED <<next, row, ct_ptr, brk, icnt, walk, ct, pct, cond, was>>

\* for (ct = head->next, pct = head; ...)
WalkBegin(kind, c) ==
  /\ Idle
  /\ walk' = kind /\ cond' = c
  /\ ct' = next[Head] /\ pct' = Head
  /\ was' = Now
  /\ UNCHANGED <<next, row, ct_ptr, brk, icnt, inserting, ccnt, reply>>

\* is_equal: see Matching in CarStore
Meets(a) == row[a][cond[1]] \in cond[2]

\* pct = ct, ct = ct->next, with the next fields the loop body left
Advance(nxt)        == pct' = ct /\ ct' = nxt[ct]

\* pct->next = ct->next
UnlinkSwapped(p, c) == [next EXCEPT ![c] = next[p]]
Unlink(p, c)        == [next EXCEPT ![p] = next[c]]

\* ct_ptr ends on the node that has no next; an empty list has none
update_ct_ptr_never(nxt, p) == p
update_ct_ptr(nxt, p) ==
  LET ends == {a \in 1 .. brk : nxt[a] = Nil /\ a \in Linked(nxt)}
  IN  IF ends = {} THEN p ELSE CHOOSE a \in ends : TRUE

MinusSigned(n) == n - 1
Minus(n)       == (n - 1) % UMOD

DeleteVisit ==
  /\ walk = "delete" /\ ct # Nil
  /\ next' = IF Meets(ct) THEN Unlink(pct, ct) ELSE next
  /\ icnt' = IF Meets(ct) THEN Minus(icnt) ELSE icnt
  /\ ct_ptr' = IF Meets(ct) THEN update_ct_ptr(next', ct_ptr) ELSE ct_ptr
  /\ Advance(next')
  /\ UNCHANGED <<row, brk, inserting, ccnt, walk, cond, reply, was>>

\* a node that does not meet the condition of an UPDATE
UpdatePass ==
  /\ walk = "update" /\ ct # Nil /\ ~Meets(ct)
  /\ Advance(next)
  /\ UNCHANGED <<next, row, ct_ptr, brk, icnt, inserting, ccnt, walk, cond, reply, was>>

Finish ==
  /\ walk' = "none" /\ ct' = Nil /\ pct' = Nil /\ cond' = NoCond
  /\ UNCHANGED <<next, ct_ptr, brk, icnt, inserting, ccnt, was>>

\* the first node that does: its columns are written and the loop is left
genericg_update(code, quantity) ==
  /\ walk = "update" /\ ct # Nil /\ Meets(ct)
  /\ row' = [row EXCEPT ![ct] = [code |-> code, quantity |-> quantity]]
  /\ reply' \in {"success", "error"}
  /\ Finish

WalkEnd ==
  /\ walk # "none" /\ ct = Nil
  /\ reply' = "success"
  /\ UNCHANGED row
  /\ Finish

Walk ==
  \/ DeleteVisit
  \/ UpdatePass
  \/ \E code \in Codes, q \in Quantities : genericg_update(code, q)
  \/ WalkEnd

Next ==
  \/ InsertBegin
  \/ \E code \in Codes, q \in Quantities : insert_car_type(code, q)
  \/ InsertEnd
  \/ \E kind \in {"delete", "update"}, c \in Conditions : WalkBegin(kind, c)
  \/ Walk

\* exec runs a statement to its end before it looks at anything else.
Spec == Init /\ [][Next]_vars /\ WF_vars(Walk)

-----------------------------------------------------------------------------
\* The pointers are nodes that calloc can have returned, or NULL, and icnt is
\* an unsigned int.
TypeOK ==
  /\ next \in [0 .. MaxNodes -> Pointer]
  /\ row \in [1 .. MaxNodes -> Columns]
  /\ ct_ptr \in 0 .. MaxNodes /\ brk \in 0 .. MaxNodes
  /\ icnt \in 0 .. UMOD - 1
  /\ inserting \in BOOLEAN /\ ccnt \in 0 .. MaxRows
  /\ walk \in {"none", "delete", "update"}
  /\ ct \in Pointer /\ pct \in Pointer /\ cond \in Conditions
  /\ reply \in {"none", "success", "error"}

\* Every next field of every node ever allocated, linked or not, points to a
\* younger node: no list is ever a ring, and no cursor that was left on an
\* unlinked node runs in circles.
NextGrows ==
  /\ ct_ptr <= brk
  /\ \A a \in 0 .. MaxNodes : next[a] # Nil => a < next[a] /\ next[a] <= brk

\* The cursors: pct is the node visited before ct.
CursorInv == walk # "none" /\ ct # Nil => 0 <= pct /\ pct < ct /\ ct <= brk

\* A traversal ends whatever it unlinks on its way.
WalkEnds == walk # "none" ~> walk = "none"

\* The pointers implement the store of CarStore: an INSERT appends to its set
\* of rows or is lost, a DELETE unlinks what Unlinks says, an UPDATE rewrites
\* the first match.
Shown == IF walk = "none" THEN Now ELSE was
Abstract ==
  INSTANCE CarStore WITH
    Cids <- {}, Oids <- {},
    types <- Shown.types, cars <- {}, orders <- {},
    ct_ptr <- Shown.ct_ptr,
    icnt <- [ti \in {"CAR_TYPE", "CAR_INFO", "RENT_ORDER"} |->
               IF ti = "CAR_TYPE" THEN Shown.icnt ELSE 0],
    inserting <- IF inserting THEN "CAR_TYPE" ELSE "none"
ImplementsCarStore == Abstract!Spec

=============================================================================
