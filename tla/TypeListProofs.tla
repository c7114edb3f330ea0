--------------------------- MODULE TypeListProofs ---------------------------
(***************************************************************************)
(* Every traversal of a list follows next fields that only ever lead to    *)
(* younger nodes, whatever nodes were unlinked before or on the way: the   *)
(* reason why the loops of traverse_delete and traverse_update end.        *)
(***************************************************************************)
EXTENDS TypeList, FiniteSetTheorems, TLAPS

IInv == TypeOK /\ NextGrows /\ CursorInv

USE DEF Head, Nil, Pointer

\* There is a condition to start from.
LEMMA NoCondType == NoCond \in Conditions
<1>1. PICK c \in Codes : TRUE
  BY ValuesAssumption
<1>2. <<"code", {c}>> \in Conditions
  BY DEF Conditions
<1> QED BY <1>2 DEF NoCond

\* The values the variables start with exist.
LEMMA InitIInv == Init => IInv
<1> SUFFICES ASSUME Init PROVE IInv
  OBVIOUS
<1>1. NoRow \in Columns
  BY ValuesAssumption DEF NoRow, Columns
<1>2. NoCond \in Conditions
  BY NoCondType
<1>3. TypeOK
  <2>1. next \in [0 .. MaxNodes -> Pointer] /\ row \in [1 .. MaxNodes -> Columns]
    BY <1>1 DEF Init
  <2>2. 0 \in 0 .. MaxNodes /\ 0 \in 0 .. UMOD - 1 /\ 0 \in 0 .. MaxRows
    BY ListAssumption
  <2> QED BY <1>2, <2>1, <2>2 DEF Init, TypeOK
<1>4. NextGrows /\ CursorInv
  BY DEF Init, NextGrows, CursorInv
<1> QED BY <1>3, <1>4 DEF IInv

\* The counter stays an unsigned int.
LEMMA CounterRange ==
  ASSUME NEW n \in 0 .. UMOD - 1
  PROVE  (n + 1) % UMOD \in 0 .. UMOD - 1 /\ Minus(n) \in 0 .. UMOD - 1
<1>1. \A a \in Int : a % UMOD \in 0 .. UMOD - 1
  BY ListAssumption
<1> QED BY <1>1 DEF Minus

LEMMA InsertIInv ==
  ASSUME IInv, NEW code \in Codes, NEW quantity \in Quantities,
         insert_car_type(code, quantity)
  PROVE  IInv'
<1>1. brk + 1 \in 1 .. MaxNodes /\ brk' = brk + 1 /\ ct_ptr' = brk + 1
  BY ListAssumption DEF IInv, TypeOK, insert_car_type
<1>2. next' = [next EXCEPT ![ct_ptr] = brk + 1, ![brk + 1] = Nil]
  BY DEF insert_car_type
<1>3. next' \in [0 .. MaxNodes -> Pointer]
  BY <1>1, <1>2, ListAssumption DEF IInv, TypeOK
<1>4. \A a \in 0 .. MaxNodes :
        next'[a] = IF a = brk + 1 THEN Nil ELSE IF a = ct_ptr THEN brk + 1 ELSE next[a]
  BY <1>1, <1>2 DEF IInv, TypeOK
<1>5. NextGrows'
  BY <1>1, <1>3, <1>4 DEF IInv, TypeOK, NextGrows
<1>6. TypeOK'
  <2>1. icnt' \in 0 .. UMOD - 1
    BY CounterRange DEF IInv, TypeOK, insert_car_type
  <2>2. [code |-> code, quantity |-> quantity] \in Columns
    BY DEF Columns
  <2>3. row' \in [1 .. MaxNodes -> Columns]
    BY <1>1, <2>2 DEF IInv, TypeOK, insert_car_type
  <2>4. ccnt' \in 0 .. MaxRows
    BY ListAssumption DEF IInv, TypeOK, insert_car_type
  <2> QED BY <1>1, <1>3, <2>1, <2>3, <2>4 DEF IInv, TypeOK, insert_car_type
<1>7. CursorInv'
  BY <1>1 DEF IInv, TypeOK, CursorInv, insert_car_type
<1> QED BY <1>5, <1>6, <1>7 DEF IInv

\* The write through pct skips ct: it leads further down, never back.
LEMMA DeleteVisitIInv == ASSUME IInv, DeleteVisit PROVE IInv'
<1>1. pct \in 0 .. brk /\ ct \in 1 .. brk /\ pct < ct /\ brk \in 0 .. MaxNodes
  BY DEF IInv, TypeOK, CursorInv, DeleteVisit
<1>2. next' \in [0 .. MaxNodes -> Pointer]
  BY <1>1, ListAssumption DEF IInv, TypeOK, DeleteVisit, Unlink
<1>3. \A a \in 0 .. MaxNodes :
        next'[a] = next[a] \/ (a = pct /\ next'[a] = next[ct])
  BY <1>1 DEF IInv, TypeOK, DeleteVisit, Unlink
<1>4. \A a \in 0 .. MaxNodes : next'[a] # Nil => a < next'[a] /\ next'[a] <= brk
  <2> SUFFICES ASSUME NEW a \in 0 .. MaxNodes, next'[a] # Nil
               PROVE  a < next'[a] /\ next'[a] <= brk
    OBVIOUS
  <2>1. CASE next'[a] = next[a]
    BY <2>1 DEF IInv, NextGrows
  <2>2. CASE a = pct /\ next'[a] = next[ct]
    <3>1. ct < next[ct] /\ next[ct] <= brk /\ next[ct] \in Pointer
      BY <1>1, <2>2, ListAssumption DEF IInv, NextGrows, TypeOK
    <3> QED BY <1>1, <2>2, <3>1, ListAssumption
  <2> QED BY <1>3, <2>1, <2>2
<1>5. ct_ptr' \in 0 .. brk
  <2>1. ct_ptr \in 0 .. brk
    BY DEF IInv, TypeOK, NextGrows
  <2>2. update_ct_ptr(next', ct_ptr) \in 0 .. brk
    BY <1>1, <2>1 DEF update_ct_ptr
  <2> QED BY <2>1, <2>2 DEF DeleteVisit
<1>6. brk' = brk /\ pct' = ct /\ ct' = next'[ct]
  BY DEF DeleteVisit, Advance
<1>7. NextGrows'
  BY <1>4, <1>5, <1>6 DEF NextGrows
<1>8. CursorInv'
  BY <1>1, <1>4, <1>6, ListAssumption DEF CursorInv
<1>9. TypeOK'
  <2>1. icnt' \in 0 .. UMOD - 1
    BY CounterRange DEF IInv, TypeOK, DeleteVisit
  <2>2. ct' \in Pointer /\ pct' \in Pointer
    BY <1>1, <1>2, <1>6, ListAssumption DEF IInv, TypeOK
  <2>3. UNCHANGED <<row, brk, inserting, ccnt, walk, cond, reply>>
    BY DEF DeleteVisit
  <2>4. ct_ptr' \in 0 .. MaxNodes
    BY <1>1, <1>5, ListAssumption
  <2> QED BY <1>2, <2>1, <2>2, <2>3, <2>4 DEF IInv, TypeOK
<1> QED BY <1>7, <1>8, <1>9 DEF IInv

LEMMA UpdateIInv ==
  ASSUME IInv, \/ UpdatePass
               \/ \E code \in Codes, q \in Quantities : genericg_update(code, q)
               \/ WalkEnd
  PROVE  IInv'
<1>1. CASE UpdatePass
  <2>1. pct \in 0 .. brk /\ ct \in 1 .. brk /\ pct < ct /\ brk \in 0 .. MaxNodes
    BY <1>1 DEF IInv, TypeOK, CursorInv, UpdatePass
  <2>2. ct' = next[ct] /\ pct' = ct /\ next[ct] \in Pointer
    BY <1>1, <2>1 DEF IInv, TypeOK, UpdatePass, Advance
  <2>3. next[ct] # Nil => ct < next[ct] /\ next[ct] <= brk
    BY <2>1, ListAssumption DEF IInv, NextGrows
  <2> QED BY <1>1, <2>1, <2>2, <2>3, ListAssumption
          DEF IInv, TypeOK, NextGrows, CursorInv, UpdatePass
<1>2. ASSUME NEW code \in Codes, NEW q \in Quantities, genericg_update(code, q)
      PROVE  IInv'
  <2>1. row' \in [1 .. MaxNodes -> Columns]
    BY <1>2 DEF IInv, TypeOK, genericg_update, Columns
  <2>2. NoCond \in Conditions
    BY NoCondType
  <2> QED BY <1>2, <2>1, <2>2
          DEF IInv, TypeOK, NextGrows, CursorInv, genericg_update, Finish
<1>3. CASE WalkEnd
  <2>1. NoCond \in Conditions
    BY NoCondType
  <2> QED BY <1>3, <2>1 DEF IInv, TypeOK, NextGrows, CursorInv, WalkEnd, Finish
<1> QED BY <1>1, <1>2, <1>3

LEMMA NextIInv == IInv /\ [Next]_vars => IInv'
<1> SUFFICES ASSUME IInv, [Next]_vars PROVE IInv'
  OBVIOUS
<1>1. CASE InsertBegin
  BY <1>1, ListAssumption DEF IInv, TypeOK, NextGrows, CursorInv, InsertBegin, Idle
<1>2. CASE InsertEnd
  <2>1. ccnt' = 0 /\ inserting' = FALSE /\ reply' \in {"none", "success", "error"}
    BY <1>2, Zenon DEF InsertEnd
  <2>2. 0 \in 0 .. MaxRows
    BY ListAssumption
  <2> QED BY <1>2, <2>1, <2>2 DEF IInv, TypeOK, NextGrows, CursorInv, InsertEnd
<1>3. ASSUME NEW kind \in {"delete", "update"}, NEW c \in Conditions, WalkBegin(kind, c)
      PROVE  IInv'
  <2>1. next[0] \in Pointer /\ (next[0] # Nil => 0 < next[0] /\ next[0] <= brk)
    BY ListAssumption DEF IInv, TypeOK, NextGrows
  <2>2. /\ walk' \in {"none", "delete", "update"} /\ cond' = c
        /\ ct' = next[0] /\ pct' = 0
        /\ UNCHANGED <<next, row, ct_ptr, brk, icnt, inserting, ccnt, reply>>
    BY <1>3 DEF WalkBegin
  <2>3. TypeOK'
    BY <2>1, <2>2, ListAssumption DEF IInv, TypeOK
  <2> QED BY <2>1, <2>2, <2>3 DEF IInv, NextGrows, CursorInv
<1>4. CASE Walk
  BY <1>4, DeleteVisitIInv, UpdateIInv DEF Walk
<1>5. CASE UNCHANGED vars
  BY <1>5 DEF IInv, TypeOK, NextGrows, CursorInv, vars
<1> QED BY <1>1, <1>2, <1>3, <1>4, <1>5, InsertIInv DEF Next

\* The variables keep their types.
THEOREM TypeCorrect == Spec => []TypeOK
<1>1. IInv => TypeOK
  BY DEF IInv
<1> QED BY InitIInv, NextIInv, <1>1, PTL DEF Spec

\* No next field ever leads back, so no list is a ring.
THEOREM ListsAcyclic == Spec => []NextGrows
<1>1. IInv => NextGrows
  BY DEF IInv
<1> QED BY InitIInv, NextIInv, <1>1, PTL DEF Spec

\* The cursors of a traversal only move to younger nodes.
THEOREM CursorsMoveOn == Spec => []CursorInv
<1>1. IInv => CursorInv
  BY DEF IInv
<1> QED BY InitIInv, NextIInv, <1>1, PTL DEF Spec

-----------------------------------------------------------------------------
(***************************************************************************)
(* The pointers implement the store of CarStore.                           *)
(*                                                                         *)
(* The nodes a list links are a set L such that the next field of head and *)
(* of every node of L names the next node of L by address (Chain).  An     *)
(* INSERT adds the youngest node to L; the write of a DELETE takes one node *)
(* out of L, or none when it goes to a node that L has lost already.  What *)
(* a traversal has done so far is said in terms of the list it began with. *)
(***************************************************************************)
USE ListAssumption

\* b is the node after a in L, or NULL when a is the last
IsNext(L, a, b) ==
  \/ b = Nil /\ \A x \in L : x <= a
  \/ b \in L /\ a < b /\ \A x \in L : x <= a \/ b <= x

Chain(nxt, L) == L \subseteq 1 .. MaxNodes /\ \A a \in L \cup {0} : IsNext(L, a, nxt[a])

-----------------------------------------------------------------------------
\* A set of numbers has a least member, and a bounded one a last.
LEMMA Least ==
  ASSUME NEW T, T \subseteq Nat, T # {} PROVE \E m \in T : \A x \in T : m <= x
<1>1. PICK m \in T : \A x \in T : ~ (<<x, m>> \in OpToRel(<, Nat))
  BY NatLessThanWellFounded, WFMin
<1>2. \A x \in T : ~ (x < m)
  BY <1>1 DEF OpToRel
<1> QED BY <1>2

LEMMA Last ==
  ASSUME NEW n \in Nat, NEW T, T \subseteq 0 .. n, T # {}
  PROVE  \E m \in T : \A x \in T : x <= m
<1> DEFINE D == {n - x : x \in T}
<1>1. D \subseteq Nat /\ D # {}
  <2>1. \A x \in T : x \in 0 .. n /\ n - x \in Nat
    OBVIOUS
  <2> QED BY <2>1
<1>2. PICK d \in D : \A e \in D : d <= e
  <2> HIDE DEF D
  <2> QED BY <1>1, Least
<1>3. PICK m \in T : d = n - m
  OBVIOUS
<1>4. \A x \in T : n - m <= n - x
  BY <1>2, <1>3
<1>5. \A x \in T : x <= m
  <2>1. \A x \in T : x \in Int
    OBVIOUS
  <2> QED BY <1>4, <2>1
<1> QED BY <1>5

\* The nodes linked under head are the nodes of the chain.
LEMMA ChainLinked ==
  ASSUME NEW nxt, NEW L, Chain(nxt, L) PROVE Linked(nxt) = L
<1>1. L \in Closed(nxt)
  BY DEF Chain, Closed, IsNext
<1>2. Linked(nxt) \subseteq L
  BY <1>1 DEF Linked
<1>3. ASSUME NEW S \in Closed(nxt), NEW y \in L, y \notin S PROVE FALSE
  <2>1. L \subseteq 1 .. MaxNodes /\ S \subseteq 1 .. MaxNodes
    BY DEF Chain, Closed
  <2>2. PICK m \in L \ S : \A x \in L \ S : m <= x
    <3>1. L \ S \subseteq Nat /\ L \ S # {}
      BY <1>3, <2>1
    <3> QED BY <3>1, Least
  <2>3. m \in 1 .. MaxNodes
    BY <2>1
  <2> DEFINE P == {a \in L \cup {0} : a < m}
  <2>4. PICK p \in P : \A x \in P : x <= p
    <3>0. \A x \in L : x \in 1 .. MaxNodes
      BY <2>1
    <3>1. P \subseteq 0 .. MaxNodes
      BY <3>0
    <3>2. 0 \in P
      BY <2>3
    <3> HIDE DEF P
    <3> QED BY <3>1, <3>2, Last
  <2>5. p \in S \cup {0} /\ p < m /\ p \in L \cup {0} /\ p \in Nat
    BY <2>1, <2>2, <2>3
  <2>6. PICK q : q = nxt[p]
    OBVIOUS
  <2>7. IsNext(L, p, q)
    BY <2>5, <2>6 DEF Chain
  <2>8. m \in L /\ ~ (m <= p)
    BY <2>3, <2>5
  <2>9. q \in L /\ p < q /\ q <= m
    BY <2>7, <2>8 DEF IsNext
  <2>10. q \in 1 .. MaxNodes
    BY <2>1, <2>9
  <2>11. ~ (q < m)
    <3>1. q \in P => q <= p
      BY <2>4
    <3> QED BY <2>5, <2>9, <2>10, <3>1
  <2>12. q = m /\ q # Nil
    BY <2>3, <2>9, <2>10, <2>11
  <2> QED BY <2>2, <2>5, <2>6, <2>12 DEF Closed
<1>4. L \subseteq Linked(nxt)
  BY <1>3 DEF Chain, Linked
<1> QED BY <1>2, <1>4

\* update_ct_ptr finds the last node of a list that has one.
LEMMA TailOfChain ==
  ASSUME NEW nxt, NEW L, Chain(nxt, L), L \subseteq 1 .. brk, NEW p
  PROVE  /\ L = {} => update_ct_ptr(nxt, p) = p
         /\ L # {} => /\ update_ct_ptr(nxt, p) \in L
                      /\ \A x \in L : x <= update_ct_ptr(nxt, p)
<1> DEFINE ends == {a \in 1 .. brk : nxt[a] = Nil /\ a \in Linked(nxt)}
<1>1. Linked(nxt) = L
  BY ChainLinked
<1>2. L \subseteq 1 .. MaxNodes
  BY DEF Chain
<1>3. CASE L = {}
  BY <1>1, <1>3 DEF update_ct_ptr
<1>4. CASE L # {}
  <2>1. PICK m \in L : \A x \in L : x <= m
    <3>1. L \subseteq 0 .. MaxNodes
      BY <1>2
    <3> QED BY <1>4, <3>1, Last
  <2>2. nxt[m] = Nil
    <3>1. PICK q : q = nxt[m]
      OBVIOUS
    <3>2. IsNext(L, m, q)
      BY <2>1, <3>1 DEF Chain
    <3>3. q \in L => q <= m /\ q \in 1 .. MaxNodes /\ m \in 1 .. MaxNodes
      BY <1>2, <2>1
    <3> QED BY <3>1, <3>2, <3>3 DEF IsNext
  <2>3. m \in ends
    BY <1>1, <2>1, <2>2
  <2>4. ASSUME NEW a \in ends PROVE a \in L /\ \A x \in L : x <= a
    <3>1. a \in L /\ nxt[a] = Nil
      BY <1>1
    <3>2. IsNext(L, a, nxt[a]) /\ Nil \notin L
      BY <1>2, <3>1 DEF Chain
    <3> QED BY <3>1, <3>2 DEF IsNext
  <2>5. update_ct_ptr(nxt, p) \in ends
    BY <2>3 DEF update_ct_ptr
  <2> HIDE DEF ends
  <2> QED BY <1>4, <2>4, <2>5
<1> QED BY <1>3, <1>4

\* What an INSERT makes of a chain: b is younger than all its nodes.
LEMMA AppendChain ==
  ASSUME NEW nxt \in [0 .. MaxNodes -> Pointer], NEW L, Chain(nxt, L),
         NEW b \in 1 .. MaxNodes, \A x \in L : x < b, NEW t \in 0 .. MaxNodes, t < b
  PROVE  LET new == [nxt EXCEPT ![t] = b, ![b] = Nil]
         IN  /\ t \in L \cup {0} /\ (\A x \in L : x <= t) => Chain(new, L \cup {b})
             /\ t \notin L \cup {0} => Chain(new, L)
<1> DEFINE new == [nxt EXCEPT ![t] = b, ![b] = Nil]
<1>1. \A x \in L : x \in 1 .. MaxNodes /\ x # b
  BY DEF Chain
<1>2. \A a \in 0 .. MaxNodes : new[a] = IF a = b THEN Nil ELSE IF a = t THEN b ELSE nxt[a]
  OBVIOUS
<1> HIDE DEF new
<1>3. ASSUME t \in L \cup {0}, \A x \in L : x <= t PROVE Chain(new, L \cup {b})
  <2>1. ASSUME NEW a \in L \cup {b} \cup {0} PROVE IsNext(L \cup {b}, a, new[a])
    <3>1. CASE a = b
      BY <1>1, <1>2, <3>1 DEF IsNext
    <3>2. CASE a = t
      BY <1>1, <1>2, <1>3, <3>2 DEF IsNext
    <3>3. CASE a # b /\ a # t
      <4>1. a \in L \cup {0} /\ a \in 0 .. MaxNodes
        BY <1>1, <3>3
      <4>2. PICK q : q = nxt[a] /\ q = new[a]
        BY <1>2, <3>3, <4>1
      <4>3. IsNext(L, a, q)
        BY <4>1, <4>2 DEF Chain
      <4>4. q \in L
        <5>1. t \in L
          BY <1>1, <1>3, <3>3, <4>1
        <5>2. ~ (t <= a)
          BY <1>1, <1>3, <3>3, <4>1, <5>1
        <5> QED BY <4>3, <5>1, <5>2 DEF IsNext
      <4>5. q <= b
        BY <1>1, <4>4
      <4> QED BY <4>2, <4>3, <4>4, <4>5, <1>1 DEF IsNext
    <3> QED BY <3>1, <3>2, <3>3
  <2> QED BY <1>1, <2>1 DEF Chain
<1>4. ASSUME t \notin L \cup {0} PROVE Chain(new, L)
  <2>1. \A a \in L \cup {0} : new[a] = nxt[a]
    BY <1>1, <1>2, <1>4
  <2> QED BY <2>1 DEF Chain
<1> QED BY <1>3, <1>4 DEF new

\* What the write of a DELETE makes of a chain: c leaves it, unless p has left
\* it before.
LEMMA UnlinkChain ==
  ASSUME NEW nxt \in [0 .. MaxNodes -> Pointer], NEW L, Chain(nxt, L),
         NEW c \in L, NEW p \in 0 .. MaxNodes, p < c
  PROVE  LET new == [nxt EXCEPT ![p] = nxt[c]]
         IN  /\ p \in L \cup {0} /\ IsNext(L, p, c) => Chain(new, L \ {c})
             /\ p \notin L \cup {0} => Chain(new, L)
<1> DEFINE new == [nxt EXCEPT ![p] = nxt[c]]
<1>1. \A x \in L : x \in 1 .. MaxNodes
  BY DEF Chain
<1>2. \A a \in 0 .. MaxNodes : new[a] = IF a = p THEN nxt[c] ELSE nxt[a]
  OBVIOUS
<1> HIDE DEF new
<1>3. ASSUME p \in L \cup {0}, IsNext(L, p, c) PROVE Chain(new, L \ {c})
  <2>1. PICK d : d = nxt[c] /\ IsNext(L, c, d)
    BY DEF Chain
  <2>2. ASSUME NEW a \in (L \ {c}) \cup {0} PROVE IsNext(L \ {c}, a, new[a])
    <3>1. a \in L \cup {0} /\ a \in 0 .. MaxNodes /\ c \in 1 .. MaxNodes /\ a # c
      BY <1>1
    <3>2. CASE a = p
      <4>1. new[a] = d
        BY <1>2, <2>1, <3>1, <3>2
      <4>2. \A x \in L \ {c} : x <= a \/ c < x
        BY <1>1, <1>3, <3>1, <3>2 DEF IsNext
      <4>3. CASE d = Nil /\ \A x \in L : x <= c
        <5>1. \A x \in L \ {c} : x <= a
          BY <1>1, <3>1, <4>2, <4>3
        <5> QED BY <4>1, <4>3, <5>1 DEF IsNext
      <4>4. CASE d \in L /\ c < d /\ \A x \in L : x <= c \/ d <= x
        <5>1. a < d /\ d # c
          BY <1>1, <3>1, <3>2, <4>4
        <5>2. \A x \in L \ {c} : x <= a \/ d <= x
          BY <1>1, <3>1, <4>2, <4>4
        <5> QED BY <4>1, <4>4, <5>1, <5>2 DEF IsNext
      <4> QED BY <2>1, <4>3, <4>4 DEF IsNext
    <3>3. CASE a # p
      <4>1. PICK q : q = nxt[a] /\ q = new[a] /\ IsNext(L, a, q)
        BY <1>2, <3>1, <3>3 DEF Chain
      <4>2. q # c
        <5>1. a < c /\ (p <= a \/ c <= p) /\ (a <= p \/ c <= a)
              => p = a
          BY <1>1, <3>1
        <5> QED BY <1>1, <1>3, <3>1, <3>3, <4>1 DEF IsNext
      <4> QED BY <4>1, <4>2 DEF IsNext
    <3> QED BY <3>2, <3>3
  <2> QED BY <1>1, <2>2 DEF Chain
<1>4. ASSUME p \notin L \cup {0} PROVE Chain(new, L)
  <2>1. \A a \in L \cup {0} : new[a] = nxt[a]
    BY <1>1, <1>2, <1>4
  <2> QED BY <2>1 DEF Chain
<1> QED BY <1>3, <1>4 DEF new

-----------------------------------------------------------------------------
\* Counting down in unsigned ints.

\* n % UMOD is n less a multiple of UMOD, and the only such unsigned int.
LEMMA ModIs ==
  ASSUME NEW x \in Int
  PROVE  x % UMOD \in 0 .. UMOD - 1 /\ \E q \in Int : x = (x % UMOD) + q * UMOD
<1> DEFINE q == x \div UMOD
<1>1. x = UMOD * q + (x % UMOD) /\ q \in Int /\ x % UMOD \in 0 .. UMOD - 1
  OBVIOUS
<1> HIDE DEF q
<1>2. x = (x % UMOD) + q * UMOD
  BY <1>1
<1> QED BY <1>1, <1>2

LEMMA ModUnique ==
  ASSUME NEW x \in Int, NEW r \in 0 .. UMOD - 1, NEW q \in Int, x = r + q * UMOD
  PROVE  x % UMOD = r
<1>1. PICK p \in Int : x = (x % UMOD) + p * UMOD /\ x % UMOD \in 0 .. UMOD - 1
  BY ModIs
<1>2. PICK s \in 0 .. UMOD - 1 : s = x % UMOD
  BY <1>1
<1>3. PICK d \in Int : d = p - q
  OBVIOUS
<1>4. d * UMOD = p * UMOD - q * UMOD
  BY <1>3
<1>5. d * UMOD = r - s /\ r - s < UMOD /\ r - s > -UMOD
  BY <1>1, <1>2, <1>4
<1>6. d >= 1 => d * UMOD >= UMOD
  OBVIOUS
<1>7. d <= -1 => d * UMOD <= -UMOD
  OBVIOUS
<1>8. d = 0
  BY <1>5, <1>6, <1>7
<1>9. p = q
  BY <1>3, <1>8
<1> QED BY <1>1, <1>2, <1>9

-----------------------------------------------------------------------------
\* The invariant.

RowOf(a)  == [at |-> a, up |-> Head, code |-> row[a].code, quantity |-> row[a].quantity]
RowsOf(L) == {RowOf(a) : a \in L}

IsLast(a, L) == a \in L /\ \A x \in L : x <= a

\* the list and its tail, traversed or not
ListInv ==
  /\ Chain(next, Linked(next))
  /\ Linked(next) \subseteq 1 .. brk
  /\ Linked(next) # {} => IsLast(ct_ptr, Linked(next))

\* the nodes linked when the traversal began, those of them it has unlinked,
\* those it has counted, and those it has missed
Began      == {r.at : r \in was.types}
Dropped    == Began \ Linked(next)
Counted(p) == {a \in Began : a <= p /\ Meets(a)}
Missed(a)  == \E m \in Dropped : m < a /\ \A k \in Began : k <= m \/ a <= k

WalkInv ==
  walk # "none" =>
    /\ ~ inserting
    /\ was.types = RowsOf(Began) /\ Began \subseteq 1 .. brk
    /\ was.icnt \in Int
    /\ Began # {} => IsLast(was.ct_ptr, Began)
    /\ Linked(next) \subseteq Began
    /\ pct \in Began \cup {0} /\ IsNext(Began, pct, ct)
    /\ \A a \in Began : a > pct => a \in Linked(next) /\ IsNext(Began, a, next[a])

UpdateInv ==
  walk = "update" => Now = was /\ \A a \in Began : a <= pct => ~ Meets(a)

DeleteInv ==
  walk = "delete" =>
    /\ \A a \in Began : a <= pct => (a \in Dropped <=> Meets(a) /\ ~ Missed(a))
    /\ Linked(next) = {} => ct_ptr = was.ct_ptr
    /\ \E j \in Int : icnt = was.icnt - Cardinality(Counted(pct)) + j * UMOD

RInv == IInv /\ ListInv /\ WalkInv /\ UpdateInv /\ DeleteInv

\* Rows are those of the nodes linked.
LEMMA RowsAre == Rows = RowsOf(Linked(next))
BY DEF Rows, RowsOf, RowOf

\* Rows have one address each.
LEMMA AddressesOfRows == ASSUME NEW L PROVE {r.at : r \in RowsOf(L)} = L
<1>1. \A a \in L : RowOf(a) \in RowsOf(L) /\ RowOf(a).at = a
  BY DEF RowsOf, RowOf
<1>2. \A r \in RowsOf(L) : \E a \in L : r = RowOf(a)
  BY DEF RowsOf
<1> QED BY <1>1, <1>2

LEMMA InitRInv == Init => RInv
<1> SUFFICES ASSUME Init PROVE RInv
  OBVIOUS
<1>1. IInv
  BY InitIInv
<1>2. Chain(next, {})
  BY DEF Init, Chain, IsNext
<1>3. Linked(next) = {}
  BY <1>2, ChainLinked
<1> QED BY <1>1, <1>2, <1>3 DEF Init, RInv, ListInv, WalkInv, UpdateInv, DeleteInv

\* No traversal is under way: only the list matters.
LEMMA IdleRInv ==
  ASSUME IInv', ListInv', walk' = "none" PROVE RInv'
BY DEF RInv, WalkInv, UpdateInv, DeleteInv

\* A row of an INSERT ends the list under head, or one that was lost.
LEMMA InsertRInv ==
  ASSUME RInv, NEW code \in Codes, NEW quantity \in Quantities,
         insert_car_type(code, quantity)
  PROVE  /\ RInv' /\ walk = "none" /\ walk' = "none"
         /\ Linked(next)' = IF Linked(next) = {} /\ ct_ptr # 0 THEN {}
                            ELSE Linked(next) \cup {brk + 1}
<1> DEFINE L == Linked(next)
           b == brk + 1
<1>1. IInv /\ ListInv /\ walk = "none" /\ walk' = "none"
  BY DEF RInv, WalkInv, insert_car_type
<1>2. IInv'
  BY <1>1, InsertIInv
<1>3. /\ next \in [0 .. MaxNodes -> Pointer] /\ b \in 1 .. MaxNodes
      /\ ct_ptr \in 0 .. MaxNodes /\ ct_ptr < b
      /\ next' = [next EXCEPT ![ct_ptr] = b, ![b] = Nil] /\ brk' = b /\ ct_ptr' = b
  BY <1>1 DEF IInv, TypeOK, NextGrows, insert_car_type
<1>4. Chain(next, L) /\ \A x \in L : x < b /\ x \in 1 .. b
  BY <1>1, <1>3 DEF ListInv, IInv, TypeOK
<1> HIDE DEF L, b
<1>5. CASE L = {} /\ ct_ptr # 0
  <2>1. Chain(next', L)
    BY <1>3, <1>4, <1>5, AppendChain
  <2>2. Linked(next)' = {}
    BY <1>5, <2>1, ChainLinked
  <2>3. ListInv'
    <3>1. Chain(next', Linked(next)')
      BY <1>5, <2>1, <2>2, Zenon
    <3> QED BY <2>2, <3>1 DEF ListInv
  <2> QED BY <1>1, <1>2, <1>5, <2>2, <2>3, IdleRInv DEF L
<1>6. CASE ~ (L = {} /\ ct_ptr # 0)
  <2>1. ct_ptr \in L \cup {0} /\ \A x \in L : x <= ct_ptr
    BY <1>1, <1>6 DEF ListInv, IsLast, L
  <2>2. Chain(next', L \cup {b})
    BY <1>3, <1>4, <2>1, AppendChain
  <2>3. Linked(next)' = L \cup {b}
    BY <2>2, ChainLinked
  <2>4. ListInv'
    <3>1. Chain(next', Linked(next)')
      BY <2>2, <2>3, Zenon
    <3>2. brk' = b /\ ct_ptr' = b /\ b \in 1 .. b /\ \A x \in L \cup {b} : x \in 1 .. b
      BY <1>3, <1>4
    <3>3. Linked(next)' \subseteq 1 .. brk'
      BY <2>3, <3>2
    <3>4. IsLast(ct_ptr', Linked(next)')
      BY <2>3, <3>2 DEF IsLast
    <3> QED BY <3>1, <3>3, <3>4 DEF ListInv
  <2> QED BY <1>1, <1>2, <1>6, <2>3, <2>4, IdleRInv DEF L, b
<1> QED BY <1>5, <1>6

\* Steps that leave the list, its rows and its tail alone.
LEMMA SameList ==
  ASSUME ListInv, UNCHANGED <<next, ct_ptr, brk>>
  PROVE  ListInv' /\ Linked(next)' = Linked(next)
<1>1. Linked(next)' = Linked(next)
  BY DEF Linked, Closed
<1>2. Chain(next, Linked(next))' = Chain(next, Linked(next))
  BY <1>1 DEF Chain
<1> QED BY <1>1, <1>2 DEF ListInv

\* At its beginning a traversal has done nothing to the list.
LEMMA WalkBeginRInv ==
  ASSUME RInv, NEW kind \in {"delete", "update"}, NEW c \in Conditions,
         WalkBegin(kind, c), IInv'
  PROVE  RInv'
<1>1. /\ was' = Now /\ walk' = kind /\ cond' = c /\ ct' = next[0] /\ pct' = 0
      /\ UNCHANGED <<next, row, ct_ptr, brk, icnt, inserting, ccnt, reply>>
      /\ ~ inserting
  BY DEF WalkBegin, Idle
<1>2. ListInv' /\ Linked(next)' = Linked(next) /\ ListInv
  BY <1>1, SameList DEF RInv
<1> DEFINE L == Linked(next)
<1>3. Chain(next, L) /\ L \subseteq 1 .. brk
  BY <1>2 DEF ListInv
<1>4. was'.types = RowsOf(L) /\ was'.ct_ptr = ct_ptr /\ was'.icnt = icnt
  BY <1>1, RowsAre DEF Now
<1>5. Began' = L
  BY <1>4, AddressesOfRows DEF Began
<1>6. RowsOf(L)' = RowsOf(L)
  BY <1>1, <1>2 DEF RowsOf, RowOf
<1>7. icnt \in Int /\ brk \in Nat
  BY DEF RInv, IInv, TypeOK
<1>8. L # {} => IsLast(ct_ptr, L)
  BY <1>2 DEF ListInv
<1>9. \A x \in L : x \in Int /\ x > 0
  BY <1>3, <1>7
<1> HIDE DEF L
<1>10. WalkInv'
  <2>1. was'.types = RowsOf(Began)' /\ Began' \subseteq 1 .. brk' /\ was'.icnt \in Int
    BY <1>1, <1>3, <1>4, <1>5, <1>6, <1>7 DEF RowsOf, RowOf
  <2>2. Began' # {} => IsLast(was'.ct_ptr, Began')
    BY <1>4, <1>5, <1>8
  <2>3. Linked(next)' \subseteq Began'
    BY <1>2, <1>5 DEF L
  <2>4. pct' \in Began' \cup {0} /\ IsNext(Began', pct', ct')
    BY <1>1, <1>3, <1>5 DEF Chain
  <2>5. \A a \in Began' : a > pct' => a \in Linked(next)' /\ IsNext(Began', a, next'[a])
    BY <1>1, <1>2, <1>3, <1>5 DEF Chain, L
  <2> QED BY <1>1, <2>1, <2>2, <2>3, <2>4, <2>5 DEF WalkInv
<1>11. UpdateInv'
  <2>1. Now' = was'
    BY <1>1, <1>2, <1>4, <1>6, RowsAre DEF Now, RowsOf, RowOf, L, Rows
  <2> QED BY <1>1, <1>5, <1>9, <2>1 DEF UpdateInv
<1>12. DeleteInv'
  <2>1. Counted(pct)' = {}
    BY <1>1, <1>5, <1>9 DEF Counted
  <2>2. icnt' = was'.icnt - Cardinality(Counted(pct)') + 0 * UMOD
    BY <1>1, <1>4, <1>7, <2>1, FS_EmptySet
  <2>3. \A a \in Began' : ~ (a <= pct')
    BY <1>1, <1>5, <1>9
  <2>4. ct_ptr' = was'.ct_ptr
    BY <1>1, <1>4
  <2>5. \E j \in Int : icnt' = was'.icnt - Cardinality(Counted(pct)') + j * UMOD
    BY <2>2
  <2> QED BY <2>3, <2>4, <2>5 DEF DeleteInv
<1> QED BY <1>2, <1>10, <1>11, <1>12 DEF RInv

\* One node of a DELETE: it is unlinked if it matches and pct is still linked.
LEMMA DeleteVisitRInv ==
  ASSUME RInv, DeleteVisit PROVE RInv'
<1> DEFINE A  == Began
           L  == Linked(next)
           Lp == Linked(next)'
<1>1. /\ walk = "delete" /\ ct # Nil /\ pct' = ct /\ ct' = next'[ct]
      /\ UNCHANGED <<row, brk, inserting, ccnt, walk, cond, reply, was>>
      /\ next' = IF Meets(ct) THEN Unlink(pct, ct) ELSE next
      /\ icnt' = IF Meets(ct) THEN Minus(icnt) ELSE icnt
      /\ ct_ptr' = IF Meets(ct) THEN update_ct_ptr(next', ct_ptr) ELSE ct_ptr
  BY DEF DeleteVisit, Advance
<1>2. IInv' /\ IInv /\ ListInv /\ WalkInv /\ DeleteInv
  BY DeleteVisitIInv DEF RInv
<1>3. /\ next \in [0 .. MaxNodes -> Pointer] /\ brk \in 0 .. MaxNodes
      /\ icnt \in 0 .. UMOD - 1 /\ pct \in 0 .. MaxNodes
  BY <1>1, <1>2 DEF IInv, TypeOK, CursorInv
<1>4. /\ Chain(next, L) /\ L \subseteq 1 .. brk /\ (L # {} => IsLast(ct_ptr, L))
  BY <1>2 DEF ListInv
<1>5. /\ A \subseteq 1 .. brk /\ (A # {} => IsLast(was.ct_ptr, A)) /\ L \subseteq A
      /\ pct \in A \cup {0} /\ was.icnt \in Int /\ was.types = RowsOf(A) /\ ~ inserting
      /\ ct \in A /\ pct < ct /\ \A x \in A : x <= pct \/ ct <= x
      /\ \A a \in A : a > pct => a \in L /\ IsNext(A, a, next[a])
  BY <1>1, <1>2 DEF WalkInv, IsNext
<1>6. \A x \in A : x \in 1 .. brk /\ x \in Int /\ x > 0
  BY <1>5
<1>7. A' = A
  BY <1>1 DEF Began
<1>8. \A a : Meets(a)' <=> Meets(a)
  BY <1>1 DEF Meets
<1> HIDE DEF A, L, Lp
<1>9. ct \in L /\ IsNext(A, ct, next[ct])
  BY <1>5
<1>10. /\ Lp = IF Meets(ct) /\ pct \in L \cup {0} THEN L \ {ct} ELSE L
       /\ Chain(next', Lp)
  <2>1. CASE ~ Meets(ct)
    <3>1. next' = next
      BY <1>1, <2>1
    <3>2. Chain(next', L)
      BY <1>4, <3>1
    <3>3. Lp = L
      BY <3>2, ChainLinked DEF Lp
    <3> QED BY <2>1, <3>2, <3>3
  <2>2. CASE Meets(ct) /\ pct \in L \cup {0}
    <3>1. IsNext(L, pct, ct)
      BY <1>5, <1>9 DEF IsNext
    <3>2. next' = [next EXCEPT ![pct] = next[ct]]
      BY <1>1, <2>2 DEF Unlink
    <3>3. Chain(next', L \ {ct})
      BY <1>3, <1>4, <1>5, <1>9, <2>2, <3>1, <3>2, UnlinkChain
    <3>4. Lp = L \ {ct}
      BY <3>3, ChainLinked DEF Lp
    <3> QED BY <2>2, <3>3, <3>4
  <2>3. CASE Meets(ct) /\ pct \notin L \cup {0}
    <3>1. next' = [next EXCEPT ![pct] = next[ct]]
      BY <1>1, <2>3 DEF Unlink
    <3>2. Chain(next', L)
      BY <1>3, <1>4, <1>5, <1>9, <2>3, <3>1, UnlinkChain
    <3>3. Lp = L
      BY <3>2, ChainLinked DEF Lp
    <3> QED BY <2>3, <3>2, <3>3
  <2> QED BY <2>1, <2>2, <2>3
<1>11. Lp \subseteq L /\ \A a \in L : a # ct => a \in Lp
  BY <1>10
<1>12. ListInv'
  <2>1. Lp \subseteq 1 .. brk
    BY <1>4, <1>11
  <2>2. Lp # {} => IsLast(ct_ptr', Lp)
    <3>1. CASE Meets(ct)
      BY <1>1, <1>10, <2>1, <3>1, TailOfChain DEF IsLast
    <3>2. CASE ~ Meets(ct)
      BY <1>1, <1>4, <1>10, <3>2
    <3> QED BY <3>1, <3>2
  <2> QED BY <1>1, <1>10, <2>1, <2>2 DEF ListInv, Lp
<1>13. \A a \in A : a >= ct => next'[a] = next[a]
  <2>1. \A a \in A : a >= ct => a # pct /\ a \in 0 .. MaxNodes
    BY <1>3, <1>5, <1>6
  <2> QED BY <1>1, <1>3, <2>1 DEF Unlink
<1>14. WalkInv'
  <2>1. IsNext(A, ct, ct')
    BY <1>1, <1>5, <1>6, <1>9, <1>13
  <2>2. \A a \in A : a > ct => a \in Lp /\ IsNext(A, a, next'[a])
    <3>1. \A a \in A : a > ct => a > pct /\ a # ct /\ a >= ct
      BY <1>3, <1>5, <1>6
    <3> QED BY <1>5, <1>11, <1>13, <3>1
  <2>3. was'.types = RowsOf(A)'
    BY <1>1, <1>5, <1>7 DEF RowsOf, RowOf
  <2> QED BY <1>1, <1>5, <1>7, <1>11, <2>1, <2>2, <2>3 DEF WalkInv, A, Lp
<1>15. \A a \in A : a <= ct => a = ct \/ (a <= pct /\ a < ct)
  BY <1>3, <1>5, <1>6
<1>16. \A a \in A : a # ct => (a \in Lp <=> a \in L)
  BY <1>11
<1>17. \A a \in A : a <= ct => (a \in A \ Lp <=> Meets(a) /\ ~ Missed(a)')
  <2>1. \A a \in A : Missed(a)' <=> \E m \in A \ Lp : m < a /\ \A k \in A : k <= m \/ a <= k
    BY <1>7 DEF Missed, Dropped, A, Lp
  <2>2. \A a \in A : Missed(a) <=> \E m \in A \ L : m < a /\ \A k \in A : k <= m \/ a <= k
    BY DEF Missed, Dropped, A, L
  <2>3. ASSUME NEW a \in A, a <= pct, a < ct
        PROVE  a \in A \ Lp <=> Meets(a) /\ ~ Missed(a)'
    <3>1. a \in A \ L <=> Meets(a) /\ ~ Missed(a)
      BY <1>1, <1>2, <2>3 DEF DeleteInv, Dropped, A, L
    <3>2. \A m \in A : m < a => m # ct
      BY <1>5, <1>6, <2>3
    <3>3. \A m \in A : m < a => (m \in A \ Lp <=> m \in A \ L)
      BY <1>16, <3>2
    <3>4. Missed(a)' <=> Missed(a)
      BY <2>1, <2>2, <3>3
    <3>5. a # ct
      BY <1>5, <1>6, <2>3
    <3> QED BY <1>16, <3>1, <3>4, <3>5
  <2>4. ASSUME NEW a \in A, a = ct PROVE Missed(a)' <=> pct \in A \ L
    <3>1. ASSUME NEW m \in A \ Lp, m < ct, \A k \in A : k <= m \/ ct <= k
          PROVE  m = pct
      <4>1. m <= pct
        BY <1>3, <1>5, <1>6, <3>1
      <4>2. pct \in A
        BY <1>5, <1>6, <3>1, <4>1
      <4> QED BY <1>5, <1>6, <3>1, <4>1, <4>2
    <3>2. pct \in A => (pct \in Lp <=> pct \in L)
      BY <1>5, <1>6, <1>16
    <3>3. pct \in A \ Lp => Missed(a)'
      BY <1>5, <2>1, <2>4
    <3>4. Missed(a)' => pct \in A \ Lp
      BY <2>1, <2>4, <3>1
    <3> QED BY <3>2, <3>3, <3>4
  <2>5. 0 \notin A
    BY <1>6
  <2>6. ct \in A \ Lp <=> Meets(ct) /\ ~ (pct \in A \ L)
    BY <1>5, <1>9, <1>10, <2>5
  <2> QED BY <1>15, <2>3, <2>4, <2>6
<1>18. Lp = {} => ct_ptr' = was.ct_ptr
  <2> SUFFICES ASSUME Lp = {} PROVE ct_ptr' = was.ct_ptr
    OBVIOUS
  <2>1. update_ct_ptr(next', ct_ptr) = ct_ptr
    BY <1>10, TailOfChain
  <2>2. ct_ptr' = ct_ptr
    BY <1>1, <2>1
  <2>3. IsLast(ct_ptr, L) /\ IsLast(was.ct_ptr, A)
    BY <1>4, <1>5, <1>9
  <2>4. was.ct_ptr \in A /\ ct <= was.ct_ptr /\ ct_ptr \in L
    BY <1>5, <2>3 DEF IsLast
  <2>5. PICK w \in A : w = was.ct_ptr
    BY <2>4
  <2>6. w > pct
    BY <1>3, <1>5, <1>6, <2>4, <2>5
  <2>7. w \in L
    BY <1>5, <2>6
  <2>8. w <= ct_ptr /\ ct_ptr <= w
    BY <1>5, <2>3, <2>4, <2>5, <2>7 DEF IsLast
  <2>9. ct_ptr \in A
    BY <1>5, <2>4
  <2>10. ct_ptr \in Int /\ w \in Int
    BY <1>6, <2>9
  <2>11. w = ct_ptr
    BY <2>8, <2>10
  <2> QED BY <2>2, <2>5, <2>11
<1>19. \E j \in Int : icnt' = was.icnt - Cardinality(Counted(pct)') + j * UMOD
  <2> DEFINE C == Counted(pct)
             Cp == Counted(pct)'
  <2>1. PICK j \in Int : icnt = was.icnt - Cardinality(C) + j * UMOD
    BY <1>1, <1>2 DEF DeleteInv
  <2>2. Cp = {a \in A : a <= ct /\ Meets(a)}
    BY <1>1, <1>7, <1>8 DEF Counted, A
  <2>3. C = {a \in A : a <= pct /\ Meets(a)}
    BY DEF Counted, A
  <2>4. Cp = IF Meets(ct) THEN C \cup {ct} ELSE C
    <3>1. \A a \in A : a <= ct <=> a = ct \/ a <= pct
      BY <1>3, <1>5, <1>6, <1>15
    <3> QED BY <1>5, <2>2, <2>3, <3>1
  <2>5. ct \notin C
    BY <1>3, <1>5, <1>6, <2>3
  <2>6. IsFiniteSet(C)
    <3>1. C \subseteq 1 .. brk
      BY <1>6, <2>3
    <3>2. IsFiniteSet(1 .. brk)
      BY <1>3, FS_Interval
    <3> HIDE DEF C
    <3> QED BY <3>1, <3>2, FS_Subset
  <2> HIDE DEF C, Cp
  <2>7. CASE ~ Meets(ct)
    BY <1>1, <2>1, <2>4, <2>7 DEF Cp
  <2>8. CASE Meets(ct)
    <3>1. Cardinality(Cp) = Cardinality(C) + 1 /\ Cardinality(C) \in Nat
      BY <2>4, <2>5, <2>6, <2>8, FS_AddElement, FS_CardinalityType
    <3>2. icnt' = (icnt - 1) % UMOD
      BY <1>1, <2>8 DEF Minus
    <3>3. icnt - 1 \in Int
      BY <1>3
    <3>4. PICK q \in Int : icnt - 1 = icnt' + q * UMOD
      BY <3>2, <3>3, ModIs
    <3>5. icnt' \in Int
      BY <1>2 DEF IInv, TypeOK
    <3>6. icnt' = was.icnt - Cardinality(Cp) + (j - q) * UMOD
      <4>1. PICK x \in Int : x = j * UMOD
        OBVIOUS
      <4>2. PICK y \in Int : y = q * UMOD
        OBVIOUS
      <4>3. (j - q) * UMOD = x - y
        BY <4>1, <4>2
      <4>4. PICK n \in Nat : n = Cardinality(C) /\ Cardinality(Cp) = n + 1
        BY <3>1
      <4>5. icnt = was.icnt - n + x /\ icnt - 1 = icnt' + y
        BY <2>1, <3>4, <4>1, <4>2, <4>4
      <4>6. icnt' = was.icnt - (n + 1) + (x - y)
        <5>1. PICK w \in Int : w = was.icnt
          BY <1>5
        <5>2. PICK i \in Int, ip \in Int : i = icnt /\ ip = icnt'
          BY <1>3, <3>5
        <5>3. i = w - n + x /\ i - 1 = ip + y
          BY <4>5, <5>1, <5>2
        <5>4. ip = w - (n + 1) + (x - y)
          BY <5>3
        <5> QED BY <5>1, <5>2, <5>4
      <4> QED BY <4>3, <4>4, <4>6
    <3>7. j - q \in Int
      OBVIOUS
    <3> QED BY <3>6, <3>7 DEF Cp
  <2> QED BY <2>7, <2>8
<1>20. DeleteInv'
  <2>1. Began' = A /\ Dropped' = A \ Lp /\ pct' = ct /\ was' = was
    BY <1>1, <1>7 DEF A, Lp, Dropped
  <2>2. \A a \in Began' : a <= pct' => (a \in Dropped' <=> Meets(a)' /\ ~ Missed(a)')
    BY <1>8, <1>17, <2>1
  <2>3. Linked(next)' = {} => ct_ptr' = was'.ct_ptr
    BY <1>18, <2>1 DEF Lp
  <2>4. \E j \in Int : icnt' = was'.icnt - Cardinality(Counted(pct)') + j * UMOD
    BY <1>19, <2>1
  <2> QED BY <2>2, <2>3, <2>4 DEF DeleteInv
<1>21. UpdateInv'
  BY <1>1 DEF UpdateInv
<1> QED BY <1>2, <1>12, <1>14, <1>20, <1>21 DEF RInv

\* A node an UPDATE passes by.
LEMMA UpdatePassRInv ==
  ASSUME RInv, UpdatePass, IInv' PROVE RInv'
<1> DEFINE A == Began
           L == Linked(next)
<1>1. /\ walk = "update" /\ ct # Nil /\ ~ Meets(ct) /\ pct' = ct /\ ct' = next[ct]
      /\ UNCHANGED <<next, row, ct_ptr, brk, icnt, inserting, walk, cond, was>>
  BY DEF UpdatePass, Advance
<1>2. ListInv' /\ Linked(next)' = L /\ ListInv /\ WalkInv /\ UpdateInv /\ IInv
  BY <1>1, SameList DEF RInv
<1>3. /\ A \subseteq 1 .. brk /\ L \subseteq A /\ ~ inserting /\ was.types = RowsOf(A)
      /\ ct \in A /\ pct < ct /\ (\A x \in A : x <= pct \/ ct <= x)
      /\ pct \in A \cup {0} /\ \A a \in A : a > pct => a \in L /\ IsNext(A, a, next[a])
  BY <1>1, <1>2 DEF WalkInv, IsNext
<1>4. A' = A /\ RowsOf(A)' = RowsOf(A) /\ Now' = Now /\ \A a : Meets(a)' <=> Meets(a)
  <2>1. A' = A
    BY <1>1 DEF Began
  <2>2. RowsOf(A)' = RowsOf(A)
    BY <1>1, <2>1 DEF RowsOf, RowOf
  <2>3. Rows' = Rows
    BY <1>1, <1>2 DEF Rows
  <2>4. Now' = Now
    BY <1>1, <2>3 DEF Now
  <2> QED BY <1>1, <2>1, <2>2, <2>4 DEF Meets
<1>5. \A x \in A : x \in Int /\ x > 0
  BY <1>2, <1>3 DEF IInv, TypeOK
<1>6. pct \in Int
  BY <1>3, <1>5
<1> HIDE DEF A, L
<1>7. \A a \in A : a > ct => a > pct
  BY <1>3, <1>5, <1>6
<1>8. WalkInv'
  BY <1>1, <1>2, <1>3, <1>4, <1>7 DEF WalkInv, A, L
<1>9. UpdateInv'
  <2>1. Now = was /\ \A a \in A : a <= pct => ~ Meets(a)
    BY <1>1, <1>2 DEF UpdateInv, A
  <2>2. \A a \in A : a <= ct => a = ct \/ a <= pct
    BY <1>3, <1>5, <1>6
  <2>3. \A a \in A : a <= ct => ~ Meets(a)
    BY <1>1, <2>1, <2>2
  <2> QED BY <1>1, <1>4, <2>1, <2>3 DEF UpdateInv, A
<1>10. DeleteInv'
  BY <1>1 DEF DeleteInv
<1> QED BY <1>2, <1>8, <1>9, <1>10 DEF RInv

LEMMA NextRInv == RInv /\ [Next]_vars => RInv'
<1> SUFFICES ASSUME RInv, [Next]_vars PROVE RInv'
  OBVIOUS
<1>1. IInv' /\ IInv /\ ListInv
  BY NextIInv DEF RInv
<1>2. ASSUME walk' = "none", UNCHANGED <<next, ct_ptr, brk>> PROVE RInv'
  BY <1>1, <1>2, SameList, IdleRInv
<1>3. CASE InsertBegin
  BY <1>2, <1>3 DEF InsertBegin, Idle
<1>4. ASSUME NEW code \in Codes, NEW q \in Quantities, insert_car_type(code, q) PROVE RInv'
  BY <1>4, InsertRInv
<1>5. CASE InsertEnd
  BY <1>2, <1>5 DEF InsertEnd, RInv, WalkInv
<1>6. ASSUME NEW kind \in {"delete", "update"}, NEW c \in Conditions, WalkBegin(kind, c)
      PROVE  RInv'
  BY <1>1, <1>6, WalkBeginRInv
<1>7. CASE Walk
  <2>1. CASE DeleteVisit
    BY <2>1, DeleteVisitRInv
  <2>2. CASE UpdatePass
    BY <1>1, <2>2, UpdatePassRInv
  <2>3. CASE \E code \in Codes, q \in Quantities : genericg_update(code, q)
    BY <1>2, <2>3 DEF genericg_update, Finish
  <2>4. CASE WalkEnd
    BY <1>2, <2>4 DEF WalkEnd, Finish
  <2> QED BY <1>7, <2>1, <2>2, <2>3, <2>4 DEF Walk
<1>8. CASE UNCHANGED vars
  <2>1. /\ next' = next /\ row' = row /\ ct_ptr' = ct_ptr /\ brk' = brk /\ icnt' = icnt
        /\ inserting' = inserting /\ walk' = walk /\ ct' = ct /\ pct' = pct
        /\ cond' = cond /\ was' = was
    BY <1>8 DEF vars
  <2>2. ListInv' /\ Linked(next)' = Linked(next)
    BY <1>1, <2>1, SameList
  <2>3. Began' = Began /\ Dropped' = Dropped /\ \A a : Meets(a)' <=> Meets(a)
    BY <2>1, <2>2 DEF Began, Dropped, Meets
  <2>4. Counted(pct)' = Counted(pct) /\ \A a : Missed(a)' <=> Missed(a)
    BY <2>1, <2>3 DEF Counted, Missed
  <2>5. RowsOf(Began)' = RowsOf(Began) /\ Now' = Now
    BY <2>1, <2>2, <2>3 DEF RowsOf, RowOf, Now, Rows
  <2>6. WalkInv'
    BY <2>1, <2>2, <2>3, <2>5 DEF RInv, WalkInv
  <2>7. UpdateInv'
    BY <2>1, <2>3, <2>5 DEF RInv, UpdateInv
  <2>8. DeleteInv'
    BY <2>1, <2>2, <2>3, <2>4 DEF RInv, DeleteInv
  <2> QED BY <1>1, <2>2, <2>6, <2>7, <2>8 DEF RInv
<1> QED BY <1>3, <1>4, <1>5, <1>6, <1>7, <1>8 DEF Next

-----------------------------------------------------------------------------
\* The simulation.

\* icnt as CarStore has it: no car and no order is ever counted here
Counters(n) ==
  [ti \in {"CAR_TYPE", "CAR_INFO", "RENT_ORDER"} |-> IF ti = "CAR_TYPE" THEN n ELSE 0]

\* A step that CarStore does not see.
LEMMA Stutters ==
  ASSUME UNCHANGED <<Shown, brk, inserting, ccnt, reply>>
  PROVE  UNCHANGED Abstract!vars
BY DEF Abstract!vars

LEMMA NowStays ==
  ASSUME ListInv, UNCHANGED <<next, row, ct_ptr, brk, icnt>> PROVE Now' = Now
BY SameList DEF Now, Rows

LEMMA InitRefines == Init => Abstract!Init
<1> SUFFICES ASSUME Init PROVE Abstract!Init
  OBVIOUS
<1>1. Chain(next, {})
  BY DEF Init, Chain, IsNext
<1>2. Linked(next) = {}
  BY <1>1, ChainLinked
<1>3. Shown.types = {} /\ Shown.ct_ptr = 0 /\ Shown.icnt = 0
  BY <1>2 DEF Init, Shown, Now, Rows
<1> QED BY <1>3 DEF Init, Abstract!Init, Abstract!Sentinel, Abstract!Tables, Abstract!NoTable

\* A row of an INSERT.
LEMMA InsertRefines ==
  ASSUME RInv, NEW code \in Codes, NEW quantity \in Quantities,
         insert_car_type(code, quantity)
  PROVE  Abstract!InsertCarType(code, quantity)
<1> DEFINE L == Linked(next)
           b == brk + 1
           new == [at |-> b, up |-> 0, code |-> code, quantity |-> quantity]
<1>1. /\ walk = "none" /\ walk' = "none"
      /\ Linked(next)' = IF L = {} /\ ct_ptr # 0 THEN {} ELSE L \cup {b}
  BY InsertRInv
<1>2. /\ inserting /\ inserting' /\ ccnt < MaxRows /\ brk < MaxNodes
      /\ icnt' = (icnt + 1) % UMOD /\ ccnt' = ccnt + 1 /\ brk' = b /\ ct_ptr' = b
      /\ row' = [row EXCEPT ![b] = [code |-> code, quantity |-> quantity]]
      /\ reply' = reply
  BY DEF insert_car_type
<1>3. /\ row \in [1 .. MaxNodes -> Columns] /\ b \in 1 .. MaxNodes /\ brk \in 0 .. MaxNodes
      /\ L \subseteq 1 .. brk /\ (L # {} => IsLast(ct_ptr, L)) /\ ct_ptr \in 0 .. MaxNodes
  BY <1>2 DEF RInv, IInv, TypeOK, ListInv
<1> DEFINE Abs == RowsOf(L)
<1>4. /\ Shown = [types |-> Abs, ct_ptr |-> ct_ptr, icnt |-> icnt]
      /\ Shown' = [types |-> RowsOf(Linked(next))', ct_ptr |-> ct_ptr', icnt |-> icnt']
  <2>1. Rows' = RowsOf(Linked(next))'
    BY DEF Rows, RowsOf, RowOf
  <2> QED BY <1>1, <2>1, RowsAre DEF Shown, Now
<1>5. \A a \in L : a \in 1 .. MaxNodes /\ a # b /\ row'[a] = row[a]
  BY <1>2, <1>3
<1>6. row'[b].code = code /\ row'[b].quantity = quantity
  BY <1>2, <1>3
<1>7. RowsOf(Linked(next))' = IF L = {} /\ ct_ptr # 0 THEN {} ELSE Abs \cup {new}
  BY <1>1, <1>5, <1>6 DEF RowsOf, RowOf
<1>8. {r.at : r \in Abs} = L
  BY AddressesOfRows
<1>9. Abstract!OnList(ct_ptr) <=> ~ (L = {} /\ ct_ptr # 0)
  <2>1. Abstract!OnList(ct_ptr) <=> ct_ptr \in {0} \cup L
    BY <1>4, <1>8 DEF Abstract!OnList, Abstract!AddressesOf, Abstract!Sentinel
  <2> QED BY <1>3, <2>1 DEF IsLast
<1>10. \A r \in Abs : r.at <= ct_ptr
  BY <1>3, <1>8 DEF IsLast
<1> HIDE DEF L, Abs
<1>11. Shown'.types = IF Abstract!OnList(ct_ptr)
                      THEN {t \in Shown.types : t.at <= ct_ptr} \cup {new}
                      ELSE Shown.types
  <2>1. L = {} => Abs = {}
    BY DEF Abs, L, RowsOf
  <2>2. {t \in Abs : t.at <= ct_ptr} = Abs
    BY <1>10
  <2> QED BY <1>4, <1>7, <1>9, <2>1, <2>2
<1>12. Abstract!CountRow("CAR_TYPE")
  <2>1. Counters(Shown'.icnt) = [Counters(Shown.icnt) EXCEPT !["CAR_TYPE"] = (@ + 1) % UMOD]
    BY <1>2, <1>4 DEF Counters
  <2> QED BY <1>2, <2>1 DEF Abstract!CountRow, Abstract!Plus, Counters
<1> QED BY <1>2, <1>4, <1>11, <1>12
        DEF Abstract!InsertCarType, Abstract!Under, Abstract!Sentinel

LEMMA InsertNextRefines ==
  ASSUME RInv, RInv', InsertBegin \/ InsertEnd PROVE Abstract!Next
<1>1. Shown' = Shown /\ brk' = brk
  <2>1. walk = "none" /\ walk' = "none" /\ UNCHANGED <<next, row, ct_ptr, brk, icnt>>
    BY DEF InsertBegin, InsertEnd, Idle, RInv, WalkInv
  <2> QED BY <2>1, NowStays DEF RInv, Shown
<1>2. CASE InsertBegin
  <2>1. Abstract!InsertBegin("CAR_TYPE")
    BY <1>1, <1>2 DEF InsertBegin, Idle, Abstract!InsertBegin, Abstract!NoTable, Abstract!store
  <2> QED BY <2>1 DEF Abstract!Next, Abstract!InsertNext, Abstract!Tables
<1>3. CASE InsertEnd
  <2>1. /\ inserting /\ ~ inserting' /\ ccnt' = 0
        /\ reply' = "error" \/ (ccnt > 0 /\ reply' = "success")
    BY <1>3 DEF InsertEnd
  <2>2. Abstract!InsertEnd \/ Abstract!InsertMismatch
    BY <1>1, <2>1 DEF Abstract!InsertEnd, Abstract!InsertMismatch, Abstract!NoTable, Abstract!store
  <2> QED BY <2>2 DEF Abstract!Next, Abstract!InsertNext
<1> QED BY <1>2, <1>3

\* An UPDATE rewrites the first row that meets its condition.
LEMMA UpdateRefines ==
  ASSUME RInv, NEW code \in Codes, NEW quantity \in Quantities,
         genericg_update(code, quantity)
  PROVE  Abstract!UpdateCarType(cond[1], cond[2], code, quantity)
<1> DEFINE L == Linked(next)
           M == Abstract!Matching(RowsOf(L), cond[1], cond[2])
           t == RowOf(ct)
           new == [at |-> ct, up |-> 0, code |-> code, quantity |-> quantity]
<1>1. /\ walk = "update" /\ walk' = "none" /\ ct # Nil /\ Meets(ct)
      /\ row' = [row EXCEPT ![ct] = [code |-> code, quantity |-> quantity]]
      /\ reply' \in {"success", "error"}
      /\ UNCHANGED <<next, ct_ptr, brk, icnt, inserting, ccnt>>
  BY DEF genericg_update, Finish
<1>2. /\ ~ inserting /\ Now = was /\ ListInv /\ was.types = RowsOf(Began)
      /\ row \in [1 .. MaxNodes -> Columns] /\ cond \in Conditions
      /\ (\A a \in Began : a <= pct => ~ Meets(a)) /\ IsNext(Began, pct, ct)
  BY <1>1 DEF RInv, WalkInv, UpdateInv, IInv, TypeOK
<1>3. Began = L /\ L \subseteq 1 .. MaxNodes /\ Linked(next)' = L
  BY <1>1, <1>2, RowsAre, AddressesOfRows, SameList DEF Now, Began, ListInv, Chain
<1>4. /\ ct \in L /\ pct < ct /\ \A x \in L : x <= pct \/ ct <= x
  BY <1>1, <1>2, <1>3 DEF IsNext
<1>5. /\ Shown = [types |-> RowsOf(L), ct_ptr |-> ct_ptr, icnt |-> icnt]
      /\ Shown' = [types |-> RowsOf(L)', ct_ptr |-> ct_ptr, icnt |-> icnt]
  <2>1. Rows' = RowsOf(L)'
    BY DEF Rows, RowsOf, RowOf
  <2> QED BY <1>1, <1>2, <2>1, RowsAre DEF Shown, Now
<1> HIDE DEF L
<1>6. ASSUME NEW a \in L PROVE RowOf(a)[cond[1]] = row[a][cond[1]]
  BY <1>2 DEF RowOf, Conditions
<1>7. M = {RowOf(a) : a \in {x \in L : Meets(x)}}
  BY <1>6 DEF Abstract!Matching, Meets, RowsOf
<1>8. t \in M /\ \A s \in M : s = t \/ t.at < s.at
  <2>1. t \in M
    BY <1>1, <1>4, <1>7
  <2>2. ASSUME NEW a \in L, Meets(a) PROVE a = ct \/ ct < a
    BY <1>2, <1>3, <1>4, <2>2
  <2>3. \A a \in L : RowOf(a).at = a
    BY DEF RowOf
  <2> QED BY <1>4, <1>7, <2>1, <2>2, <2>3
<1>9. Abstract!First("CAR_TYPE", M, t)
  BY <1>8 DEF Abstract!First, Abstract!Before
<1>10. RowsOf(L)' = (RowsOf(L) \ {t}) \cup {[t EXCEPT !.code = code, !.quantity = quantity]}
  <2>1. [t EXCEPT !.code = code, !.quantity = quantity] = new
    <3>1. PICK c, q : t = [at |-> ct, up |-> 0, code |-> c, quantity |-> q]
      BY DEF RowOf
    <3>2. PICK u : u = [t EXCEPT !.code = code]
      OBVIOUS
    <3>3. u = [at |-> ct, up |-> 0, code |-> code, quantity |-> q]
      BY <3>1, <3>2
    <3>4. [u EXCEPT !.quantity = quantity] = new
      BY <3>3
    <3> QED BY <3>2, <3>4
  <2>2. \A a \in L : a # ct => row'[a] = row[a]
    BY <1>1, <1>2, <1>3
  <2>3. row'[ct].code = code /\ row'[ct].quantity = quantity
    BY <1>1, <1>2, <1>3, <1>4
  <2>4. RowsOf(L)' = {RowOf(a) : a \in L \ {ct}} \cup {new}
    BY <1>3, <1>4, <2>2, <2>3 DEF RowsOf, RowOf, L
  <2>5. RowsOf(L) \ {t} = {RowOf(a) : a \in L \ {ct}}
    BY DEF RowsOf, RowOf
  <2> QED BY <2>1, <2>4, <2>5
<1> HIDE DEF M, t
<1>11. Abstract!Answer(M)
  BY <1>1, <1>2, <1>5, <1>8 DEF Abstract!Answer, Abstract!NoTable
<1> QED BY <1>5, <1>8, <1>9, <1>10, <1>11 DEF Abstract!UpdateCarType, M

\* An UPDATE that no row meets.
LEMMA UpdateEndRefines ==
  ASSUME RInv, walk = "update", WalkEnd, NEW code, NEW quantity
  PROVE  Abstract!UpdateCarType(cond[1], cond[2], code, quantity)
<1> DEFINE L == Linked(next)
           M == Abstract!Matching(RowsOf(L), cond[1], cond[2])
<1>1. /\ walk' = "none" /\ ct = Nil /\ reply' = "success"
      /\ UNCHANGED <<next, row, ct_ptr, brk, icnt, inserting, ccnt>>
  BY DEF WalkEnd, Finish
<1>2. /\ ~ inserting /\ Now = was /\ ListInv /\ was.types = RowsOf(Began) /\ cond \in Conditions
      /\ (\A a \in Began : a <= pct => ~ Meets(a)) /\ IsNext(Began, pct, ct)
  BY DEF RInv, WalkInv, UpdateInv, IInv, TypeOK
<1>3. Began = L /\ L \subseteq 1 .. MaxNodes
  BY <1>2, RowsAre, AddressesOfRows DEF Now, Began, ListInv, Chain
<1>4. \A a \in L : ~ Meets(a)
  BY <1>1, <1>2, <1>3 DEF IsNext
<1>5. Shown = Now /\ Shown' = Now
  BY <1>1, <1>2, NowStays DEF Shown
<1>6. Shown.types = RowsOf(L)
  BY <1>5, RowsAre DEF Now
<1> HIDE DEF L
<1>7. ASSUME NEW a \in L PROVE RowOf(a)[cond[1]] = row[a][cond[1]]
  BY <1>2 DEF RowOf, Conditions
<1>8. M = {}
  BY <1>4, <1>7 DEF Abstract!Matching, Meets, RowsOf
<1> HIDE DEF M
<1>9. Abstract!Answer(M)
  BY <1>1, <1>2, <1>5, <1>8 DEF Abstract!Answer, Abstract!NoTable
<1> QED BY <1>5, <1>6, <1>8, <1>9 DEF Abstract!UpdateCarType, M

\* What a DELETE has unlinked when it ends is what CarStore says.
LEMMA DroppedIsUnlinks ==
  ASSUME RInv, walk = "delete", ct = Nil,
         NEW M, M = RowsOf({a \in Began : Meets(a)})
  PROVE  Abstract!Unlinks(RowsOf(Began), M, RowsOf(Dropped))
<1> DEFINE A == Began
           D == Dropped
<1>1. /\ \A a \in A : a <= pct => (a \in D <=> Meets(a) /\ ~ Missed(a))
      /\ IsNext(A, pct, ct) /\ A \subseteq 1 .. brk /\ brk \in 0 .. MaxNodes
  BY DEF RInv, WalkInv, DeleteInv, IInv, TypeOK
<1>2. \A a \in A : a \in D <=> Meets(a) /\ ~ Missed(a)
  BY <1>1 DEF IsNext
<1>3. \A a : Missed(a) <=> \E m \in D : m < a /\ \A k \in A : k <= m \/ a <= k
  BY DEF Missed
<1>4. D \subseteq A /\ \A a \in A : a \in Int
  BY <1>1 DEF Dropped
<1> HIDE DEF A, D
<1>5. \A a : RowOf(a).at = a /\ RowOf(a).up = 0
  BY DEF RowOf
<1>6. ASSUME NEW m \in D, NEW a \in A
      PROVE  Abstract!JustBefore(RowOf(m), RowOf(a), RowsOf(A))
               <=> m < a /\ \A k \in A : k <= m \/ a <= k
  <2>1. RowOf(m) \in RowsOf(A)
    BY <1>4 DEF RowsOf
  <2>2. (\A r \in RowsOf(A) : ~ (m < r.at /\ r.at < a)) <=> \A k \in A : ~ (m < k /\ k < a)
    BY <1>5 DEF RowsOf
  <2>3. \A r \in RowsOf(A) : r.up = 0
    BY <1>5 DEF RowsOf
  <2>4. (\A k \in A : ~ (m < k /\ k < a)) <=> \A k \in A : k <= m \/ a <= k
    BY <1>4
  <2> QED BY <1>5, <2>1, <2>2, <2>3, <2>4 DEF Abstract!JustBefore
<1>7. ASSUME NEW a \in A
      PROVE  (\E m \in RowsOf(D) : Abstract!JustBefore(m, RowOf(a), RowsOf(A))) <=> Missed(a)
  <2>1. (\A r \in RowsOf(D) : \E m \in D : r = RowOf(m)) /\ \A m \in D : RowOf(m) \in RowsOf(D)
    BY DEF RowsOf
  <2> QED BY <1>3, <1>6, <2>1
<1>8. \A a \in A : RowOf(a) \in RowsOf(D) <=> a \in D
  BY <1>5 DEF RowsOf
<1>9. \A n \in M : \E a \in A : n = RowOf(a) /\ Meets(a)
  BY DEF RowsOf, A
<1>10. \A n \in M : n \in RowsOf(D)
         <=> ~ \E m \in RowsOf(D) : Abstract!JustBefore(m, n, RowsOf(A))
  BY <1>2, <1>7, <1>8, <1>9
<1> QED BY <1>10 DEF Abstract!Unlinks, A, D

\* Rows are as many as their addresses.
LEMMA CardinalityOfRows ==
  ASSUME NEW S \in SUBSET (1 .. MaxNodes)
  PROVE  Cardinality(RowsOf(S)) = Cardinality(S) /\ IsFiniteSet(S)
<1>1. IsFiniteSet(S)
  <2>1. IsFiniteSet(1 .. MaxNodes)
    BY FS_Interval
  <2> QED BY <2>1, FS_Subset
<1> DEFINE f == [a \in S |-> RowOf(a)]
<1>2. f \in Bijection(S, RowsOf(S))
  <2>1. f \in [S -> RowsOf(S)]
    BY DEF RowsOf
  <2>2. \A a, b \in S : f[a] = f[b] => a = b
    BY DEF RowOf
  <2>3. \A r \in RowsOf(S) : \E a \in S : f[a] = r
    BY DEF RowsOf
  <2> HIDE DEF f
  <2> QED BY <2>1, <2>2, <2>3 DEF Bijection, Injection, Surjection, IsInjective
<1> HIDE DEF f
<1>3. ExistsBijection(S, RowsOf(S))
  BY <1>2 DEF ExistsBijection
<1> QED BY <1>1, <1>3, FS_Bijection

\* The instance counts as this module does.
LEMMA SameCardinality == ASSUME NEW S PROVE Abstract!Cardinality(S) = Cardinality(S)
BY DEF Abstract!Cardinality, Cardinality

\* 0 is 0 in unsigned ints.
LEMMA NoCount == Abstract!Minus(0, Cardinality({})) = 0
<1>1. Cardinality({}) = 0
  BY FS_EmptySet
<1>2. 0 = 0 + 0 * UMOD /\ 0 \in 0 .. UMOD - 1
  OBVIOUS
<1>3. 0 % UMOD = 0
  BY <1>2, ModUnique
<1>4. (0 - 0) % UMOD = 0
  BY <1>3
<1> QED BY <1>1, <1>4 DEF Abstract!Minus

\* The end of a DELETE is where CarStore takes its step.
LEMMA DeleteEndRefines ==
  ASSUME RInv, walk = "delete", WalkEnd, NEW col, NEW v, col = cond[1], v = cond[2]
  PROVE  Abstract!DeleteCarType(col, v)
<1> DEFINE A  == Began
           L  == Linked(next)
           MA == {a \in A : Meets(a)}
           M  == Abstract!Matching(RowsOf(A), cond[1], cond[2])
           U  == RowsOf(Dropped)
<1>1. /\ walk' = "none" /\ ct = Nil /\ reply' = "success"
      /\ UNCHANGED <<next, row, ct_ptr, brk, icnt, inserting, ccnt>>
  BY DEF WalkEnd, Finish
<1>2. /\ ListInv /\ ~ inserting /\ was.types = RowsOf(A) /\ A \subseteq 1 .. brk
      /\ was.icnt \in Int /\ (A # {} => IsLast(was.ct_ptr, A)) /\ L \subseteq A
      /\ IsNext(A, pct, ct) /\ cond \in Conditions /\ icnt \in 0 .. UMOD - 1
      /\ brk \in 0 .. MaxNodes
  BY DEF RInv, WalkInv, IInv, TypeOK
<1>3. /\ \A a \in A : a <= pct => (a \in Dropped <=> Meets(a) /\ ~ Missed(a))
      /\ L = {} => ct_ptr = was.ct_ptr
      /\ \E j \in Int : icnt = was.icnt - Cardinality(Counted(pct)) + j * UMOD
  BY DEF RInv, DeleteInv
<1>4. A \subseteq 1 .. MaxNodes /\ \A a \in A : a <= pct
  BY <1>1, <1>2 DEF IsNext
<1>5. Shown = was /\ Shown' = [types |-> RowsOf(L), ct_ptr |-> ct_ptr, icnt |-> icnt]
  BY <1>1, <1>2, NowStays, RowsAre DEF Shown, Now
<1>6. Dropped = A \ L /\ Counted(pct) = MA /\ Dropped \subseteq MA
  BY <1>3, <1>4 DEF Dropped, Counted
<1>7. \A a : RowOf(a).at = a
  BY DEF RowOf
<1>8. M = RowsOf(MA)
  <2>1. ASSUME NEW a PROVE RowOf(a)[cond[1]] = row[a][cond[1]]
    BY <1>2 DEF RowOf, Conditions
  <2> QED BY <2>1 DEF Abstract!Matching, Meets, RowsOf
<1>9. Abstract!Unlinks(RowsOf(A), M, U)
  BY <1>1, <1>8, DroppedIsUnlinks
<1>10. RowsOf(A) \ U = RowsOf(L)
  <2>1. \A a \in A : RowOf(a) \in U <=> a \in Dropped
    BY <1>7 DEF RowsOf
  <2>2. ASSUME NEW r PROVE r \in RowsOf(A) \ U <=> \E a \in L : r = RowOf(a)
    <3>1. r \in RowsOf(A) <=> \E a \in A : r = RowOf(a)
      BY DEF RowsOf
    <3> HIDE DEF U
    <3> QED BY <1>2, <1>6, <2>1, <3>1
  <2>3. \A r : r \in RowsOf(L) <=> \E a \in L : r = RowOf(a)
    BY DEF RowsOf
  <2> HIDE DEF A, L, U
  <2> QED BY <2>2, <2>3
<1>11. U \in SUBSET M
  BY <1>6, <1>8 DEF RowsOf
<1>12. Abstract!AddressesOf(RowsOf(L)) = L
  BY AddressesOfRows DEF Abstract!AddressesOf
<1>13. L # {} => IsLast(ct_ptr, L)
  BY <1>2 DEF ListInv
<1>14. L = {} => RowsOf(L) = {}
  BY DEF RowsOf
<1>15. MA = {} => M = {}
  BY <1>8 DEF RowsOf
<1>16. M = {} => MA = {}
  BY <1>8 DEF RowsOf
<1> HIDE DEF A, L, MA, M, U
<1>17. ct_ptr \in {was.ct_ptr} \cup Abstract!AddressesOf(RowsOf(A) \ U)
  BY <1>3, <1>10, <1>12, <1>13 DEF IsLast, L
<1>18. IF M = {} THEN ct_ptr = was.ct_ptr
       ELSE Abstract!update_ct_ptr(RowsOf(A) \ U, was.ct_ptr, ct_ptr)
  <2>1. CASE M = {}
    <3>1. L = A
      BY <1>2, <1>6, <1>16, <2>1
    <3>2. CASE L = {}
      BY <1>3, <2>1, <3>2 DEF L
    <3>3. CASE L # {}
      <4>1. ct_ptr \in A /\ was.ct_ptr \in A /\ ct_ptr <= was.ct_ptr /\ was.ct_ptr <= ct_ptr
        BY <1>2, <1>13, <3>1, <3>3 DEF IsLast
      <4>2. \A a \in A : a \in Int
        BY <1>4
      <4>3. ct_ptr = was.ct_ptr
        BY <4>1, <4>2
      <4> QED BY <2>1, <4>3
    <3> QED BY <3>2, <3>3
  <2>2. CASE M # {} /\ L = {}
    BY <1>3, <1>10, <1>14, <2>2 DEF Abstract!update_ct_ptr, L
  <2>3. CASE M # {} /\ L # {}
    <3>1. \A r \in RowsOf(L) : r.at \in L
      BY <1>7 DEF RowsOf
    <3>2. Abstract!IsTail(ct_ptr, RowsOf(L)) /\ RowsOf(L) # {}
      BY <1>12, <1>13, <2>3, <3>1 DEF Abstract!IsTail, IsLast, RowsOf
    <3> QED BY <1>10, <2>3, <3>2 DEF Abstract!update_ct_ptr
  <2> QED BY <2>1, <2>2, <2>3
<1>19. icnt = Abstract!Minus(was.icnt, Cardinality(M))
  <2>1. MA \in SUBSET (1 .. MaxNodes)
    BY <1>4 DEF MA
  <2>2. PICK n \in Nat : n = Cardinality(MA) /\ n = Cardinality(M)
    BY <1>8, <2>1, CardinalityOfRows, FS_CardinalityType
  <2>3. PICK j \in Int : icnt = was.icnt - n + j * UMOD
    BY <1>3, <1>6, <2>2
  <2>4. PICK w \in Int : w = was.icnt
    BY <1>2
  <2>5. PICK x \in Int : x = j * UMOD
    OBVIOUS
  <2>6. (-j) * UMOD = -x /\ -j \in Int
    BY <2>5
  <2>7. w - n = icnt + (-j) * UMOD /\ w - n \in Int
    <3>1. PICK i \in Int : i = icnt
      BY <1>2
    <3>2. i = w - n + x
      BY <2>3, <2>4, <2>5, <3>1
    <3> QED BY <2>6, <3>1, <3>2
  <2>8. (w - n) % UMOD = icnt
    BY <1>2, <2>6, <2>7, ModUnique
  <2> QED BY <2>2, <2>4, <2>8 DEF Abstract!Minus
<1>20. \A rows : Abstract!Under({}, rows) = {}
  BY DEF Abstract!Under
<1>21. Counters(icnt) =
         [Counters(was.icnt) EXCEPT !["CAR_TYPE"]   = Abstract!Minus(@, Cardinality(M)),
                                    !["CAR_INFO"]   = Abstract!Minus(@, Cardinality({})),
                                    !["RENT_ORDER"] = Abstract!Minus(@, Cardinality({}))]
  BY <1>19, NoCount DEF Counters
<1>22. /\ Abstract!Unlinks(Shown.types, M, U)
       /\ Shown'.types = Shown.types \ U
       /\ IF M = {} THEN Shown'.ct_ptr = Shown.ct_ptr
          ELSE Abstract!update_ct_ptr(Shown.types \ U, Shown.ct_ptr, Shown'.ct_ptr)
       /\ Shown'.ct_ptr \in {Shown.ct_ptr} \cup Abstract!AddressesOf(Shown.types \ U)
  BY <1>2, <1>5, <1>9, <1>10, <1>17, <1>18 DEF A
<1>23. M = Abstract!Matching(Shown.types, col, v)
  BY <1>2, <1>5 DEF A, M
<1>24. Shown.icnt = was.icnt /\ Shown'.icnt = icnt
  BY <1>5
<1>25. \A S : Abstract!Cardinality(S) = Cardinality(S)
  BY SameCardinality
<1>26. Counters(Shown'.icnt) =
         [Counters(Shown.icnt) EXCEPT
            !["CAR_TYPE"]   = Abstract!Minus(@, Abstract!Cardinality(M)),
            !["CAR_INFO"]   = Abstract!Minus(@, Abstract!Cardinality(Abstract!Under({}, M))),
            !["RENT_ORDER"] =
               Abstract!Minus(@, Abstract!Cardinality(Abstract!Under({}, Abstract!Under({}, M))))]
  BY <1>20, <1>21, <1>24, <1>25
<1>27. /\ {} = {} \ Abstract!Subtree({}, U)
       /\ {} = {} \ Abstract!Subtree({}, Abstract!Subtree({}, U))
  OBVIOUS
<1>28. \E V \in SUBSET M :
         /\ Abstract!Unlinks(Shown.types, M, V)
         /\ Shown'.types = Shown.types \ V
         /\ {} = {} \ Abstract!Subtree({}, V)
         /\ {} = {} \ Abstract!Subtree({}, Abstract!Subtree({}, V))
         /\ \E q \in {Shown.ct_ptr} \cup Abstract!AddressesOf(Shown.types \ V) :
              /\ IF M = {} THEN q = Shown.ct_ptr
                 ELSE Abstract!update_ct_ptr(Shown.types \ V, Shown.ct_ptr, q)
              /\ Shown'.ct_ptr = q
  BY <1>11, <1>22, <1>27
<1> QED BY <1>1, <1>2, <1>23, <1>26, <1>28, Zenon
        DEF Abstract!DeleteCarType, Abstract!NoTable, Counters

\* Every step is a step of CarStore or one it does not see.
LEMMA NextRefines == RInv /\ [Next]_vars => [Abstract!Next]_(Abstract!vars)
<1> SUFFICES ASSUME RInv, [Next]_vars PROVE Abstract!Next \/ UNCHANGED Abstract!vars
  OBVIOUS
<1>1. RInv' /\ ListInv
  BY NextRInv DEF RInv
<1>2. CASE InsertBegin \/ InsertEnd
  BY <1>1, <1>2, InsertNextRefines
<1>3. ASSUME NEW code \in Codes, NEW q \in Quantities, insert_car_type(code, q)
      PROVE  Abstract!Next
  BY <1>3, InsertRefines DEF Abstract!Next, Abstract!InsertNext
<1>4. ASSUME NEW kind \in {"delete", "update"}, NEW c \in Conditions, WalkBegin(kind, c)
      PROVE  UNCHANGED Abstract!vars
  <2>1. Shown' = Shown /\ UNCHANGED <<brk, inserting, ccnt, reply>>
    BY <1>4 DEF WalkBegin, Idle, Shown
  <2> QED BY <2>1, Stutters
<1>5. CASE DeleteVisit \/ UpdatePass
  <2>1. walk # "none" /\ UNCHANGED <<walk, was, brk, inserting, ccnt, reply>>
    BY <1>5 DEF DeleteVisit, UpdatePass
  <2>2. Shown' = Shown
    BY <2>1 DEF Shown
  <2> QED BY <2>1, <2>2, Stutters
<1>6. cond \in Conditions
  BY DEF RInv, IInv, TypeOK
<1>7. \/ cond[1] = "code" /\ cond[2] \in Abstract!Text(Codes)
      \/ cond[1] = "quantity" /\ cond[2] \in Abstract!Number(Quantities)
  BY <1>6 DEF Conditions, Abstract!Text, Abstract!Number
<1>8. ASSUME NEW code \in Codes, NEW q \in Quantities,
             Abstract!UpdateCarType(cond[1], cond[2], code, q)
      PROVE  Abstract!Next
  <2>1. PICK col, V : col = cond[1] /\ V = cond[2]
    OBVIOUS
  <2>2. Abstract!UpdateCarType(col, V, code, q)
    BY <1>8, <2>1
  <2>3. col = "code" /\ V \in Abstract!Text(Codes) => Abstract!UpdateNext
    BY <2>2, Zenon DEF Abstract!UpdateNext
  <2>4. col = "quantity" /\ V \in Abstract!Number(Quantities) => Abstract!UpdateNext
    BY <2>2, Zenon DEF Abstract!UpdateNext
  <2> QED BY <1>7, <2>1, <2>3, <2>4 DEF Abstract!Next
<1>9. ASSUME NEW code \in Codes, NEW q \in Quantities, genericg_update(code, q)
      PROVE  Abstract!Next
  BY <1>8, <1>9, UpdateRefines
<1>10. CASE WalkEnd
  <2>1. CASE walk = "update"
    <3>1. PICK code \in Codes, q \in Quantities : TRUE
      BY ValuesAssumption
    <3> QED BY <1>8, <1>10, <2>1, <3>1, UpdateEndRefines
  <2>2. CASE walk = "delete"
    <3>1. PICK col, v : col = cond[1] /\ v = cond[2]
      OBVIOUS
    <3>2. Abstract!DeleteCarType(col, v)
      BY <1>10, <2>2, <3>1, DeleteEndRefines
    <3>3. col = "code" /\ v \in Abstract!Text(Codes) => Abstract!DeleteNext
      BY <3>2, Zenon DEF Abstract!DeleteNext
    <3>4. col = "quantity" /\ v \in Abstract!Number(Quantities) => Abstract!DeleteNext
      BY <3>2, Zenon DEF Abstract!DeleteNext
    <3> QED BY <1>7, <3>1, <3>3, <3>4 DEF Abstract!Next
  <2>3. walk \in {"update", "delete"}
    BY <1>10 DEF WalkEnd, RInv, IInv, TypeOK
  <2> QED BY <2>1, <2>2, <2>3
<1>11. CASE UNCHANGED vars
  <2>1. /\ UNCHANGED <<next, row, ct_ptr, brk, icnt>>
        /\ UNCHANGED <<brk, inserting, ccnt, reply, walk, was>>
    BY <1>11 DEF vars
  <2>2. Shown' = Shown
    BY <1>1, <2>1, NowStays DEF Shown
  <2> QED BY <2>1, <2>2, Stutters
<1> QED BY <1>2, <1>3, <1>4, <1>5, <1>9, <1>10, <1>11 DEF Next, Walk

\* The list of car types, its cursors and its tail implement the store: what
\* the theorems of CarStoreProofs say of its set of rows holds of the nodes
\* linked under head.
THEOREM ListImplementsStore == Spec => ImplementsCarStore
BY InitRInv, NextRInv, InitRefines, NextRefines, PTL DEF Spec, ImplementsCarStore, Abstract!Spec

=============================================================================
