----------------------------- MODULE ExecProofs -----------------------------
(* Theorems about Exec for every length of the array.                      *)
EXTENDS Exec, TLAPS

\* No cell from the length of the longest statement on has ever been written
\* but with a terminator.
Untouched == \A p \in Cells : p >= longest => single_command[p] = "nul"

\* What is left of a request that did not fill recv_buffer fits in the array
\* behind start, with a terminator.
Room == ~filled => start + left < BufferLength

IInv ==
  /\ TypeOK
  /\ start + left <= BufferLength + Behind
  /\ Room
  /\ Untouched
  /\ WritesInside
  /\ TextInv
  /\ FirstExact

LEMMA InitIInv == Init => IInv
<1> SUFFICES ASSUME Init PROVE IInv
  OBVIOUS
<1>1. single_command \in [Cells -> Symbols]
  BY DEF Init, Symbols
<1>2. filled \in BOOLEAN /\ overrun \in BOOLEAN /\ WritesInside
  BY Zenon DEF Init, WritesInside
<1>3. TypeOK
  BY <1>1, <1>2, BufferAssumption DEF Init, TypeOK
<1> QED
  BY <1>2, <1>3, BufferAssumption
     DEF Init, IInv, Room, Untouched, TextInv, FirstExact

\* The first step of each request makes old of what was own, and nothing else.
LEMMA ReceiveIInv ==
  ASSUME IInv, NEW n \in Lengths, Receive(n)
  PROVE  IInv'
<1>1. single_command' \in [Cells -> Symbols]
  BY DEF IInv, TypeOK, Receive, Symbols
<1>2. /\ filled' = (filled \/ n >= BufferLength)
      /\ filled' \in BOOLEAN /\ overrun' \in BOOLEAN
  BY Zenon DEF IInv, TypeOK, Receive
<1>3. TypeOK' /\ (start + left <= BufferLength + Behind)' /\ Room'
  <2>1. n >= BufferLength => filled'
    BY <1>2, Zenon
  <2>2. start' = 0 /\ left' = n /\ len' = 0 /\ longest' = longest
    BY DEF Receive
  <2>3. n < BufferLength => start' + left' < BufferLength
    BY <2>2, BufferAssumption DEF Lengths
  <2>4. n >= BufferLength \/ n < BufferLength
    BY BufferAssumption DEF Lengths
  <2>5. Room'
    BY <2>1, <2>3, <2>4, Zenon DEF Room
  <2> QED
    BY ONLY <1>1, <1>2, <2>2, <2>5, IInv, BufferAssumption, n \in Lengths
       DEF IInv, TypeOK, Lengths
<1>4. Untouched'
  BY DEF IInv, Untouched, Receive
<1>5. WritesInside'
  BY Zenon DEF IInv, WritesInside, Receive
<1>6. TextInv' /\ FirstExact'
  BY DEF TextInv, FirstExact, Receive
<1> QED BY <1>3, <1>4, <1>5, <1>6 DEF IInv

\* strncpy writes below l and the terminator at start + l, which is not below l.
LEMMA ExecStatementIInv ==
  ASSUME IInv, NEW l \in Lengths, ExecStatement(l)
  PROVE  IInv'
<1>1. /\ start \in Nat /\ left \in Nat /\ left >= l /\ l \in Nat /\ l > 0
      /\ longest \in Nat /\ start + left <= BufferLength + Behind
      /\ BufferLength \in Nat /\ Behind \in Nat
  BY BufferAssumption DEF IInv, TypeOK, ExecStatement, Fits, Lengths
<1>2. start' = start + l /\ left' = left - l /\ len' = l /\ filled' = filled
  BY DEF ExecStatement
<1>3. longest' \in Nat /\ longest' >= l /\ longest' >= longest /\ longest' <= BufferLength + Behind
  BY <1>1 DEF ExecStatement, Longer, IInv, TypeOK
<1>4. single_command' = Copied(l, start + l)
  BY DEF ExecStatement, Terminator
<1>5. \A p \in Cells :
        single_command'[p] =
          IF p = start + l THEN "nul"
          ELSE IF p < l THEN "own"
          ELSE IF single_command[p] = "own" THEN "old" ELSE single_command[p]
  BY <1>4 DEF Copied
<1>6. single_command' \in [Cells -> Symbols]
  BY <1>4 DEF Copied, IInv, TypeOK, Symbols
<1>7. TypeOK' /\ (start + left <= BufferLength + Behind)' /\ Room'
  <2>1. filled' \in BOOLEAN /\ overrun' \in BOOLEAN
    BY Zenon DEF IInv, TypeOK, ExecStatement
  <2> QED BY <1>1, <1>2, <1>3, <1>6, <2>1 DEF IInv, TypeOK, Room
<1>8. Untouched'
  <2> SUFFICES ASSUME NEW p \in Cells, p >= longest' PROVE single_command'[p] = "nul"
    BY DEF Untouched
  <2>1. p >= longest /\ ~(p < l)
    BY <1>1, <1>3 DEF Cells
  <2> QED BY <1>5, <2>1 DEF IInv, Untouched
<1>9. WritesInside'
  <2>1. l > BufferLength \/ start + l >= BufferLength => filled
    BY <1>1 DEF IInv, Room
  <2>2. overrun' = (overrun \/ l > BufferLength \/ start + l >= BufferLength)
    BY DEF ExecStatement, Terminator
  <2> QED BY <1>2, <2>1, <2>2, Zenon DEF IInv, WritesInside
<1>10. TextInv'
  <2> SUFFICES ASSUME start + l < BufferLength
               PROVE  /\ \A p \in Cells : p < l => single_command'[p] = "own"
                      /\ \E p \in Cells :
                           /\ l <= p /\ p <= start + l /\ p <= longest'
                           /\ single_command'[p] = "nul"
    BY <1>2 DEF TextInv
  <2>1. \A p \in Cells : p < l => single_command'[p] = "own"
    BY <1>1, <1>5 DEF Cells
  <2>2. CASE start + l <= longest'
    <3>1. start + l \in Cells /\ single_command'[start + l] = "nul"
      BY <1>1, <1>5 DEF Cells
    <3> QED BY <1>1, <2>1, <2>2, <3>1
  <2>3. CASE ~(start + l <= longest')
    <3>1. longest' \in Cells
      BY <1>1, <1>3, <2>3 DEF Cells
    <3>2. single_command'[longest'] = "nul"
      BY <1>3, <1>8, <3>1 DEF Untouched
    <3> QED BY <1>1, <1>3, <2>1, <2>3, <3>1, <3>2
  <2> QED BY <2>2, <2>3
<1>11. FirstExact'
  BY <1>1, <1>2, <1>5 DEF FirstExact, Exact, Cells
<1> QED BY <1>7, <1>8, <1>9, <1>10, <1>11 DEF IInv

LEMMA NextIInv == IInv /\ [Next]_vars => IInv'
<1> SUFFICES ASSUME IInv, [Next]_vars PROVE IInv'
  OBVIOUS
<1>1. CASE Drop
  BY <1>1, BufferAssumption
     DEF IInv, TypeOK, Room, Untouched, WritesInside, TextInv, FirstExact, Exact, Drop
<1>2. CASE Restart
  <2>1. single_command' \in [Cells -> Symbols]
    BY <1>2 DEF Restart, Symbols
  <2>2. (filled \in BOOLEAN)' /\ (overrun \in BOOLEAN)' /\ WritesInside'
    BY <1>2, Zenon DEF Restart, WritesInside
  <2>3. TypeOK'
    BY <1>2, <2>1, <2>2, BufferAssumption DEF Restart, TypeOK
  <2> QED
    BY <1>2, <2>2, <2>3, BufferAssumption
       DEF Restart, IInv, Room, Untouched, TextInv, FirstExact
<1>3. CASE UNCHANGED vars
  BY <1>3 DEF IInv, TypeOK, Room, Untouched, WritesInside, TextInv, FirstExact, Exact, vars
<1> QED BY <1>1, <1>2, <1>3, ReceiveIInv, ExecStatementIInv DEF Next

\* Lengths and places are those of a request and what lies behind it.
THEOREM TypeCorrect == Spec => []TypeOK
<1>1. IInv => TypeOK
  BY DEF IInv
<1> QED BY InitIInv, NextIInv, <1>1, PTL DEF Spec

\* Nothing is written behind the array unless a request filled recv_buffer.
THEOREM ArrayBounds == Spec => []WritesInside
<1>1. IInv => WritesInside
  BY DEF IInv
<1> QED BY InitIInv, NextIInv, <1>1, PTL DEF Spec

\* What exec_single is given is the statement and at most the rest of a longer
\* one executed before.
THEOREM TextCorrect == Spec => []TextInv
<1>1. IInv => TextInv
  BY DEF IInv
<1> QED BY InitIInv, NextIInv, <1>1, PTL DEF Spec

\* The first statement of a request is executed as it was written.
THEOREM FirstStatementExact == Spec => []FirstExact
<1>1. IInv => FirstExact
  BY DEF IInv
<1> QED BY InitIInv, NextIInv, <1>1, PTL DEF Spec

=============================================================================
