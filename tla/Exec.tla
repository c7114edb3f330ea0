-------------------------------- MODULE Exec --------------------------------
(***************************************************************************)
(* exec of exec.c: a request is cut at its semicolons and each statement   *)
(* is copied into the static array single_command and handed to            *)
(* exec_single as a C string.                                              *)
(*                                                                         *)
(* Only what tells texts apart is kept of the characters: a cell of        *)
(* single_command is the terminator, a character of the statement being    *)
(* executed, or one left by an earlier statement or request.               *)
(*                                                                         *)
(* run_server reads up to BUFFER_LENGTH bytes into recv_buffer, which has  *)
(* no room for a terminator behind that many.  The text of such a request  *)
(* goes on with the bytes behind recv_buffer, to the next zero, and its    *)
(* last statement may be written behind single_command.                    *)
(***************************************************************************)
EXTENDS Integers

CONSTANTS
  BufferLength,  \* BUFFER_LENGTH, 65536 in the code
  Behind         \* bound: bytes that are not zero behind a full recv_buffer

ASSUME BufferAssumption == BufferLength \in Nat /\ BufferLength > 1 /\ Behind \in Nat

VARIABLES
  single_command,  \* the array, indexed from 0
  left,            \* characters of the request not looked at yet
  start,           \* where in the request the next statement begins
  len,             \* length of the statement executed last, 0 before the first
  longest,         \* length of the longest statement this process has executed
  filled,          \* some request of this process filled recv_buffer
  overrun          \* something was written behind single_command

vars == <<single_command, left, start, len, longest, filled, overrun>>

Cells   == 0 .. BufferLength - 1
Lengths == 1 .. BufferLength + Behind
Symbols == {"nul", "own", "old"}

Init ==
  /\ single_command = [p \in Cells |-> "nul"]
  /\ left = 0 /\ start = 0 /\ len = 0 /\ longest = 0
  /\ filled = FALSE /\ overrun = FALSE

-----------------------------------------------------------------------------
\* A request whose strlen is n; what the last one left behind is old.
Receive(n) ==
  /\ left = 0
  /\ left' = n /\ start' = 0 /\ len' = 0
  /\ filled' = (filled \/ n >= BufferLength)
  /\ single_command' = [p \in Cells |->
       IF single_command[p] = "own" THEN "old" ELSE single_command[p]]
  /\ UNCHANGED <<longest, overrun>>

\* the array after strncpy, as far as it reaches, with a terminator at i
Copied(l, i) == [p \in Cells |->
  IF p = i THEN "nul"
  ELSE IF p < l THEN "own"
  ELSE IF single_command[p] = "own" THEN "old" ELSE single_command[p]]

\* start = i + 1 is an index of the request; with one statement it is l
TerminatorBefore(l) == start + l - 1
TerminatorBehind(l) == start + l + 1
TerminatorAtEnd(l)  == BufferLength - 1
Terminator(l)       == start + l

\* the loop over the request stops at its end
FitsLoosely(l) == l <= left + 1
Fits(l)        == l <= left

Longer(a, b) == IF a > b THEN a ELSE b

\* The next semicolon ends a statement of l characters.
ExecStatement(l) ==
  /\ Fits(l)
  /\ left' = left - l
  /\ start' = start + l
  /\ single_command' = Copied(l, Terminator(l))
  /\ len' = l
  /\ longest' = Longer(longest, l)
  /\ overrun' = (overrun \/ l > BufferLength \/ Terminator(l) >= BufferLength)
  /\ UNCHANGED filled

\* no semicolon in what is left: it is never looked at again
Drop ==
  /\ left > 0
  /\ left' = 0
  /\ UNCHANGED <<single_command, start, len, longest, filled, overrun>>

\* What lies behind the array is any of the program's variables: the process
\* goes on with them overwritten, or ends and is started again.
Restart ==
  /\ overrun
  /\ single_command' = [p \in Cells |-> "nul"]
  /\ left' = 0 /\ start' = 0 /\ len' = 0 /\ longest' = 0
  /\ filled' = FALSE /\ overrun' = FALSE

Next ==
  \/ \E n \in Lengths : Receive(n)
  \/ \E l \in Lengths : ExecStatement(l)
  \/ Drop
  \/ Restart

Spec == Init /\ [][Next]_vars

-----------------------------------------------------------------------------
\* Types: lengths and places up to the end of the longest text a request has.
TypeOK ==
  /\ single_command \in [Cells -> Symbols]
  /\ left \in 0 .. BufferLength + Behind
  /\ start \in 0 .. BufferLength + Behind
  /\ len \in 0 .. BufferLength + Behind
  /\ longest \in 0 .. BufferLength + Behind
  /\ filled \in BOOLEAN /\ overrun \in BOOLEAN

\* exec writes behind single_command only after a request that filled
\* recv_buffer (exec.c:227, 229): one byte less and every statement of every
\* batch stays inside, with its terminator, wherever the batch is cut.
WritesInside == overrun => filled

\* What exec_single is given is the statement and, behind it, at most the rest
\* of a longer one executed before: the text ends no later than the request did
\* so far and no later than the longest statement did.
TextInv ==
  len > 0 /\ start < BufferLength =>
    /\ \A p \in Cells : p < len => single_command[p] = "own"
    /\ \E p \in Cells :
         /\ len <= p /\ p <= start /\ p <= longest
         /\ single_command[p] = "nul"

\* The text exec_single gets is the statement and nothing more.
Exact == single_command[len] = "nul"

\* The first statement of a request is executed as it was written, whatever
\* longer statements the array held before, if its terminator is in the array.
FirstExact == start = len /\ len > 0 /\ start < BufferLength => Exact

=============================================================================
