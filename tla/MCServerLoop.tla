---------------------------- MODULE MCServerLoop ----------------------------
(* Constants of ServerLoop small enough for TLC: one more connection than   *)
(* the table has slots, and one client that waits among any others.        *)
EXTENDS ServerLoop

CONSTANTS c1, c2, c3

ThreeClients == {c1, c2, c3}
OnePolite == {c1}
Requests == [c \in ThreeClients |-> CASE c = c1 -> 1 [] c = c2 -> 2 [] c = c3 -> 0]

=============================================================================
