----------------------------- MODULE MCPersist ------------------------------
(* Constants of Persist small enough for TLC.                              *)
EXTENDS Persist

Zero == {0}
ZeroOne == {0, 1}

=============================================================================
