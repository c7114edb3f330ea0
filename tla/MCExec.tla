------------------------------- MODULE MCExec -------------------------------
(* TLC takes Exec as it is: numbers are its only constants.                *)
EXTENDS Exec
=============================================================================
