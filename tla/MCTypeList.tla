----------------------------- MODULE MCTypeList -----------------------------
(* Constants of TypeList small enough for TLC.                             *)
EXTENDS TypeList

TwoCodes == {1, 2}
OneQuantity == {0}

=============================================================================
