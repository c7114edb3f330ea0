----------------------------- MODULE MCCarStore -----------------------------
(* Constants of CarStore small enough for TLC.                             *)
EXTENDS CarStore

OneCode == {1}
TwoCodes == {1, 2}
OneQuantity == {0}
TwoQuantities == {0, 1}
OneCid == {1}
TwoCids == {1, 2}
OneOid == {1}
TwoOids == {1, 2}

=============================================================================
