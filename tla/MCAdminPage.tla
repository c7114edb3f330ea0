---------------------------- MODULE MCAdminPage ----------------------------
(* Two windows, a car type and a code no type has, two cars of the type. *)
EXTENDS AdminPage

TwoCars == <<[cid |-> 1, code |-> "1"], [cid |-> 2, code |-> "1"]>>
=============================================================================
