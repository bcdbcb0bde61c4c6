------------------------------ MODULE MCSession ------------------------------
(* Sessions and the gate on a small instance. *)
EXTENDS Session, TLC

Symmetry == Permutations(Requests)
=============================================================================
