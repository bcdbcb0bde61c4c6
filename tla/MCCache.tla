------------------------------- MODULE MCCache -------------------------------
(* cache.Cache on a small instance. *)
EXTENDS Cache

OneType == [c \in Callers |-> "T"]
=============================================================================
