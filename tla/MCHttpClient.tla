---------------------------- MODULE MCHttpClient ----------------------------
(* A client shared by a few calls. *)
EXTENDS HttpClient, TLC

Symmetry == Permutations(Calls \ Writes)
=============================================================================
