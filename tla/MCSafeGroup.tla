----------------------------- MODULE MCSafeGroup -----------------------------
(* safe.Group on a small instance, as the implementation of Drain. *)
EXTENDS SafeGroupDrain
=============================================================================
