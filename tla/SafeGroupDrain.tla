--------------------------- MODULE SafeGroupDrain ---------------------------
(***************************************************************************)
(* safe.Group implements Drain. Live work is what n counts; a caller waits *)
(* from its critical section on, and the wake-up, its mutex and the idle   *)
(* channel are stuttering steps.                                           *)
(***************************************************************************)
EXTENDS SafeGroup

Abstract == INSTANCE Drain WITH
  live <- Live,
  call <- [q \in Waiters |-> IF wpc[q] = "making" THEN "waiting" ELSE wpc[q]]

\* The counter, the mutex and the idle channel of safe/supervise.go amount to
\* the promise of Wait: every step of the group is a step of Drain or invisible
\* to it, and a drain of a group that stays idle comes to its end.
RefinesDrain == Abstract!DrainSpec
=============================================================================
