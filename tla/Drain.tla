------------------------------- MODULE Drain -------------------------------
(***************************************************************************)
(* What a group of background work promises to whoever shuts it down: Wait *)
(* answers nil only when all the work that was live when it was called has *)
(* ended, and it does not block for ever on a group that has fallen idle.  *)
(* How the group finds that out is left open: there is no counter, no      *)
(* mutex and no channel here.                                              *)
(***************************************************************************)
CONSTANTS
  Workers,  \* the work that may be under way
  Waiters   \* the callers of Wait

VARIABLES
  live,  \* the work under way
  call,  \* each caller: "ready", "waiting", or how its last Wait ended
  owed   \* each caller: the work its Wait has still to outlast

drainVars == <<live, call, owed>>

DrainInit ==
  /\ live = {}
  /\ call = [q \in Waiters |-> "ready"]
  /\ owed = [q \in Waiters |-> {}]

\* Work may start at any time, a drain under way included.
Starts(w) ==
  /\ w \notin live
  /\ live' = live \cup {w}
  /\ UNCHANGED <<call, owed>>

Ends(w) ==
  /\ w \in live
  /\ live' = live \ {w}
  /\ owed' = [q \in Waiters |-> owed[q] \ {w}]
  /\ UNCHANGED call

\* A Wait begins; on an idle group it is over at once.
Calls(q) ==
  /\ call[q] # "waiting"
  /\ owed' = [owed EXCEPT ![q] = live]
  /\ call' = [call EXCEPT ![q] = IF live = {} THEN "nil" ELSE "waiting"]
  /\ UNCHANGED live

Drained(q) ==
  /\ call[q] = "waiting" /\ owed[q] = {}
  /\ call' = [call EXCEPT ![q] = "nil"]
  /\ UNCHANGED <<live, owed>>

GivesUp(q) ==
  /\ call[q] = "waiting"
  /\ call' = [call EXCEPT ![q] = "timeout"]
  /\ UNCHANGED <<live, owed>>

DrainNext ==
  \/ \E w \in Workers : Starts(w) \/ Ends(w)
  \/ \E q \in Waiters : Calls(q) \/ Drained(q) \/ GivesUp(q)

\* A Wait that has nothing left to wait for, on a group that stays idle, ends.
DrainFairness == \A q \in Waiters : WF_drainVars(live = {} /\ Drained(q))

DrainSafety == DrainInit /\ [][DrainNext]_drainVars

DrainSpec == DrainSafety /\ DrainFairness
=============================================================================
