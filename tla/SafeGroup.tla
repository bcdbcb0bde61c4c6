------------------------------ MODULE SafeGroup ------------------------------
(***************************************************************************)
(* safe.Group (safe/supervise.go): supervised background goroutines, the   *)
(* counter n that tracks them, and Wait, which joins them at shutdown.     *)
(*                                                                         *)
(* n is an atomic that Go and leave touch without mu; mu guards only idle. *)
(* The steps below are therefore the accesses to n and the two halves of   *)
(* each critical section: n is read in the first half and idle is written  *)
(* in the second, and Go and leave may land between them.                  *)
(***************************************************************************)
EXTENDS Integers, FiniteSets

CONSTANTS
  Workers,   \* the goroutines that may be supervised, each again and again
  Waiters,   \* the callers of Wait
  MaxWaits   \* bound: calls of Wait in one behaviour

ASSUME SafeGroupAssumption ==
  /\ IsFiniteSet(Workers)
  /\ MaxWaits \in Nat

VARIABLES
  n,          \* Group.n, the live count
  idle,       \* Group.idle: the number of the channel, 0 for nil
  made,       \* how many channels Wait has made
  closed,     \* the channels that were closed
  pc,         \* where each supervised goroutine is
  wpc,        \* where each caller of Wait is, or how its last call ended
  ch,         \* the local `idle` of each caller of Wait
  calls,      \* calls of Wait so far
  cancelled,  \* the supervision context is done
  owed,       \* history: live when q called Wait and not returned since
  late        \* history: respawns of w after the context was done

vars == <<n, idle, made, closed, pc, wpc, ch, calls, cancelled, owed, late>>
chanVars == <<idle, made, closed>>
waitVars == <<wpc, ch, calls>>

WorkerState == {"none", "run", "panicked", "backoff", "leaving", "waking", "closing"}
WaitState   == {"ready", "making", "waiting", "nil", "timeout"}

\* Counted by n: entered and not yet past leave's decrement.
Live == {w \in Workers : pc[w] \in {"run", "panicked", "backoff", "leaving"}}

\* sync.Mutex: nobody is inside a critical section of mu.
MuFree ==
  /\ \A w \in Workers : pc[w] # "closing"
  /\ \A q \in Waiters : wpc[q] # "making"

Goto(w, s) == pc' = [pc EXCEPT ![w] = s]

Init ==
  /\ n = 0 /\ idle = 0 /\ made = 0 /\ closed = {}
  /\ pc = [w \in Workers |-> "none"]
  /\ wpc = [q \in Waiters |-> "ready"]
  /\ ch = [q \in Waiters |-> 0]
  /\ calls = 0
  /\ cancelled = FALSE
  /\ owed = [q \in Waiters |-> {}]
  /\ late = [w \in Workers |-> 0]
-----------------------------------------------------------------------------
(* Plausible mistakes in this code, for checking that the properties see them *)

WakeChecksMut_NoRecheck(w) ==
  /\ pc[w] = "waking"
  /\ MuFree
  /\ Goto(w, IF idle # 0 THEN "closing" ELSE "none")
  /\ UNCHANGED <<n, chanVars, waitVars, cancelled, owed, late>>

WakeChecksMut_NoNilCheck(w) ==
  /\ pc[w] = "waking"
  /\ MuFree
  /\ Goto(w, IF n = 0 THEN "closing" ELSE "none")
  /\ UNCHANGED <<n, chanVars, waitVars, cancelled, owed, late>>

WaitMakesMut_AlwaysMakes(q) ==
  /\ wpc[q] = "making"
  /\ made' = made + 1
  /\ idle' = made + 1
  /\ ch' = [ch EXCEPT ![q] = idle']
  /\ wpc' = [wpc EXCEPT ![q] = "waiting"]
  /\ UNCHANGED <<n, closed, pc, calls, cancelled, owed, late>>

LeaveMut_OneLeft(w) ==
  /\ pc[w] = "leaving"
  /\ n' = n - 1
  /\ Goto(w, IF n' # 1 THEN "none" ELSE "waking")
  /\ owed' = [q \in Waiters |-> owed[q] \ {w}]
  /\ UNCHANGED <<chanVars, waitVars, cancelled, late>>
-----------------------------------------------------------------------------
(* The supervised goroutine                                                *)

\* Go: enter counts the goroutine before it exists. Nothing refuses a Go
\* during a drain or after the context is done.
Go(w) ==
  /\ pc[w] = "none"
  /\ n' = n + 1
  /\ Goto(w, "run")
  /\ late' = [late EXCEPT ![w] = 0]
  /\ UNCHANGED <<chanVars, waitVars, cancelled, owed>>

\* runGuarded reports no panic: the loop ends and the deferred leave is next.
FnReturns(w) ==
  /\ pc[w] = "run"
  /\ Goto(w, "leaving")
  /\ UNCHANGED <<n, chanVars, waitVars, cancelled, owed, late>>

\* runGuarded recovered a panic.
FnPanics(w) ==
  /\ pc[w] = "run"
  /\ Goto(w, "panicked")
  /\ UNCHANGED <<n, chanVars, waitVars, cancelled, owed, late>>

\* backoff's first look at ctx.Err().
BackoffEnters(w) ==
  /\ pc[w] = "panicked"
  /\ Goto(w, IF cancelled THEN "leaving" ELSE "backoff")
  /\ UNCHANGED <<n, chanVars, waitVars, cancelled, owed, late>>

\* backoff's select takes ctx.Done().
BackoffStops(w) ==
  /\ pc[w] = "backoff"
  /\ cancelled
  /\ Goto(w, "leaving")
  /\ UNCHANGED <<n, chanVars, waitVars, cancelled, owed, late>>

\* backoff's select takes the timer; when both are ready Go picks either.
Respawn(w) ==
  /\ pc[w] = "backoff"
  /\ Goto(w, "run")
  /\ late' = [late EXCEPT ![w] = IF cancelled THEN @ + 1 ELSE @]
  /\ UNCHANGED <<n, chanVars, waitVars, cancelled, owed>>

\* leave: the decrement, and whether it was the one that reached zero.
Leave(w) ==
  /\ pc[w] = "leaving"
  /\ n' = n - 1
  /\ Goto(w, IF n' # 0 THEN "none" ELSE "waking")
  /\ owed' = [q \in Waiters |-> owed[q] \ {w}]
  /\ UNCHANGED <<chanVars, waitVars, cancelled, late>>

\* wake takes mu and re-reads idle and n.
WakeChecks(w) ==
  /\ pc[w] = "waking"
  /\ MuFree
  /\ Goto(w, IF idle # 0 /\ n = 0 THEN "closing" ELSE "none")
  /\ UNCHANGED <<n, chanVars, waitVars, cancelled, owed, late>>

\* wake closes idle, forgets it and unlocks.
WakeCloses(w) ==
  /\ pc[w] = "closing"
  /\ closed' = closed \cup {idle}
  /\ idle' = 0
  /\ Goto(w, "none")
  /\ UNCHANGED <<n, made, waitVars, cancelled, owed, late>>
-----------------------------------------------------------------------------
(* Wait                                                                    *)

\* Wait takes mu and reads n; an idle group returns at once.
WaitCalls(q) ==
  /\ wpc[q] \in {"ready", "nil", "timeout"}
  /\ calls < MaxWaits
  /\ MuFree
  /\ calls' = calls + 1
  /\ wpc' = [wpc EXCEPT ![q] = IF n = 0 THEN "nil" ELSE "making"]
  /\ owed' = [owed EXCEPT ![q] = Live]
  /\ UNCHANGED <<n, chanVars, pc, ch, cancelled, late>>

\* Wait makes idle if there is none, copies it and unlocks.
WaitMakes(q) ==
  /\ wpc[q] = "making"
  /\ made' = IF idle = 0 THEN made + 1 ELSE made
  /\ idle' = IF idle = 0 THEN made + 1 ELSE idle
  /\ ch' = [ch EXCEPT ![q] = idle']
  /\ wpc' = [wpc EXCEPT ![q] = "waiting"]
  /\ UNCHANGED <<n, closed, pc, calls, cancelled, owed, late>>

\* Wait's select takes the closed channel: the drain is reported complete.
WaitReturns(q) ==
  /\ wpc[q] = "waiting"
  /\ ch[q] \in closed
  /\ wpc' = [wpc EXCEPT ![q] = "nil"]
  /\ UNCHANGED <<n, chanVars, pc, ch, calls, cancelled, owed, late>>

\* Wait's select takes ctx.Done(): ErrDrainTimeout.
WaitTimesOut(q) ==
  /\ wpc[q] = "waiting"
  /\ wpc' = [wpc EXCEPT ![q] = "timeout"]
  /\ UNCHANGED <<n, chanVars, pc, ch, calls, cancelled, owed, late>>

\* The owner cancels the context the group is supervised under.
Cancel ==
  /\ ~cancelled
  /\ cancelled' = TRUE
  /\ UNCHANGED <<n, chanVars, pc, waitVars, owed, late>>
-----------------------------------------------------------------------------
Supervise(w) ==
  \/ BackoffEnters(w) \/ BackoffStops(w)
  \/ Leave(w) \/ WakeChecks(w) \/ WakeCloses(w)

Worker(w) == Go(w) \/ FnReturns(w) \/ FnPanics(w) \/ Respawn(w) \/ Supervise(w)

Waiter(q) == WaitCalls(q) \/ WaitMakes(q) \/ WaitReturns(q) \/ WaitTimesOut(q)

Next ==
  \/ \E w \in Workers : Worker(w)
  \/ \E q \in Waiters : Waiter(q)
  \/ Cancel

Spec == Init /\ [][Next]_vars

\* What the Go scheduler guarantees: a goroutine with work of its own to do
\* does it. fn, the callers of Go and the Wait deadline are under no duty.
Fairness ==
  /\ \A w \in Workers : WF_vars(Supervise(w))
  /\ \A q \in Waiters : WF_vars(WaitMakes(q) \/ WaitReturns(q))

FairSpec == Spec /\ Fairness
-----------------------------------------------------------------------------
(* Properties                                                              *)

\* Every variable of the group has its type; leave's decrement, in particular,
\* never takes n below zero.
TypeOK ==
  /\ n \in Nat
  /\ made \in Nat
  /\ idle \in 0..made
  /\ closed \in SUBSET (1..made)
  /\ pc \in [Workers -> WorkerState]
  /\ wpc \in [Waiters -> WaitState]
  /\ ch \in [Waiters -> 0..made]
  /\ calls \in 0..MaxWaits
  /\ cancelled \in BOOLEAN
  /\ owed \in [Waiters -> SUBSET Workers]
  /\ late \in [Workers -> Nat]

\* "Wait blocks until every goroutine in the group has returned": when Wait
\* returns nil, every goroutine that was live when it was called has left
\* the group. Shutdown closes what those goroutines use on that word.
DrainComplete == \A q \in Waiters : wpc[q] = "nil" => owed[q] = {}

\* "a goroutine finishing concurrently is never missed": whenever the group
\* is idle and a caller of Wait has, or is about to have, a channel to wait
\* on, some goroutine has still to pass wake and close it.
WakeupPending ==
  /\ n = 0
  /\ idle # 0 \/ \E q \in Waiters : wpc[q] = "making"
  => \E w \in Workers : pc[w] \in {"waking", "closing"}

\* close in wake never meets nil or a closed channel, either of which
\* panics in the goroutine that is leaving.
CloseIsSafe ==
  \A w \in Workers : pc[w] = "closing" => idle # 0 /\ idle \notin closed

\* ctx "stops the respawn into a shutdown": a goroutine that panics on and
\* on is respawned at most once after the context is done (the timer and
\* the context may be ready together), so it cannot hold the drain open.
RespawnsEnd == \A w \in Workers : late[w] <= 1
=============================================================================
