------------------------------ MODULE SafePool ------------------------------
(***************************************************************************)
(* safe.Pool (safe/pool.go): one-shot tasks on a bounded number of         *)
(* goroutines, drained once. sem is a buffered channel: sending takes a    *)
(* slot, receiving gives it back. wg is a sync.WaitGroup, whose Add is     *)
(* made under mu together with the closed check.                           *)
(***************************************************************************)
EXTENDS Integers, FiniteSets

CONSTANTS
  Tasks, Waiters,
  Limits      \* the values Pool.Limit is given; 0 means no cap

ASSUME SafePoolAssumption == IsFiniteSet(Tasks) /\ Limits \subseteq Nat

VARIABLES
  limit,     \* Pool.Limit, an exported field
  sem,       \* the capacity of Pool.sem, 0 for nil
  closed,    \* Pool.closed
  wg,        \* the counter of Pool.wg
  task,      \* where each task is
  gated,     \* the task's goroutine copied a sem that is not nil
  ctxDone,   \* the task's context is done
  wpc,       \* each caller of Wait
  late       \* history: the context ended before the task got a slot

poolVars == <<limit, sem, closed, wg, task, gated, ctxDone, wpc, late>>

TaskState == {"none", "refused", "queued", "holding", "running", "releasing",
              "leaving", "done"}

\* The tasks that occupy a slot of sem.
Slots == {t \in Tasks : gated[t] /\ task[t] \in {"holding", "running", "releasing"}}

Goto(t, s) == task' = [task EXCEPT ![t] = s]

PoolInit ==
  /\ limit \in Limits
  /\ sem = 0 /\ closed = FALSE /\ wg = 0
  /\ task = [t \in Tasks |-> "none"]
  /\ gated = [t \in Tasks |-> FALSE]
  /\ ctxDone = [t \in Tasks |-> FALSE]
  /\ wpc = [q \in Waiters |-> "ready"]
  /\ late = [t \in Tasks |-> FALSE]
-----------------------------------------------------------------------------
(* Plausible mistakes in this code, for checking that the properties see them *)

GoAcceptsMut_IgnoresClosed(t) ==
  /\ task[t] = "none"
  /\ ~ctxDone[t]
  /\ sem' = IF sem = 0 THEN limit ELSE sem
  /\ gated' = [gated EXCEPT ![t] = sem' # 0]
  /\ wg' = wg + 1
  /\ Goto(t, "queued")
  /\ UNCHANGED <<limit, closed, ctxDone, wpc, late>>

HoldsMut_NoRecheck(t) ==
  /\ task[t] = "holding"
  /\ Goto(t, "running")
  /\ UNCHANGED <<limit, sem, closed, wg, gated, ctxDone, wpc, late>>

LeavesMut_NoDoneOnGiveUp(t) ==
  /\ task[t] = "leaving"
  /\ wg' = IF late[t] THEN wg ELSE wg - 1
  /\ Goto(t, "done")
  /\ UNCHANGED <<limit, sem, closed, gated, ctxDone, wpc, late>>
-----------------------------------------------------------------------------
\* Go, refused under mu.
GoRefuses(t) ==
  /\ task[t] = "none"
  /\ closed \/ ctxDone[t]
  /\ Goto(t, "refused")
  /\ UNCHANGED <<limit, sem, closed, wg, gated, ctxDone, wpc, late>>

\* Go, accepted under mu: the semaphore is made if there is none and a limit
\* is set, and the task is counted.
GoAccepts(t) ==
  /\ task[t] = "none"
  /\ ~closed /\ ~ctxDone[t]
  /\ sem' = IF sem = 0 THEN limit ELSE sem
  /\ gated' = [gated EXCEPT ![t] = sem' # 0]
  /\ wg' = wg + 1
  /\ Goto(t, "queued")
  /\ UNCHANGED <<limit, closed, ctxDone, wpc, late>>

\* The goroutine of an unbounded pool goes straight to fn.
StartsFree(t) ==
  /\ task[t] = "queued" /\ ~gated[t]
  /\ Goto(t, "running")
  /\ UNCHANGED <<limit, sem, closed, wg, gated, ctxDone, wpc, late>>

\* The select takes a slot of sem.
TakesSlot(t) ==
  /\ task[t] = "queued" /\ gated[t]
  /\ Cardinality(Slots) < sem
  /\ Goto(t, "holding")
  /\ UNCHANGED <<limit, sem, closed, wg, gated, ctxDone, wpc, late>>

\* The select takes ctx.Done().
GivesUp(t) ==
  /\ task[t] = "queued" /\ gated[t] /\ ctxDone[t]
  /\ Goto(t, "leaving")
  /\ UNCHANGED <<limit, sem, closed, wg, gated, ctxDone, wpc, late>>

\* With the slot in hand the context is looked at again; if it is done the
\* slot is given back unused.
Holds(t) ==
  /\ task[t] = "holding"
  /\ Goto(t, IF ctxDone[t] THEN "releasing" ELSE "running")
  /\ UNCHANGED <<limit, sem, closed, wg, gated, ctxDone, wpc, late>>

\* fn returns, or panics and is recovered: it is not run again.
FnEnds(t) ==
  /\ task[t] = "running"
  /\ Goto(t, "releasing")
  /\ UNCHANGED <<limit, sem, closed, wg, gated, ctxDone, wpc, late>>

\* `<-sem`, deferred or after the second look; both come before wg.Done.
Releases(t) ==
  /\ task[t] = "releasing"
  /\ Goto(t, "leaving")
  /\ UNCHANGED <<limit, sem, closed, wg, gated, ctxDone, wpc, late>>

Leaves(t) ==
  /\ task[t] = "leaving"
  /\ wg' = wg - 1
  /\ Goto(t, "done")
  /\ UNCHANGED <<limit, sem, closed, gated, ctxDone, wpc, late>>

ContextEnds(t) ==
  /\ ~ctxDone[t]
  /\ ctxDone' = [ctxDone EXCEPT ![t] = TRUE]
  /\ late' = [late EXCEPT ![t] = task[t] = "queued"]
  /\ UNCHANGED <<limit, sem, closed, wg, task, gated, wpc>>

\* Wait closes the pool and joins it.
WaitBegins(q) ==
  /\ wpc[q] = "ready"
  /\ closed' = TRUE
  /\ wpc' = [wpc EXCEPT ![q] = "waiting"]
  /\ UNCHANGED <<limit, sem, wg, task, gated, ctxDone, late>>

\* wg.Wait returned: done is closed and the select takes it.
WaitReturns(q) ==
  /\ wpc[q] = "waiting" /\ wg = 0
  /\ wpc' = [wpc EXCEPT ![q] = "nil"]
  /\ UNCHANGED <<limit, sem, closed, wg, task, gated, ctxDone, late>>

WaitTimesOut(q) ==
  /\ wpc[q] = "waiting"
  /\ wpc' = [wpc EXCEPT ![q] = "timeout"]
  /\ UNCHANGED <<limit, sem, closed, wg, task, gated, ctxDone, late>>

\* The owner assigns the exported field.
SetLimit(l) ==
  /\ limit # l
  /\ limit' = l
  /\ UNCHANGED <<sem, closed, wg, task, gated, ctxDone, wpc, late>>
-----------------------------------------------------------------------------
Runs(t) == StartsFree(t) \/ TakesSlot(t) \/ GivesUp(t) \/ Holds(t) \/ Releases(t) \/ Leaves(t)

PoolNext ==
  \/ \E t \in Tasks : GoRefuses(t) \/ GoAccepts(t) \/ Runs(t) \/ FnEnds(t) \/ ContextEnds(t)
  \/ \E q \in Waiters : WaitBegins(q) \/ WaitReturns(q) \/ WaitTimesOut(q)
  \/ \E l \in Limits : SetLimit(l)

PoolSpec == PoolInit /\ [][PoolNext]_poolVars

\* Goroutines run; fn "receives ctx and must honour it", so it ends once the
\* context is done.
PoolFairness ==
  /\ \A t \in Tasks : WF_poolVars(Runs(t)) /\ WF_poolVars(ctxDone[t] /\ FnEnds(t))
  /\ \A q \in Waiters : WF_poolVars(WaitReturns(q))
-----------------------------------------------------------------------------
(* Properties                                                              *)

\* Every variable has its type; the wait group never goes below zero, which
\* would panic in Done.
PoolTypeOK ==
  /\ limit \in Limits /\ sem \in Limits \cup {0}
  /\ closed \in BOOLEAN /\ wg \in Nat
  /\ task \in [Tasks -> TaskState]
  /\ gated \in [Tasks -> BOOLEAN] /\ ctxDone \in [Tasks -> BOOLEAN]
  /\ late \in [Tasks -> BOOLEAN]
  /\ wpc \in [Waiters -> {"ready", "waiting", "nil", "timeout"}]

\* Wait is terminal and truthful: once it has returned nil, no task is
\* queued or running, and none ever will be.
DrainIsFinal ==
  (\E q \in Waiters : wpc[q] = "nil") =>
    \A t \in Tasks : task[t] \in {"none", "refused", "done"}

\* "decide on the context, not the luck": a task whose context ended while
\* it was queued for a slot never runs, even if a slot freed at that moment.
QueuedCancelNeverRuns ==
  \A t \in Tasks : late[t] /\ gated[t] => task[t] # "running"

\* No slot is lost and nothing waits on what cannot happen: with the pool
\* closed and every context done, the drain ends for every caller.
DrainEnds ==
  [](closed /\ (\A t \in Tasks : ctxDone[t]) =>
       \A q \in Waiters : wpc[q] = "waiting" => <>(wpc[q] # "waiting"))
=============================================================================
