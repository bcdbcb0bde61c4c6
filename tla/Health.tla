------------------------------- MODULE Health -------------------------------
(***************************************************************************)
(* health.Registry (health/health.go, health/handler.go): readiness sweeps *)
(* that run every check concurrently under one deadline, the flag that     *)
(* keeps a check from being entered twice, and the transition log. Sweeps  *)
(* overlap whenever two probes poll at once.                               *)
(***************************************************************************)
EXTENDS Integers, FiniteSets

CONSTANTS
  Checks,   \* the registered checks
  Sweeps    \* calls of the ready handler

ASSUME HealthAssumption == IsFiniteSet(Checks) /\ IsFiniteSet(Sweeps)

VARIABLES
  running,  \* check.running
  fn,       \* the goroutine runBounded starts for a check in a sweep
  ans,      \* what the sweep has for each check
  expired,  \* the sweep's context is done
  pc,       \* the handler
  state     \* Registry.state

healthVars == <<running, fn, ans, expired, pc, state>>

\* A goroutine is in fn, has its result with the flag still held, has
\* released the flag, or has sent the result.
GoState == {"none", "in_fn", "ok", "failed", "released_ok", "released_failed",
            "sent_ok", "sent_failed"}

\* An answer is pending, or one of fn's, or a deadline passed, or "still
\* running from an earlier check".
Answered == {"ok", "failed", "deadline", "still_running"}
Ready(s) == \A c \in Checks : ans[s][c] = "ok"
Verdict(s) == IF Ready(s) THEN "ready" ELSE "unready"
Holds(s, c) == fn[s][c] \in {"in_fn", "ok", "failed"}

HealthInit ==
  /\ running = [c \in Checks |-> FALSE]
  /\ fn = [s \in Sweeps |-> [c \in Checks |-> "none"]]
  /\ ans = [s \in Sweeps |-> [c \in Checks |-> "none"]]
  /\ expired = [s \in Sweeps |-> FALSE]
  /\ pc = [s \in Sweeps |-> "idle"]
  /\ state = "unknown"
-----------------------------------------------------------------------------
(* Plausible mistakes in this code, for checking that the properties see them *)

EntersMut_NoFlag(s, c) ==
  /\ pc[s] = "sweep" /\ ans[s][c] = "none"
  /\ running' = [running EXCEPT ![c] = TRUE]
  /\ fn' = [fn EXCEPT ![s][c] = "in_fn"]
  /\ ans' = [ans EXCEPT ![s][c] = "waiting"]
  /\ UNCHANGED <<expired, pc, state>>

ReleasesMut_OnlyOnSuccess(s, c) ==
  /\ fn[s][c] \in {"ok", "failed"}
  /\ running' = [running EXCEPT ![c] = fn[s][c] = "failed"]
  /\ fn' = [fn EXCEPT ![s][c] = IF @ = "ok" THEN "released_ok" ELSE "released_failed"]
  /\ UNCHANGED <<ans, expired, pc, state>>

GivesUpMut_WaitsForFn(s, c) ==
  /\ ans[s][c] = "waiting" /\ expired[s] /\ fn[s][c] # "in_fn"
  /\ ans' = [ans EXCEPT ![s][c] = "deadline"]
  /\ UNCHANGED <<running, fn, expired, pc, state>>
-----------------------------------------------------------------------------
(* Check and runBounded                                                    *)

\* A poll comes in. A sweep that is over is used again for a later poll once the
\* goroutines it started are gone.
SweepBegins(s) ==
  /\ pc[s] \in {"idle", "done"}
  /\ \A c \in Checks : fn[s][c] \in {"none", "sent_ok", "sent_failed"}
  /\ pc' = [pc EXCEPT ![s] = "sweep"]
  /\ fn' = [fn EXCEPT ![s] = [c \in Checks |-> "none"]]
  /\ ans' = [ans EXCEPT ![s] = [c \in Checks |-> "none"]]
  /\ expired' = [expired EXCEPT ![s] = FALSE]
  /\ UNCHANGED <<running, state>>

\* The compare-and-swap of the flag: fn is started, or reported as running.
Enters(s, c) ==
  /\ pc[s] = "sweep" /\ ans[s][c] = "none"
  /\ running' = [running EXCEPT ![c] = TRUE]
  /\ fn' = [fn EXCEPT ![s][c] = IF running[c] THEN @ ELSE "in_fn"]
  /\ ans' = [ans EXCEPT ![s][c] = IF running[c] THEN "still_running" ELSE "waiting"]
  /\ UNCHANGED <<expired, pc, state>>

\* fn returns, fails or panics, when it pleases.
FnReturns(s, c, out) ==
  /\ fn[s][c] = "in_fn"
  /\ fn' = [fn EXCEPT ![s][c] = out]
  /\ UNCHANGED <<running, ans, expired, pc, state>>

\* The flag is released first,
Releases(s, c) ==
  /\ fn[s][c] \in {"ok", "failed"}
  /\ running' = [running EXCEPT ![c] = FALSE]
  /\ fn' = [fn EXCEPT ![s][c] = IF @ = "ok" THEN "released_ok" ELSE "released_failed"]
  /\ UNCHANGED <<ans, expired, pc, state>>

\* then the result is sent to the buffered channel.
Sends(s, c) ==
  /\ fn[s][c] \in {"released_ok", "released_failed"}
  /\ fn' = [fn EXCEPT ![s][c] = IF @ = "released_ok" THEN "sent_ok" ELSE "sent_failed"]
  /\ UNCHANGED <<running, ans, expired, pc, state>>

\* runBounded's select: the result,
Receives(s, c) ==
  /\ ans[s][c] = "waiting" /\ fn[s][c] \in {"sent_ok", "sent_failed"}
  /\ ans' = [ans EXCEPT ![s][c] = IF fn[s][c] = "sent_ok" THEN "ok" ELSE "failed"]
  /\ UNCHANGED <<running, fn, expired, pc, state>>

\* or the deadline; either, when both are there.
GivesUp(s, c) ==
  /\ ans[s][c] = "waiting" /\ expired[s]
  /\ ans' = [ans EXCEPT ![s][c] = "deadline"]
  /\ UNCHANGED <<running, fn, expired, pc, state>>

\* The sweep's timeout, or the client that asked goes away.
Expires(s) ==
  /\ pc[s] = "sweep" /\ ~expired[s]
  /\ expired' = [expired EXCEPT ![s] = TRUE]
  /\ UNCHANGED <<running, fn, ans, pc, state>>

\* wg.Wait returns: every check has answered.
SweepEnds(s) ==
  /\ pc[s] = "sweep"
  /\ \A c \in Checks : ans[s][c] \in Answered
  /\ pc' = [pc EXCEPT ![s] = "log"]
  /\ UNCHANGED <<running, fn, ans, expired, state>>
-----------------------------------------------------------------------------
(* logTransition                                                           *)

\* state.Swap: a line is due only if the state changed.
Swaps(s) ==
  /\ pc[s] = "log"
  /\ state' = Verdict(s)
  /\ pc' = [pc EXCEPT ![s] = IF state = Verdict(s) THEN "done" ELSE "line"]
  /\ UNCHANGED <<running, fn, ans, expired>>

\* The line, which another sweep may overtake.
Logs(s) ==
  /\ pc[s] = "line"
  /\ pc' = [pc EXCEPT ![s] = "done"]
  /\ UNCHANGED <<running, fn, ans, expired, state>>
-----------------------------------------------------------------------------
Handler(s) ==
  \/ \E c \in Checks : Enters(s, c) \/ Receives(s, c) \/ GivesUp(s, c)
  \/ SweepEnds(s) \/ Swaps(s) \/ Logs(s)

Goroutine(s, c) == Releases(s, c) \/ Sends(s, c)

HealthNext ==
  \E s \in Sweeps :
    \/ SweepBegins(s) \/ Handler(s) \/ Expires(s)
    \/ \E c \in Checks :
         \/ Goroutine(s, c)
         \/ \E out \in {"ok", "failed"} : FnReturns(s, c, out)

HealthSpec == HealthInit /\ [][HealthNext]_healthVars

\* Goroutines run and deadlines pass; a check may ignore its context and
\* never return.
HealthFairness ==
  \A s \in Sweeps :
    /\ WF_healthVars(Handler(s)) /\ WF_healthVars(Expires(s))
    /\ \A c \in Checks : WF_healthVars(Goroutine(s, c))

HealthFairSpec == HealthSpec /\ HealthFairness
-----------------------------------------------------------------------------
(* Properties                                                              *)

\* Every variable has its type: each check's goroutine and answer in each
\* sweep, the in-flight flags and the recorded readiness.
HealthTypeOK ==
  /\ running \in [Checks -> BOOLEAN]
  /\ fn \in [Sweeps -> [Checks -> GoState]]
  /\ ans \in [Sweeps -> [Checks -> Answered \cup {"none", "waiting"}]]
  /\ expired \in [Sweeps -> BOOLEAN]
  /\ pc \in [Sweeps -> {"idle", "sweep", "log", "line", "done"}]
  /\ state \in {"unknown", "ready", "unready"}

\* "A check is never entered twice concurrently", so a wedged dependency
\* strands one goroutine in total, however many sweeps find it wedged; and the
\* flag is "released before the send", so that no sweep can "observe the flag
\* still held and report a finished check as wedged": a held flag belongs to a
\* call whose result no sweep has seen.
OneCall ==
  \A c \in Checks :
    /\ Cardinality({s \in Sweeps : fn[s][c] = "in_fn"}) <= 1
    /\ running[c] => \E s \in Sweeps : Holds(s, c) /\ ans[s][c] \in {"waiting", "deadline"}

\* "a wedged dependency cannot hold the readiness endpoint open": every
\* sweep is answered, although a check never returns.
SweepAnswered == \A s \in Sweeps : pc[s] = "sweep" ~> pc[s] = "done"
=============================================================================
