----------------------------- MODULE AppShutdown -----------------------------
(***************************************************************************)
(* The teardown of a neokit application (app/app.go, app/run.go): the      *)
(* lifecycle.Stack of module Lifecycle carrying the steps New, the         *)
(* application and Run push, and what those steps act on: the HTTP server  *)
(* with its requests and streams, the application context, the supervised  *)
(* background work and a resource of the application (a store).            *)
(*                                                                         *)
(* safe.WaitGo is taken at its contract, which module SafeGroup proves:    *)
(* nil means that at some moment of the call no work was live.             *)
(***************************************************************************)
EXTENDS Lifecycle, FiniteSets

CONSTANTS
  Requests,  \* the HTTP requests of one behaviour
  Streams,   \* those that never end on their own (SSE, WebSocket)
  Jobs       \* pieces of background work, each started at most once

ASSUME AppAssumption == Streams \subseteq Requests

VARIABLES
  main,       \* the goroutine that calls New, wires the app and calls Run
  listener,   \* the goroutine in a.HTTP.Listen, and the server behind it
  req,        \* each request
  job,        \* each piece of work supervised by safe.Go
  ctxDone,    \* App.ctx is cancelled
  streamsOff, \* App.shuttingDown is released
  storeOpen,  \* the application's resource, closed by its own step
  drained     \* history: the api step drained a server that was serving

appVars == <<main, listener, req, job, ctxDone, streamsOff, storeOpen, drained>>
vars == <<stackVars, appVars>>

\* The callers of Close: Run itself, the deferred Close of the function that
\* called New, and any other goroutine.
RunClose == "run"
DeferredClose == "deferred"

Active == {r \in Requests : req[r] = "active"}
Running == {j \in Jobs : job[j] = "running"}
Current(c) == rest[c][Len(rest[c])]

Init ==
  /\ StackInit
  /\ main = "wiring"
  /\ listener = "off"
  /\ req = [r \in Requests |-> "none"]
  /\ job = [j \in Jobs |-> "none"]
  /\ ctxDone = FALSE /\ streamsOff = FALSE /\ storeOpen = TRUE
  /\ drained = FALSE
-----------------------------------------------------------------------------
(* Plausible mistakes in this code, for checking that the properties see them *)

BootOrderMut_ContextBeforeApi ==
  <<"tracing", "metrics-export", "store",
    "background-work", "api", "background-context", "streams">>

BootOrderMut_WorkAfterStore ==
  <<"tracing", "metrics-export", "background-work",
    "store", "background-context", "api", "streams">>

BootOrderMut_ApiBeforeStreams ==
  <<"tracing", "metrics-export", "store",
    "background-work", "background-context", "streams", "api">>

ApiStepMut_NoTimeout(c, out) ==
  /\ Current(c) = "api" /\ StepEnds(c, out)
  /\ out = "ok"
  /\ listener = "draining" => Active = {}
  /\ drained' = (listener = "draining")
  /\ UNCHANGED <<main, listener, req, job, ctxDone, streamsOff, storeOpen>>
-----------------------------------------------------------------------------
\* The order of Push: New, then the application, then pushRunSteps.
BootOrder == <<"tracing", "metrics-export", "store",
               "background-work", "background-context", "api", "streams">>
WiredSteps == 3     \* what is on the stack when Run is called

ASSUME BootAssumption ==
  /\ {RunClose, DeferredClose} \subseteq Callers
  /\ \A i \in 1..Len(BootOrder) : BootOrder[i] \in Steps
-----------------------------------------------------------------------------
(* Boot and Run                                                            *)

\* New and the application push their steps; pushRunSteps pushes Run's four,
\* which happens once Run has spawned the listener.
PushNext ==
  LET k == Len(accepted) IN
    /\ main = IF k < WiredSteps THEN "wiring" ELSE "run"
    /\ k < Len(BootOrder)
    /\ ~done
    /\ Push(BootOrder[k + 1])
    /\ UNCHANGED appVars

\* The same after another goroutine's Close: Push refuses this step and every
\* later one, and wiring and Run go on.
PushRefused ==
  /\ main \in {"wiring", "run"}
  /\ done
  /\ Len(accepted) < Len(BootOrder)
  /\ Push(BootOrder[Len(accepted) + 1])
  /\ main' = IF main = "run" THEN "serving" ELSE "run"
  /\ listener' = IF main = "wiring" THEN "starting" ELSE listener
  /\ UNCHANGED <<req, job, ctxDone, streamsOff, storeOpen, drained>>

\* Run: the listener goroutine is spawned.
RunStarts ==
  /\ main = "wiring" /\ Len(accepted) = WiredSteps
  /\ main' = "run"
  /\ listener' = "starting"
  /\ UNCHANGED <<stackVars, req, job, ctxDone, streamsOff, storeOpen, drained>>

\* Run reaches its select.
RunWaits ==
  /\ main = "run" /\ Len(accepted) = Len(BootOrder)
  /\ main' = "serving"
  /\ UNCHANGED <<stackVars, listener, req, job, ctxDone, streamsOff, storeOpen, drained>>

\* Run's select: a termination signal, or the error of a listener that
\* could not bind. Run calls Close.
RunStops ==
  /\ main = "serving"
  /\ main' = "closing"
  /\ Shutdown(RunClose)
  /\ UNCHANGED <<listener, req, job, ctxDone, streamsOff, storeOpen, drained>>

\* The deferred Close: on an early return before Run, or after Run.
DeferredStarts ==
  /\ \/ main = "wiring" /\ Len(accepted) > 0
     \/ main = "returned"
  /\ main' = "exiting"
  /\ Shutdown(DeferredClose)
  /\ UNCHANGED <<listener, req, job, ctxDone, streamsOff, storeOpen, drained>>

\* Close called by a goroutine of its own.
OtherCloses(c) ==
  /\ c \notin {RunClose, DeferredClose}
  /\ Shutdown(c)
  /\ UNCHANGED appVars

\* Close, once Shutdown has returned: cancel and release, belt and braces.
CloseTail(c) ==
  /\ pc[c] = "returned"
  /\ main' = IF c = RunClose /\ main = "closing" THEN "returned" ELSE main
  /\ ctxDone' = TRUE
  /\ streamsOff' = TRUE
  /\ UNCHANGED <<stackVars, listener, req, job, storeOpen, drained>>
-----------------------------------------------------------------------------
(* The HTTP server, the requests and the work they start                   *)

\* Listen binds and serves. fasthttp's Shutdown finds nothing to stop before
\* this point, and does not prevent it afterwards.
ListenServes ==
  /\ listener = "starting"
  /\ listener' = "serving"
  /\ UNCHANGED <<stackVars, main, req, job, ctxDone, streamsOff, storeOpen, drained>>

\* Listen fails: its error is sent to Run through a buffered channel.
ListenFails ==
  /\ listener = "starting"
  /\ listener' = "failed"
  /\ UNCHANGED <<stackVars, main, req, job, ctxDone, streamsOff, storeOpen, drained>>

RequestStarts(r) ==
  /\ listener = "serving" /\ req[r] = "none"
  /\ req' = [req EXCEPT ![r] = "active"]
  /\ UNCHANGED <<stackVars, main, listener, job, ctxDone, streamsOff, storeOpen, drained>>

\* A handler returns; a stream does only when its StreamContext is done.
RequestEnds(r) ==
  /\ req[r] = "active"
  /\ r \in Streams => streamsOff
  /\ req' = [req EXCEPT ![r] = "done"]
  /\ UNCHANGED <<stackVars, main, listener, job, ctxDone, streamsOff, storeOpen, drained>>

\* safe.Go: called while wiring, by a handler, or by work that is running.
WorkStarts(j) ==
  /\ job[j] = "none"
  /\ main = "wiring" \/ Active # {} \/ Running # {}
  /\ job' = [job EXCEPT ![j] = "running"]
  /\ UNCHANGED <<stackVars, main, listener, req, ctxDone, streamsOff, storeOpen, drained>>

WorkEnds(j) ==
  /\ job[j] = "running"
  /\ job' = [job EXCEPT ![j] = "done"]
  /\ UNCHANGED <<stackVars, main, listener, req, ctxDone, streamsOff, storeOpen, drained>>
-----------------------------------------------------------------------------
(* The steps                                                               *)

\* A step is entered; the api step stops accepting before it waits.
AppStepBegins(c) ==
  /\ StepBegins(c)
  /\ listener' = IF Current(c) = "api" /\ listener = "serving" THEN "draining" ELSE listener
  /\ UNCHANGED <<main, req, job, ctxDone, streamsOff, storeOpen, drained>>

StreamsStep(c) ==
  /\ Current(c) = "streams" /\ StepEnds(c, "ok")
  /\ streamsOff' = TRUE
  /\ UNCHANGED <<main, listener, req, job, ctxDone, storeOpen, drained>>

\* ShutdownWithTimeout returns when the open requests have ended. httpDrainTimeout
\* is ample for a released stream, so only some other request can exhaust it.
ApiStep(c, out) ==
  /\ Current(c) = "api" /\ StepEnds(c, out)
  /\ IF out = "ok"
     THEN listener = "draining" => Active = {}
     ELSE /\ listener = "draining" /\ out = "error"
          /\ \E r \in Active : r \notin Streams \/ ~streamsOff
  /\ drained' = (out = "ok" /\ listener = "draining")
  /\ UNCHANGED <<main, listener, req, job, ctxDone, streamsOff, storeOpen>>

ContextStep(c) ==
  /\ Current(c) = "background-context" /\ StepEnds(c, "ok")
  /\ ctxDone' = TRUE
  /\ UNCHANGED <<main, listener, req, job, streamsOff, storeOpen, drained>>

\* safe.WaitGo: nil when the group was idle, an error when the budget ended
\* with work still live.
WorkStep(c, out) ==
  /\ Current(c) = "background-work" /\ StepEnds(c, out)
  /\ out = IF Running = {} THEN "ok" ELSE "error"
  /\ UNCHANGED appVars

StoreStep(c, out) ==
  /\ Current(c) = "store" /\ StepEnds(c, out)
  /\ storeOpen' = FALSE
  /\ UNCHANGED <<main, listener, req, job, ctxDone, streamsOff, drained>>

TelemetryStep(c, out) ==
  /\ Current(c) \in {"metrics-export", "tracing"} /\ StepEnds(c, out)
  /\ UNCHANGED appVars

AppStepEnds(c) ==
  /\ pc[c] = "running"
  /\ \/ StreamsStep(c)
     \/ ContextStep(c)
     \/ \E out \in Outcome :
          ApiStep(c, out) \/ WorkStep(c, out) \/ StoreStep(c, out) \/ TelemetryStep(c, out)

SweepEnds(c) == ShutdownReturns(c) /\ UNCHANGED appVars
-----------------------------------------------------------------------------
Server ==
  \/ ListenServes \/ ListenFails
  \/ \E r \in Requests : RequestStarts(r) \/ RequestEnds(r)
  \/ \E j \in Jobs : WorkStarts(j) \/ WorkEnds(j)

Main == PushNext \/ PushRefused \/ RunStarts \/ RunWaits \/ RunStops \/ DeferredStarts

Closing(c) == AppStepBegins(c) \/ AppStepEnds(c) \/ SweepEnds(c) \/ CloseTail(c)

Next ==
  \/ Main \/ Server
  \/ \E c \in Callers : OtherCloses(c) \/ Closing(c)

Spec == Init /\ [][Next]_vars

\* Goroutines run, a step that honours its context ends when its budget does
\* (the Close behind PushCloser is under no such duty), and a stream that is
\* released ends. Other handlers and background work need not end.
Fairness ==
  /\ \A c \in Callers :
       WF_vars(\/ AppStepBegins(c) \/ SweepEnds(c)
               \/ pc[c] = "running" /\ Current(c) \notin Closers /\ AppStepEnds(c))
  /\ \A c \in Callers : WF_vars(CloseTail(c))
  /\ \A r \in Streams : WF_vars(RequestEnds(r))

FairSpec == Spec /\ Fairness
-----------------------------------------------------------------------------
(* Properties                                                              *)

\* Every variable has its type, the teardown stack's included, while Run,
\* Close, requests and work interleave.
TypeOK ==
  /\ StackTypeOK
  /\ main \in {"wiring", "run", "serving", "closing", "returned", "exiting"}
  /\ listener \in {"off", "starting", "serving", "failed", "draining"}
  /\ req \in [Requests -> {"none", "active", "done"}]
  /\ job \in [Jobs -> {"none", "running", "done"}]
  /\ ctxDone \in BOOLEAN /\ streamsOff \in BOOLEAN
  /\ storeOpen \in BOOLEAN /\ drained \in BOOLEAN

\* "a job finishes its write before the store it writes to closes": while the
\* store is closed no background work is live after a teardown that drained
\* the API and joined the work without an error, not even work started by a
\* request the drain was still waiting for; and once Run has pushed the api
\* step, a request runs against the closed store only because that step
\* reported that it gave up on it, or found no server to stop yet.
StoreOutlivesUsers ==
  ~storeOpen =>
    /\ drained /\ "background-work" \notin failed => Running = {}
    /\ Active # {} /\ "api" \in Elems(accepted) =>
         "api" \in Elems(ran) /\ ("api" \in failed \/ listener = "serving")

\* App.Context "is cancelled once the HTTP server has drained, not when
\* shutdown begins, so a request accepted during the drain can still start
\* work the drain waits for". The one exception is a second Close that finds
\* the sweep of another caller under way and returns past it.
ContextOutlivesDrain ==
  ctxDone /\ "api" \in Elems(accepted) =>
    \/ "api" \in Elems(ran)
    \/ \E c, d \in Callers : pc[c] = "returned" /\ pc[d] \in {"sweeping", "running"}

\* "streams are released first of all, so the HTTP drain does not wait its
\* full timeout on a stream that would never end on its own": when the api
\* step of a Run that had pushed all its steps times out, some ordinary
\* request was still open.
StreamsDoNotHoldTheDrain ==
  [][ "api" \in failed' \ failed /\ Len(accepted) = Len(BootOrder) =>
        \E r \in Active : r \notin Streams ]_vars

\* Run returns once it is told to stop, whatever handlers and work do, and
\* the context is then done and every stream released.
RunReturns ==
  main = "closing" ~> main \in {"returned", "exiting"} /\ ctxDone /\ streamsOff
=============================================================================
