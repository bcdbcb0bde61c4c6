---------------------------- MODULE PeriodicJob ----------------------------
(***************************************************************************)
(* jobs.Job started by safe.Go (jobs/jobs.go, safe/supervise.go): a run at *)
(* start, then one run for every tick of a time.Ticker, whose channel      *)
(* holds one tick. A panic of Do is contained by tick; one of OnError is   *)
(* not, and unwinds out of Run to the supervisor, which runs the job anew  *)
(* after a backoff. What Do does is up to the module that composes this    *)
(* one with its work.                                                      *)
(***************************************************************************)
EXTENDS Integers

CONSTANT AtStart  \* Job.RunAtStart

ASSUME JobAssumption == AtStart \in BOOLEAN

VARIABLES
  job,      \* where the goroutine is
  ticker,   \* ticks in the ticker's channel; NoTicker before it is made
  stopped   \* the job's context is cancelled

jobVars == <<job, ticker, stopped>>

NoTicker == 2

\* Not started, in Do, in OnError, in the select of Run, in the supervisor's
\* backoff, or ended.
JobStates == {"off", "do", "onerror", "select", "backoff", "ended"}

JobInit == job = "off" /\ ticker = NoTicker /\ stopped = FALSE
-----------------------------------------------------------------------------
(* Plausible mistakes in this code, for checking that the properties see them *)

DoPanicsMut_Ends ==
  /\ job = "do"
  /\ job' = "ended" /\ ticker' = NoTicker
  /\ UNCHANGED stopped

SelectStopsMut_OnlyBetween ==
  /\ job = "select" /\ stopped /\ ticker = 0
  /\ job' = "ended" /\ ticker' = NoTicker
  /\ UNCHANGED stopped
-----------------------------------------------------------------------------
\* The start of Run, by Start or by a respawn.
RunBegins ==
  IF AtStart THEN job' = "do" /\ ticker' = NoTicker
                ELSE job' = "select" /\ ticker' = 0

\* safe.Go.
JobStarts == job = "off" /\ RunBegins /\ UNCHANGED stopped

\* tick is over: Run goes to its select, behind the first run with a new ticker.
Selects == job' = "select" /\ ticker' = IF ticker = NoTicker THEN 0 ELSE ticker

DoReturns == job = "do" /\ Selects /\ UNCHANGED stopped

\* safe.Do recovers the panic and tick skips OnError.
DoPanics == job = "do" /\ Selects /\ UNCHANGED stopped

\* The error goes to OnError, or to the log, which does not panic.
DoFails == job = "do" /\ job' = "onerror" /\ UNCHANGED <<ticker, stopped>>

OnErrorReturns == job = "onerror" /\ Selects /\ UNCHANGED stopped

\* The panic leaves tick and Run, whose defer stops the ticker, and reaches
\* runGuarded; backoff does not even begin once the context is cancelled.
OnErrorPanics ==
  /\ job = "onerror"
  /\ job' = IF stopped THEN "ended" ELSE "backoff"
  /\ ticker' = NoTicker
  /\ UNCHANGED stopped

\* The select takes a tick.
TickTaken == job = "select" /\ ticker = 1 /\ job' = "do" /\ ticker' = 0 /\ UNCHANGED stopped

\* The select takes ctx.Done(), be there a tick or not.
SelectStops ==
  /\ job = "select" /\ stopped
  /\ job' = "ended" /\ ticker' = NoTicker
  /\ UNCHANGED stopped

\* The supervisor's select, in which either case may be taken when both are
\* ready.
JobRespawns == job = "backoff" /\ RunBegins /\ UNCHANGED stopped
BackoffEnds == job = "backoff" /\ stopped /\ job' = "ended" /\ UNCHANGED <<ticker, stopped>>

\* The ticker drops a tick its channel has no room for.
TickerFires == ticker = 0 /\ ticker' = 1 /\ UNCHANGED <<job, stopped>>

\* Shutdown cancels the context.
JobCancelled == ~stopped /\ stopped' = TRUE /\ UNCHANGED <<job, ticker>>

JobTypeOK == job \in JobStates /\ ticker \in 0..NoTicker /\ stopped \in BOOLEAN
=============================================================================
