------------------------------ MODULE PushJob ------------------------------
(***************************************************************************)
(* A scheduled push: a jobs.Job whose Do is Sender.Send, as the delivery   *)
(* package expects ("a caller is typically a scheduler goroutine").        *)
(***************************************************************************)
EXTENDS Delivery, PeriodicJob

pushVars == <<slots, store, dead, send, deliveries, accepted, job, ticker, stopped>>

PushInit == DeliveryInit /\ JobInit

\* Do begins with the run.
JobAlone(A) == A /\ UNCHANGED deliveryVars
BeginsRun(A) ==
  /\ A
  /\ IF job' = "do" THEN SendBegins ELSE UNCHANGED deliveryVars

\* Do ends with Send, or with its panic.
RunSucceeds == DoReturns /\ ~send.err /\ SendForgotten
RunFails == DoFails /\ send.err /\ SendForgotten
RunPanics == DoPanics /\ SendPanics

\* The steps of Run and of its supervisor.
JobSteps ==
  \/ BeginsRun(TickTaken) \/ BeginsRun(JobRespawns)
  \/ RunSucceeds \/ RunFails \/ RunPanics
  \/ JobAlone(OnErrorReturns) \/ JobAlone(OnErrorPanics)
  \/ JobAlone(SelectStops) \/ JobAlone(BackoffEnds)

Sending ==
  \/ SendLists \/ SendListFails \/ Launches \/ SendReturns
  \/ \E e \in Endpoints : Delivering(e)

PushNext ==
  \/ BeginsRun(JobStarts) \/ JobSteps
  \/ JobAlone(TickerFires) \/ JobAlone(JobCancelled)
  \/ UNCHANGED jobVars /\ \E e \in Endpoints : BrowserDrops(e)
  \/ UNCHANGED jobVars /\ Sending

PushSpec == PushInit /\ [][PushNext]_pushVars

\* Goroutines run, the ticker fires, and a select that finds the context done
\* again and again takes it at last: it chooses among ready cases at random.
PushFairness ==
  /\ DeliveryFairness
  /\ WF_pushVars(JobSteps) /\ SF_pushVars(JobAlone(SelectStops)) /\ WF_jobVars(TickerFires)
-----------------------------------------------------------------------------
(* Properties *)

\* "the job is silently dead for the rest of the process's life" must not
\* happen: until its context is cancelled a started job begins one more run of
\* Do, over dead devices, failing lists, and panics of deliveries, of Do and of
\* OnError.
TicksGoOn == (job # "off") ~> (stopped \/ (job = "do" /\ send.pc = "list"))

\* A cancelled job ends, which is what the drain of app.Run waits for.
JobEnds == stopped /\ job # "off" ~> job = "ended"
=============================================================================
