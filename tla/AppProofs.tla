------------------------------ MODULE AppProofs ------------------------------
(***************************************************************************)
(* Proofs about the teardown of an application: the stack of steps         *)
(* (Lifecycle) for any steps and any callers of Shutdown, and what its     *)
(* steps act on (AppShutdown) for any requests, streams and background     *)
(* work.                                                                   *)
(***************************************************************************)
EXTENDS AppShutdown, SequenceTheorems, TLAPS
-----------------------------------------------------------------------------
(* lifecycle.Stack. Before Shutdown the stack is what Push accepted; after *)
(* it at most one caller holds steps, the ones that have not run yet, and  *)
(* they are a prefix of what was accepted.                                 *)

Sweeps(c) == pc[c] \in {"sweeping", "running"}

HeldSteps ==
  \A c \in Callers :
    /\ Sweeps(c) => /\ Len(rest[c]) + Len(ran) = Len(accepted)
                    /\ \A i \in 1..Len(rest[c]) : rest[c][i] = accepted[i]
    /\ pc[c] = "running" => rest[c] # <<>>
    /\ pc[c] \in {"ready", "returned"} => rest[c] = <<>>

SweepInv ==
  /\ ~done => /\ stack = accepted /\ ran = <<>>
              /\ \A c \in Callers : pc[c] = "ready"
  /\ \A c, d \in Callers : Sweeps(c) /\ Sweeps(d) => c = d
  /\ done => (\E c \in Callers : Sweeps(c)) \/ Len(ran) = Len(accepted)
  /\ HeldSteps

StackInv == StackTypeOK /\ SweepInv /\ ReverseOrder

LEMMA StackStarts == StackInit => StackInv
<1> SUFFICES ASSUME StackInit PROVE StackInv
  OBVIOUS
<1>1. <<>> \in Seq(Steps) /\ Len(ran) = 0 /\ Len(accepted) = 0
  BY EmptySeq DEF StackInit
<1>2. StackTypeOK
  BY <1>1 DEF StackInit, StackTypeOK, CallerState
<1>3. SweepInv /\ ReverseOrder
  BY <1>1 DEF StackInit, SweepInv, HeldSteps, Sweeps, ReverseOrder
<1> QED BY <1>2, <1>3 DEF StackInv

LEMMA PushKeeps ==
  ASSUME StackInv, NEW s \in Steps, Push(s)
  PROVE  StackInv'
<1>1. CASE done
  BY <1>1 DEF Push, StackInv, StackTypeOK, SweepInv, HeldSteps, Sweeps, ReverseOrder
<1>2. CASE ~done
  <2>1. accepted \in Seq(Steps) /\ stack = accepted /\ ran = <<>> /\ Len(ran) = 0
    BY <1>2, EmptySeq DEF StackInv, StackTypeOK, SweepInv
  <2>2. /\ accepted' = Append(accepted, s) /\ stack' = Append(accepted, s)
        /\ UNCHANGED <<done, pc, rest, errs, ran, failed>>
    BY <1>2, <2>1 DEF Push
  <2>3. accepted' \in Seq(Steps) /\ Len(accepted') = Len(accepted) + 1 /\ Len(accepted) \in Nat
    BY <2>1, <2>2, AppendProperties, LenProperties
  <2>4. StackTypeOK'
    BY <2>1, <2>2, <2>3 DEF StackInv, StackTypeOK
  <2>5. SweepInv'
    BY <1>2, <2>1, <2>2 DEF StackInv, SweepInv, HeldSteps, Sweeps
  <2>6. ReverseOrder'
    BY <2>1, <2>2, <2>3 DEF ReverseOrder
  <2> QED BY <2>4, <2>5, <2>6 DEF StackInv
<1> QED BY <1>1, <1>2

LEMMA ShutdownKeeps ==
  ASSUME StackInv, NEW c \in Callers, Shutdown(c)
  PROVE  StackInv'
<1>0. /\ stack \in Seq(Steps) /\ accepted \in Seq(Steps) /\ ran \in Seq(Steps)
      /\ Len(accepted) \in Nat /\ Len(ran) \in Nat
  BY LenProperties DEF StackInv, StackTypeOK
<1>1. CASE done
  <2>1. /\ pc' = [pc EXCEPT ![c] = "returned"] /\ rest' = rest
        /\ pc[c] = "ready" /\ UNCHANGED <<stack, done, errs, accepted, ran, failed>>
    BY <1>1 DEF Shutdown, StackInv, StackTypeOK, SweepInv, HeldSteps
  <2>2. StackTypeOK'
    BY <2>1 DEF StackInv, StackTypeOK, CallerState
  <2>3. SweepInv'
    BY <1>1, <2>1 DEF StackInv, StackTypeOK, SweepInv, HeldSteps, Sweeps
  <2> QED BY <2>1, <2>2, <2>3 DEF StackInv, ReverseOrder
<1>2. CASE ~done
  <2>1. /\ pc' = [pc EXCEPT ![c] = "sweeping"] /\ rest' = [rest EXCEPT ![c] = accepted]
        /\ done' = TRUE /\ stack' = <<>> /\ UNCHANGED <<errs, accepted, ran, failed>>
        /\ \A d \in Callers : pc[d] = "ready" /\ rest[d] = <<>>
        /\ ran = <<>> /\ Len(ran) = 0
    BY <1>2, EmptySeq DEF Shutdown, StackInv, SweepInv, HeldSteps
  <2>2. StackTypeOK'
    BY <1>0, <2>1, EmptySeq DEF StackInv, StackTypeOK, CallerState
  <2>3. \A d \in Callers : /\ pc'[d] = IF d = c THEN "sweeping" ELSE "ready"
                           /\ rest'[d] = IF d = c THEN accepted ELSE <<>>
    BY <2>1 DEF StackInv, StackTypeOK
  <2>4. SweepInv'
    BY <1>0, <2>1, <2>3 DEF SweepInv, HeldSteps, Sweeps
  <2> QED BY <1>0, <2>1, <2>2, <2>4 DEF StackInv, ReverseOrder
<1> QED BY <1>1, <1>2

LEMMA BeginKeeps ==
  ASSUME StackInv, NEW c \in Callers, StepBegins(c)
  PROVE  StackInv'
<1>1. \A d \in Callers : /\ Sweeps(d)' <=> Sweeps(d)
                         /\ pc'[d] = "running" => d = c \/ pc[d] = "running"
                         /\ pc'[d] \in {"ready", "returned"} => pc'[d] = pc[d]
  BY DEF StepBegins, StackInv, StackTypeOK, Sweeps
<1>2. StackTypeOK'
  BY DEF StepBegins, StackInv, StackTypeOK, CallerState
<1>3. HeldSteps'
  BY <1>1 DEF StepBegins, StackInv, SweepInv, HeldSteps
<1>4. done
  BY DEF StepBegins, StackInv, SweepInv
<1>5. SweepInv'
  BY <1>1, <1>3, <1>4 DEF StepBegins, StackInv, SweepInv
<1> QED BY <1>2, <1>5 DEF StackInv, ReverseOrder, StepBegins

LEMMA ReturnKeeps ==
  ASSUME StackInv, NEW c \in Callers, ShutdownReturns(c)
  PROVE  StackInv'
<1>1. \A d \in Callers : pc'[d] = IF d = c THEN "returned" ELSE pc[d]
  BY DEF ShutdownReturns, StackInv, StackTypeOK
<1>2. StackTypeOK'
  BY DEF ShutdownReturns, StackInv, StackTypeOK, CallerState
<1>3. done /\ Len(ran) = Len(accepted)
  <2>1. Len(rest[c]) = 0 /\ Sweeps(c)
    BY EmptySeq DEF ShutdownReturns, Sweeps
  <2>2. Len(rest[c]) + Len(ran) = Len(accepted)
    BY <2>1 DEF StackInv, SweepInv, HeldSteps
  <2>3. Len(ran) \in Nat
    BY LenProperties DEF StackInv, StackTypeOK
  <2> QED BY <2>1, <2>2, <2>3 DEF ShutdownReturns, StackInv, SweepInv
<1>4. SweepInv'
  BY <1>1, <1>3 DEF ShutdownReturns, StackInv, SweepInv, HeldSteps, Sweeps
<1> QED BY <1>2, <1>4 DEF StackInv, ReverseOrder, ShutdownReturns

\* What slices.Backward leaves once it has passed the last element.
LEMMA ButLast ==
  ASSUME NEW S, NEW s \in Seq(S), Len(s) \in Nat \ {0}
  PROVE  LET n == Len(s) - 1  f == SubSeq(s, 1, n) IN
           f \in Seq(S) /\ Len(f) = n /\ \A i \in 1..n : f[i] = s[i]
<1> DEFINE n == Len(s) - 1
<1>1. n \in Nat /\ \A i \in 1..n : s[i] \in S
  BY ElementOfSeq
<1> HIDE DEF n
<1> DEFINE f == SubSeq(s, 1, n)
<1>2. /\ f \in Seq(S)
      /\ Len(f) = IF 1 <= n THEN n - 1 + 1 ELSE 0
      /\ \A i \in 1..(n - 1 + 1) : f[i] = s[1 + i - 1]
  BY <1>1, SubSeqProperties
<1> HIDE DEF f
<1>3. f \in Seq(S) /\ Len(f) = n /\ \A i \in 1..n : f[i] = s[i]
  BY <1>1, <1>2
<1> QED BY <1>3 DEF n, f

\* A step that ends is the last accepted one that had not run, and it is the
\* only thing the sweep moves over.
LEMMA StepIsNext ==
  ASSUME StackInv, NEW c \in Callers, NEW out, StepEnds(c, out)
  PROVE  /\ Len(accepted) \in Nat /\ Len(ran) \in Nat
         /\ Len(rest[c]) = Len(accepted) - Len(ran) /\ Len(rest[c]) \in 1..Len(accepted)
         /\ Current(c) = accepted[Len(rest[c])] /\ Current(c) \in Steps
         /\ ran' = Append(ran, Current(c)) /\ ran' \in Seq(Steps)
         /\ Len(ran') = Len(ran) + 1
         /\ rest'[c] \in Seq(Steps) /\ Len(rest'[c]) = Len(rest[c]) - 1
         /\ \A i \in 1..Len(rest'[c]) : rest'[c][i] = accepted[i]
         /\ done /\ UNCHANGED <<stack, done, accepted>>
<1>1. /\ pc[c] = "running" /\ Sweeps(c) /\ rest[c] # <<>> /\ rest[c] \in Seq(Steps)
      /\ accepted \in Seq(Steps) /\ ran \in Seq(Steps) /\ done
      /\ rest \in [Callers -> Seq(Steps)]
  BY DEF StepEnds, StackInv, StackTypeOK, SweepInv, HeldSteps, Sweeps
<1>2. Len(rest[c]) \in Nat \ {0} /\ Len(accepted) \in Nat /\ Len(ran) \in Nat
  BY <1>1, EmptySeq, LenProperties
<1>3. /\ Len(rest[c]) + Len(ran) = Len(accepted)
      /\ \A i \in 1..Len(rest[c]) : rest[c][i] = accepted[i]
  BY <1>1 DEF StackInv, SweepInv, HeldSteps
<1>4. Current(c) = accepted[Len(rest[c])] /\ Current(c) \in Steps
  BY <1>1, <1>2, <1>3, ElementOfSeq DEF Current
<1>5. ran' = Append(ran, Current(c)) /\ ran' \in Seq(Steps) /\ Len(ran') = Len(ran) + 1
  BY <1>1, <1>4, AppendProperties DEF StepEnds, Current
<1>6. rest'[c] = SubSeq(rest[c], 1, Len(rest[c]) - 1)
  BY <1>1 DEF StepEnds
<1>9. rest'[c] \in Seq(Steps) /\ Len(rest'[c]) = Len(rest[c]) - 1
      /\ \A i \in 1..(Len(rest[c]) - 1) : rest'[c][i] = rest[c][i]
  BY <1>1, <1>2, <1>6, ButLast
<1>10. \A i \in 1..Len(rest'[c]) : rest'[c][i] = accepted[i]
  BY <1>2, <1>3, <1>9
<1> QED BY <1>1, <1>2, <1>3, <1>4, <1>5, <1>9, <1>10 DEF StepEnds

LEMMA EndKeeps ==
  ASSUME StackInv, NEW c \in Callers, NEW out, StepEnds(c, out)
  PROVE  StackInv'
<1>1. /\ pc \in [Callers -> CallerState] /\ rest \in [Callers -> Seq(Steps)]
      /\ pc' = [pc EXCEPT ![c] = "sweeping"] /\ pc[c] = "running"
      /\ \A d \in Callers \ {c} : rest'[d] = rest[d] /\ pc'[d] = pc[d] /\ ~Sweeps(d)
      /\ rest' = [rest EXCEPT ![c] = rest'[c]]
  BY DEF StepEnds, StackInv, StackTypeOK, SweepInv, Sweeps
<1>2. StackTypeOK'
  <2>1. errs' \in [Callers -> SUBSET Steps] /\ failed' \in SUBSET Steps
    BY StepIsNext DEF StepEnds, StackInv, StackTypeOK, Current
  <2> QED BY <1>1, <2>1, StepIsNext DEF StackInv, StackTypeOK, CallerState
<1>3. \A d \in Callers \ {c} : ~Sweeps(d)' /\ rest'[d] = <<>> /\ pc'[d] # "running"
  BY <1>1 DEF StackInv, StackTypeOK, CallerState, SweepInv, HeldSteps, Sweeps
<1>4. HeldSteps'
  <2>0. /\ Len(accepted) \in Nat /\ Len(ran) \in Nat /\ accepted' = accepted
        /\ Len(rest[c]) = Len(accepted) - Len(ran)
        /\ Len(ran') = Len(ran) + 1 /\ Len(rest'[c]) = Len(rest[c]) - 1
        /\ \A i \in 1..Len(rest'[c]) : rest'[c][i] = accepted[i]
    BY StepIsNext
  <2>1. Len(rest'[c]) + Len(ran') = Len(accepted')
    BY <2>0
  <2>2. pc'[c] = "sweeping"
    BY <1>1
  <2>3. ASSUME NEW d \in Callers
        PROVE  /\ Sweeps(d)' => /\ Len(rest'[d]) + Len(ran') = Len(accepted')
                                /\ \A i \in 1..Len(rest'[d]) : rest'[d][i] = accepted'[i]
               /\ pc'[d] = "running" => rest'[d] # <<>>
               /\ pc'[d] \in {"ready", "returned"} => rest'[d] = <<>>
    <3>1. CASE d = c
      BY <2>0, <2>1, <2>2, <3>1
    <3>2. CASE d # c
      BY <1>3, <3>2
    <3> QED BY <3>1, <3>2
  <2> QED BY <2>3 DEF HeldSteps
<1>5. Sweeps(c)'
  BY <1>1 DEF Sweeps
<1>6. SweepInv'
  BY <1>3, <1>4, <1>5, StepIsNext DEF SweepInv
<1>7. ReverseOrder'
  <2>1. Len(ran') <= Len(accepted')
    BY StepIsNext
  <2>2. ASSUME NEW i \in 1..Len(ran') PROVE ran'[i] = accepted'[Len(accepted') + 1 - i]
    <3>0. ran \in Seq(Steps) /\ Current(c) \in Steps
      BY StepIsNext DEF StackInv, StackTypeOK
    <3>1. CASE i = Len(ran) + 1
      BY <3>0, <3>1, StepIsNext, AppendProperties
    <3>2. CASE i \in 1..Len(ran)
      <4>0. ran' = Append(ran, Current(c))
        BY StepIsNext
      <4>1. ran'[i] = ran[i]
        BY <3>0, <3>2, <4>0, AppendProperties
      <4>2. ran[i] = accepted[Len(accepted) + 1 - i]
        BY <3>2 DEF StackInv, ReverseOrder
      <4> QED BY <4>1, <4>2, StepIsNext
    <3> QED BY <3>1, <3>2, StepIsNext
  <2> QED BY <2>1, <2>2 DEF ReverseOrder
<1> QED BY <1>2, <1>6, <1>7 DEF StackInv

LEMMA StackSteps == StackInv /\ [StackNext]_stackVars => StackInv'
<1> SUFFICES ASSUME StackInv, [StackNext]_stackVars PROVE StackInv'
  OBVIOUS
<1>1. CASE \E s \in Steps : Push(s)
  BY <1>1, PushKeeps
<1>2. ASSUME NEW c \in Callers, Shutdown(c) PROVE StackInv'
  BY <1>2, ShutdownKeeps
<1>3. ASSUME NEW c \in Callers, StepBegins(c) PROVE StackInv'
  BY <1>3, BeginKeeps
<1>4. ASSUME NEW c \in Callers, ShutdownReturns(c) PROVE StackInv'
  BY <1>4, ReturnKeeps
<1>5. ASSUME NEW c \in Callers, NEW out \in Outcome, StepEnds(c, out) PROVE StackInv'
  BY <1>5, EndKeeps
<1>6. CASE UNCHANGED stackVars
  BY <1>6 DEF stackVars, StackInv, StackTypeOK, SweepInv, HeldSteps, Sweeps, ReverseOrder
<1> QED BY <1>1, <1>2, <1>3, <1>4, <1>5, <1>6 DEF StackNext

\* ReverseOrder for lifecycle.Stack alone: however Push and any number of calls
\* of Shutdown interleave, the steps run once each and in reverse.
THEOREM StackCorrect == StackSpec => []ReverseOrder
<1>1. StackInv => ReverseOrder
  BY DEF StackInv
<1> QED BY StackStarts, StackSteps, <1>1, PTL DEF StackSpec
-----------------------------------------------------------------------------
(* The application. Its steps are an initial part of BootOrder, so how many *)
(* of them are left tells which have run. The api step leaves a draining    *)
(* server without requests or has failed, the join leaves no work that a    *)
(* drained server could have started or has failed, and the rest of the     *)
(* invariant ties the context, the streams and the store to their steps.    *)

Left == Len(accepted) - Len(ran)

BootInv ==
  /\ Len(accepted) <= Len(BootOrder)
  /\ \A i \in 1..Len(accepted) : accepted[i] = BootOrder[i]
  /\ main = "wiring" => Len(accepted) <= WiredSteps /\ listener = "off"

ServerInv ==
  /\ listener \in {"off", "starting", "failed"} => Active = {}
  /\ listener = "draining" /\ Len(accepted) >= 6 /\ Left < 6 => Active = {} \/ "api" \in failed
  /\ drained => /\ listener = "draining" /\ Active = {}
                /\ done /\ Len(accepted) >= 6 /\ Left < 6
  /\ drained /\ Left < 4 /\ "background-work" \notin failed => Running = {}

StepInv ==
  /\ ~storeOpen => done /\ Left < 3
  /\ ctxDone => done /\ (Left < 6 \/ \E c \in Callers : pc[c] = "returned")
  /\ Len(accepted) = 7 /\ Left < 7 => streamsOff

AppTypeOK ==
  /\ main \in {"wiring", "run", "serving", "closing", "returned", "exiting"}
  /\ listener \in {"off", "starting", "serving", "failed", "draining"}
  /\ req \in [Requests -> {"none", "active", "done"}]
  /\ job \in [Jobs -> {"none", "running", "done"}]
  /\ ctxDone \in BOOLEAN /\ streamsOff \in BOOLEAN
  /\ storeOpen \in BOOLEAN /\ drained \in BOOLEAN

AppInv == StackInv /\ AppTypeOK /\ BootInv /\ ServerInv /\ StepInv

LEMMA BootFacts ==
  /\ Len(BootOrder) = 7 /\ WiredSteps = 3
  /\ BootOrder[1] = "tracing" /\ BootOrder[2] = "metrics-export" /\ BootOrder[3] = "store"
  /\ BootOrder[4] = "background-work" /\ BootOrder[5] = "background-context"
  /\ BootOrder[6] = "api" /\ BootOrder[7] = "streams"
BY DEF BootOrder, WiredSteps

\* Every name has one place in the order.
LEMMA Places ==
  ASSUME NEW i \in 1..7
  PROVE  /\ BootOrder[i] = "streams" <=> i = 7
         /\ BootOrder[i] = "api" <=> i = 6
         /\ BootOrder[i] = "background-context" <=> i = 5
         /\ BootOrder[i] = "background-work" <=> i = 4
         /\ BootOrder[i] = "store" <=> i = 3
<1>1. i = 1 \/ i = 2 \/ i = 3 \/ i = 4 \/ i = 5 \/ i = 6 \/ i = 7
  OBVIOUS
<1> QED BY <1>1, BootFacts

\* The application drives its stack through Push and Shutdown only.
LEMMA AppStackStep ==
  ASSUME AppInv, [Next]_vars
  PROVE  [StackNext]_stackVars
<1>0. Len(accepted) \in Nat
  BY LenProperties DEF AppInv, StackInv, StackTypeOK
<1>1. CASE PushNext \/ PushRefused
  <2>1. Len(accepted) + 1 \in 1..Len(BootOrder)
    BY <1>0, <1>1, BootFacts DEF PushNext, PushRefused
  <2>2. BootOrder[Len(accepted) + 1] \in Steps
    BY <2>1, BootAssumption
  <2>3. Push(BootOrder[Len(accepted) + 1])
    BY <1>1 DEF PushNext, PushRefused
  <2> QED BY <2>2, <2>3 DEF StackNext
<1>2. CASE RunStops \/ DeferredStarts
  BY <1>2, BootAssumption DEF RunStops, DeferredStarts, StackNext
<1>3. ASSUME NEW c \in Callers, OtherCloses(c) \/ AppStepBegins(c) \/ SweepEnds(c)
      PROVE  StackNext
  BY <1>3 DEF OtherCloses, AppStepBegins, SweepEnds, StackNext
<1>4. ASSUME NEW c \in Callers, AppStepEnds(c) PROVE StackNext
  <2>1. PICK out \in Outcome : StepEnds(c, out)
    BY <1>4 DEF AppStepEnds, StreamsStep, ContextStep, ApiStep, WorkStep, StoreStep,
       TelemetryStep, Outcome
  <2> QED BY <2>1 DEF StackNext
<1>5. CASE RunStarts \/ RunWaits \/ Server \/ UNCHANGED vars
  BY <1>5 DEF RunStarts, RunWaits, Server, ListenServes, ListenFails, RequestStarts, RequestEnds,
     WorkStarts, WorkEnds, vars
<1>6. ASSUME NEW c \in Callers, CloseTail(c) PROVE UNCHANGED stackVars
  BY <1>6 DEF CloseTail
<1> QED BY <1>1, <1>2, <1>3, <1>4, <1>5, <1>6 DEF Next, Main, Closing

\* How many steps are left, and what a step of a sweep does to it.
LEMMA Counts ==
  ASSUME AppInv
  PROVE  /\ Len(accepted) \in Nat /\ Len(ran) \in Nat /\ Len(accepted) <= 7
         /\ Left \in 0..7 /\ Left <= Len(accepted)
         /\ ~done => Left = Len(accepted)
         /\ "api" \in Elems(accepted) <=> Len(accepted) >= 6
         /\ "api" \in Elems(ran) <=> (Len(accepted) >= 6 /\ Left < 6)
<1>1. accepted \in Seq(Steps) /\ ran \in Seq(Steps)
  BY DEF AppInv, StackInv, StackTypeOK
<1>2. /\ Len(accepted) \in Nat /\ Len(ran) \in Nat
      /\ DOMAIN accepted = 1..Len(accepted) /\ DOMAIN ran = 1..Len(ran)
  BY <1>1, LenProperties
<1>3. /\ Len(accepted) <= 7 /\ Len(ran) <= Len(accepted)
      /\ \A i \in 1..Len(accepted) : accepted[i] = BootOrder[i]
      /\ \A i \in 1..Len(ran) : ran[i] = accepted[Len(accepted) + 1 - i]
  BY BootFacts DEF AppInv, BootInv, StackInv, ReverseOrder
<1>0. /\ Len(accepted) \in Nat /\ Len(ran) \in Nat
      /\ Len(accepted) <= 7 /\ Len(ran) <= Len(accepted)
  BY <1>2, <1>3
<1>4. ~done => Left = Len(accepted)
  BY <1>2, EmptySeq DEF AppInv, StackInv, SweepInv, Left
<1>5. "api" \in Elems(accepted) <=> Len(accepted) >= 6
  <2>1. "api" \in Elems(accepted) <=> \E i \in 1..Len(accepted) : BootOrder[i] = "api"
    BY <1>2, <1>3 DEF Elems
  <2>2. \A i \in 1..Len(accepted) : BootOrder[i] = "api" <=> i = 6
    BY <1>2, <1>3, Places
  <2> QED BY <1>2, <2>1, <2>2
<1>6. "api" \in Elems(ran) <=> (Len(accepted) >= 6 /\ Left < 6)
  <2>1. \A i \in 1..Len(ran) : /\ Len(accepted) + 1 - i \in 1..7
                               /\ ran[i] = BootOrder[Len(accepted) + 1 - i]
    <3> TAKE i \in 1..Len(ran)
    <3>1. Len(accepted) + 1 - i \in 1..Len(accepted) /\ Len(accepted) + 1 - i \in 1..7
      BY <1>0
    <3> QED BY <1>3, <3>1
  <2>2. \A i \in 1..Len(ran) : ran[i] = "api" <=> i = Len(accepted) - 5
    <3> TAKE i \in 1..Len(ran)
    <3>1. ran[i] = "api" <=> Len(accepted) + 1 - i = 6
      <4>1. PICK k \in 1..7 : k = Len(accepted) + 1 - i /\ ran[i] = BootOrder[k]
        BY <2>1
      <4>2. BootOrder[k] = "api" <=> k = 6
        BY Places
      <4> QED BY <4>1, <4>2
    <3>2. Len(accepted) + 1 - i = 6 <=> i = Len(accepted) - 5
      BY <1>0
    <3> QED BY <3>1, <3>2
  <2>3. "api" \in Elems(ran) <=> Len(accepted) - 5 \in 1..Len(ran)
    BY <1>2, <2>2 DEF Elems
  <2>4. Len(accepted) - 5 \in 1..Len(ran) <=> (Len(accepted) >= 6 /\ Left < 6)
    BY <1>0 DEF Left
  <2> QED BY <2>3, <2>4
<1>7. Left \in 0..7 /\ Left <= Len(accepted)
  BY <1>0 DEF Left
<1> QED BY <1>0, <1>4, <1>5, <1>6, <1>7

LEMMA StepOf ==
  ASSUME AppInv, NEW c \in Callers, NEW out, StepEnds(c, out)
  PROVE  /\ Left \in 1..7 /\ Left' = Left - 1 /\ done /\ done' = done /\ accepted' = accepted
         /\ Current(c) = BootOrder[Left]
         /\ failed' = IF out = "ok" THEN failed ELSE failed \cup {BootOrder[Left]}
         /\ \A d \in Callers : pc[d] = "returned" => pc'[d] = "returned"
<1>0. StackInv /\ BootInv
  BY DEF AppInv
<1>1. /\ Len(accepted) \in Nat /\ Len(ran) \in Nat
      /\ Len(rest[c]) = Left /\ Left \in 1..Len(accepted)
      /\ Current(c) = accepted[Left]
      /\ Len(ran') = Len(ran) + 1 /\ done /\ UNCHANGED <<done, accepted>>
  BY <1>0, StepIsNext DEF Left
<1>2. Left \in 1..7 /\ Current(c) = BootOrder[Left]
  BY <1>0, <1>1, BootFacts DEF BootInv
<1>3. Left' = Left - 1
  BY <1>1 DEF Left
<1>4. failed' = IF out = "ok" THEN failed ELSE failed \cup {BootOrder[Left]}
  BY <1>2 DEF StepEnds, Current
<1>5. \A d \in Callers : pc[d] = "returned" => pc'[d] = "returned"
  BY <1>0 DEF StepEnds, StackInv, StackTypeOK
<1> QED BY <1>1, <1>2, <1>3, <1>4, <1>5

AppRest == AppTypeOK /\ BootInv /\ ServerInv /\ StepInv

\* Boot and Run.
LEMMA PushNextKeeps ==
  ASSUME AppInv, PushNext
  PROVE  AppRest'
<1>1. ~done /\ done' = done /\ Len(accepted) < 7 /\ UNCHANGED appVars
  BY BootFacts DEF PushNext, Push
<1>2. accepted \in Seq(Steps) /\ ran = <<>> /\ ran' = <<>> /\ Len(accepted) \in Nat
  BY <1>1, Counts DEF PushNext, Push, AppInv, StackInv, StackTypeOK, SweepInv
<1>3. Len(accepted) + 1 \in 1..7 /\ BootOrder[Len(accepted) + 1] \in Steps
  <2>1. Len(accepted) + 1 \in 1..Len(BootOrder)
    BY <1>1, <1>2, BootFacts
  <2> QED BY <2>1, BootFacts, BootAssumption
<1>4. accepted' = Append(accepted, BootOrder[Len(accepted) + 1])
  BY <1>1 DEF PushNext, Push
<1>5. /\ Len(accepted') = Len(accepted) + 1
      /\ \A i \in 1..Len(accepted) : accepted'[i] = accepted[i]
      /\ accepted'[Len(accepted) + 1] = BootOrder[Len(accepted) + 1]
  BY <1>2, <1>3, <1>4, AppendProperties
<1>6. BootInv'
  <2>1. main = "wiring" => Len(accepted) < 3 /\ listener = "off"
    BY <1>2, BootFacts DEF PushNext, AppInv, BootInv
  <2>2. \A i \in 1..Len(accepted') : accepted'[i] = BootOrder[i]
    BY <1>2, <1>5 DEF AppInv, BootInv
  <2> QED BY <1>1, <1>2, <1>5, <2>1, <2>2, BootFacts DEF BootInv, appVars
<1>7. Left' = Len(accepted')
  BY <1>2, <1>5, EmptySeq DEF Left
<1>8. ~drained /\ storeOpen /\ ~ctxDone
  BY <1>1 DEF AppInv, ServerInv, StepInv
<1>9. ServerInv'
  BY <1>1, <1>2, <1>5, <1>7, <1>8 DEF AppInv, ServerInv, appVars, Active, Running
<1>10. StepInv'
  BY <1>1, <1>2, <1>5, <1>7, <1>8 DEF StepInv, appVars
<1> QED BY <1>1, <1>6, <1>9, <1>10 DEF AppRest, AppInv, AppTypeOK, appVars

LEMMA WiringKeeps ==
  ASSUME AppInv, PushRefused \/ RunStarts \/ RunWaits
  PROVE  AppRest'
<1>1. /\ UNCHANGED <<done, accepted, ran, failed, pc, req, job, ctxDone, streamsOff, storeOpen, drained>>
      /\ main' \in {"serving", "run"} 
  BY DEF PushRefused, RunStarts, RunWaits, Push, stackVars
<1>2. Left' = Left
  BY <1>1 DEF Left
<1>3. listener' = listener \/ (listener' = "starting" /\ listener = "off")
  BY DEF PushRefused, RunStarts, RunWaits, AppInv, BootInv
<1>4. AppTypeOK'
  BY <1>1, <1>3 DEF AppInv, AppTypeOK
<1>5. BootInv' /\ StepInv'
  BY <1>1, <1>2 DEF AppInv, BootInv, StepInv
<1>6. ServerInv'
  BY <1>1, <1>2, <1>3 DEF AppInv, ServerInv, Active, Running
<1> QED BY <1>4, <1>5, <1>6 DEF AppRest

\* Calls of Close: Shutdown begins or finds that another call has, and an
\* earlier caller that returned stays so.
LEMMA ShutdownCallKeeps ==
  ASSUME AppInv, NEW c \in Callers, Shutdown(c),
         UNCHANGED <<listener, req, job, ctxDone, streamsOff, storeOpen, drained>>,
         main' = main \/ main' \in {"closing", "exiting"}
  PROVE  AppRest'
<1>1. /\ done' = TRUE /\ UNCHANGED <<accepted, ran, failed>>
      /\ \A d \in Callers : pc[d] = "returned" => pc'[d] = "returned"
  BY DEF Shutdown, AppInv, StackInv, StackTypeOK
<1>2. Left' = Left
  BY <1>1 DEF Left
<1>3. AppTypeOK'
  BY DEF AppInv, AppTypeOK
<1>4. BootInv'
  BY <1>1 DEF AppInv, BootInv
<1>5. ServerInv'
  BY <1>1, <1>2 DEF AppInv, ServerInv, Active, Running
<1>6. StepInv'
  BY <1>1, <1>2 DEF AppInv, StepInv
<1> QED BY <1>3, <1>4, <1>5, <1>6 DEF AppRest

LEMMA CloseKeeps ==
  ASSUME AppInv, NEW c \in Callers, RunStops \/ DeferredStarts \/ OtherCloses(c)
  PROVE  AppRest'
<1>1. RunClose \in Callers /\ DeferredClose \in Callers
  BY BootAssumption
<1>2. CASE RunStops
  BY <1>1, <1>2, ShutdownCallKeeps DEF RunStops
<1>3. CASE DeferredStarts
  BY <1>1, <1>3, ShutdownCallKeeps DEF DeferredStarts
<1>4. CASE OtherCloses(c)
  BY <1>4, ShutdownCallKeeps DEF OtherCloses, appVars
<1> QED BY <1>2, <1>3, <1>4

LEMMA TailKeeps ==
  ASSUME AppInv, NEW c \in Callers, CloseTail(c)
  PROVE  AppRest'
<1>1. /\ UNCHANGED <<done, accepted, ran, failed, pc, listener, req, job, storeOpen, drained>>
      /\ ctxDone' = TRUE /\ streamsOff' = TRUE /\ pc[c] = "returned"
      /\ main' = main \/ main' = "returned"
  BY DEF CloseTail, stackVars
<1>2. Left' = Left /\ done
  BY <1>1 DEF Left, AppInv, StackInv, SweepInv
<1>3. AppTypeOK' /\ BootInv'
  BY <1>1 DEF AppInv, AppTypeOK, BootInv
<1>4. ServerInv'
  BY <1>1, <1>2 DEF AppInv, ServerInv, Active, Running
<1>5. StepInv'
  BY <1>1, <1>2 DEF AppInv, StepInv
<1> QED BY <1>3, <1>4, <1>5 DEF AppRest

\* The server and the work: a drained server takes no request, and then only
\* work that is running starts work.
LEMMA ServerKeeps ==
  ASSUME AppInv, Server
  PROVE  AppRest'
<1>1. /\ UNCHANGED <<done, accepted, ran, failed, pc, main, ctxDone, streamsOff, storeOpen, drained>>
  BY DEF Server, ListenServes, ListenFails, RequestStarts, RequestEnds, WorkStarts, WorkEnds, stackVars
<1>2. Left' = Left
  BY <1>1 DEF Left
<1>3. StepInv'
  BY <1>1, <1>2 DEF AppInv, StepInv
<1>4. CASE ListenServes \/ ListenFails
  <2>1. /\ listener = "starting" /\ listener' \in {"serving", "failed"} /\ UNCHANGED <<req, job>>
    BY <1>4 DEF ListenServes, ListenFails
  <2>2. AppTypeOK' /\ BootInv'
    BY <1>1, <2>1 DEF AppInv, AppTypeOK, BootInv
  <2>3. ServerInv'
    BY <1>1, <1>2, <2>1 DEF AppInv, ServerInv, Active, Running
  <2> QED BY <1>3, <2>2, <2>3 DEF AppRest
<1>5. ASSUME NEW r \in Requests, RequestStarts(r) PROVE AppRest'
  <2>1. listener = "serving" /\ UNCHANGED <<listener, job>> /\ req' = [req EXCEPT ![r] = "active"]
    BY <1>5 DEF RequestStarts
  <2>2. AppTypeOK' /\ BootInv'
    BY <1>1, <2>1 DEF AppInv, AppTypeOK, BootInv
  <2>3. ServerInv'
    BY <1>1, <1>2, <2>1 DEF AppInv, ServerInv, Running
  <2> QED BY <1>3, <2>2, <2>3 DEF AppRest
<1>6. ASSUME NEW r \in Requests, RequestEnds(r) PROVE AppRest'
  <2>1. UNCHANGED <<listener, job>> /\ req' = [req EXCEPT ![r] = "done"]
    BY <1>6 DEF RequestEnds
  <2>2. AppTypeOK' /\ BootInv'
    BY <1>1, <2>1 DEF AppInv, AppTypeOK, BootInv
  <2>3. Active' \subseteq Active
    BY <2>1 DEF Active, AppInv, AppTypeOK
  <2>4. Running' = Running
    BY <2>1 DEF Running
  <2>5. ServerInv'
    BY <1>1, <1>2, <2>1, <2>3, <2>4 DEF AppInv, ServerInv
  <2> QED BY <1>3, <2>2, <2>5 DEF AppRest
<1>7. ASSUME NEW j \in Jobs, WorkStarts(j) PROVE AppRest'
  <2>1. /\ UNCHANGED <<listener, req>> /\ job' = [job EXCEPT ![j] = "running"]
        /\ main = "wiring" \/ Active # {} \/ Running # {}
    BY <1>7 DEF WorkStarts
  <2>2. AppTypeOK' /\ BootInv'
    BY <1>1, <2>1 DEF AppInv, AppTypeOK, BootInv
  <2>3. Active' = Active
    BY <2>1 DEF Active
  <2>4. ~(drained /\ Left < 4 /\ "background-work" \notin failed)
    BY <2>1 DEF AppInv, BootInv, ServerInv
  <2>5. ServerInv'
    BY <1>1, <1>2, <2>1, <2>3, <2>4 DEF AppInv, ServerInv
  <2> QED BY <1>3, <2>2, <2>5 DEF AppRest
<1>8. ASSUME NEW j \in Jobs, WorkEnds(j) PROVE AppRest'
  <2>1. UNCHANGED <<listener, req>> /\ job' = [job EXCEPT ![j] = "done"]
    BY <1>8 DEF WorkEnds
  <2>2. AppTypeOK' /\ BootInv'
    BY <1>1, <2>1 DEF AppInv, AppTypeOK, BootInv
  <2>3. Active' = Active
    BY <2>1 DEF Active
  <2>4. Running' \subseteq Running
    BY <2>1 DEF Running, AppInv, AppTypeOK
  <2>5. ServerInv'
    BY <1>1, <1>2, <2>1, <2>3, <2>4 DEF AppInv, ServerInv
  <2> QED BY <1>3, <2>2, <2>5 DEF AppRest
<1> QED BY <1>4, <1>5, <1>6, <1>7, <1>8 DEF Server

\* The sweep.
LEMMA BeginsKeeps ==
  ASSUME AppInv, NEW c \in Callers, AppStepBegins(c)
  PROVE  AppRest'
<1>1. /\ UNCHANGED <<done, accepted, ran, failed, main, req, job, ctxDone, streamsOff, storeOpen, drained>>
      /\ \A d \in Callers : pc[d] = "returned" => pc'[d] = "returned"
      /\ listener' = IF Current(c) = "api" /\ listener = "serving" THEN "draining" ELSE listener
  BY DEF AppStepBegins, StepBegins, AppInv, StackInv, StackTypeOK
<1>2. Left' = Left /\ Active' = Active /\ Running' = Running
  BY <1>1 DEF Left, Active, Running
<1>3. Current(c) = "api" => Left = 6
  <2>1. /\ rest[c] # <<>> /\ rest[c] \in Seq(Steps) /\ Sweeps(c)
    BY DEF AppStepBegins, StepBegins, AppInv, StackInv, StackTypeOK, Sweeps
  <2>2. Len(rest[c]) \in Nat \ {0}
    BY <2>1, EmptySeq
  <2>3. /\ Len(rest[c]) + Len(ran) = Len(accepted)
        /\ \A i \in 1..Len(rest[c]) : rest[c][i] = accepted[i]
    BY <2>1 DEF AppInv, StackInv, SweepInv, HeldSteps
  <2>4. Left = Len(rest[c]) /\ Left \in 1..Len(accepted) /\ Left \in 1..7
    BY <2>2, <2>3, Counts DEF Left
  <2>5. Current(c) = BootOrder[Left]
    BY <2>3, <2>4 DEF Current, AppInv, BootInv
  <2> QED BY <2>4, <2>5, Places
<1>4. AppTypeOK' /\ StepInv'
  BY <1>1, <1>2 DEF AppInv, AppTypeOK, StepInv
<1>5. BootInv'
  BY <1>1 DEF AppInv, BootInv
<1>6. ServerInv'
  BY <1>1, <1>2, <1>3 DEF AppInv, ServerInv
<1> QED BY <1>4, <1>5, <1>6 DEF AppRest

LEMMA SweepEndKeeps ==
  ASSUME AppInv, NEW c \in Callers, SweepEnds(c)
  PROVE  AppRest'
<1>1. /\ UNCHANGED <<done, accepted, ran, failed>> /\ UNCHANGED appVars
      /\ \A d \in Callers : pc[d] = "returned" => pc'[d] = "returned"
  BY DEF SweepEnds, ShutdownReturns, AppInv, StackInv, StackTypeOK
<1>2. Left' = Left /\ Active' = Active /\ Running' = Running
  BY <1>1 DEF Left, Active, Running, appVars
<1>3. AppTypeOK' /\ BootInv'
  BY <1>1 DEF AppInv, AppTypeOK, BootInv, appVars
<1>4. ServerInv' /\ StepInv'
  BY <1>1, <1>2 DEF AppInv, ServerInv, StepInv, appVars
<1> QED BY <1>3, <1>4 DEF AppRest

\* A step that is not the api step and leaves the server and its work alone:
\* what remains to show is what the step does to its own resource.
LEMMA PlainStepKeeps ==
  ASSUME AppInv, NEW c \in Callers, NEW out \in Outcome, StepEnds(c, out), Left # 6,
         Left = 4 => (out = "ok" => Running = {}),
         UNCHANGED <<main, listener, req, job, drained>>,
         ctxDone' \in BOOLEAN, streamsOff' \in BOOLEAN, storeOpen' \in BOOLEAN, StepInv'
  PROVE  AppRest'
<1>1. /\ Left \in 1..7 /\ Left' = Left - 1 /\ done /\ done' = done /\ accepted' = accepted
      /\ failed' = IF out = "ok" THEN failed ELSE failed \cup {BootOrder[Left]}
  BY StepOf
<1>2. Active' = Active /\ Running' = Running
  BY DEF Active, Running
<1>3. AppTypeOK' /\ BootInv'
  BY <1>1 DEF AppInv, AppTypeOK, BootInv
<1>4. failed \subseteq failed' /\ (Left = 4 /\ out # "ok" => "background-work" \in failed')
  BY <1>1, BootFacts
<1>5. Len(accepted) \in Nat
  BY Counts
<1>6. /\ listener' \in {"off", "starting", "failed"} => Active' = {}
      /\ listener' = "draining" /\ Len(accepted') >= 6 /\ Left' < 6 => Active' = {} \/ "api" \in failed'
  BY <1>1, <1>2, <1>4, <1>5 DEF AppInv, ServerInv
<1>7. drained' => /\ listener' = "draining" /\ Active' = {}
                  /\ done' /\ Len(accepted') >= 6 /\ Left' < 6
  BY <1>1, <1>2, <1>5 DEF AppInv, ServerInv
<1>8. drained' /\ Left' < 4 /\ "background-work" \notin failed' => Running' = {}
  <2>1. CASE Left = 4
    BY <1>1, <1>2, <1>4, <2>1
  <2>2. CASE Left < 4
    BY <1>1, <1>2, <1>4, <2>2 DEF AppInv, ServerInv
  <2>3. CASE Left > 4
    BY <1>1, <2>3
  <2> QED BY <1>1, <2>1, <2>2, <2>3
<1>9. ServerInv'
  BY <1>6, <1>7, <1>8 DEF ServerInv
<1> QED BY <1>3, <1>9 DEF AppRest

LEMMA ApiStepKeeps ==
  ASSUME AppInv, NEW c \in Callers, NEW out \in Outcome, ApiStep(c, out)
  PROVE  AppRest'
<1>1. /\ Left \in 1..7 /\ Left' = Left - 1 /\ done /\ done' = done /\ accepted' = accepted
      /\ failed' = IF out = "ok" THEN failed ELSE failed \cup {BootOrder[Left]}
      /\ \A d \in Callers : pc[d] = "returned" => pc'[d] = "returned"
      /\ BootOrder[Left] = "api"
  BY StepOf DEF ApiStep
<1>2. Left = 6 /\ Left' = 5 /\ Len(accepted) >= 6 /\ Len(accepted) \in Nat
  BY <1>1, Places, Counts
<1>3. UNCHANGED <<main, listener, req, job, ctxDone, streamsOff, storeOpen>>
  BY DEF ApiStep
<1>4. Active' = Active /\ Running' = Running
  BY <1>3 DEF Active, Running
<1>5. drained' \in BOOLEAN /\ (drained' => out = "ok" /\ listener = "draining")
  BY DEF ApiStep
<1>6. (out = "ok" /\ listener = "draining" => Active = {}) /\ (out # "ok" => "api" \in failed')
  BY <1>1, <1>2 DEF ApiStep
<1>7. AppTypeOK' /\ BootInv'
  BY <1>1, <1>3, <1>5 DEF AppInv, AppTypeOK, BootInv
<1>8. ServerInv'
  BY <1>1, <1>2, <1>3, <1>4, <1>5, <1>6 DEF AppInv, ServerInv
<1>9. StepInv'
  BY <1>1, <1>2, <1>3 DEF AppInv, StepInv
<1> QED BY <1>7, <1>8, <1>9 DEF AppRest

LEMMA StepKeeps ==
  ASSUME AppInv, NEW c \in Callers, AppStepEnds(c)
  PROVE  AppRest'
<1>0. "ok" \in Outcome
  BY DEF Outcome
<1>a. Len(accepted) \in Nat
  BY Counts
<1>b. AppTypeOK
  BY DEF AppInv
<1>1. CASE StreamsStep(c)
  <2>1. StepEnds(c, "ok") /\ Current(c) = "streams" /\ streamsOff' = TRUE
        /\ UNCHANGED <<main, listener, req, job, ctxDone, storeOpen, drained>>
    BY <1>1 DEF StreamsStep
  <2>2. /\ Left \in 1..7 /\ Left' = Left - 1 /\ done /\ done' = done /\ accepted' = accepted
        /\ \A d \in Callers : pc[d] = "returned" => pc'[d] = "returned"
        /\ BootOrder[Left] = "streams"
    BY <1>0, <2>1, StepOf
  <2>3. Left = 7
    BY <2>2, Places
  <2>4. StepInv'
    BY <2>1, <2>2, <2>3 DEF AppInv, StepInv
  <2> QED BY <1>0, <1>b, <2>1, <2>3, <2>4, PlainStepKeeps DEF AppTypeOK
<1>2. CASE ContextStep(c)
  <2>1. StepEnds(c, "ok") /\ Current(c) = "background-context" /\ ctxDone' = TRUE
        /\ UNCHANGED <<main, listener, req, job, streamsOff, storeOpen, drained>>
    BY <1>2 DEF ContextStep
  <2>2. /\ Left \in 1..7 /\ Left' = Left - 1 /\ done /\ done' = done /\ accepted' = accepted
        /\ \A d \in Callers : pc[d] = "returned" => pc'[d] = "returned"
        /\ BootOrder[Left] = "background-context"
    BY <1>0, <2>1, StepOf
  <2>3. Left = 5
    BY <2>2, Places
  <2>4. StepInv'
    BY <2>1, <2>2, <2>3 DEF AppInv, StepInv
  <2> QED BY <1>0, <1>b, <2>1, <2>3, <2>4, PlainStepKeeps DEF AppTypeOK
<1>3. ASSUME NEW out \in Outcome, ApiStep(c, out) PROVE AppRest'
  BY <1>3, ApiStepKeeps
<1>4. ASSUME NEW out \in Outcome, WorkStep(c, out) PROVE AppRest'
  <2>1. StepEnds(c, out) /\ Current(c) = "background-work" /\ UNCHANGED appVars
        /\ (out = "ok" => Running = {})
    BY <1>4 DEF WorkStep
  <2>2. /\ Left \in 1..7 /\ Left' = Left - 1 /\ done /\ done' = done /\ accepted' = accepted
        /\ \A d \in Callers : pc[d] = "returned" => pc'[d] = "returned"
        /\ BootOrder[Left] = "background-work"
    BY <2>1, StepOf
  <2>3. Left = 4
    BY <2>2, Places
  <2>4. StepInv'
    BY <2>1, <2>2, <2>3 DEF AppInv, StepInv, appVars
  <2> QED BY <1>b, <2>1, <2>3, <2>4, PlainStepKeeps DEF AppTypeOK, appVars
<1>5. ASSUME NEW out \in Outcome, StoreStep(c, out) PROVE AppRest'
  <2>1. StepEnds(c, out) /\ Current(c) = "store" /\ storeOpen' = FALSE
        /\ UNCHANGED <<main, listener, req, job, ctxDone, streamsOff, drained>>
    BY <1>5 DEF StoreStep
  <2>2. /\ Left \in 1..7 /\ Left' = Left - 1 /\ done /\ done' = done /\ accepted' = accepted
        /\ \A d \in Callers : pc[d] = "returned" => pc'[d] = "returned"
        /\ BootOrder[Left] = "store"
    BY <2>1, StepOf
  <2>3. Left = 3
    BY <2>2, Places
  <2>4. StepInv'
    BY <2>1, <2>2, <2>3 DEF AppInv, StepInv
  <2>5. storeOpen' \in BOOLEAN
    BY <2>1
  <2>6. ctxDone' \in BOOLEAN /\ streamsOff' \in BOOLEAN
    BY <1>b, <2>1 DEF AppTypeOK
  <2>7. UNCHANGED <<main, listener, req, job, drained>>
    BY <2>1
  <2> QED BY <2>1, <2>3, <2>4, <2>5, <2>6, <2>7, PlainStepKeeps
<1>6. ASSUME NEW out \in Outcome, TelemetryStep(c, out) PROVE AppRest'
  <2>1. StepEnds(c, out) /\ Current(c) \in {"metrics-export", "tracing"} /\ UNCHANGED appVars
    BY <1>6 DEF TelemetryStep
  <2>2. /\ Left \in 1..7 /\ Left' = Left - 1 /\ done /\ done' = done /\ accepted' = accepted
        /\ \A d \in Callers : pc[d] = "returned" => pc'[d] = "returned"
        /\ BootOrder[Left] \in {"metrics-export", "tracing"}
    BY <2>1, StepOf
  <2>3. Left # 7 /\ Left # 6 /\ Left # 4
    BY <2>2, BootFacts
  <2>4. StepInv'
    BY <2>1, <2>2, <2>3, <1>a DEF AppInv, StepInv, appVars
  <2> QED BY <1>b, <2>1, <2>3, <2>4, PlainStepKeeps DEF AppTypeOK, appVars
<1> QED BY <1>1, <1>2, <1>3, <1>4, <1>5, <1>6 DEF AppStepEnds
-----------------------------------------------------------------------------
LEMMA AppStarts == Init => AppInv
<1> SUFFICES ASSUME Init PROVE AppInv
  OBVIOUS
<1>1. StackInv /\ accepted = <<>> /\ ran = <<>> /\ Len(accepted) = 0 /\ Len(ran) = 0
  BY StackStarts, EmptySeq DEF Init, StackInit
<1>2. AppTypeOK
  BY DEF Init, AppTypeOK
<1>3. BootInv
  BY <1>1, BootFacts DEF Init, BootInv
<1>4. ServerInv /\ StepInv
  BY <1>1 DEF Init, ServerInv, StepInv, Active
<1> QED BY <1>1, <1>2, <1>3, <1>4 DEF AppInv

LEMMA AppSteps == AppInv /\ [Next]_vars => AppInv'
<1> SUFFICES ASSUME AppInv, [Next]_vars PROVE AppInv'
  OBVIOUS
<1>1. StackInv'
  BY AppStackStep, StackSteps DEF AppInv
<1>2. ASSUME Main PROVE AppRest'
  <2>1. CASE PushNext
    BY <2>1, PushNextKeeps
  <2>2. CASE PushRefused \/ RunStarts \/ RunWaits
    BY <2>2, WiringKeeps
  <2>3. CASE RunStops \/ DeferredStarts
    BY <2>3, CloseKeeps, BootAssumption
  <2> QED BY <1>2, <2>1, <2>2, <2>3 DEF Main
<1>3. CASE Server
  BY <1>1, <1>3, ServerKeeps DEF AppRest, AppInv
<1>4. ASSUME NEW c \in Callers, OtherCloses(c) \/ Closing(c) PROVE AppInv'
  <2>1. AppRest'
    BY <1>4, CloseKeeps, BeginsKeeps, StepKeeps, SweepEndKeeps, TailKeeps DEF Closing
  <2> QED BY <1>1, <2>1 DEF AppRest, AppInv
<1>5. CASE UNCHANGED vars
  <2>1. AppTypeOK' /\ BootInv' /\ StepInv'
    BY <1>5 DEF vars, stackVars, appVars, AppInv, AppTypeOK, BootInv, StepInv, Left
  <2>2. ServerInv'
    BY <1>5 DEF vars, stackVars, appVars, AppInv, ServerInv, Left, Active, Running
  <2> QED BY <1>1, <2>1, <2>2 DEF AppInv
<1>6. CASE Main
  BY <1>1, <1>2, <1>6 DEF AppRest, AppInv
<1> QED BY <1>3, <1>4, <1>5, <1>6 DEF Next

\* The invariant of the application is inductive: every interleaving of boot,
\* Run, the callers of Close, the server, its requests and the supervised work
\* keeps it.
THEOREM AppInductive == Spec => []AppInv
BY AppStarts, AppSteps, PTL DEF Spec

\* Every variable of the application keeps its type, for any requests and work.
THEOREM AppTypeCorrect == Spec => []TypeOK
<1>1. AppInv => TypeOK
  BY DEF AppInv, StackInv, AppTypeOK, TypeOK
<1> QED BY AppInductive, <1>1, PTL

\* The application implements the stack of module Lifecycle: New, Run and Close
\* reach it only through Push and Shutdown.
THEOREM AppUsesStack == Spec => StackSpec
<1>1. Init => StackInit
  BY DEF Init
<1>2. AppInv /\ [Next]_vars => [StackNext]_stackVars
  BY AppStackStep
<1> QED BY <1>1, <1>2, AppInductive, PTL DEF Spec, StackSpec

\* ReverseOrder for the application: the steps New, the application and Run
\* pushed run in reverse, each once, whichever call of Close sweeps.
THEOREM ReverseOrderCorrect == Spec => []ReverseOrder
BY AppUsesStack, StackCorrect, PTL

\* StoreOutlivesUsers: the store closes after its users, unless the api step or
\* the join reported otherwise.
THEOREM StoreOutlivesUsersCorrect == Spec => []StoreOutlivesUsers
<1>1. AppInv => StoreOutlivesUsers
  <2> SUFFICES ASSUME AppInv, ~storeOpen PROVE
        /\ drained /\ "background-work" \notin failed => Running = {}
        /\ Active # {} /\ "api" \in Elems(accepted) =>
             "api" \in Elems(ran) /\ ("api" \in failed \/ listener = "serving")
    BY DEF StoreOutlivesUsers
  <2>1. Left < 3 /\ Left \in 0..7
    BY Counts DEF AppInv, StepInv
  <2>2. drained /\ "background-work" \notin failed => Running = {}
    BY <2>1 DEF AppInv, ServerInv
  <2>3. ASSUME Active # {}, "api" \in Elems(accepted)
        PROVE  "api" \in Elems(ran) /\ ("api" \in failed \/ listener = "serving")
    <3>1. Len(accepted) >= 6 /\ "api" \in Elems(ran)
      BY <2>1, <2>3, Counts
    <3> QED BY <2>1, <2>3, <3>1 DEF AppInv, ServerInv, AppTypeOK
  <2> QED BY <2>2, <2>3
<1> QED BY AppInductive, <1>1, PTL

\* ContextOutlivesDrain: the context is done only after the api step, but for a
\* Close that returned past another caller's sweep.
THEOREM ContextOutlivesDrainCorrect == Spec => []ContextOutlivesDrain
<1>1. AppInv => ContextOutlivesDrain
  <2> SUFFICES ASSUME AppInv, ctxDone, "api" \in Elems(accepted), "api" \notin Elems(ran)
               PROVE  \E c, d \in Callers : pc[c] = "returned" /\ pc[d] \in {"sweeping", "running"}
    BY DEF ContextOutlivesDrain
  <2>1. Len(accepted) >= 6 /\ Left >= 6 /\ Left \in 0..7
    BY Counts
  <2>2. done /\ \E c \in Callers : pc[c] = "returned"
    BY <2>1 DEF AppInv, StepInv
  <2>3. Len(ran) # Len(accepted)
    BY <2>1, Counts DEF Left
  <2>4. \E d \in Callers : Sweeps(d)
    BY <2>2, <2>3 DEF AppInv, StackInv, SweepInv
  <2> QED BY <2>2, <2>4 DEF Sweeps
<1> QED BY AppInductive, <1>1, PTL

\* StreamsDoNotHoldTheDrain: when the api step of a fully booted application
\* times out, an ordinary request held it, never a stream alone.
THEOREM StreamsCorrect == Spec => StreamsDoNotHoldTheDrain
<1> DEFINE A == "api" \in failed' \ failed /\ Len(accepted) = Len(BootOrder) =>
                  \E r \in Active : r \notin Streams
<1>1. AppInv /\ [Next]_vars => [A]_vars
  <2> SUFFICES ASSUME AppInv, Next, "api" \in failed' \ failed, Len(accepted) = 7
               PROVE  \E r \in Active : r \notin Streams
    BY BootFacts
  <2>1. PICK c \in Callers : AppStepEnds(c)
    BY DEF Next, Main, Server, Closing, PushNext, PushRefused, RunStarts, RunWaits, RunStops,
       DeferredStarts, OtherCloses, CloseTail, ListenServes, ListenFails, RequestStarts,
       RequestEnds, WorkStarts, WorkEnds, AppStepBegins, SweepEnds, Push, Shutdown, StepBegins,
       ShutdownReturns, stackVars
  <2>2. ASSUME NEW out, StepEnds(c, out) PROVE out # "ok" /\ Current(c) = "api" /\ Left = 6
    <3>1. /\ Left \in 1..7 /\ Current(c) = BootOrder[Left]
          /\ failed' = IF out = "ok" THEN failed ELSE failed \cup {BootOrder[Left]}
      BY <2>2, StepOf
    <3>2. out # "ok" /\ BootOrder[Left] = "api"
      BY <3>1
    <3> QED BY <3>1, <3>2, Places
  <2>3. PICK out \in Outcome : ApiStep(c, out)
    BY <2>1, <2>2 DEF AppStepEnds, StreamsStep, ContextStep, WorkStep, StoreStep, TelemetryStep
  <2>4. out # "ok" /\ Left = 6
    BY <2>2, <2>3 DEF ApiStep
  <2>5. \E r \in Active : r \notin Streams \/ ~streamsOff
    BY <2>3, <2>4 DEF ApiStep
  <2>6. streamsOff
    BY <2>4 DEF AppInv, StepInv
  <2> QED BY <2>5, <2>6
<1> QED BY AppInductive, <1>1, PTL DEF Spec, StreamsDoNotHoldTheDrain
=============================================================================
