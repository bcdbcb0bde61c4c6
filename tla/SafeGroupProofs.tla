--------------------------- MODULE SafeGroupProofs ---------------------------
(***************************************************************************)
(* Proofs about safe.Group, for any finite set of goroutines, any set of   *)
(* callers of Wait and any number of calls.                                *)
(*                                                                         *)
(* DrainComplete is not inductive. What makes it true is a chain: n counts *)
(* exactly the live goroutines (CountInv); mu keeps a closer and a caller  *)
(* making its channel apart (MutexInv); a caller waits on the current      *)
(* channel or on a closed one (ChanInv); and a caller whose channel is     *)
(* closed, or about to be, is owed no goroutine (OwedInv).                 *)
(***************************************************************************)
EXTENDS SafeGroupDrain, FiniteSetTheorems, TLAPS

CountInv == n = Cardinality(Live)

MutexInv ==
  /\ \A v, w \in Workers : pc[v] = "closing" /\ pc[w] = "closing" => v = w
  /\ \A q, r \in Waiters : wpc[q] = "making" /\ wpc[r] = "making" => q = r
  /\ \A w \in Workers, q \in Waiters : ~(pc[w] = "closing" /\ wpc[q] = "making")

ChanInv ==
  /\ idle \notin closed
  /\ \A w \in Workers : pc[w] = "closing" => idle # 0
  /\ \A q \in Waiters : wpc[q] = "waiting" =>
       ch[q] \in closed \/ (ch[q] = idle /\ idle # 0)

OwedInv ==
  \A q \in Waiters :
    /\ owed[q] \subseteq Live
    /\ wpc[q] = "nil" => owed[q] = {}
    /\ wpc[q] = "waiting" /\ ch[q] \in closed => owed[q] = {}
    /\ wpc[q] = "waiting" /\ ch[q] = idle /\ (\E w \in Workers : pc[w] = "closing")
         => owed[q] = {}

LateInv ==
  \A w \in Workers :
    /\ late[w] <= 1
    /\ late[w] # 0 => cancelled /\ pc[w] # "backoff"

IInv == TypeOK /\ CountInv /\ MutexInv /\ ChanInv /\ OwedInv /\ WakeupPending /\ LateInv
-----------------------------------------------------------------------------
\* How the set of live goroutines follows pc: a goroutine that enters or
\* leaves it changes its size by one, and n with it.
LEMMA LiveFinite == IsFiniteSet(Live) /\ Cardinality(Live) \in Nat
BY SafeGroupAssumption, FS_Subset, FS_CardinalityType DEF Live

\* An idle count means that no goroutine is live.
LEMMA ZeroMeansNone == CountInv /\ n = 0 => Live = {}
BY LiveFinite, FS_EmptySet DEF CountInv

\* The initial state satisfies the inductive invariant.
LEMMA InitIInv == Init => IInv
<1> SUFFICES ASSUME Init PROVE IInv
  OBVIOUS
<1>1. TypeOK
  <2>1. n \in Nat /\ made \in Nat /\ idle \in 0..made /\ closed \in SUBSET (1..made)
    BY DEF Init
  <2>2. /\ pc \in [Workers -> WorkerState] /\ wpc \in [Waiters -> WaitState]
        /\ ch \in [Waiters -> 0..made] /\ calls \in 0..MaxWaits
    BY SafeGroupAssumption DEF Init, WorkerState, WaitState
  <2>3. /\ owed \in [Waiters -> SUBSET Workers] /\ late \in [Workers -> Nat]
        /\ cancelled \in BOOLEAN
    BY DEF Init
  <2> QED BY <2>1, <2>2, <2>3 DEF TypeOK
<1>2. CountInv
  <2>1. Live = {}
    BY DEF Init, Live
  <2> QED BY <2>1, FS_EmptySet DEF Init, CountInv
<1>3. MutexInv /\ ChanInv /\ OwedInv /\ WakeupPending /\ LateInv
  BY DEF Init, MutexInv, ChanInv, OwedInv, WakeupPending, LateInv
<1> QED BY <1>1, <1>2, <1>3 DEF IInv

\* Go preserves it: one more live goroutine, one more in n.
LEMMA GoIInv == ASSUME NEW w \in Workers, IInv, Go(w) PROVE IInv'
<1> USE DEF IInv, Go, Goto, chanVars, waitVars
<1>1. Live' = Live \cup {w} /\ w \notin Live
  BY DEF Live, TypeOK
<1>2. CountInv'
  BY <1>1, LiveFinite, FS_AddElement DEF CountInv, TypeOK
<1>3. TypeOK'
  BY DEF TypeOK, WorkerState
<1>4. MutexInv' /\ ChanInv'
  BY DEF MutexInv, ChanInv, TypeOK
<1>5. OwedInv'
  BY <1>1 DEF OwedInv, TypeOK
<1>6. WakeupPending'
  BY DEF WakeupPending, TypeOK
<1>7. LateInv'
  BY DEF LateInv, TypeOK
<1> QED BY <1>2, <1>3, <1>4, <1>5, <1>6, <1>7

\* A goroutine that moves between two live states changes nothing that the
\* other parts speak of.
LEMMA InsideIInv ==
  ASSUME NEW w \in Workers, IInv,
         FnReturns(w) \/ FnPanics(w) \/ BackoffEnters(w) \/ BackoffStops(w) \/ Respawn(w)
  PROVE  IInv'
<1> USE DEF IInv, FnReturns, FnPanics, BackoffEnters, BackoffStops, Respawn,
            Goto, chanVars, waitVars
<1>1. Live' = Live
  BY DEF Live, TypeOK
<1>2. CountInv'
  BY <1>1 DEF CountInv
<1>3. TypeOK'
  <2>1. pc' \in [Workers -> WorkerState]
    BY DEF TypeOK, WorkerState
  <2>2. late' \in [Workers -> Nat]
    BY DEF TypeOK
  <2> QED BY <2>1, <2>2 DEF TypeOK
<1>4. MutexInv' /\ ChanInv'
  BY DEF MutexInv, ChanInv, TypeOK
<1>5. OwedInv'
  BY <1>1 DEF OwedInv, TypeOK
<1>6. WakeupPending'
  BY DEF WakeupPending, TypeOK
<1>7. LateInv'
  BY DEF LateInv, TypeOK
<1> QED BY <1>2, <1>3, <1>4, <1>5, <1>6, <1>7

\* leave: the count falls with the live set, and a fall to zero leaves a
\* goroutine on its way to wake.
LEMMA LeaveIInv == ASSUME NEW w \in Workers, IInv, Leave(w) PROVE IInv'
<1> USE DEF IInv, Leave, Goto, chanVars, waitVars
<1>1. Live' = Live \ {w} /\ w \in Live
  BY DEF Live, TypeOK
<1>2. CountInv' /\ n' \in Nat
  <2>1. Cardinality(Live \ {w}) = Cardinality(Live) - 1
    BY <1>1, LiveFinite, FS_RemoveElement
  <2>2. Cardinality(Live \ {w}) \in Nat
    BY LiveFinite, FS_RemoveElement, FS_CardinalityType
  <2> QED BY <1>1, <2>1, <2>2, LiveFinite DEF CountInv, TypeOK
<1>3. TypeOK'
  BY <1>2 DEF TypeOK, WorkerState
<1>4. MutexInv' /\ ChanInv'
  BY DEF MutexInv, ChanInv, TypeOK
<1>5. OwedInv'
  BY <1>1 DEF OwedInv, TypeOK
<1>6. WakeupPending'
  BY DEF WakeupPending, TypeOK
<1>7. LateInv'
  BY DEF LateInv, TypeOK
<1> QED BY <1>2, <1>3, <1>4, <1>5, <1>6, <1>7

\* wake under mu: it goes on to close only when the group is idle, and then
\* no caller of Wait is owed a goroutine.
LEMMA WakeChecksIInv == ASSUME NEW w \in Workers, IInv, WakeChecks(w) PROVE IInv'
<1> USE DEF IInv, WakeChecks, Goto, chanVars, waitVars, MuFree
<1>1. Live' = Live
  BY DEF Live, TypeOK
<1>2. CountInv'
  BY <1>1 DEF CountInv
<1>3. TypeOK'
  BY DEF TypeOK, WorkerState
<1>4. MutexInv' /\ ChanInv'
  BY DEF MutexInv, ChanInv, TypeOK
<1>5. OwedInv'
  BY <1>1, ZeroMeansNone DEF OwedInv, TypeOK
<1>6. WakeupPending'
  BY DEF WakeupPending, TypeOK
<1>7. LateInv'
  BY DEF LateInv, TypeOK
<1> QED BY <1>2, <1>3, <1>4, <1>5, <1>6, <1>7

\* The close itself: the channel's waiters were already owed nothing.
LEMMA WakeClosesIInv == ASSUME NEW w \in Workers, IInv, WakeCloses(w) PROVE IInv'
<1> USE DEF IInv, WakeCloses, Goto, waitVars
<1>1. Live' = Live
  BY DEF Live, TypeOK
<1>2. CountInv'
  BY <1>1 DEF CountInv
<1>3. TypeOK'
  BY DEF TypeOK, WorkerState, ChanInv
<1>4. MutexInv'
  BY DEF MutexInv, TypeOK
<1>5. ChanInv'
  BY DEF MutexInv, ChanInv, TypeOK
<1>6. OwedInv'
  BY <1>1 DEF OwedInv, MutexInv, ChanInv, TypeOK
<1>7. WakeupPending'
  BY DEF WakeupPending, MutexInv, TypeOK
<1>8. LateInv'
  BY DEF LateInv, TypeOK
<1> QED BY <1>2, <1>3, <1>4, <1>5, <1>6, <1>7, <1>8

\* Wait under mu, reading n: nil at once only when nobody is live.
LEMMA WaitCallsIInv == ASSUME NEW q \in Waiters, IInv, WaitCalls(q) PROVE IInv'
<1> USE DEF IInv, WaitCalls, chanVars, MuFree
<1>1. Live' = Live
  BY DEF Live
<1>2. CountInv'
  BY <1>1 DEF CountInv
<1>3. TypeOK'
  BY SafeGroupAssumption DEF TypeOK, WaitState, Live
<1>4. MutexInv' /\ ChanInv'
  BY DEF MutexInv, ChanInv, TypeOK
<1>5. OwedInv'
  BY <1>1, ZeroMeansNone DEF OwedInv, TypeOK
<1>6. WakeupPending'
  BY DEF WakeupPending, TypeOK
<1>7. LateInv'
  BY DEF LateInv, TypeOK
<1> QED BY <1>2, <1>3, <1>4, <1>5, <1>6, <1>7

\* Wait making or sharing the channel, still under mu: a new channel has
\* never been closed, and no goroutine is closing one.
LEMMA WaitMakesIInv == ASSUME NEW q \in Waiters, IInv, WaitMakes(q) PROVE IInv'
<1> USE DEF IInv, WaitMakes
<1>1. Live' = Live
  BY DEF Live
<1>2. CountInv'
  BY <1>1 DEF CountInv
<1>3. TypeOK'
  BY DEF TypeOK, WaitState
<1>4. MutexInv'
  BY DEF MutexInv, TypeOK
<1>5. ChanInv'
  BY DEF MutexInv, ChanInv, TypeOK
<1>6. OwedInv'
  <2> SUFFICES ASSUME NEW r \in Waiters
               PROVE  /\ owed'[r] \subseteq Live'
                      /\ wpc'[r] = "nil" => owed'[r] = {}
                      /\ wpc'[r] = "waiting" /\ ch'[r] \in closed' => owed'[r] = {}
                      /\ ~\E w \in Workers : pc'[w] = "closing"
    BY DEF OwedInv
  <2>1. ~\E w \in Workers : pc'[w] = "closing"
    BY DEF MutexInv
  <2>2. CASE r = q
    BY <1>1, <2>1, <2>2, <1>5 DEF OwedInv, ChanInv, TypeOK
  <2>3. CASE r # q
    BY <1>1, <2>1, <2>3 DEF OwedInv, TypeOK
  <2> QED BY <2>2, <2>3
<1>7. WakeupPending'
  BY DEF WakeupPending, TypeOK
<1>8. LateInv'
  BY DEF LateInv, TypeOK
<1> QED BY <1>2, <1>3, <1>4, <1>5, <1>6, <1>7, <1>8

\* The two ends of Wait's select.
LEMMA WaitEndsIInv ==
  ASSUME NEW q \in Waiters, IInv, WaitReturns(q) \/ WaitTimesOut(q) PROVE IInv'
<1> USE DEF IInv, WaitReturns, WaitTimesOut, chanVars
<1>1. Live' = Live
  BY DEF Live
<1>2. CountInv'
  BY <1>1 DEF CountInv
<1>3. TypeOK'
  BY DEF TypeOK, WaitState
<1>4. MutexInv' /\ ChanInv'
  BY DEF MutexInv, ChanInv, TypeOK
<1>5. OwedInv'
  BY <1>1 DEF OwedInv, TypeOK
<1>6. WakeupPending'
  BY DEF WakeupPending, TypeOK
<1>7. LateInv'
  BY DEF LateInv, TypeOK
<1> QED BY <1>2, <1>3, <1>4, <1>5, <1>6, <1>7

\* Cancellation, and steps that change nothing.
LEMMA OtherIInv == ASSUME IInv, Cancel \/ UNCHANGED vars PROVE IInv'
<1> USE DEF IInv, Cancel, vars, chanVars, waitVars
<1>1. Live' = Live
  BY DEF Live
<1>2. CountInv'
  BY <1>1 DEF CountInv
<1>3. TypeOK' /\ MutexInv' /\ ChanInv' /\ WakeupPending' /\ LateInv'
  BY DEF TypeOK, MutexInv, ChanInv, WakeupPending, LateInv
<1>4. OwedInv'
  BY <1>1 DEF OwedInv
<1> QED BY <1>2, <1>3, <1>4

\* Every step of the group preserves the inductive invariant.
THEOREM Inductive == Spec => []IInv
<1>1. IInv /\ [Next]_vars => IInv'
  <2> SUFFICES ASSUME IInv, [Next]_vars PROVE IInv'
    OBVIOUS
  <2>1. ASSUME NEW w \in Workers, Worker(w) PROVE IInv'
    BY <2>1, GoIInv, InsideIInv, LeaveIInv, WakeChecksIInv, WakeClosesIInv
       DEF Worker, Supervise
  <2>2. ASSUME NEW q \in Waiters, Waiter(q) PROVE IInv'
    BY <2>2, WaitCallsIInv, WaitMakesIInv, WaitEndsIInv DEF Waiter
  <2>3. CASE Cancel \/ UNCHANGED vars
    BY <2>3, OtherIInv
  <2> QED BY <2>1, <2>2, <2>3 DEF Next
<1> QED BY <1>1, InitIInv, PTL DEF Spec

\* The variables of safe.Group keep their types: in particular n never
\* falls below zero, although leave decrements it without mu.
THEOREM TypeCorrect == Spec => []TypeOK
BY Inductive, PTL DEF IInv

\* A nil from Wait is the truth: what was live at the call has returned.
THEOREM DrainCorrect == Spec => []DrainComplete
<1>1. IInv => DrainComplete
  BY DEF IInv, OwedInv, DrainComplete
<1> QED BY <1>1, Inductive, PTL

\* No wake-up is lost between leave's decrement and the lock in wake.
THEOREM NoLostWakeup == Spec => []WakeupPending
BY Inductive, PTL DEF IInv

\* wake never closes nil, nor a channel twice.
THEOREM CloseCorrect == Spec => []CloseIsSafe
<1>1. IInv => CloseIsSafe
  BY DEF IInv, ChanInv, CloseIsSafe
<1> QED BY <1>1, Inductive, PTL

\* A goroutine that keeps panicking is respawned at most once after the
\* context is done.
THEOREM RespawnBounded == Spec => []RespawnsEnd
<1>1. IInv => RespawnsEnd
  BY DEF IInv, LateInv, RespawnsEnd
<1> QED BY <1>1, Inductive, PTL
-----------------------------------------------------------------------------
(* The group implements Drain. The counter, mu and idle are invisible to    *)
(* Drain: what it sees is who is live, who waits, and what each is owed.    *)

\* The initial state of the group is an initial state of Drain.
LEMMA InitRefines == Init => Abstract!DrainInit
BY DEF Init, Live, Abstract!DrainInit

\* A goroutine's step is the start or the end of live work, or invisible.
LEMMA WorkerRefines ==
  ASSUME NEW w \in Workers, IInv, Worker(w)
  PROVE  Abstract!DrainNext \/ UNCHANGED Abstract!drainVars
<1> USE DEF IInv, TypeOK, Goto, chanVars, waitVars
<1>1. CASE Go(w)
  <2>1. Live' = Live \cup {w} /\ w \notin Live
    BY <1>1 DEF Go, Live
  <2> QED BY <1>1, <2>1 DEF Go, Abstract!DrainNext, Abstract!Starts
<1>2. CASE Leave(w)
  <2>1. Live' = Live \ {w} /\ w \in Live
    BY <1>2 DEF Leave, Live
  <2> QED BY <1>2, <2>1 DEF Leave, Abstract!DrainNext, Abstract!Ends
<1>3. CASE FnReturns(w) \/ FnPanics(w) \/ BackoffEnters(w) \/ BackoffStops(w) \/ Respawn(w)
  <2>1. Live' = Live
    BY <1>3 DEF FnReturns, FnPanics, BackoffEnters, BackoffStops, Respawn, Live
  <2> QED BY <1>3, <2>1
          DEF FnReturns, FnPanics, BackoffEnters, BackoffStops, Respawn, Abstract!drainVars
<1>4. CASE WakeChecks(w) \/ WakeCloses(w)
  <2>1. Live' = Live
    BY <1>4 DEF WakeChecks, WakeCloses, Live
  <2> QED BY <1>4, <2>1 DEF WakeChecks, WakeCloses, Abstract!drainVars
<1> QED BY <1>1, <1>2, <1>3, <1>4 DEF Worker, Supervise

\* A caller's step begins or ends a Wait of Drain, or is invisible: the nil
\* of an idle group and the nil of a closed channel are both deserved.
LEMMA WaiterRefines ==
  ASSUME NEW q \in Waiters, IInv, Waiter(q)
  PROVE  Abstract!DrainNext \/ UNCHANGED Abstract!drainVars
<1> USE DEF IInv, TypeOK, chanVars
<1>0. n = 0 <=> Live = {}
  BY LiveFinite, ZeroMeansNone, FS_EmptySet DEF CountInv
<1>1. CASE WaitCalls(q)
  BY <1>1, <1>0 DEF WaitCalls, Live, Abstract!DrainNext, Abstract!Calls
<1>2. CASE WaitMakes(q)
  BY <1>2 DEF WaitMakes, Live, Abstract!drainVars
<1>3. CASE WaitReturns(q)
  BY <1>3 DEF WaitReturns, OwedInv, Live, Abstract!DrainNext, Abstract!Drained
<1>4. CASE WaitTimesOut(q)
  BY <1>4 DEF WaitTimesOut, Live, Abstract!DrainNext, Abstract!GivesUp
<1> QED BY <1>1, <1>2, <1>3, <1>4 DEF Waiter

\* safe.Group implements Drain: every behaviour of the group is one of Drain's,
\* so whoever shuts down may rely on Drain alone.
THEOREM DrainRefinement == Spec => Abstract!DrainSafety
<1>1. IInv /\ [Next]_vars => [Abstract!DrainNext]_(Abstract!drainVars)
  <2> SUFFICES ASSUME IInv, [Next]_vars
               PROVE  Abstract!DrainNext \/ UNCHANGED Abstract!drainVars
    OBVIOUS
  <2>1. CASE Cancel \/ UNCHANGED vars
    BY <2>1 DEF Cancel, vars, chanVars, waitVars, Live, Abstract!drainVars
  <2> QED BY <2>1, WorkerRefines, WaiterRefines DEF Next
<1> QED BY <1>1, InitRefines, Inductive, PTL DEF Spec, Abstract!DrainSafety
=============================================================================
