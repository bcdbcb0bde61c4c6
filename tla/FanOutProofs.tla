---------------------------- MODULE FanOutProofs ----------------------------
(***************************************************************************)
(* Proofs about the ways the toolkit hands one thing to many: tasks on a   *)
(* pool (SafePool), events on a bus (PubSub), a notification to several    *)
(* backends (Notify), for any number of each.                              *)
(***************************************************************************)
EXTENDS SafePool, PubSub, Notify, FiniteSetTheorems, SequenceTheorems, TLAPS
-----------------------------------------------------------------------------
(* safe.Pool. The wait group counts the live tasks, a pool somebody waits   *)
(* for is closed, and a caller of Wait that has nil back left none live:    *)
(* closed and idle is a state the pool never leaves. The occupied slots     *)
(* never outnumber the capacity the semaphore was made with.                *)

LiveTasks == {t \in Tasks : task[t] \in {"queued", "holding", "running", "releasing", "leaving"}}

PoolTypes ==
  /\ limit \in Nat /\ sem \in Nat /\ closed \in BOOLEAN
  /\ task \in [Tasks -> TaskState]
  /\ gated \in [Tasks -> BOOLEAN] /\ ctxDone \in [Tasks -> BOOLEAN] /\ late \in [Tasks -> BOOLEAN]
  /\ wpc \in [Waiters -> {"ready", "waiting", "nil", "timeout"}]

DrainInv ==
  /\ wg = Cardinality(LiveTasks)
  /\ \A q \in Waiters : /\ wpc[q] # "ready" => closed
                        /\ wpc[q] = "nil" => LiveTasks = {}

SlotInv ==
  /\ Cardinality(Slots) <= sem
  /\ \A t \in Tasks : gated[t] => sem # 0

LateInv ==
  \A t \in Tasks : /\ late[t] => ctxDone[t]
                   /\ late[t] /\ gated[t] => task[t] # "running"

PoolInv == PoolTypes /\ DrainInv /\ SlotInv /\ LateInv

LEMMA PoolSets ==
  ASSUME PoolTypes
  PROVE  /\ IsFiniteSet(LiveTasks) /\ IsFiniteSet(Slots)
         /\ Cardinality(LiveTasks) \in Nat /\ Cardinality(Slots) \in Nat
<1>1. LiveTasks \subseteq Tasks /\ Slots \subseteq Tasks
  BY DEF LiveTasks, Slots
<1> QED BY <1>1, SafePoolAssumption, FS_Subset, FS_CardinalityType

LEMMA PoolStarts == PoolInit => PoolInv
<1> SUFFICES ASSUME PoolInit PROVE PoolInv
  OBVIOUS
<1>1. PoolTypes
  BY SafePoolAssumption DEF PoolInit, PoolTypes, TaskState
<1>2. LiveTasks = {} /\ Slots = {}
  BY DEF PoolInit, LiveTasks, Slots
<1>3. DrainInv /\ SlotInv
  BY <1>2, FS_EmptySet DEF PoolInit, DrainInv, SlotInv
<1>4. LateInv
  BY DEF PoolInit, LateInv
<1> QED BY <1>1, <1>3, <1>4 DEF PoolInv

\* A task moves from one place to another and nothing else changes: the
\* invariant is kept when the move takes no task past the end of its context,
\* into a full semaphore, or out of the live ones without the wait group.
LEMMA MoveKeeps ==
  ASSUME PoolInv, NEW t \in Tasks, NEW s \in TaskState, Goto(t, s),
         UNCHANGED <<limit, sem, closed, gated, ctxDone, wpc, late>>,
         s \in {"holding", "running", "releasing"} /\ gated[t] =>
           Cardinality(Slots) < sem \/ t \in Slots,
         s = "running" => ~gated[t] \/ ~ctxDone[t],
         s \notin {"queued", "holding", "running", "releasing", "leaving"}
           \/ t \in LiveTasks,
         IF t \in LiveTasks /\ s = "done" THEN wg' = wg - 1
                                          ELSE wg' = wg /\ (t \in LiveTasks => s # "refused" /\ s # "none")
  PROVE  PoolInv'
<1> USE DEF PoolInv
<1>1. PoolTypes'
  BY DEF PoolTypes, Goto
<1>2. \A u \in Tasks : task'[u] = IF u = t THEN s ELSE task[u]
  BY DEF Goto, PoolTypes
<1>3. /\ IsFiniteSet(LiveTasks) /\ IsFiniteSet(Slots)
      /\ Cardinality(LiveTasks) \in Nat /\ Cardinality(Slots) \in Nat /\ sem \in Nat
  BY PoolSets DEF PoolTypes
<1>4. wg' = Cardinality(LiveTasks') /\ (LiveTasks = {} => LiveTasks' = {})
  <2>1. CASE t \in LiveTasks /\ s = "done"
    <3>1. LiveTasks' = LiveTasks \ {t}
      BY <1>2, <2>1 DEF LiveTasks
    <3> QED BY <1>3, <2>1, <3>1, FS_RemoveElement DEF DrainInv
  <2>2. CASE ~(t \in LiveTasks /\ s = "done")
    <3>1. LiveTasks' = LiveTasks
      BY <1>2, <2>2 DEF LiveTasks, TaskState
    <3> QED BY <2>2, <3>1 DEF DrainInv
  <2> QED BY <2>1, <2>2
<1>5. DrainInv'
  BY <1>4 DEF DrainInv
<1>6. Cardinality(Slots') <= sem
  <2>1. Slots' \subseteq Slots \cup {t}
    BY <1>2 DEF Slots
  <2>2. CASE t \in Slots \/ t \notin Slots'
    <3>1. Slots' \subseteq Slots
      BY <2>1, <2>2
    <3>2. Cardinality(Slots') \in Nat /\ Cardinality(Slots') <= Cardinality(Slots)
      BY <1>3, <3>1, FS_Subset, FS_CardinalityType
    <3> QED BY <1>3, <3>2 DEF SlotInv
  <2>3. CASE t \notin Slots /\ t \in Slots'
    <3>1. Cardinality(Slots) < sem
      BY <1>2, <2>3 DEF Slots
    <3>2. IsFiniteSet(Slots \cup {t}) /\ Cardinality(Slots \cup {t}) = Cardinality(Slots) + 1
      BY <1>3, <2>3, FS_AddElement
    <3>3. Cardinality(Slots') \in Nat /\ Cardinality(Slots') <= Cardinality(Slots \cup {t})
      BY <2>1, <3>2, FS_Subset, FS_CardinalityType
    <3> QED BY <1>3, <3>1, <3>2, <3>3
  <2> QED BY <2>2, <2>3
<1>7. SlotInv'
  BY <1>6 DEF SlotInv
<1>8. LateInv'
  BY <1>2 DEF LateInv
<1> QED BY <1>1, <1>5, <1>7, <1>8

LEMMA TaskKeeps ==
  ASSUME PoolInv, NEW t \in Tasks, GoRefuses(t) \/ Runs(t) \/ FnEnds(t)
  PROVE  PoolInv'
<1>1. CASE GoRefuses(t)
  BY <1>1, MoveKeeps DEF GoRefuses, LiveTasks, TaskState
<1>2. CASE StartsFree(t)
  BY <1>2, MoveKeeps DEF StartsFree, LiveTasks, TaskState
<1>3. CASE TakesSlot(t)
  BY <1>3, MoveKeeps DEF TakesSlot, LiveTasks, TaskState
<1>4. CASE GivesUp(t)
  BY <1>4, MoveKeeps DEF GivesUp, LiveTasks, TaskState
<1>5. CASE Holds(t)
  <2>1. t \in LiveTasks /\ (gated[t] => t \in Slots)
    BY <1>5 DEF Holds, LiveTasks, Slots
  <2>2. CASE ctxDone[t]
    BY <1>5, <2>1, <2>2, MoveKeeps DEF Holds, TaskState
  <2>3. CASE ~ctxDone[t]
    BY <1>5, <2>1, <2>3, MoveKeeps DEF Holds, TaskState
  <2> QED BY <2>2, <2>3
<1>6. CASE FnEnds(t)
  BY <1>6, MoveKeeps DEF FnEnds, LiveTasks, Slots, TaskState
<1>7. CASE Releases(t)
  BY <1>7, MoveKeeps DEF Releases, LiveTasks, TaskState
<1>8. CASE Leaves(t)
  BY <1>8, MoveKeeps DEF Leaves, LiveTasks, TaskState
<1> QED BY <1>1, <1>2, <1>3, <1>4, <1>5, <1>6, <1>7, <1>8 DEF Runs

LEMMA AcceptKeeps ==
  ASSUME PoolInv, NEW t \in Tasks, GoAccepts(t)
  PROVE  PoolInv'
<1> USE DEF PoolInv
<1>1. /\ task[t] = "none" /\ ~closed /\ ~ctxDone[t] /\ sem' \in Nat /\ (sem # 0 => sem' = sem)
      /\ wg' = wg + 1 /\ UNCHANGED <<limit, closed, ctxDone, wpc, late>>
  BY DEF GoAccepts, PoolTypes
<1>2. \A u \in Tasks : /\ task'[u] = IF u = t THEN "queued" ELSE task[u]
                       /\ u # t => (gated'[u] <=> gated[u])
                       /\ gated'[t] <=> sem' # 0
  BY DEF GoAccepts, Goto, PoolTypes
<1>3. PoolTypes'
  BY <1>1 DEF GoAccepts, Goto, PoolTypes, TaskState
<1>4. /\ IsFiniteSet(LiveTasks) /\ Cardinality(LiveTasks) \in Nat /\ sem \in Nat
  BY PoolSets DEF PoolTypes
<1>5. LiveTasks' = LiveTasks \cup {t} /\ t \notin LiveTasks
  BY <1>1, <1>2 DEF LiveTasks
<1>6. wg' = Cardinality(LiveTasks')
  BY <1>1, <1>4, <1>5, FS_AddElement DEF DrainInv
<1>7. DrainInv'
  BY <1>1, <1>6 DEF DrainInv
<1>8. Slots' = Slots
  BY <1>1, <1>2 DEF Slots
<1>9. SlotInv'
  <2>1. CASE sem = 0
    <3>1. Slots = {}
      BY <2>1 DEF SlotInv, Slots
    <3> QED BY <1>1, <1>2, <1>8, <2>1, <3>1, FS_EmptySet DEF SlotInv
  <2>2. CASE sem # 0
    BY <1>1, <1>2, <1>8, <2>2 DEF SlotInv
  <2> QED BY <2>1, <2>2
<1>10. LateInv'
  BY <1>1, <1>2 DEF LateInv
<1> QED BY <1>3, <1>7, <1>9, <1>10

LEMMA OtherPoolKeeps ==
  ASSUME PoolInv,
         \/ \E t \in Tasks : ContextEnds(t)
         \/ \E q \in Waiters : WaitBegins(q) \/ WaitReturns(q) \/ WaitTimesOut(q)
         \/ \E l \in Limits : SetLimit(l)
         \/ UNCHANGED poolVars
  PROVE  PoolInv'
<1> USE DEF PoolInv
<1>1. ASSUME NEW t \in Tasks, ContextEnds(t) PROVE PoolInv'
  <2>1. /\ UNCHANGED <<limit, sem, closed, wg, task, gated, wpc>>
        /\ \A u \in Tasks : /\ ctxDone'[u] <=> u = t \/ ctxDone[u]
                            /\ late'[u] <=> IF u = t THEN task[t] = "queued" ELSE late[u]
    BY <1>1 DEF ContextEnds, PoolTypes
  <2>2. PoolTypes'
    BY <1>1 DEF ContextEnds, PoolTypes
  <2>3. LiveTasks' = LiveTasks /\ Slots' = Slots
    BY <2>1 DEF LiveTasks, Slots
  <2>4. DrainInv' /\ SlotInv'
    BY <2>1, <2>3 DEF DrainInv, SlotInv
  <2>5. LateInv'
    BY <2>1 DEF LateInv
  <2> QED BY <2>2, <2>4, <2>5
<1>2. ASSUME NEW q \in Waiters, WaitBegins(q) \/ WaitReturns(q) \/ WaitTimesOut(q) PROVE PoolInv'
  <2>1. /\ UNCHANGED <<limit, sem, wg, task, gated, ctxDone, late>>
        /\ closed' = closed \/ closed' = TRUE
        /\ \A r \in Waiters \ {q} : wpc'[r] = wpc[r]
        /\ wpc'[q] = "nil" => wg = 0
        /\ closed' /\ wpc'[q] # "ready"
    BY <1>2 DEF WaitBegins, WaitReturns, WaitTimesOut, PoolTypes, DrainInv
  <2>2. PoolTypes'
    BY <1>2 DEF WaitBegins, WaitReturns, WaitTimesOut, PoolTypes
  <2>3. LiveTasks' = LiveTasks /\ Slots' = Slots
    BY <2>1 DEF LiveTasks, Slots
  <2>4. wg = 0 => LiveTasks = {}
    BY PoolSets, FS_EmptySet DEF DrainInv
  <2>5. DrainInv'
    BY <2>1, <2>3, <2>4 DEF DrainInv
  <2>6. SlotInv' /\ LateInv'
    BY <2>1, <2>3 DEF SlotInv, LateInv
  <2> QED BY <2>2, <2>5, <2>6
<1>3. CASE (\E l \in Limits : SetLimit(l)) \/ UNCHANGED poolVars
  <2>1. UNCHANGED <<sem, closed, wg, task, gated, ctxDone, wpc, late>> /\ limit' \in Nat
    BY <1>3, SafePoolAssumption DEF SetLimit, poolVars, PoolTypes
  <2>2. LiveTasks' = LiveTasks /\ Slots' = Slots
    BY <2>1 DEF LiveTasks, Slots
  <2> QED BY <2>1, <2>2 DEF PoolTypes, DrainInv, SlotInv, LateInv
<1> QED BY <1>1, <1>2, <1>3

\* The invariant of safe.Pool is inductive, for any number of tasks, callers of
\* Wait and assignments of Limit.
THEOREM PoolInductive == PoolSpec => []PoolInv
<1>1. PoolInv /\ [PoolNext]_poolVars => PoolInv'
  BY TaskKeeps, AcceptKeeps, OtherPoolKeeps DEF PoolNext
<1> QED BY PoolStarts, <1>1, PTL DEF PoolSpec

\* DrainIsFinal: a Wait that returned nil is terminal, no task being queued or
\* running then or ever after.
THEOREM DrainIsFinalCorrect == PoolSpec => []DrainIsFinal
<1>1. PoolInv => DrainIsFinal
  BY DEF PoolInv, PoolTypes, DrainInv, DrainIsFinal, LiveTasks, TaskState
<1> QED BY PoolInductive, <1>1, PTL

\* QueuedCancelNeverRuns: a slot that frees as the context ends runs nothing.
THEOREM QueuedCancelCorrect == PoolSpec => []QueuedCancelNeverRuns
<1>1. PoolInv => QueuedCancelNeverRuns
  BY DEF PoolInv, LateInv, QueuedCancelNeverRuns
<1> QED BY PoolInductive, <1>1, PTL

\* The tasks that occupy a slot never outnumber the capacity of the semaphore,
\* whatever Limit is set to once it is made.
THEOREM SlotsBounded == PoolSpec => [](Cardinality(Slots) <= sem)
<1>1. PoolInv => Cardinality(Slots) <= sem
  BY DEF PoolInv, SlotInv
<1> QED BY PoolInductive, <1>1, PTL
-----------------------------------------------------------------------------
(* pubsub.Bus. A channel in the map of a topic is live, and so is one that  *)
(* a Publish under way has still to offer to: the write lock keeps          *)
(* unsubscribe out until no Publish holds a channel it took from the map.   *)

BusTypes ==
  /\ sub \in [Subscribers -> [topic : Topics \cup {CHOOSE t \in Topics : TRUE}, st : SubState]]
  /\ todo \in [Publishers -> [on : BOOLEAN, left : SUBSET Subscribers]]
  /\ \A t \in DOMAIN subs : subs[t] \subseteq Subscribers

HeldInv ==
  /\ \A t \in DOMAIN subs : \A s \in subs[t] : sub[s].st = "live"
  /\ \A p \in Publishers : /\ \A s \in todo[p].left : sub[s].st = "live"
                           /\ ~todo[p].on => todo[p].left = {}

BusInv == BusTypes /\ HeldInv

LEMMA BusStarts == BusInit => BusInv
<1> SUFFICES ASSUME BusInit PROVE BusInv
  OBVIOUS
<1>1. DOMAIN subs = {}
  BY DEF BusInit
<1>2. BusTypes
  BY <1>1 DEF BusInit, BusTypes, SubState, NoTodo
<1>3. HeldInv
  BY <1>1 DEF BusInit, HeldInv, NoTodo
<1> QED BY <1>2, <1>3 DEF BusInv

LEMMA SubscribeKeeps ==
  ASSUME BusInv, NEW s \in Subscribers, NEW t \in Topics, Subscribe(s, t)
  PROVE  BusInv'
<1> USE DEF BusInv
<1>1. /\ sub' = [sub EXCEPT ![s] = [topic |-> t, st |-> "live"]] /\ todo' = todo
      /\ DOMAIN subs' = DOMAIN subs \cup {t}
      /\ \A u \in DOMAIN subs' : subs'[u] = IF u = t THEN ChannelsOf(t) \cup {s} ELSE subs[u]
  BY DEF Subscribe
<1>2. ChannelsOf(t) \subseteq Subscribers /\ \A c \in ChannelsOf(t) : sub[c].st = "live"
  BY DEF ChannelsOf, BusTypes, HeldInv
<1>3. \A c \in Subscribers : sub'[c].st = IF c = s THEN "live" ELSE sub[c].st
  BY <1>1 DEF BusTypes
<1>4. BusTypes'
  BY <1>1, <1>2 DEF BusTypes, SubState
<1>5. HeldInv'
  BY <1>1, <1>2, <1>3 DEF HeldInv, BusTypes
<1> QED BY <1>4, <1>5

LEMMA UnsubscribeKeeps ==
  ASSUME BusInv, NEW s \in Subscribers, Unsubscribe(s)
  PROVE  BusInv'
<1> USE DEF BusInv
<1>1. /\ sub' = [sub EXCEPT ![s].st = "removed"] /\ todo' = todo /\ NoReader
      /\ DOMAIN subs' \subseteq DOMAIN subs
      /\ \A u \in DOMAIN subs' : subs'[u] = subs[u] \ {s}
  BY DEF Unsubscribe
<1>2. \A c \in Subscribers : sub'[c].st = IF c = s THEN "removed" ELSE sub[c].st
  BY <1>1 DEF BusTypes
<1>3. BusTypes'
  BY <1>1 DEF BusTypes, SubState
<1>4. \A p \in Publishers : todo'[p].left = {}
  BY <1>1 DEF NoReader, HeldInv
<1>5. HeldInv'
  BY <1>1, <1>2, <1>4 DEF HeldInv, BusTypes
<1> QED BY <1>3, <1>5

LEMMA CloseKeeps ==
  ASSUME BusInv, NEW s \in Subscribers, Close(s)
  PROVE  BusInv'
<1> USE DEF BusInv
<1>1. sub' = [sub EXCEPT ![s].st = "closed"] /\ UNCHANGED <<todo, subs>> /\ sub[s].st = "removed"
  BY DEF Close
<1>2. \A c \in Subscribers : sub'[c].st = IF c = s THEN "closed" ELSE sub[c].st
  BY <1>1 DEF BusTypes
<1>3. BusTypes'
  BY <1>1 DEF BusTypes, SubState
<1>4. HeldInv'
  BY <1>1, <1>2 DEF HeldInv, BusTypes
<1> QED BY <1>3, <1>4

LEMMA PublishKeeps ==
  ASSUME BusInv, NEW p \in Publishers,
         (\E t \in Topics : PublishBegins(p, t)) \/ Publishing(p)
  PROVE  BusInv'
<1> USE DEF BusInv
<1>0. ASSUME UNCHANGED <<sub, subs>>,
             todo' \in [Publishers -> [on : BOOLEAN, left : SUBSET Subscribers]],
             \A q \in Publishers \ {p} : todo'[q] = todo[q],
             \A s \in todo'[p].left : sub[s].st = "live", ~todo'[p].on => todo'[p].left = {}
      PROVE  BusInv'
  <2>1. BusTypes'
    BY <1>0 DEF BusTypes
  <2>2. HeldInv'
    BY <1>0 DEF HeldInv
  <2> QED BY <2>1, <2>2
<1>1. ASSUME NEW t \in Topics, PublishBegins(p, t) PROVE BusInv'
  <2>1. ChannelsOf(t) \in SUBSET Subscribers /\ \A s \in ChannelsOf(t) : sub[s].st = "live"
    BY DEF ChannelsOf, BusTypes, HeldInv
  <2>2. /\ UNCHANGED <<sub, subs>>
        /\ todo' \in [Publishers -> [on : BOOLEAN, left : SUBSET Subscribers]]
        /\ \A q \in Publishers \ {p} : todo'[q] = todo[q]
        /\ todo'[p].left = ChannelsOf(t) /\ todo'[p].on
    BY <1>1, <2>1 DEF PublishBegins, BusTypes
  <2> QED BY <1>0, <2>1, <2>2
<1>2. ASSUME NEW s \in Subscribers, Offer(p, s) PROVE BusInv'
  <2>1. /\ UNCHANGED <<sub, subs>>
        /\ todo' \in [Publishers -> [on : BOOLEAN, left : SUBSET Subscribers]]
        /\ \A q \in Publishers \ {p} : todo'[q] = todo[q]
        /\ todo'[p].left = todo[p].left \ {s}
    BY <1>2 DEF Offer, BusTypes
  <2>2. todo'[p].on <=> todo[p].on
    BY <1>2 DEF Offer, BusTypes
  <2>3. \A c \in todo'[p].left : sub[c].st = "live"
    BY <2>1 DEF HeldInv
  <2>4. todo[p].on
    BY <1>2 DEF Offer
  <2> QED BY <1>0, <2>1, <2>2, <2>3, <2>4
<1>3. CASE PublishEnds(p)
  <2>1. /\ UNCHANGED <<sub, subs>>
        /\ todo' \in [Publishers -> [on : BOOLEAN, left : SUBSET Subscribers]]
        /\ \A q \in Publishers \ {p} : todo'[q] = todo[q]
        /\ todo'[p].left = {}
    BY <1>3 DEF PublishEnds, NoTodo, BusTypes
  <2> QED BY <1>0, <2>1
<1> QED BY <1>1, <1>2, <1>3 DEF Publishing

\* NoSendOnClosed: however subscribers come and go, no Publish under way holds
\* a closed channel, so none panics in its send.
THEOREM NoSendOnClosedCorrect == BusSpec => []NoSendOnClosed
<1>1. BusInv /\ [BusNext]_busVars => BusInv'
  <2> SUFFICES ASSUME BusInv, [BusNext]_busVars PROVE BusInv'
    OBVIOUS
  <2>1. ASSUME NEW s \in Subscribers, Receive(s) PROVE BusInv'
    BY <2>1 DEF Receive, BusInv, BusTypes, HeldInv
  <2>2. CASE UNCHANGED busVars
    BY <2>2 DEF busVars, BusInv, BusTypes, HeldInv
  <2> QED BY <2>1, <2>2, SubscribeKeeps, UnsubscribeKeeps, CloseKeeps, PublishKeeps DEF BusNext
<1>2. BusInv => NoSendOnClosed
  BY DEF BusInv, HeldInv, NoSendOnClosed
<1> QED BY BusStarts, <1>1, <1>2, PTL DEF BusSpec
-----------------------------------------------------------------------------
(* notify.Multi. The backends before the cursor are settled, each with its  *)
(* one copy or an error that no other turn of the loop can have added; the  *)
(* ones from the cursor on have neither.                                    *)

Copy(i) == <<Rendered(Backends[i], note.level)>>

Failed(i) == \E j \in DOMAIN note.errs : note.errs[j] = i

NoteTypes ==
  /\ note \in [pc : {"idle", "loop", "done"}, level : Severities \cup {"info"},
               i : Nat \ {0}, errs : Seq(Nat)]
  /\ DOMAIN inbox = DOMAIN Backends
  /\ noteCtx \in BOOLEAN

ErrsInv ==
  /\ \A j \in DOMAIN note.errs : note.errs[j] < note.i
  /\ \A j, k \in DOMAIN note.errs : note.errs[j] = note.errs[k] => j = k

SettledInv ==
  \A i \in DOMAIN Backends :
    /\ i >= note.i => inbox[i] = <<>>
    /\ i < note.i => /\ inbox[i] = <<>> \/ inbox[i] = Copy(i)
                     /\ Backends[i] # "nil" /\ ~Failed(i) => inbox[i] = Copy(i)

NoteInv ==
  /\ NoteTypes
  /\ note.pc # "idle" => ErrsInv /\ SettledInv
  /\ note.pc = "done" => note.i > Len(Backends)

LEMMA BackendPlaces == Len(Backends) \in Nat /\ DOMAIN Backends = 1..Len(Backends)
BY NotifyAssumption, LenProperties

\* A list of errors that names earlier backends only, each once, stays so when
\* the loop moves on, with or without the error of this turn.
LEMMA ErrsGrow ==
  ASSUME NEW s \in Seq(Nat), NEW n \in Nat,
         \A j \in DOMAIN s : s[j] < n,
         \A j, k \in DOMAIN s : s[j] = s[k] => j = k
  PROVE  /\ \A j \in DOMAIN s : s[j] < n + 1
         /\ Append(s, n) \in Seq(Nat) /\ Append(s, n) # s
         /\ \A j \in DOMAIN Append(s, n) : Append(s, n)[j] < n + 1
         /\ \A j, k \in DOMAIN Append(s, n) : Append(s, n)[j] = Append(s, n)[k] => j = k
         /\ \A i : (\E j \in DOMAIN Append(s, n) : Append(s, n)[j] = i)
                    <=> (\E j \in DOMAIN s : s[j] = i) \/ i = n
<1> DEFINE m == Len(s)  a == Append(s, n)
<1>1. m \in Nat /\ DOMAIN s = 1..m /\ \A j \in 1..m : s[j] \in Nat
  BY LenProperties, ElementOfSeq
<1>2. a \in Seq(Nat) /\ Len(a) = m + 1 /\ a[m + 1] = n /\ \A j \in 1..m : a[j] = s[j]
  BY AppendProperties
<1>3. DOMAIN a = 1..(m + 1)
  BY <1>2, LenProperties
<1> HIDE DEF m, a
<1>4. \A j \in 1..m : s[j] < n + 1
  BY <1>1
<1>5. a # s
  BY <1>1, <1>2, <1>3
<1>6. \A j \in 1..(m + 1) : j \in 1..m \/ j = m + 1
  BY <1>1
<1>7. \A j \in 1..(m + 1) : a[j] < n + 1
  BY <1>1, <1>2, <1>4, <1>6
<1>8. \A j, k \in 1..(m + 1) : a[j] = a[k] => j = k
  <2>1. \A j \in 1..m : a[j] \in Nat /\ a[j] < n
    BY <1>1, <1>2
  <2>2. \A j, k \in 1..m : a[j] = a[k] => j = k
    BY <1>1, <1>2
  <2>3. \A j \in 1..m : a[j] # a[m + 1]
    BY <1>2, <2>1
  <2> QED BY <1>6, <2>2, <2>3
<1>9. \A i : (\E j \in 1..(m + 1) : a[j] = i) <=> (\E j \in 1..m : s[j] = i) \/ i = n
  <2>1. m + 1 \in 1..(m + 1) /\ 1..m \subseteq 1..(m + 1)
    BY <1>1
  <2> QED BY <1>2, <1>6, <2>1
<1> QED BY <1>1, <1>2, <1>3, <1>4, <1>5, <1>7, <1>8, <1>9 DEF a

\* One turn of the loop of Multi.Send.
LEMMA TurnKeeps ==
  ASSUME NoteInv, AtSender, NEW e,
         note' = [pc |-> "loop", level |-> note.level, i |-> note.i + 1, errs |-> e],
         e = note.errs \/ e = Append(note.errs, note.i),
         DOMAIN inbox' = DOMAIN inbox, noteCtx' = noteCtx,
         \A i \in DOMAIN Backends : i # note.i => inbox'[i] = inbox[i],
         inbox'[note.i] = <<>> \/ inbox'[note.i] = Copy(note.i),
         Backends[note.i] # "nil" /\ e = note.errs => inbox'[note.i] = Copy(note.i)
  PROVE  NoteInv'
<1>1. /\ note.i \in Nat \ {0} /\ note.errs \in Seq(Nat) /\ note.level \in Severities \cup {"info"}
      /\ ErrsInv /\ SettledInv /\ note.pc = "loop"
  BY DEF NoteInv, NoteTypes, AtSender
<1>3. /\ e \in Seq(Nat)
      /\ \A j \in DOMAIN e : e[j] < note.i + 1
      /\ \A j, k \in DOMAIN e : e[j] = e[k] => j = k
      /\ \A i : (\E j \in DOMAIN e : e[j] = i) <=>
                (\E j \in DOMAIN note.errs : note.errs[j] = i) \/ (i = note.i /\ e # note.errs)
  <2>1. note.i \in Nat
    BY <1>1
  <2>2. /\ \A j \in DOMAIN note.errs : note.errs[j] < note.i
        /\ \A j, k \in DOMAIN note.errs : note.errs[j] = note.errs[k] => j = k
    BY <1>1 DEF ErrsInv
  <2>3. CASE e = note.errs
    BY <1>1, <2>1, <2>2, <2>3, ErrsGrow
  <2>4. CASE e = Append(note.errs, note.i)
    <3> DEFINE s == note.errs  n == note.i
    <3>1. /\ Append(s, n) \in Seq(Nat) /\ Append(s, n) # s
          /\ \A j \in DOMAIN Append(s, n) : Append(s, n)[j] < n + 1
          /\ \A j, k \in DOMAIN Append(s, n) : Append(s, n)[j] = Append(s, n)[k] => j = k
          /\ \A i : (\E j \in DOMAIN Append(s, n) : Append(s, n)[j] = i)
                     <=> (\E j \in DOMAIN s : s[j] = i) \/ i = n
      BY <1>1, <2>1, <2>2, ErrsGrow
    <3>2. e = Append(s, n)
      BY <2>4
    <3> HIDE DEF s, n
    <3>3. /\ e \in Seq(Nat) /\ e # s
          /\ \A j \in DOMAIN e : e[j] < n + 1
          /\ \A j, k \in DOMAIN e : e[j] = e[k] => j = k
          /\ \A i : (\E j \in DOMAIN e : e[j] = i) <=> (\E j \in DOMAIN s : s[j] = i) \/ i = n
      BY <3>1, <3>2, Zenon
    <3> QED BY <3>3, Zenon DEF s, n
  <2> QED BY <2>3, <2>4
<1>4. note'.pc = "loop" /\ note'.level = note.level /\ note'.i = note.i + 1 /\ note'.errs = e
  OBVIOUS
<1>5. NoteTypes'
  BY <1>1, <1>3 DEF NoteInv, NoteTypes
<1>6. ErrsInv'
  BY <1>3, <1>4 DEF ErrsInv
<1>7. \A i : Failed(i)' <=> Failed(i) \/ (i = note.i /\ e # note.errs)
  <2> SUFFICES ASSUME NEW i
               PROVE  Failed(i)' <=> Failed(i) \/ (i = note.i /\ e # note.errs)
    OBVIOUS
  <2>1. Failed(i)' <=> \E j \in DOMAIN e : e[j] = i
    BY <1>4, Zenon DEF Failed
  <2> QED BY <1>3, <2>1, Zenon DEF Failed
<1>8. \A i \in DOMAIN Backends : Copy(i)' = Copy(i)
  BY <1>4 DEF Copy
<1>9. SettledInv'
  BY <1>1, <1>4, <1>7, <1>8, BackendPlaces DEF SettledInv
<1> QED BY <1>4, <1>5, <1>6, <1>9 DEF NoteInv

LEMMA SenderKeeps ==
  ASSUME NoteInv, SkipsNil \/ NotRendered \/ Posts
  PROVE  NoteInv'
<1>0. AtSender
  BY DEF SkipsNil, NotRendered, Posts
<1>1. /\ note = [pc |-> "loop", level |-> note.level, i |-> note.i, errs |-> note.errs]
      /\ note.i \in DOMAIN Backends /\ inbox[note.i] = <<>> /\ DOMAIN inbox = DOMAIN Backends
  BY <1>0, BackendPlaces DEF AtSender, NoteInv, NoteTypes, SettledInv
<1>2. SenderDone =>
        note' = [pc |-> "loop", level |-> note.level, i |-> note.i + 1, errs |-> note.errs]
  BY <1>1 DEF SenderDone, NextSender
<1>3. SenderFails =>
        note' = [pc |-> "loop", level |-> note.level, i |-> note.i + 1,
                 errs |-> Append(note.errs, note.i)]
  BY <1>1 DEF SenderFails, NextSender
<1>4. CASE SkipsNil
  BY <1>0, <1>1, <1>2, <1>4, TurnKeeps DEF SkipsNil
<1>5. CASE NotRendered
  BY <1>0, <1>1, <1>3, <1>5, TurnKeeps DEF NotRendered
<1>6. CASE Posts
  <2>0. Attempts("POST") = 1
    BY DEF Attempts, Retried
  <2>a. \E sent \in 0..Attempts("POST"), answer \in {"ok", "transient", "failed"} :
          /\ \E copies \in (IF answer = "ok" THEN 1 ELSE 0)..sent :
               inbox' = [inbox EXCEPT ![note.i] =
                           @ \o [k \in 1..copies |-> Rendered(Backends[note.i], note.level)]]
          /\ IF answer = "ok" THEN SenderDone ELSE SenderFails
    BY <1>6, Zenon DEF Posts
  <2>b. PICK sent \in 0..1, answer \in {"ok", "transient", "failed"} :
          /\ \E copies \in (IF answer = "ok" THEN 1 ELSE 0)..sent :
               inbox' = [inbox EXCEPT ![note.i] =
                           @ \o [k \in 1..copies |-> Rendered(Backends[note.i], note.level)]]
          /\ IF answer = "ok" THEN SenderDone ELSE SenderFails
    BY <2>0, <2>a, Zenon
  <2> DEFINE ok == answer = "ok"
  <2>c. (IF ok THEN 1 ELSE 0)..sent \subseteq 0..1 /\ \A m \in (IF ok THEN 1 ELSE 0)..sent : ok => m > 0
    OBVIOUS
  <2>1. PICK n \in 0..1 :
          /\ ok => n > 0
          /\ inbox' = [inbox EXCEPT ![note.i] =
                         @ \o [k \in 1..n |-> Rendered(Backends[note.i], note.level)]]
          /\ IF ok THEN SenderDone ELSE SenderFails
    BY <2>b, <2>c, Zenon
  <2> HIDE DEF ok
  <2> DEFINE r == Rendered(Backends[note.i], note.level)
  <2>2. /\ DOMAIN inbox' = DOMAIN inbox
        /\ \A i \in DOMAIN Backends : i # note.i => inbox'[i] = inbox[i]
        /\ inbox'[note.i] = <<>> \o [k \in 1..n |-> r]
    BY <1>1, <2>1
  <2> HIDE DEF r
  <2>3. n = 1 => inbox'[note.i] = <<r>>
    <3>1. <<>> \o [k \in 1..1 |-> r] = <<r>>
      OBVIOUS
    <3> QED BY <2>2, <3>1
  <2>4. n = 0 => inbox'[note.i] = <<>>
    <3>1. <<>> \o [k \in 1..0 |-> r] = <<>>
      OBVIOUS
    <3> QED BY <2>2, <3>1
  <2>5. Copy(note.i) = <<r>>
    BY DEF Copy, r
  <2>6. noteCtx' = noteCtx
    BY <1>6 DEF Posts
  <2>7. CASE ok
    BY <1>0, <1>2, <2>1, <2>2, <2>3, <2>5, <2>6, <2>7, TurnKeeps
  <2>8. CASE ~ok
    <3>1. Append(note.errs, note.i) # note.errs
      BY AppendProperties DEF NoteInv, NoteTypes
    <3>2. inbox'[note.i] = <<>> \/ inbox'[note.i] = Copy(note.i)
      BY <2>1, <2>3, <2>4, <2>5
    <3>3. SenderFails
      BY <2>1, <2>8
    <3> QED BY <1>0, <1>3, <2>2, <2>6, <3>1, <3>2, <3>3, TurnKeeps
  <2> QED BY <2>7, <2>8
<1> QED BY <1>4, <1>5, <1>6

LEMMA NoteKeeps ==
  ASSUME NoteInv, [NotifyNext]_noteVars
  PROVE  NoteInv'
<1>0. NoteTypes
  BY DEF NoteInv
<1>1. ASSUME NEW l \in Severities, NotifyBegins(l) PROVE NoteInv'
  <2>1. note' = [pc |-> "loop", level |-> l, i |-> 1, errs |-> <<>>]
    BY <1>1 DEF NotifyBegins, NoNote
  <2>2. DOMAIN inbox' = DOMAIN Backends /\ \A i \in DOMAIN Backends : inbox'[i] = <<>>
    BY <1>1 DEF NotifyBegins
  <2>3. NoteTypes'
    <3>1. noteCtx' \in BOOLEAN
      BY <1>0, <1>1 DEF NotifyBegins, NoteTypes
    <3>2. <<>> \in Seq(Nat) /\ l \in Severities \cup {"info"}
      BY EmptySeq
    <3> QED BY <2>1, <2>2, <3>1, <3>2 DEF NoteTypes
  <2>4. ErrsInv' /\ SettledInv' /\ note'.pc = "loop"
    BY <2>1, <2>2, BackendPlaces DEF ErrsInv, SettledInv
  <2> QED BY <2>3, <2>4 DEF NoteInv
<1>2. CASE NotifyReturns
  <2>1. /\ note' = [pc |-> "done", level |-> note.level, i |-> note.i, errs |-> note.errs]
        /\ UNCHANGED <<noteCtx, inbox>> /\ note.pc = "loop" /\ note.i > Len(Backends)
    BY <1>0, <1>2 DEF NotifyReturns, NoteTypes
  <2>2. NoteTypes'
    BY <1>0, <2>1 DEF NoteTypes
  <2>3. ErrsInv' /\ SettledInv'
    BY <2>1 DEF NoteInv, ErrsInv, SettledInv, Copy, Failed
  <2> QED BY <2>1, <2>2, <2>3 DEF NoteInv
<1>3. CASE NotifyForgotten
  <2>1. note' = [pc |-> "idle", level |-> "info", i |-> 1, errs |-> <<>>]
        /\ noteCtx' = FALSE /\ inbox' = inbox
    BY <1>3 DEF NotifyForgotten, NoNote
  <2>2. NoteTypes'
    <3>1. noteCtx' \in BOOLEAN
      BY <2>1
    <3>2. <<>> \in Seq(Nat) /\ DOMAIN inbox' = DOMAIN Backends
      BY <1>0, <2>1, EmptySeq DEF NoteTypes
    <3> QED BY <2>1, <3>1, <3>2 DEF NoteTypes
  <2> QED BY <2>1, <2>2 DEF NoteInv
<1>4. CASE NotifyCut \/ UNCHANGED noteVars
  <2>1. UNCHANGED <<note, inbox>> /\ noteCtx' \in BOOLEAN
    BY <1>0, <1>4 DEF NotifyCut, noteVars, NoteTypes
  <2> QED BY <2>1 DEF NoteInv, NoteTypes, ErrsInv, SettledInv, Copy, Failed
<1> QED BY <1>1, <1>2, <1>3, <1>4, SenderKeeps DEF NotifyNext

\* EveryBackendAnswered: a Multi of any length that returns has, for each sender
\* that is not nil, one copy at its backend or its error, once, and never two
\* copies, whatever is lost and whenever the context ends.
THEOREM EveryBackendAnsweredCorrect == NotifySpec => []EveryBackendAnswered
<1>1. NotifyInit => NoteInv
  <2> SUFFICES ASSUME NotifyInit PROVE NoteInv
    OBVIOUS
  <2>1. /\ note = [pc |-> "idle", level |-> "info", i |-> 1, errs |-> <<>>]
        /\ DOMAIN inbox = DOMAIN Backends
    BY DEF NotifyInit, NoNote
  <2>2. noteCtx \in BOOLEAN
    BY DEF NotifyInit
  <2>3. <<>> \in Seq(Nat)
    BY EmptySeq
  <2>4. NoteTypes
    BY <2>1, <2>2, <2>3 DEF NoteTypes
  <2> QED BY <2>1, <2>4 DEF NoteInv
<1>2. NoteInv /\ [NotifyNext]_noteVars => NoteInv'
  BY NoteKeeps
<1>3. NoteInv => EveryBackendAnswered
  <2> SUFFICES ASSUME NoteInv, note.pc = "done", NEW i \in DOMAIN Backends
               PROVE  /\ Len(inbox[i]) <= 1
                      /\ Backends[i] # "nil" /\ (\A j \in DOMAIN note.errs : note.errs[j] # i) =>
                           inbox[i] = <<Rendered(Backends[i], note.level)>>
                      /\ Cardinality({j \in DOMAIN note.errs : note.errs[j] = i}) <= 1
    BY DEF EveryBackendAnswered
  <2>1. ErrsInv /\ SettledInv /\ i < note.i /\ note.i \in Nat
    BY BackendPlaces DEF NoteInv, NoteTypes
  <2>2. /\ inbox[i] = <<>> \/ inbox[i] = Copy(i)
        /\ Backends[i] # "nil" /\ ~Failed(i) => inbox[i] = Copy(i)
    BY <2>1 DEF SettledInv
  <2>3. Len(inbox[i]) <= 1
    <3>1. Len(<<>>) = 0 /\ Len(Copy(i)) = 1
      BY DEF Copy
    <3>2. Len(inbox[i]) = 0 \/ Len(inbox[i]) = 1
      BY <2>2, <3>1, Zenon
    <3>3. \A k : k = 0 \/ k = 1 => k <= 1
      OBVIOUS
    <3> QED BY <3>2, <3>3, Zenon
  <2>4. Cardinality({j \in DOMAIN note.errs : note.errs[j] = i}) <= 1
    <3> DEFINE J == {j \in DOMAIN note.errs : note.errs[j] = i}
    <3>1. CASE J = {}
      BY <3>1, FS_EmptySet
    <3>2. CASE J # {}
      <4>1. PICK j \in J : TRUE
        BY <3>2
      <4>2. J = {j}
        BY <2>1, <4>1 DEF ErrsInv
      <4> QED BY <4>2, FS_Singleton
    <3> QED BY <3>1, <3>2
  <2> QED BY <2>2, <2>3, <2>4 DEF Copy, Failed
<1> QED BY <1>1, <1>2, <1>3, PTL DEF NotifySpec
=============================================================================
