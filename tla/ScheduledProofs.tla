-------------------------- MODULE ScheduledProofs --------------------------
(***************************************************************************)
(* Proofs about what a service does on its own: the migrations of its      *)
(* database (Migrate), a scheduled push (PushJob over Delivery) and the    *)
(* pruning of its backups (Backup), for any number of builds, boots,       *)
(* subscriptions, callers and days.                                        *)
(***************************************************************************)
EXTENDS Migrate, PushJob, Backup, FiniteSetTheorems, SequenceTheorems, NaturalsInduction, TLAPS
-----------------------------------------------------------------------------
(* sqlitex.Migrate. At every moment the file holds exactly the steps its    *)
(* stamp counts; a transaction under way holds one more step, its stamp     *)
(* last, so that any crash leaves the file as it was or one step on.        *)

Steps(v) == [i \in 1..v |-> i]

FileInv == version \in Nat /\ effects = Steps(version)

BootInv ==
  /\ boot \in [pc : {"down", "read", "loop", "up", "stamp", "commit", "serving"},
               knows : Nat, i : Nat]
  /\ boot.pc \in {"loop", "up", "stamp", "commit"} => boot.i = version /\ version <= boot.knows
  /\ boot.pc \in {"up", "stamp", "commit"} => version < boot.knows
  /\ boot.pc = "serving" => version = boot.knows

TxInv ==
  /\ boot.pc = "up" => tx.effects = Steps(version) /\ tx.version = version
  /\ boot.pc = "stamp" => tx.effects = Steps(version + 1) /\ tx.version = version
  /\ boot.pc = "commit" => tx.effects = Steps(version + 1) /\ tx.version = version + 1
  /\ tx = [effects |-> tx.effects, version |-> tx.version]

SchemaInv == FileInv /\ BootInv /\ TxInv

\* Up makes the next step behind the ones the file holds.
LEMMA StepsGrow == ASSUME NEW v \in Nat PROVE Append(Steps(v), v + 1) = Steps(v + 1)
<1>1. Steps(v) \in Seq(Nat) /\ Len(Steps(v)) = v
  BY DEF Steps
<1>2. Steps(v + 1) \in Seq(Nat) /\ Len(Steps(v + 1)) = v + 1
  BY DEF Steps
<1>3. /\ Append(Steps(v), v + 1) \in Seq(Nat)
      /\ Len(Append(Steps(v), v + 1)) = v + 1
      /\ \A i \in 1..v : Append(Steps(v), v + 1)[i] = Steps(v)[i]
      /\ Append(Steps(v), v + 1)[v + 1] = v + 1
  BY <1>1, AppendProperties
<1>4. \A i \in 1..(v + 1) : Append(Steps(v), v + 1)[i] = Steps(v + 1)[i]
  <2> TAKE i \in 1..(v + 1)
  <2>1. CASE i = v + 1
    BY <1>3, <2>1 DEF Steps
  <2>2. CASE i \in 1..v
    BY <1>3, <2>2 DEF Steps
  <2>3. i = v + 1 \/ i \in 1..v
    OBVIOUS
  <2> QED BY <2>1, <2>2, <2>3
<1> QED BY <1>2, <1>3, <1>4, SeqEqual

\* Booting, failing and dying: the file keeps its steps, and a transaction that
\* was open is gone. A commit that reports an error may have been made.
LEMMA BootSchema ==
  ASSUME SchemaInv, (\E b \in Builds : Boots(b)) \/ StepFails \/ ProcessDies
  PROVE  SchemaInv'
<1> USE DEF SchemaInv, FileInv, BootInv, TxInv, Down, NoTx
<1>1. CASE \E b \in Builds : Boots(b)
  BY <1>1, MigrateAssumption DEF Boots
<1>2. CASE StepFails
  BY <1>2 DEF StepFails
<1>3. CASE ProcessDies
  BY <1>3 DEF ProcessDies
<1> QED BY <1>1, <1>2, <1>3

\* One step of MigrateContext after the other.
LEMMA StepSchema ==
  ASSUME SchemaInv,
         \/ ReadsVersion \/ StepBegins \/ StepUp \/ StepStamps \/ StepCommits \/ OpenReturns
  PROVE  SchemaInv'
<1> USE DEF SchemaInv, FileInv, BootInv, TxInv, Down, NoTx
<1>1. CASE ReadsVersion
  <2>1. CASE Ahead
    BY <1>1, <2>1 DEF ReadsVersion
  <2>2. CASE ~Ahead
    <3>1. boot' = [pc |-> "loop", knows |-> boot.knows, i |-> version]
      BY <1>1, <2>2 DEF ReadsVersion
    <3>2. version <= boot.knows
      BY <2>2 DEF Ahead
    <3> QED BY <1>1, <3>1, <3>2 DEF ReadsVersion
  <2> QED BY <2>1, <2>2
<1>2. CASE StepBegins
  BY <1>2 DEF StepBegins
<1>3. CASE StepUp
  BY <1>3, StepsGrow DEF StepUp
<1>4. CASE StepStamps
  BY <1>4 DEF StepStamps
<1>5. CASE StepCommits
  <2>1. version' = version + 1 /\ effects' = Steps(version + 1) /\ tx' = NoTx
    BY <1>5 DEF StepCommits
  <2>2. boot' = [pc |-> "loop", knows |-> boot.knows, i |-> version + 1]
    BY <1>5 DEF StepCommits
  <2>3. version + 1 <= boot.knows
    BY <1>5 DEF StepCommits
  <2> QED BY <2>1, <2>2, <2>3
<1>6. CASE OpenReturns
  BY <1>6 DEF OpenReturns
<1> QED BY <1>1, <1>2, <1>3, <1>4, <1>5, <1>6

\* Every step keeps the file and its stamp together.
THEOREM SchemaInductive == SchemaSpec => []SchemaInv
<1>1. SchemaInit => SchemaInv
  BY DEF SchemaInit, SchemaInv, FileInv, BootInv, TxInv, Down, NoTx, Steps
<1>2. SchemaInv /\ [SchemaNext]_schemaVars => SchemaInv'
  <2>1. CASE SchemaNext
    BY <2>1, BootSchema, StepSchema DEF SchemaNext
  <2>2. CASE UNCHANGED schemaVars
    BY <2>2 DEF schemaVars, SchemaInv, FileInv, BootInv, TxInv
  <2> QED BY <2>1, <2>2
<1> QED BY <1>1, <1>2, PTL DEF SchemaSpec

\* A process that serves finds the steps its build knows in the file, each made
\* once and in order, and no others, through any sequence of crashes, failing
\* steps, upgrades and rollbacks.
THEOREM ServesItsSchemaCorrect == SchemaSpec => []ServesItsSchema
<1>1. SchemaInv => ServesItsSchema
  BY DEF SchemaInv, FileInv, BootInv, ServesItsSchema, Steps
<1> QED BY <1>1, SchemaInductive, PTL
-----------------------------------------------------------------------------
(* webpush/delivery.Sender under jobs.Job. The tally is right at the end    *)
(* because it is right all along: it counts the accepted deliveries, each   *)
(* subscription is launched once in a Send, a goroutine exists only while   *)
(* Send is in its loop, and only a subscription that was thrown away is     *)
(* ever on its way out of the store.                                        *)

SendTypes ==
  /\ store \subseteq Endpoints /\ accepted \subseteq Endpoints
  /\ send \in [pc : {"idle", "list", "loop", "done"}, left : SUBSET Endpoints,
               tally : Nat, err : BOOLEAN]
  /\ deliveries \in [Endpoints -> {"none", "post", "gone", "release", "leave", "done"}]

TallyInv ==
  /\ send.tally = Cardinality(accepted)
  /\ send.pc \in {"idle", "list"} => accepted = {}
  /\ send.pc = "loop" => \A e \in accepted : deliveries[e] \in {"release", "leave", "done"}

LaunchInv ==
  /\ \A e \in send.left : deliveries[e] = "none"
  /\ send.pc # "loop" => send.left = {} /\ \A e \in Endpoints : deliveries[e] = "none"

RetireInv ==
  /\ Endpoints \ store \subseteq dead
  /\ \A e \in Endpoints : deliveries[e] = "gone" => e \in dead

SendInv == SendTypes /\ TallyInv /\ LaunchInv /\ RetireInv

\* The set of accepted deliveries is finite and grows by one.
LEMMA AcceptedFinite ==
  ASSUME SendTypes
  PROVE  /\ IsFiniteSet(accepted) /\ Cardinality(accepted) \in Nat
         /\ \A e : e \notin accepted => Cardinality(accepted \cup {e}) = Cardinality(accepted) + 1
<1>1. IsFiniteSet(accepted)
  BY DeliveryAssumption, FS_Subset DEF SendTypes
<1> QED BY <1>1, FS_CardinalityType, FS_AddElement

\* The steps of Send and SendTo.
LEMMA SenderInv ==
  ASSUME SendInv,
         \/ SendBegins \/ SendLists \/ SendListFails \/ SendPanics \/ Launches
         \/ SendReturns \/ SendForgotten
  PROVE  SendInv'
<1> USE DEF SendInv, SendTypes, TallyInv, LaunchInv, RetireInv, NoSend
<1>0. Cardinality({}) = 0
  BY FS_EmptySet
<1>1. CASE SendBegins
  BY <1>1 DEF SendBegins
<1>2. CASE SendLists
  <2>1. /\ send.pc = "list" /\ send' = [pc |-> "loop", left |-> store, tally |-> 0, err |-> FALSE]
        /\ UNCHANGED <<store, dead, deliveries, accepted>>
    BY <1>2 DEF SendLists
  <2> QED BY <1>0, <2>1
<1>3. CASE SendListFails \/ SendPanics
  <2>1. PICK p \in {"done", "idle"}, f \in BOOLEAN :
          send' = [pc |-> p, left |-> {}, tally |-> 0, err |-> f]
    BY <1>3 DEF SendListFails, SendPanics
  <2>2. send.pc = "list" /\ UNCHANGED <<store, dead, deliveries, accepted>>
    BY <1>3 DEF SendListFails, SendPanics
  <2> QED BY <1>0, <2>1, <2>2
<1>4. CASE Launches
  <2>1. PICK e \in send.left :
          /\ send' = [send EXCEPT !.left = @ \ {e}]
          /\ deliveries' = [deliveries EXCEPT ![e] = "post"]
    BY <1>4 DEF Launches, DeliveryTo
  <2>2. UNCHANGED <<store, dead, accepted>> /\ send.pc = "loop"
    BY <1>4 DEF Launches
  <2> QED BY <2>1, <2>2
<1>5. CASE SendReturns
  <2>1. \A e \in Endpoints : deliveries'[e] = "none"
    BY <1>5 DEF SendReturns, Joined
  <2>2. deliveries' \in [Endpoints -> {"none", "post", "gone", "release", "leave", "done"}]
    BY <1>5 DEF SendReturns
  <2> QED BY <1>5, <2>1, <2>2 DEF SendReturns
<1>6. CASE SendForgotten
  BY <1>0, <1>6 DEF SendForgotten
<1> QED BY <1>1, <1>2, <1>3, <1>4, <1>5, <1>6

\* The steps of a delivery goroutine: it counts its subscription at most once,
\* and retires it only when the push service said it was gone.
LEMMA DeliveringInv ==
  ASSUME SendInv, NEW e \in Endpoints, Delivering(e) PROVE SendInv'
<1> USE DEF SendInv, SendTypes, TallyInv, LaunchInv, RetireInv, DeliveryTo
<1>1. CASE PostAccepted(e)
  <2>1. e \notin accepted /\ send.pc = "loop"
    BY <1>1 DEF PostAccepted
  <2>2. Cardinality(accepted') = Cardinality(accepted) + 1
    BY <1>1, <2>1, AcceptedFinite DEF PostAccepted
  <2> QED BY <1>1, <2>1, <2>2 DEF PostAccepted
<1>2. CASE PostGone(e)
  BY <1>2 DEF PostGone
<1>3. CASE PostEnds(e) \/ PostPanics(e) \/ RetireFails(e) \/ SlotReturned(e) \/ DeliveryLeaves(e)
  BY <1>3 DEF PostEnds, PostPanics, RetireFails, SlotReturned, DeliveryLeaves
<1>4. CASE Retires(e)
  BY <1>4 DEF Retires
<1> QED BY <1>1, <1>2, <1>3, <1>4 DEF Delivering

\* Every step of the scheduled push is one of Send's, of a delivery's or of a
\* browser's, or leaves the sender alone.
THEOREM SendInductive == PushSpec => []SendInv
<1>1. PushInit => SendInv
  BY FS_EmptySet DEF PushInit, DeliveryInit, NoSend, SendInv, SendTypes, TallyInv, LaunchInv,
                     RetireInv
<1>2. SendInv /\ [PushNext]_pushVars => SendInv'
  <2> SUFFICES ASSUME SendInv, [PushNext]_pushVars PROVE SendInv'
    OBVIOUS
  <2>1. CASE UNCHANGED deliveryVars
    BY <2>1 DEF deliveryVars, SendInv, SendTypes, TallyInv, LaunchInv, RetireInv
  <2>2. ASSUME NEW e \in Endpoints, BrowserDrops(e) PROVE SendInv'
    BY <2>2 DEF BrowserDrops, SendInv, SendTypes, TallyInv, LaunchInv, RetireInv
  <2>3. CASE SendBegins \/ SendForgotten \/ SendPanics
    BY <2>3, SenderInv
  <2>4. CASE Sending
    BY <2>4, SenderInv, DeliveringInv DEF Sending
  <2>5. UNCHANGED pushVars => UNCHANGED deliveryVars
    BY DEF pushVars, deliveryVars
  <2> QED BY <2>1, <2>2, <2>3, <2>4, <2>5
          DEF PushNext, JobSteps, BeginsRun, JobAlone, RunSucceeds, RunFails, RunPanics
<1> QED BY <1>1, <1>2, PTL DEF PushSpec

\* When Send has returned, its tally is the number of accepted deliveries and
\* none is under way; and what left the store had been thrown away.
THEOREM SendAccountsCorrect == PushSpec => []SendAccounts
<1>1. SendInv => SendAccounts
  BY DEF SendInv, TallyInv, LaunchInv, RetireInv, SendAccounts
<1> QED BY <1>1, SendInductive, PTL
-----------------------------------------------------------------------------
(* backup.Service. A prune works from a list that others have made stale.   *)
(* What stays true of every entry of every such list is that the retained   *)
(* number of newer files is there: another prune removes a newer file only  *)
(* while that many are newer still.                                         *)

Newer(d) == {e \in Present : e > d}

PruneInv ==
  /\ files \in [Days -> {"none", "partial", "good"}]
  /\ doomed \in [Callers -> SUBSET Days]
  /\ \A c \in Callers : \A d \in doomed[c] : Cardinality(Newer(d)) >= Keep

\* A set of days that is not empty has a last one.
LEMMA LastOf == ASSUME NEW D \in SUBSET Days, D # {} PROVE Max(D) \in D
<1> DEFINE T == {LastDay - d : d \in D}
           R == {p \in Nat \X Nat : p[1] < p[2]}
<1>0. \A d \in D : d \in Nat /\ d <= LastDay /\ LastDay - d \in Nat
  BY BackupAssumption DEF Days
<1>1. T \subseteq Nat /\ T # {}
  BY <1>0
<1>2. IsWellFoundedOn(R, Nat)
  BY NatLessThanWellFounded DEF OpToRel
<1> HIDE DEF T, R
<1>3. PICK x \in T : \A y \in T : ~(<<y, x>> \in R)
  BY <1>1, <1>2, WFMin
<1>4. PICK d \in D : x = LastDay - d
  BY DEF T
<1>5. \A e \in D : d >= e
  <2> TAKE e \in D
  <2>1. LastDay - e \in T /\ ~(<<LastDay - e, x>> \in R) /\ x \in Nat /\ LastDay - e \in Nat
    BY <1>0, <1>1, <1>3 DEF T
  <2>2. ~(LastDay - e < x)
    BY <2>1 DEF R
  <2> QED BY <1>0, <1>4, <2>1, <2>2, BackupAssumption
<1> QED BY <1>5 DEF Max

\* New raises the retention to one.
LEMMA KeepNat == Keep \in Nat /\ Keep >= 1
<1>1. PICK m \in {1, Retention} : \A x \in {1, Retention} : m >= x
  BY BackupAssumption
<1>2. Max({1, Retention}) \in {1, Retention} /\ Max({1, Retention}) >= 1
  BY <1>1 DEF Max
<1> QED BY <1>2, BackupAssumption DEF Keep

\* Fewer newer files before than after is enough.
LEMMA NewerGrows ==
  ASSUME NEW d \in Days, Newer(d) \subseteq Newer(d)', Cardinality(Newer(d)) >= Keep
  PROVE  Cardinality(Newer(d)') >= Keep
<1>1. IsFiniteSet(Days)
  BY FS_Interval, BackupAssumption DEF Days
<1>2. IsFiniteSet(Newer(d)) /\ IsFiniteSet(Newer(d)')
  BY <1>1, FS_Subset DEF Newer, Present
<1>3. Cardinality(Newer(d)) <= Cardinality(Newer(d)')
  BY <1>2, FS_Subset
<1>4. Cardinality(Newer(d)) \in Nat /\ Cardinality(Newer(d)') \in Nat
  BY <1>2, FS_CardinalityType
<1> QED BY <1>3, <1>4, KeepNat

\* os.Remove takes away a file that the retained number of newer ones outlive,
\* and with them every entry of every list keeps its own.
LEMMA RemovesPrune ==
  ASSUME PruneInv, NEW c \in Callers, Removes(c)
  PROVE  /\ PruneInv'
         /\ \A d \in Days : files[d] # "none" /\ files'[d] = "none" =>
              Cardinality(Newer(d)) >= Keep
<1>1. PICK m \in Days : m = Max(doomed[c]) /\ Cardinality(Newer(m)) >= Keep
  BY LastOf DEF Removes, PruneInv
<1>2. files' \in [Days -> {"none", "partial", "good"}]
      /\ \A d \in Days : files'[d] = files[d] \/ (d = m /\ files'[d] = "none")
  BY <1>1 DEF Removes, PruneInv
<1>3. doomed' \in [Callers -> SUBSET Days] /\ \A k \in Callers : doomed'[k] \subseteq doomed[k]
  BY DEF Removes, PruneInv
<1>4. ASSUME NEW d \in Days, Cardinality(Newer(d)) >= Keep
      PROVE  Cardinality(Newer(d)') >= Keep
  <2>0. \A e \in Days : e \in Int
    BY BackupAssumption DEF Days
  <2>1. CASE m > d
    <3>1. Newer(m) \subseteq Newer(m)'
      BY <1>1, <1>2, <2>0 DEF Newer, Present
    <3>2. Newer(m)' \subseteq Newer(d)'
      BY <1>1, <2>0, <2>1 DEF Newer, Present
    <3>3. Cardinality(Newer(m)') >= Keep
      BY <1>1, <3>1, NewerGrows
    <3>4. IsFiniteSet(Newer(d)') /\ IsFiniteSet(Newer(m)')
      <4>1. IsFiniteSet(Days)
        BY FS_Interval, BackupAssumption DEF Days
      <4>2. Newer(d)' \in SUBSET Days /\ Newer(m)' \in SUBSET Days
        BY DEF Newer, Present
      <4> QED BY <4>1, <4>2, FS_Subset
    <3>5. /\ Cardinality(Newer(m)') <= Cardinality(Newer(d)')
          /\ Cardinality(Newer(m)') \in Nat /\ Cardinality(Newer(d)') \in Nat
      BY <3>2, <3>4, FS_Subset, FS_CardinalityType
    <3> QED BY <3>3, <3>5, KeepNat
  <2>2. CASE ~(m > d)
    <3>1. Newer(d) \subseteq Newer(d)'
      BY <1>1, <1>2, <2>0, <2>2 DEF Newer, Present
    <3> QED BY <1>4, <3>1, NewerGrows
  <2> QED BY <2>1, <2>2
<1>5. \A k \in Callers : \A d \in doomed'[k] : Cardinality(Newer(d)') >= Keep
  BY <1>3, <1>4 DEF PruneInv
<1>6. PruneInv'
  BY <1>2, <1>3, <1>5 DEF PruneInv
<1> QED BY <1>1, <1>2, <1>6

\* No other step takes a file away, so the lists stay safe.
LEMMA OthersPrune ==
  ASSUME PruneInv,
         /\ files' \in [Days -> {"none", "partial", "good"}]
         /\ \A d \in Days : files[d] # "none" => files'[d] # "none",
         doomed' \in [Callers -> SUBSET Days],
         \A c \in Callers : doomed'[c] \subseteq doomed[c] \/ doomed'[c] = Doomed(Present)
  PROVE  PruneInv'
<1>1. ASSUME NEW d \in Days, Cardinality(Newer(d)) >= Keep
      PROVE  Cardinality(Newer(d)') >= Keep
  <2>1. Newer(d) \subseteq Newer(d)'
    BY DEF Newer, Present
  <2> QED BY <1>1, <2>1, NewerGrows
<1>2. \A d \in Doomed(Present) : d \in Days /\ Cardinality(Newer(d)) >= Keep
  BY DEF Doomed, Newer, Present
<1>3. \A c \in Callers : \A d \in doomed'[c] : d \in Days /\ Cardinality(Newer(d)) >= Keep
  BY <1>2 DEF PruneInv
<1>4. \A c \in Callers : \A d \in doomed'[c] : Cardinality(Newer(d)') >= Keep
  BY <1>1, <1>3
<1> QED BY <1>4 DEF PruneInv

\* Every step of the service and its schedule keeps the lists safe.
LEMMA StepPrune ==
  ASSUME PruneInv, BackupNext
  PROVE  /\ PruneInv'
         /\ \A d \in Days : files[d] # "none" /\ files'[d] = "none" =>
              Cardinality(Newer(d)) >= Keep
<1>1. CASE \E c \in Callers : Removes(c)
  BY <1>1, RemovesPrune
<1>2. ASSUME UNCHANGED files,
             doomed' \in [Callers -> SUBSET Days],
             \A c \in Callers : doomed'[c] \subseteq doomed[c] \/ doomed'[c] = Doomed(Present)
      PROVE  /\ PruneInv'
             /\ \A d \in Days : ~(files[d] # "none" /\ files'[d] = "none")
  BY <1>2, OthersPrune DEF PruneInv
<1>3. CASE Start \/ Arms \/ Fires \/ Tick
  BY <1>2, <1>3 DEF Start, Arms, Fires, Tick, PruneInv
<1>4. CASE Crash
  BY <1>2, <1>4 DEF Crash, PruneInv
<1>5. ASSUME NEW c \in Callers,
             \/ ManualCalls(c) \/ MkdirFails(c) \/ NamesPath(c) \/ Stats(c)
             \/ SnapshotRefused(c) \/ SnapshotFails(c) \/ ListFails(c)
      PROVE  /\ PruneInv'
             /\ \A d \in Days : ~(files[d] # "none" /\ files'[d] = "none")
  BY <1>2, <1>5 DEF ManualCalls, MkdirFails, NamesPath, Stats, SnapshotRefused,
                     SnapshotFails, ListFails, PruneInv
<1>6. ASSUME NEW c \in Callers, Lists(c)
      PROVE  /\ PruneInv'
             /\ \A d \in Days : ~(files[d] # "none" /\ files'[d] = "none")
  <2>1. Doomed(Present) \in SUBSET Days
    BY DEF Doomed, Present
  <2> QED BY <1>2, <1>6, <2>1 DEF Lists, PruneInv
<1>7. ASSUME NEW c \in Callers, SnapshotBegins(c) \/ SnapshotEnds(c)
      PROVE  /\ PruneInv'
             /\ \A d \in Days : ~(files[d] # "none" /\ files'[d] = "none")
  <2>1. /\ files' \in [Days -> {"none", "partial", "good"}]
        /\ \A d \in Days : files[d] # "none" => files'[d] # "none"
    BY <1>7 DEF SnapshotBegins, SnapshotEnds, PruneInv
  <2> QED BY <1>7, <2>1, OthersPrune DEF SnapshotBegins, SnapshotEnds, PruneInv
<1> QED BY <1>1, <1>3, <1>4, <1>5, <1>6, <1>7 DEF BackupNext

\* A backup goes only while at least the retained number of newer ones is in the
\* directory, whatever other callers of WriteDaily have done since the prune
\* listed it.
THEOREM PruneSparesNewestCorrect == BackupSpec => PruneSparesNewest
<1> DEFINE Spared ==
      \A d \in Days : files[d] # "none" /\ files'[d] = "none" =>
        Cardinality({e \in Present : e > d}) >= Keep
<1>1. BackupInit => PruneInv
  BY DEF BackupInit, PruneInv
<1>2. PruneInv /\ [BackupNext]_backupVars => PruneInv' /\ [Spared]_backupVars
  <2>1. ASSUME PruneInv, BackupNext PROVE PruneInv' /\ Spared
    BY <2>1, StepPrune DEF Newer
  <2>2. ASSUME PruneInv, UNCHANGED backupVars PROVE PruneInv'
    BY <2>2 DEF backupVars, PruneInv, Newer, Present
  <2> QED BY <2>1, <2>2
<1> QED BY <1>1, <1>2, PTL DEF BackupSpec, PruneSparesNewest
-----------------------------------------------------------------------------
(* jobs.Daily under backup.Service. Today is settled once its file is       *)
(* complete or being written, or there is a reason why it will not be. The  *)
(* invariant follows the job through the day: a run settles the day it      *)
(* names, a run that is busy with an earlier day past today's hour has      *)
(* missed today, and a timer set beyond today means that today is settled.  *)
(* Nobody can prune today's file, for none is newer.                        *)

Copying(d) == \E c \in Callers : pc[c] = "copying" /\ path[c] = d
Settled == spoiled \/ missed \/ files[Day(now)] = "good" \/ Copying(Day(now))

ClockInv ==
  /\ now \in Nat /\ now <= 2 * LastDay + 1 /\ fire \in Nat
  /\ spoiled \in BOOLEAN /\ missed \in BOOLEAN
  /\ pc \in [Callers -> Working \cup {"idle", "arm", "timer"}]
  /\ up \/ \A c \in Callers : pc[c] = "idle"
  /\ path \in [Callers -> Nat]
  /\ \A c \in Callers : path[c] <= Day(now)
  /\ \A d \in Days : files[d] # "none" => d <= Day(now)

CopyInv ==
  /\ files[Day(now)] = "partial" => spoiled \/ Copying(Day(now))
  /\ \A c \in Callers : pc[c] = "copying" /\ path[c] = Day(now) => files[path[c]] # "none"

Named == (Working \ {"call"}) \cup {"arm"}

RunInv ==
  /\ pc[Job] \in {"list", "prune", "arm"} /\ path[Job] = Day(now) => Settled
  /\ pc[Job] \in Named /\ path[Job] < Day(now) /\ now = 2 * Day(now) + 1 => missed
  /\ pc[Job] = "timer" =>
       fire = 2 * Day(now) + 1 \/ (fire = 2 * Day(now) + 3 /\ Settled)

DayInv == PruneInv /\ ClockInv /\ CopyInv /\ RunInv

\* The halves of a day.
LEMMA DayFacts ==
  ASSUME NEW t \in Nat
  PROVE  /\ Day(t) \in Nat /\ 2 * Day(t) <= t /\ t <= 2 * Day(t) + 1
         /\ t % 2 \in {0, 1} /\ t = 2 * Day(t) + (t % 2)
BY DEF Day

\* What every step may use: today and the days that were named are days.
LEMMA TodayFacts ==
  ASSUME DayInv
  PROVE  /\ Job \in Callers /\ Day(now) \in Nat /\ Day(now) \in Days
         /\ \A c \in Callers : path[c] \in Nat /\ path[c] \in Days /\ path[c] <= Day(now)
<1>1. Day(now) \in Nat /\ Day(now) <= LastDay
  BY DayFacts, BackupAssumption DEF DayInv, ClockInv
<1> QED BY <1>1, BackupAssumption DEF DayInv, ClockInv, Callers, Days

\* The goroutine of the job, outside WriteDaily.
LEMMA ScheduleDay == ASSUME DayInv, Start \/ Arms \/ Fires PROVE ClockInv' /\ CopyInv' /\ RunInv'
<1>0. Job \in Callers /\ Day(now) \in Nat /\ ClockInv /\ CopyInv /\ RunInv
  BY TodayFacts DEF DayInv
<1>1. CASE Start \/ Fires
  <2>1. /\ pc' = [pc EXCEPT ![Job] = "call"] /\ missed' = FALSE
        /\ UNCHANGED <<now, files, path, spoiled, fire>>
        /\ up' /\ pc[Job] # "copying"
    BY <1>0, <1>1 DEF Start, Fires, RunAtStart, ClockInv
  <2>2. ClockInv'
    BY <1>0, <2>1 DEF ClockInv, Working
  <2>3. \A d : Copying(d)' <=> Copying(d)
    BY <1>0, <2>1 DEF Copying, ClockInv
  <2>4. CopyInv'
    BY <1>0, <2>1, <2>3 DEF CopyInv, ClockInv
  <2>5. RunInv'
    BY <1>0, <2>1 DEF RunInv, ClockInv, Named, Working
  <2> QED BY <2>2, <2>4, <2>5
<1>2. CASE Arms
  <2>1. /\ pc[Job] = "arm" /\ pc' = [pc EXCEPT ![Job] = "timer"]
        /\ fire' = NextOccurrence(now) /\ UNCHANGED <<now, files, up, path, spoiled, missed>>
    BY <1>2 DEF Arms
  <2>2. \/ now = 2 * Day(now) /\ fire' = 2 * Day(now) + 1
        \/ now = 2 * Day(now) + 1 /\ fire' = 2 * Day(now) + 3
    <3>1. now \in Nat /\ now % 2 \in {0, 1} /\ now = 2 * Day(now) + (now % 2)
      BY <1>0, DayFacts DEF ClockInv
    <3> QED BY <1>0, <2>1, <3>1 DEF NextOccurrence
  <2>3. \A d : Copying(d)' <=> Copying(d)
    BY <1>0, <2>1 DEF Copying, ClockInv
  <2>4. ClockInv'
    BY <1>0, <2>1, <2>2 DEF ClockInv
  <2>5. CopyInv'
    BY <1>0, <2>1, <2>3 DEF CopyInv, ClockInv
  <2>6. now = 2 * Day(now) + 1 => Settled
    <3>1. path[Job] = Day(now) \/ path[Job] < Day(now)
      BY <1>0 DEF ClockInv
    <3> QED BY <1>0, <2>1, <3>1 DEF RunInv, Named, Settled
  <2>7. RunInv'
    BY <1>0, <2>1, <2>2, <2>3, <2>6 DEF RunInv, ClockInv, Settled, Named, Working
  <2> QED BY <2>4, <2>5, <2>7
<1> QED BY <1>1, <1>2

\* Entering WriteDaily, failing at once or naming the file: no file and no copy
\* changes.
LEMMA CallDay ==
  ASSUME DayInv, NEW c \in Callers, ManualCalls(c) \/ MkdirFails(c) \/ NamesPath(c)
  PROVE  ClockInv' /\ CopyInv' /\ RunInv'
<1>0. Job \in Callers /\ Day(now) \in Nat /\ ClockInv /\ CopyInv /\ RunInv
  BY TodayFacts DEF DayInv
<1>1. CASE ManualCalls(c)
  <2>1. /\ c # Job /\ pc[c] = "idle" /\ pc' = [pc EXCEPT ![c] = "call"] /\ up'
        /\ UNCHANGED <<now, files, path, fire, spoiled, missed>>
    BY <1>0, <1>1 DEF ManualCalls
  <2>2. \A d : Copying(d)' <=> Copying(d)
    BY <1>0, <2>1 DEF Copying, ClockInv
  <2>3. ClockInv' /\ CopyInv'
    BY <1>0, <2>1, <2>2 DEF ClockInv, CopyInv, Working
  <2>4. pc'[Job] = pc[Job]
    BY <1>0, <2>1 DEF ClockInv
  <2>5. RunInv'
    BY <1>0, <2>1, <2>2, <2>4 DEF RunInv, Settled
  <2> QED BY <2>3, <2>5
<1>2. CASE MkdirFails(c)
  <2>1. /\ pc[c] = "call" /\ pc' = [pc EXCEPT ![c] = Rest(c)]
        /\ missed' = (missed \/ c = Job)
        /\ UNCHANGED <<now, files, up, path, fire, spoiled>>
    BY <1>2 DEF MkdirFails, Missed
  <2>2. \A d : Copying(d)' <=> Copying(d)
    BY <1>0, <2>1 DEF Copying, ClockInv, Rest
  <2>3. missed' \in BOOLEAN /\ (missed => missed') /\ (c = Job => missed')
    BY <2>1, Zenon
  <2>4. ClockInv'
    BY <1>0, <2>1, <2>3 DEF ClockInv, Working, Rest
  <2>5. CopyInv'
    BY <1>0, <2>1, <2>2 DEF ClockInv, CopyInv, Rest
  <2>6. CASE c = Job
    <3>1. pc'[Job] = "arm" /\ missed'
      BY <1>0, <2>1, <2>3, <2>6 DEF ClockInv, Rest
    <3>2. RunInv'
      BY <3>1 DEF RunInv, Settled
    <3> QED BY <2>4, <2>5, <3>2
  <2>7. CASE c # Job
    <3>1. pc'[Job] = pc[Job]
      BY <1>0, <2>1, <2>7 DEF ClockInv
    <3>2. Settled => Settled'
      BY <2>1, <2>2, <2>3 DEF Settled
    <3>3. RunInv'
      BY <1>0, <2>1, <2>3, <3>1, <3>2 DEF RunInv
    <3> QED BY <2>4, <2>5, <3>3
  <2> QED BY <2>6, <2>7
<1>3. CASE NamesPath(c)
  <2>1. /\ pc[c] = "call" /\ path' = [path EXCEPT ![c] = Day(now)]
        /\ pc' = [pc EXCEPT ![c] = "stat"]
        /\ UNCHANGED <<now, files, up, fire, spoiled, missed>>
    BY <1>3 DEF NamesPath
  <2>2. \A d : Copying(d)' <=> Copying(d)
    BY <1>0, <2>1 DEF Copying, ClockInv
  <2>3. ClockInv'
    BY <1>0, <2>1 DEF ClockInv, Working
  <2>4. CopyInv'
    BY <1>0, <2>1, <2>2 DEF ClockInv, CopyInv
  <2>5. CASE c = Job
    <3>1. pc'[Job] = "stat" /\ path'[Job] = Day(now)
      BY <1>0, <2>1, <2>5 DEF ClockInv
    <3>2. RunInv'
      BY <1>0, <2>1, <3>1 DEF RunInv
    <3> QED BY <2>3, <2>4, <3>2
  <2>6. CASE c # Job
    <3>1. pc'[Job] = pc[Job] /\ path'[Job] = path[Job]
      BY <1>0, <2>1, <2>6 DEF ClockInv
    <3> QED BY <1>0, <2>1, <2>2, <2>3, <2>4, <3>1 DEF RunInv, Settled
  <2> QED BY <2>5, <2>6
<1> QED BY <1>1, <1>2, <1>3

\* Finding today's file, or none; listing the directory; removing a file, which
\* is never today's.
LEMMA ListDay ==
  ASSUME DayInv, NEW c \in Callers, Stats(c) \/ Lists(c) \/ ListFails(c) \/ Removes(c)
  PROVE  ClockInv' /\ CopyInv' /\ RunInv'
<1>0. /\ Job \in Callers /\ Day(now) \in Nat /\ Day(now) \in Days
      /\ ClockInv /\ CopyInv /\ RunInv /\ PruneInv
      /\ path[c] \in Days /\ path[c] <= Day(now) /\ path[c] \in Nat
  BY TodayFacts DEF DayInv
<1>1. /\ \A d \in Days : files'[d] = files[d] \/ (d # Day(now) /\ files'[d] = "none")
      /\ files' \in [Days -> {"none", "partial", "good"}]
  <2>1. CASE Removes(c)
    <3>1. PICK m \in Days : m = Max(doomed[c]) /\ Cardinality(Newer(m)) >= Keep
      BY <1>0, <2>1, LastOf DEF Removes, PruneInv
    <3>2. Newer(m) # {}
      BY <3>1, FS_EmptySet, KeepNat
    <3>3. PICK e \in Days : files[e] # "none" /\ e > m
      BY <3>2 DEF Newer, Present
    <3>4. m # Day(now)
      BY <1>0, <3>3, BackupAssumption DEF ClockInv, Days
    <3> QED BY <1>0, <2>1, <3>1, <3>4 DEF Removes, PruneInv
  <2>2. CASE Stats(c) \/ Lists(c) \/ ListFails(c)
    BY <1>0, <2>2 DEF Stats, Lists, ListFails, PruneInv
  <2> QED BY <2>1, <2>2
<1>2. PICK p \in {"snap", "list", "prune", Rest(c)} :
        /\ pc' = [pc EXCEPT ![c] = p]
        /\ pc[c] \in {"stat", "list", "prune"}
        /\ pc[c] # "stat" => p # "snap"
        /\ pc[c] = "stat" => p = (IF files[path[c]] = "none" THEN "snap" ELSE "list")
        /\ UNCHANGED <<now, up, path, fire, spoiled, missed>>
  <2>1. CASE Stats(c)
    BY <2>1 DEF Stats
  <2>2. CASE Lists(c) \/ ListFails(c)
    BY <2>2 DEF Lists, ListFails, Rest
  <2>3. CASE Removes(c)
    BY <2>3 DEF Removes, Rest
  <2> QED BY <2>1, <2>2, <2>3
<1>3. \A d : Copying(d)' <=> Copying(d)
  BY <1>0, <1>2 DEF Copying, ClockInv, Rest
<1>4. ClockInv'
  BY <1>0, <1>1, <1>2 DEF ClockInv, Working, Rest
<1>5. CopyInv'
  BY <1>0, <1>1, <1>2, <1>3 DEF ClockInv, CopyInv, Rest
<1>6. Settled => Settled'
  BY <1>0, <1>1, <1>2, <1>3 DEF Settled
<1>7. CASE c = Job
  <2>1. pc[Job] = "stat" /\ p = "list" /\ path[Job] = Day(now) => Settled
    BY <1>0, <1>2, <1>7 DEF CopyInv, PruneInv, Settled
  <2> QED BY <1>0, <1>2, <1>4, <1>5, <1>6, <1>7, <2>1 DEF RunInv, ClockInv, Named, Working, Rest
<1>8. CASE c # Job
  <2>1. pc'[Job] = pc[Job]
    BY <1>0, <1>2, <1>8 DEF ClockInv
  <2> QED BY <1>0, <1>2, <1>4, <1>5, <1>6, <2>1 DEF RunInv
<1> QED BY <1>7, <1>8

\* The snapshot: it is refused where a file is, settles its day while it runs,
\* and leaves a complete file, a spoiled day or, without a file, a missed one.
LEMMA SnapshotDay ==
  ASSUME DayInv, NEW c \in Callers,
         SnapshotBegins(c) \/ SnapshotRefused(c) \/ SnapshotEnds(c) \/ SnapshotFails(c)
  PROVE  ClockInv' /\ CopyInv' /\ RunInv'
<1>0. /\ Job \in Callers /\ Day(now) \in Nat /\ Day(now) \in Days
      /\ ClockInv /\ CopyInv /\ RunInv /\ PruneInv
      /\ path[c] \in Days /\ path[c] <= Day(now) /\ path[c] \in Nat
  BY TodayFacts DEF DayInv
<1> DEFINE Result ==
      /\ ClockInv' /\ CopyInv'
      /\ Settled => Settled'
      /\ missed => missed'
      /\ UNCHANGED <<now, fire, path>>
      /\ \A k \in Callers : k # c => pc'[k] = pc[k]
      /\ \/ pc[c] = "snap" /\ pc'[c] = "copying"
         \/ /\ pc[c] \in {"snap", "copying"} /\ pc'[c] \in {"list", Rest(c)}
            /\ c = Job /\ path[c] = Day(now) => Settled'
<1>1. ASSUME SnapshotBegins(c) PROVE Result
  <2>1. /\ pc[c] = "snap" /\ pc' = [pc EXCEPT ![c] = "copying"]
        /\ files' = [files EXCEPT ![path[c]] = "partial"]
        /\ UNCHANGED <<now, up, path, fire, spoiled, missed>>
    BY <1>1 DEF SnapshotBegins
  <2>2. /\ \A d : Copying(d) => Copying(d)'
        /\ Copying(path[c])'
    BY <1>0, <2>1 DEF Copying, ClockInv
  <2>3. \A d \in Days : d # path[c] => files'[d] = files[d]
    BY <1>0, <2>1 DEF PruneInv
  <2>4. files'[path[c]] = "partial"
    BY <1>0, <2>1 DEF PruneInv
  <2>5. ClockInv'
    BY <1>0, <2>1, <2>3 DEF ClockInv, Working
  <2>6. CopyInv'
    BY <1>0, <2>1, <2>2, <2>3, <2>4 DEF ClockInv, CopyInv, Copying
  <2>7. Settled => Settled'
    BY <1>0, <1>1, <2>1, <2>2, <2>3 DEF Settled, SnapshotBegins
  <2> QED BY <1>0, <2>1, <2>5, <2>6, <2>7 DEF ClockInv
<1>2. ASSUME SnapshotRefused(c) PROVE Result
  <2>1. /\ pc[c] = "snap" /\ pc' = [pc EXCEPT ![c] = Rest(c)]
        /\ missed' = IF files[path[c]] = "none" THEN missed \/ (c = Job /\ path[c] = Day(now))
                     ELSE missed
        /\ UNCHANGED <<files, now, up, path, fire, spoiled>>
    BY <1>2 DEF SnapshotRefused, Missed
  <2>2. \A d : Copying(d)' <=> Copying(d)
    BY <1>0, <2>1 DEF Copying, ClockInv, Rest
  <2>3. missed \in BOOLEAN
    BY <1>0 DEF ClockInv
  <2>4. /\ missed' \in BOOLEAN /\ (missed => missed')
        /\ files[path[c]] = "none" /\ c = Job /\ path[c] = Day(now) => missed'
    BY <2>1, <2>3, Zenon
  <2>5. ClockInv'
    BY <1>0, <2>1, <2>4 DEF ClockInv, Rest
  <2>6. CopyInv'
    BY <1>0, <2>1, <2>2 DEF ClockInv, CopyInv, Rest
  <2>7. Settled => Settled'
    BY <2>1, <2>2, <2>4 DEF Settled
  <2>8. c = Job /\ path[c] = Day(now) => Settled'
    <3>1. path[c] = Day(now) /\ files[path[c]] # "none" => Settled
      BY <1>0 DEF Settled, CopyInv, PruneInv
    <3> QED BY <2>4, <2>7, <3>1 DEF Settled
  <2> QED BY <1>0, <2>1, <2>4, <2>5, <2>6, <2>7, <2>8 DEF ClockInv
<1>3. ASSUME SnapshotEnds(c) PROVE Result
  <2>1. /\ pc[c] = "copying" /\ pc' = [pc EXCEPT ![c] = "list"]
        /\ files' = [files EXCEPT ![path[c]] = IF @ = "partial" THEN "good" ELSE @]
        /\ UNCHANGED <<now, up, path, fire, spoiled, missed>>
    BY <1>3 DEF SnapshotEnds
  <2>2. \A d : d # path[c] => (Copying(d)' <=> Copying(d))
    BY <1>0, <2>1 DEF Copying, ClockInv
  <2>3. \A d \in Days : d # path[c] => files'[d] = files[d]
    BY <1>0, <2>1 DEF PruneInv
  <2>4. files'[path[c]] = IF files[path[c]] = "none" THEN "none" ELSE "good"
    BY <1>0, <2>1 DEF PruneInv
  <2>5. ClockInv'
    BY <1>0, <2>1, <2>3, <2>4 DEF ClockInv, Working
  <2>6. CopyInv'
    BY <1>0, <2>1, <2>2, <2>3, <2>4 DEF ClockInv, CopyInv
  <2>7. path[c] = Day(now) => files'[path[c]] = "good"
    BY <1>0, <2>1, <2>4 DEF CopyInv
  <2>8. /\ Settled => Settled'
        /\ path[c] = Day(now) => Settled'
    BY <1>0, <2>1, <2>2, <2>3, <2>7 DEF Settled
  <2> QED BY <1>0, <2>1, <2>5, <2>6, <2>8 DEF ClockInv
<1>4. ASSUME SnapshotFails(c) PROVE Result
  <2>1. /\ pc[c] = "copying" /\ pc' = [pc EXCEPT ![c] = Rest(c)]
        /\ spoiled' = (spoiled \/ path[c] = Day(now))
        /\ UNCHANGED <<now, files, up, path, fire, missed>>
    BY <1>4 DEF SnapshotFails
  <2>2. \A d : d # path[c] => (Copying(d)' <=> Copying(d))
    BY <1>0, <2>1 DEF Copying, ClockInv, Rest
  <2>3. spoiled' \in BOOLEAN /\ (spoiled => spoiled') /\ (path[c] = Day(now) => spoiled')
    BY <2>1, Zenon
  <2>4. ClockInv'
    BY <1>0, <2>1, <2>3 DEF ClockInv, Rest
  <2>5. CopyInv'
    BY <1>0, <2>1, <2>2, <2>3 DEF ClockInv, CopyInv, Rest
  <2>6. /\ Settled => Settled'
        /\ path[c] = Day(now) => Settled'
    BY <2>1, <2>2, <2>3 DEF Settled
  <2> QED BY <1>0, <2>1, <2>4, <2>5, <2>6 DEF ClockInv
<1>5. Result
  BY <1>1, <1>2, <1>3, <1>4
<1>6. RunInv'
  <2>1. CASE c = Job
    BY <1>0, <1>5, <2>1 DEF RunInv, Named, Working, Rest
  <2>2. CASE c # Job
    BY <1>0, <1>5, <2>2 DEF RunInv
  <2> QED BY <2>1, <2>2
<1> QED BY <1>5, <1>6

\* The clock and a crash.
LEMMA EnvironmentDay == ASSUME DayInv, Tick \/ Crash PROVE ClockInv' /\ CopyInv' /\ RunInv'
<1>0. /\ Job \in Callers /\ Day(now) \in Nat /\ Day(now) \in Days
      /\ ClockInv /\ CopyInv /\ RunInv /\ PruneInv
      /\ \A c \in Callers : path[c] <= Day(now) /\ path[c] \in Nat
  BY TodayFacts DEF DayInv
<1>1. CASE Tick
  <2>1. /\ now' = now + 1 /\ now < 2 * LastDay + 1 /\ now \in Nat /\ now' \in Nat
        /\ pc[Job] = "timer" => fire > now
        /\ spoiled' = (now % 2 = 0 /\ spoiled)
        /\ missed' = (now % 2 = 0 /\ (missed \/ Overrun))
        /\ UNCHANGED <<files, up, pc, path, fire>>
    BY <1>0, <1>1 DEF Tick, ClockInv
  <2>2. \/ now = 2 * Day(now) /\ now % 2 = 0 /\ Day(now') = Day(now)
        \/ now = 2 * Day(now) + 1 /\ now % 2 = 1 /\ Day(now') = Day(now) + 1
    <3>1. /\ 2 * Day(now) <= now /\ now <= 2 * Day(now) + 1
          /\ now % 2 \in {0, 1} /\ now = 2 * Day(now) + (now % 2)
          /\ Day(now') \in Nat /\ 2 * Day(now') <= now' /\ now' <= 2 * Day(now') + 1
      BY <2>1, DayFacts
    <3> QED BY <1>0, <2>1, <3>1
  <2>3. \A d : Copying(d)' <=> Copying(d)
    BY <2>1 DEF Copying
  <2>4. spoiled' \in BOOLEAN /\ missed' \in BOOLEAN
    BY <2>1, Zenon
  <2>5. ClockInv'
    BY <1>0, <2>1, <2>2, <2>4, BackupAssumption DEF ClockInv, Days
  <2>6. CASE now = 2 * Day(now) /\ now % 2 = 0 /\ Day(now') = Day(now)
    <3>1. spoiled' <=> spoiled
      BY <2>1, <2>6, Zenon
    <3>2. missed' <=> missed \/ Overrun
      BY <2>1, <2>6, Zenon
    <3>3. CopyInv'
      BY <1>0, <2>1, <2>3, <2>6, <3>1 DEF CopyInv
    <3>4. Settled => Settled'
      BY <2>1, <2>3, <2>6, <3>1, <3>2 DEF Settled
    <3>5. RunInv'
      BY <1>0, <2>1, <2>6, <3>2, <3>4 DEF RunInv, Overrun, Named
    <3> QED BY <2>5, <3>3, <3>5
  <2>7. CASE now = 2 * Day(now) + 1 /\ now % 2 = 1 /\ Day(now') = Day(now) + 1
    <3>1. Day(now') \in Days /\ files[Day(now')] = "none"
      BY <1>0, <2>1, <2>7, BackupAssumption DEF ClockInv, PruneInv, Days
    <3>2. \A c \in Callers : path'[c] < Day(now')
      BY <1>0, <2>1, <2>7
    <3>3. CopyInv'
      BY <1>0, <2>1, <3>1, <3>2 DEF CopyInv
    <3>4. RunInv'
      BY <1>0, <2>1, <2>7, <3>2 DEF RunInv, ClockInv
    <3> QED BY <2>5, <3>3, <3>4
  <2> QED BY <2>2, <2>6, <2>7
<1>2. CASE Crash
  <2>1. /\ pc' = [c \in Callers |-> "idle"]
        /\ spoiled' = (spoiled \/ Copying(Day(now)))
        /\ UNCHANGED <<now, files, path, fire, missed>>
    BY <1>2 DEF Crash, Copying
  <2>2. spoiled' \in BOOLEAN /\ (spoiled \/ Copying(Day(now)) => spoiled')
    BY <2>1, Zenon
  <2>3. ClockInv' /\ CopyInv'
    BY <1>0, <2>1, <2>2 DEF ClockInv, CopyInv
  <2>4. RunInv'
    BY <1>0, <2>1 DEF RunInv, Named, Working
  <2> QED BY <2>3, <2>4
<1> QED BY <1>1, <1>2

\* A day that ends with the job waiting for its next occurrence ends with its
\* backup written or being written, unless a snapshot of that day failed half-way
\* or was cut by a crash, its last run failed before it had a file, or its hour
\* came while the job was busy with an earlier day: through any pattern of
\* crashes, restarts, other callers and runs of any length, at any hour.
THEOREM DayCoveredCorrect == BackupSpec => DayCovered
<1> DEFINE Ends ==
      LET d == Day(now) IN
        Day(now') > d /\ pc[Job] = "timer" /\ ~spoiled /\ ~missed =>
          files[d] = "good" \/ \E c \in Callers : pc[c] = "copying" /\ path[c] = d
<1>1. BackupInit => DayInv
  <2> SUFFICES ASSUME BackupInit PROVE DayInv
    OBVIOUS
  <2>1. Job \in Callers /\ Day(now) = 0
    BY DEF BackupInit, Callers, Day
  <2>2. 0 \in Days
    BY BackupAssumption DEF Days
  <2>3. PruneInv
    BY DEF BackupInit, PruneInv
  <2>4. spoiled \in BOOLEAN /\ missed \in BOOLEAN
    BY Zenon DEF BackupInit
  <2>5. ClockInv
    BY <2>1, <2>2, <2>4, BackupAssumption DEF BackupInit, ClockInv
  <2>6. CopyInv /\ RunInv
    BY <2>1, <2>2 DEF BackupInit, CopyInv, RunInv, Named, Working
  <2> QED BY <2>3, <2>5, <2>6 DEF DayInv
<1>2. DayInv /\ [BackupNext]_backupVars => DayInv'
  <2>1. ASSUME DayInv, BackupNext PROVE DayInv'
    <3>1. PruneInv'
      BY <2>1, StepPrune DEF DayInv
    <3>2. ClockInv' /\ CopyInv' /\ RunInv'
      BY <2>1, ScheduleDay, CallDay, ListDay, SnapshotDay, EnvironmentDay DEF BackupNext
    <3> QED BY <3>1, <3>2 DEF DayInv
  <2>2. ASSUME DayInv, UNCHANGED backupVars PROVE DayInv'
    BY <2>2 DEF backupVars, DayInv, PruneInv, ClockInv, CopyInv, RunInv, Settled, Copying,
                Newer, Present
  <2> QED BY <2>1, <2>2
<1>3. DayInv /\ [BackupNext]_backupVars => [Ends]_backupVars
  <2> SUFFICES ASSUME DayInv, BackupNext, Day(now') > Day(now), pc[Job] = "timer"
               PROVE  Settled
    BY DEF Settled, Copying
  <2>0. Day(now) \in Nat /\ now \in Nat /\ RunInv
    BY TodayFacts DEF DayInv, ClockInv
  <2>1. Tick
    BY <2>0 DEF BackupNext, Start, Arms, Fires, Crash, ManualCalls, MkdirFails, NamesPath, Stats,
                SnapshotBegins, SnapshotRefused, SnapshotEnds, SnapshotFails, Lists, ListFails,
                Removes
  <2>2. now' = now + 1 /\ fire > now
    BY <2>1 DEF Tick
  <2>3. Day(now') \in Nat /\ 2 * Day(now') <= now + 1 /\ now <= 2 * Day(now) + 1
    BY <2>0, <2>2, DayFacts
  <2> QED BY <2>0, <2>2, <2>3 DEF RunInv
<1> QED BY <1>1, <1>2, <1>3, PTL DEF BackupSpec, DayCovered
=============================================================================
