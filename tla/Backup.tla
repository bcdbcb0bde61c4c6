------------------------------- MODULE Backup -------------------------------
(***************************************************************************)
(* backup.Service (backup/backup.go) driven by jobs.Daily (jobs/daily.go): *)
(* the dated file of the day, the snapshot that fills it, the pruning of   *)
(* old files, and the schedule that runs again after a restart. A program  *)
(* may also call WriteDaily itself while the schedule runs.                *)
(*                                                                         *)
(* The clock counts half days: 2d is day d before the configured hour,     *)
(* 2d + 1 the rest of day d, which begins with the hour. Options.At is any  *)
(* time of day, so a run of the job, however short, may meet midnight, the  *)
(* hour or both between any two of its steps; no bound on it is assumed.    *)
(***************************************************************************)
EXTENDS Integers, FiniteSets, FiniteSetsExt

CONSTANTS
  Job,        \* the goroutine of Service.Run
  Manual,     \* other callers of WriteDaily
  Retention,  \* Options.Retention as configured
  LastDay     \* bound: the last day of the run

ASSUME BackupAssumption ==
  /\ Job \notin Manual /\ IsFiniteSet(Manual)
  /\ Retention \in Nat /\ LastDay \in Nat

VARIABLES
  now,      \* the clock
  files,    \* the backup directory: what is under each day's name
  up,       \* the process runs
  pc,       \* where each caller is in WriteDaily, or in Daily.Run
  path,     \* the day of the name the caller computed
  doomed,   \* the files the caller's prune has still to remove
  fire,     \* when the timer of Daily.Run fires
  spoiled,  \* history: a snapshot of today failed half-way or was cut by a crash
  missed    \* history: today's last run failed before it had a file, or today's
            \* hour came while the job was still busy with the file of an earlier day

backupVars == <<now, files, up, pc, path, doomed, fire, spoiled, missed>>

Callers == Manual \cup {Job}
Days == 0..LastDay
Day(t) == t \div 2
Present == {d \in Days : files[d] # "none"}

\* Where a caller is once WriteDaily has returned.
Rest(c) == IF c = Job THEN "arm" ELSE "idle"
Working == {"call", "stat", "snap", "copying", "list", "prune"}

BackupInit ==
  /\ now = 0 /\ files = [d \in Days |-> "none"] /\ up = FALSE
  /\ pc = [c \in Callers |-> "idle"] /\ path = [c \in Callers |-> 0]
  /\ doomed = [c \in Callers |-> {}]
  /\ fire = 0 /\ spoiled = FALSE /\ missed = FALSE
-----------------------------------------------------------------------------
(* Plausible mistakes in this code, for checking that the properties see them *)

RunAtStartMut_Off == FALSE

DoomedMut_OneTooMany(present) ==
  {d \in present : Cardinality({e \in present : e > d}) >= Retention - 1}
-----------------------------------------------------------------------------
(* The schedule *)

\* New raises a retention below one to one.
Keep == Max({1, Retention})

\* schedule asks for a run as soon as the job starts.
RunAtStart == TRUE

\* Next: the first occurrence of the hour strictly after from.
NextOccurrence(from) == IF from % 2 = 0 THEN from + 1 ELSE from + 2

\* The process starts and, with it, the goroutine of Service.Run.
Start ==
  /\ ~up /\ up' = TRUE
  /\ pc' = [pc EXCEPT ![Job] = IF RunAtStart THEN "call" ELSE "arm"]
  /\ missed' = FALSE
  /\ UNCHANGED <<now, files, path, doomed, fire, spoiled>>

\* Daily.Run computes the next occurrence and sets its timer.
Arms ==
  /\ pc[Job] = "arm"
  /\ fire' = NextOccurrence(now) /\ pc' = [pc EXCEPT ![Job] = "timer"]
  /\ UNCHANGED <<now, files, up, path, doomed, spoiled, missed>>

Fires ==
  /\ pc[Job] = "timer" /\ now >= fire
  /\ pc' = [pc EXCEPT ![Job] = "call"]
  /\ missed' = FALSE
  /\ UNCHANGED <<now, files, up, path, doomed, fire, spoiled>>

\* Another caller enters WriteDaily.
ManualCalls(c) ==
  /\ c # Job /\ up /\ pc[c] = "idle"
  /\ pc' = [pc EXCEPT ![c] = "call"]
  /\ UNCHANGED <<now, files, up, path, doomed, fire, spoiled, missed>>
-----------------------------------------------------------------------------
(* WriteDaily *)

\* A run of the job for day d ends without a file.
Missed(c, d) == missed \/ (c = Job /\ d = Day(now))

\* MkdirAll fails.
MkdirFails(c) ==
  /\ pc[c] = "call"
  /\ pc' = [pc EXCEPT ![c] = Rest(c)] /\ missed' = Missed(c, Day(now))
  /\ UNCHANGED <<now, files, up, path, doomed, fire, spoiled>>

\* The directory is there, and the clock is read for the name.
NamesPath(c) ==
  /\ pc[c] = "call"
  /\ path' = [path EXCEPT ![c] = Day(now)] /\ pc' = [pc EXCEPT ![c] = "stat"]
  /\ UNCHANGED <<now, files, up, doomed, fire, spoiled, missed>>

\* A file under today's name means that today's backup has been written.
Stats(c) ==
  /\ pc[c] = "stat"
  /\ pc' = [pc EXCEPT ![c] = IF files[path[c]] = "none" THEN "snap" ELSE "list"]
  /\ UNCHANGED <<now, files, up, path, doomed, fire, spoiled, missed>>

\* VACUUM INTO creates its output.
SnapshotBegins(c) ==
  /\ pc[c] = "snap" /\ files[path[c]] = "none"
  /\ files' = [files EXCEPT ![path[c]] = "partial"] /\ pc' = [pc EXCEPT ![c] = "copying"]
  /\ UNCHANGED <<now, up, path, doomed, fire, spoiled, missed>>

\* It refuses an output that exists, and may fail before it has made one.
SnapshotRefused(c) ==
  /\ pc[c] = "snap"
  /\ pc' = [pc EXCEPT ![c] = Rest(c)]
  /\ missed' = IF files[path[c]] = "none" THEN Missed(c, path[c]) ELSE missed
  /\ UNCHANGED <<now, files, up, path, doomed, fire, spoiled>>

\* The copy is complete, unless a prune has unlinked it meanwhile.
SnapshotEnds(c) ==
  /\ pc[c] = "copying"
  /\ files' = [files EXCEPT ![path[c]] = IF @ = "partial" THEN "good" ELSE @]
  /\ pc' = [pc EXCEPT ![c] = "list"]
  /\ UNCHANGED <<now, up, path, doomed, fire, spoiled, missed>>

\* An error or the run's timeout ends the copy; the unfinished file stays.
SnapshotFails(c) ==
  /\ pc[c] = "copying"
  /\ pc' = [pc EXCEPT ![c] = Rest(c)]
  /\ spoiled' = (spoiled \/ path[c] = Day(now))
  /\ UNCHANGED <<now, files, up, path, doomed, fire, missed>>

\* The list, newest first, from its Keep-th entry on.
Doomed(present) == {d \in present : Cardinality({e \in present : e > d}) >= Keep}

Lists(c) ==
  /\ pc[c] = "list"
  /\ doomed' = [doomed EXCEPT ![c] = Doomed(Present)]
  /\ pc' = [pc EXCEPT ![c] = IF Doomed(Present) = {} THEN Rest(c) ELSE "prune"]
  /\ UNCHANGED <<now, files, up, path, fire, spoiled, missed>>

\* The directory cannot be read: prune gives up.
ListFails(c) ==
  /\ pc[c] = "list"
  /\ pc' = [pc EXCEPT ![c] = Rest(c)]
  /\ UNCHANGED <<now, files, up, path, doomed, fire, spoiled, missed>>

\* One os.Remove, newest first, whose error is ignored.
Removes(c) ==
  /\ pc[c] = "prune" /\ doomed[c] # {}
  /\ \/ files' = [files EXCEPT ![Max(doomed[c])] = "none"]
     \/ UNCHANGED files
  /\ doomed' = [doomed EXCEPT ![c] = @ \ {Max(@)}]
  /\ pc' = [pc EXCEPT ![c] = IF Cardinality(doomed[c]) = 1 THEN Rest(c) ELSE "prune"]
  /\ UNCHANGED <<now, up, path, fire, spoiled, missed>>
-----------------------------------------------------------------------------
(* The environment *)

\* The process dies: what a snapshot has written so far stays on disk.
Crash ==
  /\ up /\ up' = FALSE
  /\ spoiled' = (spoiled \/ \E c \in Callers : pc[c] = "copying" /\ path[c] = Day(now))
  /\ pc' = [c \in Callers |-> "idle"] /\ doomed' = [c \in Callers |-> {}]
  /\ UNCHANGED <<now, files, path, fire, missed>>

\* The hour of the day is about to come while the job is busy with the file
\* of an earlier day. Next then lands on the hour of the day after.
Overrun ==
  path[Job] < Day(now) /\ pc[Job] \in (Working \ {"call"}) \cup {"arm"}

\* Timers fire on time. The history is that of the new day after midnight.
Tick ==
  /\ now < 2 * LastDay + 1 /\ now' = now + 1
  /\ pc[Job] = "timer" => fire > now
  /\ spoiled' = (now % 2 = 0 /\ spoiled)
  /\ missed' = (now % 2 = 0 /\ (missed \/ Overrun))
  /\ UNCHANGED <<files, up, pc, path, doomed, fire>>

BackupNext ==
  \/ Start \/ Arms \/ Fires \/ Crash \/ Tick
  \/ \E c \in Callers :
       \/ ManualCalls(c) \/ MkdirFails(c) \/ NamesPath(c) \/ Stats(c)
       \/ SnapshotBegins(c) \/ SnapshotRefused(c) \/ SnapshotEnds(c) \/ SnapshotFails(c)
       \/ Lists(c) \/ ListFails(c) \/ Removes(c)

BackupSpec == BackupInit /\ [][BackupNext]_backupVars
-----------------------------------------------------------------------------
(* Properties *)

\* Every value has its type; a caller owes removals exactly while it prunes,
\* since prune carries on after an error of os.Remove.
BackupTypeOK ==
  /\ now \in 0..(2 * LastDay + 1) /\ fire \in Nat
  /\ files \in [Days -> {"none", "partial", "good"}] /\ up \in BOOLEAN
  /\ pc \in [Callers -> Working \cup {"idle", "arm", "timer"}]
  /\ path \in [Callers -> 0..Day(now)] /\ spoiled \in BOOLEAN /\ missed \in BOOLEAN
  /\ doomed \in [Callers -> SUBSET Days]
  /\ \A c \in Callers : (doomed[c] # {}) = (pc[c] = "prune")

\* prune works from a list that other callers' snapshots, failures and prunes
\* have made stale by the time it removes a file, and the process may have
\* restarted since. Whatever they did, a file goes only while at least the
\* retained number of newer files is in the directory.
PruneSparesNewest ==
  [][\A d \in Days : files[d] # "none" /\ files'[d] = "none" =>
       Cardinality({e \in Present : e > d}) >= Keep]_backupVars

\* "Without it a service that restarts each morning after its backup hour
\* would never back up at all" (RunAtStart): through any pattern of crashes,
\* restarts and runs across midnight or the hour, a day that ends with the job
\* waiting for its next occurrence ends with its backup written or being
\* written. Excepted are a day whose snapshot failed half-way or was cut by a
\* crash, one whose last run failed before it had a file, and one whose hour
\* came while the job was busy with the file of an earlier day: "a job that
\* overran its slot lands on the next occurrence" (Daily.Run).
DayCovered ==
  [][LET d == Day(now) IN
       Day(now') > d /\ pc[Job] = "timer" /\ ~spoiled /\ ~missed =>
         files[d] = "good" \/ \E c \in Callers : pc[c] = "copying" /\ path[c] = d]_backupVars

\* "a restart tops up a missing backup" (schedule): once the job's WriteDaily
\* is past its snapshot and can only return nil, with nobody still writing
\* that day's file, the file is complete.
RestartTopsUp ==
  pc[Job] \in {"list", "prune"}
  /\ (\A c \in Manual : ~(pc[c] = "copying" /\ path[c] = path[Job])) =>
    files[path[Job]] # "partial"
=============================================================================
