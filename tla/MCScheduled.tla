---------------------------- MODULE MCScheduled ----------------------------
(* What a service does on its own, at boot and by the clock: the migrations *)
(* of its database, the daily backup, and a scheduled push. They share no   *)
(* state, so a behaviour exercises one of them and the others stay as they  *)
(* begin.                                                                   *)
EXTENDS Backup, PushJob, Migrate

VARIABLE part

Init ==
  /\ part \in {"schema", "backup", "push"}
  /\ BackupInit /\ PushInit /\ SchemaInit
  /\ part # "push" => slots = DefaultConcurrency

Next ==
  /\ UNCHANGED part
  /\ \/ part = "schema" /\ SchemaNext /\ UNCHANGED backupVars /\ UNCHANGED pushVars
     \/ part = "backup" /\ BackupNext /\ UNCHANGED schemaVars /\ UNCHANGED pushVars
     \/ part = "push" /\ PushNext /\ UNCHANGED schemaVars /\ UNCHANGED backupVars

vars == <<part, schemaVars, backupVars, pushVars>>

Spec == Init /\ [][Next]_vars /\ PushFairness
=============================================================================
