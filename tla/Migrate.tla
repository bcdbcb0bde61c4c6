------------------------------ MODULE Migrate ------------------------------
(***************************************************************************)
(* sqlitex.Open and sqlitex.MigrateContext (sqlitex/open.go,               *)
(* sqlitex/migrate.go) as one process after another boots on the same      *)
(* database file, each built with its own number of migrations. A step is  *)
(* a transaction that ends with the stamp of PRAGMA user_version; a crash, *)
(* a failing step or a context that ends may cut it anywhere. One process  *)
(* migrates at a time, as Migrate asks.                                    *)
(***************************************************************************)
EXTENDS Integers, Sequences

CONSTANTS
  Builds,     \* how many migrations the builds that are deployed know
  MaxBoots    \* bound: boots of a process

ASSUME MigrateAssumption == Builds \subseteq Nat /\ MaxBoots \in Nat

VARIABLES
  version,   \* PRAGMA user_version in the file
  effects,   \* the steps whose changes are in the file, in the order made
  tx,        \* the open transaction: the changes and the stamp it would commit
  boot,      \* the process: where it is, its build, and the step it is at
  boots      \* boots so far

schemaVars == <<version, effects, tx, boot, boots>>

NoTx == [effects |-> <<>>, version |-> 0]
Down == [pc |-> "down", knows |-> 0, i |-> 0]

SchemaInit ==
  version = 0 /\ effects = <<>> /\ tx = NoTx /\ boot = Down /\ boots = 0
-----------------------------------------------------------------------------
(* Plausible mistakes in this code, for checking that the properties see them *)

StepStampsMut_OutsideTx ==
  /\ boot.pc = "stamp"
  /\ version' = boot.i + 1
  /\ tx' = [tx EXCEPT !.version = boot.i + 1]
  /\ boot' = [boot EXCEPT !.pc = "commit"]
  /\ UNCHANGED <<effects, boots>>

AheadMut_Ignored == FALSE
-----------------------------------------------------------------------------
\* Open: the directory, the handle and the first connection are made, or the
\* process does not come up.
Boots(b) ==
  /\ boot.pc = "down" /\ boots < MaxBoots
  /\ boots' = boots + 1
  /\ \/ boot' = [pc |-> "read", knows |-> b, i |-> 0]
     \/ boot' = Down
  /\ UNCHANGED <<version, effects, tx>>

\* The file is ahead of this build.
Ahead == version > boot.knows

\* MigrateContext reads the version; a file from the future is refused.
ReadsVersion ==
  /\ boot.pc = "read"
  /\ boot' = IF Ahead THEN Down ELSE [boot EXCEPT !.pc = "loop", !.i = version]
  /\ UNCHANGED <<version, effects, tx, boots>>

\* applyStep opens the transaction of the next step.
StepBegins ==
  /\ boot.pc = "loop" /\ boot.i < boot.knows
  /\ tx' = [effects |-> effects, version |-> version]
  /\ boot' = [boot EXCEPT !.pc = "up"]
  /\ UNCHANGED <<version, effects, boots>>

\* Up makes its changes in the transaction.
StepUp ==
  /\ boot.pc = "up"
  /\ tx' = [tx EXCEPT !.effects = Append(@, boot.i + 1)]
  /\ boot' = [boot EXCEPT !.pc = "stamp"]
  /\ UNCHANGED <<version, effects, boots>>

StepStamps ==
  /\ boot.pc = "stamp"
  /\ tx' = [tx EXCEPT !.version = boot.i + 1]
  /\ boot' = [boot EXCEPT !.pc = "commit"]
  /\ UNCHANGED <<version, effects, boots>>

StepCommits ==
  /\ boot.pc = "commit"
  /\ version' = tx.version /\ effects' = tx.effects /\ tx' = NoTx
  /\ boot' = [boot EXCEPT !.pc = "loop", !.i = @ + 1]
  /\ UNCHANGED boots

\* Any of these calls fails: the transaction is rolled back, Open closes the
\* handle, and the process gives up. A commit that reports an error may have
\* been made.
StepFails ==
  /\ boot.pc \in {"read", "loop", "up", "stamp", "commit"}
  /\ \/ UNCHANGED <<version, effects>>
     \/ boot.pc = "commit" /\ version' = tx.version /\ effects' = tx.effects
  /\ tx' = NoTx /\ boot' = Down
  /\ UNCHANGED boots

\* Every step is in place: Open hands the database out.
OpenReturns ==
  /\ boot.pc = "loop" /\ boot.i >= boot.knows
  /\ boot' = [boot EXCEPT !.pc = "serving"]
  /\ UNCHANGED <<version, effects, tx, boots>>

\* The process stops or crashes; SQLite discards a transaction that was open.
ProcessDies ==
  /\ boot.pc # "down"
  /\ tx' = NoTx /\ boot' = Down
  /\ UNCHANGED <<version, effects, boots>>

SchemaNext ==
  \/ \E b \in Builds : Boots(b)
  \/ ReadsVersion \/ StepBegins \/ StepUp \/ StepStamps \/ StepCommits
  \/ StepFails \/ OpenReturns \/ ProcessDies

SchemaSpec == SchemaInit /\ [][SchemaNext]_schemaVars
-----------------------------------------------------------------------------
(* Properties *)

\* Every variable has its type.
SchemaTypeOK ==
  /\ version \in Nat /\ effects \in Seq(Nat) /\ boots \in 0..MaxBoots
  /\ tx \in [effects : Seq(Nat), version : Nat]
  /\ boot \in [pc : {"down", "read", "loop", "up", "stamp", "commit", "serving"},
               knows : Builds \cup {0}, i : Nat]

\* "a crash can never leave a half-applied step recorded as done" (Migrate), nor
\* a step that was made be made again, and no build operates "on a future
\* schema": through crashes at any point, failing steps, upgrades and
\* rollbacks, a process that serves finds in the file the steps it knows, each
\* made once and in order, and no others.
ServesItsSchema ==
  boot.pc = "serving" =>
    version = boot.knows /\ effects = [i \in 1..boot.knows |-> i]
=============================================================================
