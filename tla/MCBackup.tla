------------------------------ MODULE MCBackup ------------------------------
(* The backup service over a few days. *)
EXTENDS Backup
=============================================================================
