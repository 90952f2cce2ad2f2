------------------------------ MODULE MCBackup ------------------------------
(* Instances of the backup script for TLC; the constants are in the cfgs.  *)
EXTENDS Backup
=============================================================================
