----------------------------- MODULE MCBackups -----------------------------
(* The instances of Backups that are checked.                                *)
EXTENDS Backups
=============================================================================
