---------------------------- MODULE MCBackupRestore ----------------------------
(* A small instance of backup and restore: two components, the second one of   *)
(* which is not restored without review, two processes and two backups.        *)
EXTENDS BackupRestore, TLC

CONSTANTS p1, p2, export

MCProcs == {p1, p2}
MCExports == {export}
MCReviewed == {2}
Interchangeable == Permutations(MCProcs)
================================================================================
