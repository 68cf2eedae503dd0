-------------------------- MODULE MCBackupLiveness --------------------------
(* Instances of BackupLiveness for TLC: two operations, points named alike.   *)
EXTENDS BackupLiveness

SameNames == [o \in Ops |-> o]
=============================================================================
