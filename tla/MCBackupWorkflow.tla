-------------------------- MODULE MCBackupWorkflow --------------------------
(* Instances of BackupWorkflow for TLC.                                      *)
EXTENDS BackupWorkflow, TLC

CONSTANTS o1, o2, o3

\* One operation per recovery point, named alike.
SameNames == [o \in Ops |-> o]
Symmetry == Permutations(Ops)
=============================================================================
