------------------------- MODULE MCRestoreWorkflow -------------------------
(* Instances of RestoreWorkflow for TLC.                                     *)
EXTENDS RestoreWorkflow, TLC

CONSTANTS b1, a1, a2, p1

\* A bootstrap restore and two in-cluster restores, all of one point: what they
\* share is the point and its synchronized backup.
OnePoint == [o \in {b1, a1, a2} |-> p1]
=============================================================================
