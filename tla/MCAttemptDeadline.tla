------------------------- MODULE MCAttemptDeadline -------------------------
(* Instances of AttemptDeadline for TLC.                                     *)
EXTENDS AttemptDeadline, TLC

CONSTANTS i1, p1, p2, c1, c2

R(kind, p, c) == [kind |-> kind, point |-> p, config |-> c]

\* A backup, a bootstrap restore driven by the UI and one that is headless, and
\* in-cluster restores of one point that disagree on the configuration.
MixedRequests ==
    {R("backup", NoPoint, NoConfig), R("bootstrap", NoPoint, NoConfig), R("bootstrap", p1, c1),
     R("application", p1, NoConfig), R("application", p1, c1), R("application", p1, c2)}
=============================================================================
