--------------------------- MODULE BackupLiveness ---------------------------
(* BackupWorkflow with the faults counted and the rest scheduled fairly, to   *)
(* ask what a caller that keeps retrying is owed.                            *)
EXTENDS BackupWorkflow

CONSTANT MaxFaults   \* bound: interruptions, failed Velero backups and failed deletions

ASSUME FaultsAssumption == MaxFaults \in Nat

VARIABLE faults

livenessVars == <<vars, faults>>

LivenessInit == Init /\ faults = 0

Fault == faults < MaxFaults /\ faults' = faults + 1

\* Embedded Cluster retries an operation under its ID until it has succeeded.
Retry(o) == Start(o) /\ UNCHANGED faults

Work(o) == Proceed(o) /\ UNCHANGED faults

\* Failed calls, timeouts, cancellations, lost replies and crashes.
Disturb ==
    /\ Crash \/ \E o \in Ops : Interrupt(o) \/ Publish(o, "idle")
    /\ Fault

VeleroBacksUp(p) ==
    /\ \/ BackupFinishes(p) /\ UNCHANGED faults
       \/ BackupFails(p) /\ Fault
    /\ UNCHANGED <<bucket, attempt, history>>

VeleroDeletes(p) ==
    /\ \/ RequestSucceeds(p) /\ UNCHANGED faults
       \/ RequestFails(p) /\ Fault
    /\ UNCHANGED <<bucket, attempt, history>>

LivenessNext ==
    \/ \E o \in Ops : Retry(o) \/ Work(o)
    \/ \E p \in Points : VeleroBacksUp(p) \/ VeleroDeletes(p)
    \/ Disturb

\* The caller retries, an attempt runs in a goroutine of its own and polls, and
\* Velero's controllers reach every resource they are given.
Fairness ==
    /\ \A o \in Ops : WF_livenessVars(Retry(o)) /\ WF_livenessVars(Work(o))
    /\ \A p \in Points :
        WF_livenessVars(VeleroBacksUp(p)) /\ WF_livenessVars(VeleroDeletes(p))

LivenessSpec == LivenessInit /\ [][LivenessNext]_livenessVars /\ Fairness

-----------------------------------------------------------------------------
\* 409 Conflict is taken for success (velero.go:38, velero.go:93), so that every retry
\* reads back the Backup that Velero failed, or the deletion it processed with errors.
BackupFailed(p) == backup[p] = "failed"
DeletionFailed(p) == request[p] = "failed"

\* An operation that is retried ends in a published recovery point, wherever its
\* attempts were interrupted (design.md:31-32, 90-91), unless Velero failed its own
\* backup, or a deletion that every retention pass comes upon first.
EveryOperationPublishes ==
    \A o \in Ops :
        <>(\/ Point(o) \in published
           \/ BackupFailed(Point(o))
           \/ \E p \in Points : DeletionFailed(p))

\* A point that retention hid is removed in the end, by this attempt or a later
\* one (design.md:76-78), unless such a failure ends every attempt before that.
HiddenIsRemoved ==
    \A p \in Points : status[p] = "deleting" ~>
        (status[p] # "deleting" \/ \E q \in Points : BackupFailed(q) \/ DeletionFailed(q))
=============================================================================
