--------------------------- MODULE RestoreWorkflow ---------------------------
(* Restore operations of internal/workflow.Executor.  The bootstrap restore    *)
(* stages the decrypted archive of its point in a file; the in-cluster restore *)
(* has Velero restore the point's backup under a name of the operation's own.  *)
(*                                                                           *)
(* The points change under a restore as PointLifecycle allows, no more and no  *)
(* less: BackupWorkflow implements it, and the cluster that made the points    *)
(* may still be backing up and expiring.                                      *)
EXTENDS Naturals

CONSTANTS
    Points,
    Bootstrap,             \* bootstrap restore operations
    Application,           \* in-cluster restore operations
    recoveryPoint,         \* [Bootstrap \union Application -> Points]: RecoveryPointID
    MaxInterruptions,      \* bound: failed calls, timeouts, cancellations, crashes
    MaxRestoreFailures     \* bound: Velero restores of whole backups that fail

Restores == Bootstrap \union Application

ASSUME RestoresAssumption ==
    /\ Bootstrap \intersect Application = {}
    /\ recoveryPoint \in [Restores -> Points]
ASSUME FaultsAssumption == MaxInterruptions \in Nat /\ MaxRestoreFailures \in Nat

VARIABLES
    phase, data,       \* the points, see PointLifecycle
    pc,                \* [Restores -> Step]: what the operation's attempt does next
    file,              \* [Bootstrap -> File]: ec-state-v1.tar.gz in the work directory
    synced,            \* points whose Backup this cluster's Velero has synchronized
    restore,           \* [Application -> RestorePhase]: the operation's Velero Restore
    interruptions, restoreFailures

points == <<phase, data>>
faults == <<interruptions, restoreFailures>>
velero == <<synced, restore>>
vars == <<points, pc, file, velero, faults>>

Lifecycle == INSTANCE PointLifecycle

Step == {"idle", "manifest", "stage", "download", "copy",
         "sync", "create-restore", "wait-restore", "report", "succeeded"}
File == {"none", "partial", "whole"}
RestorePhase == {"none", "running", "completed", "failed"}

TypeOK ==
    /\ phase \in [Points -> Lifecycle!Phase]
    /\ data \in [Points -> Lifecycle!Data]
    /\ pc \in [Restores -> Step]
    /\ file \in [Bootstrap -> File]
    /\ synced \subseteq Points
    /\ restore \in [Application -> RestorePhase]
    /\ interruptions \in 0..MaxInterruptions
    /\ restoreFailures \in 0..MaxRestoreFailures

Init ==
    /\ Lifecycle!Init
    /\ pc = [o \in Restores |-> "idle"]
    /\ file = [o \in Bootstrap |-> "none"]
    /\ synced = {}
    /\ restore = [o \in Application |-> "none"]
    /\ interruptions = 0
    /\ restoreFailures = 0

PhaseOf(o) == phase[recoveryPoint[o]]
DataOf(o) == data[recoveryPoint[o]]
Move(o, from, to) == pc[o] = from /\ pc' = [pc EXCEPT ![o] = to]
Active(o) == pc[o] \notin {"idle", "succeeded"}

-----------------------------------------------------------------------------
(* Seeded defects, to show that the properties notice them.                   *)

\* Leaving what an earlier attempt staged in place.
StageKeeps(o) ==
    /\ Move(o, "stage", "download")
    /\ UNCHANGED <<points, file, velero, faults>>

\* Taking a file that is there for the archive.
StageReuses(o) ==
    /\ Move(o, "stage", IF file[o] = "none" THEN "download" ELSE "report")
    /\ UNCHANGED <<points, file, velero, faults>>

\* An attempt that goes on to a step there is not.
CopyFinishesMisspelt(o) ==
    /\ Move(o, "copy", "reported")
    /\ file' = [file EXCEPT ![o] = "whole"]
    /\ UNCHANGED <<points, velero, faults>>

-----------------------------------------------------------------------------
(* The steps of an attempt.                                                   *)

\* Opening the configuration and testing the bucket change nothing.
Start(o) ==
    /\ Move(o, "idle", "manifest")
    /\ UNCHANGED <<points, file, velero, faults>>

\* Only a ready manifest is accepted.  A repeated point may have one or not.
ReadManifest(o) ==
    /\ PhaseOf(o) \in {"offered", "repeated"}
    /\ Move(o, "manifest", IF o \in Bootstrap THEN "stage" ELSE "sync")
    /\ UNCHANGED <<points, file, velero, faults>>

NotReady(o) ==
    /\ PhaseOf(o) # "offered"
    /\ Move(o, "manifest", "idle")
    /\ UNCHANGED <<points, file, velero, faults>>

\* Removes the file that an earlier attempt may have left.
Stage(o) ==
    /\ Move(o, "stage", "download")
    /\ file' = [file EXCEPT ![o] = "none"]
    /\ UNCHANGED <<points, velero, faults>>

\* The archive is there (once the data is not whole it may or may not be) and the
\* file is created, which must not exist.  What is read from then on is one object.
OpenArchive(o) ==
    /\ DataOf(o) # "none"
    /\ file[o] = "none"
    /\ Move(o, "download", "copy")
    /\ file' = [file EXCEPT ![o] = "partial"]
    /\ UNCHANGED <<points, velero, faults>>

OpenFails(o) ==
    /\ DataOf(o) # "whole" \/ file[o] # "none"
    /\ Move(o, "download", "idle")
    /\ UNCHANGED <<points, file, velero, faults>>

CopyFinishes(o) ==
    /\ Move(o, "copy", "report")
    /\ file' = [file EXCEPT ![o] = "whole"]
    /\ UNCHANGED <<points, velero, faults>>

BackupSynced(o) ==
    /\ recoveryPoint[o] \in synced
    /\ Move(o, "sync", "create-restore")
    /\ UNCHANGED <<points, file, velero, faults>>

\* backupSyncTimeout, five minutes.
SyncTimesOut(o) ==
    /\ recoveryPoint[o] \notin synced
    /\ Move(o, "sync", "idle")
    /\ UNCHANGED <<points, file, velero, faults>>

\* 409 Conflict is taken to have created the Restore.
CreateRestore(o) ==
    /\ Move(o, "create-restore", "wait-restore")
    /\ restore' = [restore EXCEPT ![o] = IF @ = "none" THEN "running" ELSE @]
    /\ UNCHANGED <<points, file, synced, faults>>

RestoreCompleted(o) ==
    /\ restore[o] = "completed"
    /\ Move(o, "wait-restore", "report")
    /\ UNCHANGED <<points, file, velero, faults>>

RestoreRejected(o) ==
    /\ restore[o] = "failed"
    /\ Move(o, "wait-restore", "idle")
    /\ UNCHANGED <<points, file, velero, faults>>

\* The executor has answered; the server records the success when it has the lock.
Report(o) ==
    /\ Move(o, "report", "succeeded")
    /\ UNCHANGED <<points, file, velero, faults>>

Counted(counter, bound) ==
    /\ counter < bound
    /\ counter' = counter + 1

\* A call fails or the attempt's context ends; a copy cut short removes its file.  The
\* answer of an attempt that was canceled meanwhile is dropped.
Interrupt(o) ==
    /\ Active(o)
    /\ Counted(interruptions, MaxInterruptions)
    /\ pc' = [pc EXCEPT ![o] = "idle"]
    /\ file' = IF pc[o] = "copy" THEN [file EXCEPT ![o] = "none"] ELSE file
    /\ UNCHANGED <<points, velero, restoreFailures>>

\* The process dies.  Files stay as they are, and every operation, successful ones
\* included, can run again.
Crash ==
    /\ Counted(interruptions, MaxInterruptions)
    /\ pc' = [o \in Restores |-> "idle"]
    /\ UNCHANGED <<points, file, velero, restoreFailures>>

-----------------------------------------------------------------------------
(* Velero in the cluster that is being restored, and the points.              *)

Synchronize(p) ==
    /\ \/ data[p] # "none" /\ p \notin synced /\ synced' = synced \union {p}
       \/ data[p] = "none" /\ p \in synced /\ synced' = synced \ {p}
    /\ UNCHANGED <<points, pc, file, restore, faults>>

\* A Velero restore can only complete from data that is there.
VeleroRestores(o) ==
    /\ restore[o] = "running"
    /\ \/ /\ DataOf(o) = "whole"
          /\ restore' = [restore EXCEPT ![o] = "completed"]
          /\ UNCHANGED faults
       \/ /\ restore' = [restore EXCEPT ![o] = "failed"]
          /\ IF DataOf(o) = "whole"
             THEN Counted(restoreFailures, MaxRestoreFailures) /\ UNCHANGED interruptions
             ELSE UNCHANGED faults
    /\ UNCHANGED <<points, pc, file, synced>>

PointsChange ==
    /\ Lifecycle!Next
    /\ UNCHANGED <<pc, file, velero, faults>>

-----------------------------------------------------------------------------
BootstrapStep(o) ==
    Stage(o) \/ OpenArchive(o) \/ OpenFails(o) \/ CopyFinishes(o)

ApplicationStep(o) ==
    \/ BackupSynced(o) \/ SyncTimesOut(o)
    \/ CreateRestore(o) \/ RestoreCompleted(o) \/ RestoreRejected(o)

Work(o) ==
    \/ ReadManifest(o) \/ NotReady(o) \/ Report(o)
    \/ o \in Bootstrap /\ BootstrapStep(o)
    \/ o \in Application /\ ApplicationStep(o)

Next ==
    \/ \E o \in Restores : Start(o) \/ Work(o) \/ Interrupt(o)
    \/ \E o \in Application : VeleroRestores(o)
    \/ \E p \in Points : Synchronize(p)
    \/ PointsChange
    \/ Crash

Spec == Init /\ [][Next]_vars

\* Embedded Cluster retries, an attempt runs in a goroutine of its own and polls,
\* Velero's controllers reach every resource.  Nothing is assumed of the points.
Fairness ==
    /\ \A o \in Restores : WF_vars(Start(o)) /\ WF_vars(Work(o))
    /\ \A o \in Application : WF_vars(VeleroRestores(o))
    /\ \A p \in Points : WF_vars(Synchronize(p))

FairSpec == Spec /\ Fairness

-----------------------------------------------------------------------------
(* Properties.                                                                *)

\* Success is never reported of less than a whole archive on disk or a completed
\* Velero restore, whatever retention takes away meanwhile and whatever earlier
\* attempts left behind (testing.md:75-77: "all fail closed without reporting
\* recovery complete").
SucceededIsRestored ==
    \A o \in Restores : pc[o] = "succeeded" =>
        /\ o \in Bootstrap => file[o] = "whole"
        /\ o \in Application => restore[o] = "completed"

StaysOffered(o) == <>[](PhaseOf(o) = "offered")

\* A restore of a point that stays offered succeeds if it is retried, wherever its
\* attempts were interrupted or killed, unless Velero has failed its Restore.
RetriedRestoreSucceeds ==
    \A o \in Restores :
        StaysOffered(o) /\ (o \in Application => [](restore[o] # "failed"))
            => <>(pc[o] = "succeeded")

\* The same without the exception (design.md:101-102: "retry of a failed
\* application restore").
FailedRestoreCanBeRetried ==
    \A o \in Restores : StaysOffered(o) => <>(pc[o] = "succeeded")
=============================================================================
