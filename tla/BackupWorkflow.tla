--------------------------- MODULE BackupWorkflow ---------------------------
(* Backup operations of internal/workflow.Executor, run concurrently against *)
(* one bucket and one Velero.                                                *)
(*                                                                          *)
(* An attempt (one call of Executor.backup) makes one remote call per step,  *)
(* and between any two steps other attempts, Velero, an error, a timeout, a  *)
(* cancellation or a crash may intervene.  Nothing is undone when an attempt *)
(* ends early: Embedded Cluster retries the operation under the same ID and  *)
(* the new attempt starts over on whatever the last one left.                *)
EXTENDS ObjectStore, Velero, Retention

CONSTANTS
    RetentionCounts,   \* the retention counts an administrator may configure
    ListFaults,        \* may a listing miss a manifest it fails to read?
    MaxConcurrent,     \* bound: attempts that Embedded Cluster runs at a time
    MaxTime            \* bound: creation times handed out

ASSUME RetentionAssumption == RetentionCounts \subseteq Nat \ {0}
\* UpdateSettings refuses a count above 1000 (settings/store.go:189).
ASSUME LargestCountAssumption == \E n \in RetentionCounts : \A m \in RetentionCounts : m <= n
ASSUME ListFaultsAssumption == ListFaults \in BOOLEAN
ASSUME BoundsAssumption == MaxConcurrent \in Nat /\ MaxTime \in Nat

VARIABLES
    pc,           \* [Ops -> Step]: what the operation's attempt does next
    time,         \* [Ops -> Nat]: CreatedAt of the manifest it prepared, 0 before
    unread,       \* [Ops -> SUBSET Points]: listed manifests it has yet to get
    listed,       \* [Ops -> [Points -> Nat]]: CreatedAt of the ready manifests it read,
                  \* then of the expired ones it has yet to mark; 0 for the others
    toDelete,     \* [Ops -> SUBSET Points]: the list "deleting" of applyRetention
    target,       \* [Ops -> Points]: the point it is deleting
    published,    \* history: points whose ready manifest was ever put
    repeated,     \* history: points whose operation ran on after that
    missed        \* history: has a listing missed a manifest that was there?

attempt == <<pc, time, unread, listed, toDelete, target>>
history == <<published, repeated, missed>>
vars == <<bucket, velero, attempt, history>>

Step == {"idle", "create-backup", "wait-backup", "upload", "retention", "listing",
         "cleanup", "wait-deletion", "delete-archive", "delete-manifest", "succeeded"}

Active(o) == pc[o] \notin {"idle", "succeeded"}

\* The recovery point an operation produces.
Point(o) == normalizeOperationID[o]

TypeOK ==
    /\ ObjectStoreTypeOK
    /\ VeleroTypeOK
    /\ pc \in [Ops -> Step]
    /\ time \in [Ops -> Nat]
    /\ unread \in [Ops -> SUBSET Points]
    /\ listed \in [Ops -> [Points -> Nat]]
    /\ toDelete \in [Ops -> SUBSET Points]
    /\ target \in [Ops -> Points]
    /\ published \subseteq Points
    /\ repeated \subseteq Points
    /\ missed \in BOOLEAN

Init ==
    /\ ObjectStoreInit
    /\ VeleroInit
    /\ pc = [o \in Ops |-> "idle"]
    /\ time = [o \in Ops |-> 0]
    /\ unread = [o \in Ops |-> {}]
    /\ listed = [o \in Ops |-> [p \in Points |-> 0]]
    /\ toDelete = [o \in Ops |-> {}]
    /\ target = normalizeOperationID
    /\ published = {}
    /\ repeated = {}
    /\ missed = FALSE

-----------------------------------------------------------------------------
Goto(o, step) == pc' = [pc EXCEPT ![o] = step]

\* The manifests in its list "ready".
ToMark(o) == {p \in Points : listed[o][p] # 0}

\* An attempt's local variables die with it.
EndAttempt(o, step) ==
    /\ Goto(o, step)
    /\ time' = [time EXCEPT ![o] = 0]
    /\ unread' = [unread EXCEPT ![o] = {}]
    /\ listed' = [listed EXCEPT ![o] = [p \in Points |-> 0]]
    /\ toDelete' = [toDelete EXCEPT ![o] = {}]
    /\ target' = [target EXCEPT ![o] = Point(o)]

(* Seeded defects: each stands in for the definition below it is named after, *)
(* to show that a property notices the difference.                            *)

\* wait() accepting every terminal phase.
BackupCompletedAnyPhase(o) ==
    /\ pc[o] = "wait-backup"
    /\ backup[Point(o)] \in {"completed", "failed"}
    /\ Goto(o, "upload")
    /\ UNCHANGED <<bucket, velero, time, unread, listed, toDelete, target, history>>

\* Deleting without hiding first.
MarkExpiredUnhidden(o) ==
    /\ pc[o] = "cleanup"
    /\ \E p \in ToMark(o) :
        /\ listed' = [listed EXCEPT ![o][p] = 0]
        /\ toDelete' = [toDelete EXCEPT ![o] = @ \union {p}]
    /\ UNCHANGED <<bucket, velero, pc, time, unread, target, history>>

\* Removing the manifest right after the Velero backup.
DeletionProcessedSkipsArchive(o) ==
    /\ pc[o] = "wait-deletion"
    /\ request[target[o]] = "processed"
    /\ Goto(o, "delete-manifest")
    /\ UNCHANGED <<bucket, velero, time, unread, listed, toDelete, target, history>>

\* Listing for retention what a user may see (ListManifests).
ReadManifestReadyOnly(o) ==
    /\ pc[o] = "listing"
    /\ \E p \in unread[o] :
        /\ unread' = [unread EXCEPT ![o] = @ \ {p}]
        /\ listed' = [listed EXCEPT ![o][p] = IF p \in Ready THEN createdAt[p] ELSE 0]
    /\ UNCHANGED <<bucket, velero, pc, time, toDelete, target, history>>

\* Taking 409 Conflict for a failed deletion request.
RequestDeletionOnce(o) ==
    /\ pc[o] = "cleanup"
    /\ ToMark(o) = {}
    /\ \E p \in toDelete[o] :
        /\ request[p] = "none"
        /\ PostDeleteRequest(p)
        /\ target' = [target EXCEPT ![o] = p]
    /\ Goto(o, "wait-deletion")
    /\ UNCHANGED <<bucket, time, unread, listed, toDelete, history>>

\* Publishing before retention has run.
PublishFirst(o, outcome) ==
    /\ pc[o] = "wait-backup"
    /\ PutManifest(Point(o), time[o])
    /\ EndAttempt(o, outcome)
    /\ published' = published \union {Point(o)}
    /\ UNCHANGED <<velero, repeated, missed>>

-----------------------------------------------------------------------------
(* The steps of an attempt.                                                   *)

\* Opening the configuration and testing the bucket change nothing.
Start(o) ==
    /\ pc[o] = "idle"
    /\ Cardinality({w \in Ops : Active(w)}) < MaxConcurrent
    /\ Goto(o, "create-backup")
    /\ repeated' = repeated \union ({Point(o)} \intersect published)
    /\ UNCHANGED <<bucket, velero, time, unread, listed, toDelete, target, published, missed>>

CreateBackup(o) ==
    /\ pc[o] = "create-backup"
    /\ PostBackup(Point(o))
    /\ Goto(o, "wait-backup")
    /\ UNCHANGED <<bucket, time, unread, listed, toDelete, target, history>>

BackupCompleted(o) ==
    /\ pc[o] = "wait-backup"
    /\ backup[Point(o)] = "completed"
    /\ Goto(o, "upload")
    /\ UNCHANGED <<bucket, velero, time, unread, listed, toDelete, target, history>>

\* The creation times of a point: in its manifest, in the manifest that one of its
\* attempts prepared, in the listings.
TimesOf(p) ==
    {createdAt[p]} \union {time[o] : o \in {w \in Ops : Point(w) = p}}
                   \union {listed[o][p] : o \in Ops}

TimesTaken == UNION {TimesOf(p) : p \in Points}

\* Uploads the archive and reads the clock for the manifest.  Only the order of
\* creation times matters: the clock shows the least time not yet handed out.
UploadState(o) ==
    /\ pc[o] = "upload"
    /\ PutEncryptedFile(Point(o))
    /\ \E now \in 1..MaxTime :
        /\ \A t \in TimesTaken : t < now
        /\ now - 1 \in TimesTaken
        /\ time' = [time EXCEPT ![o] = now]
    /\ Goto(o, "retention")
    /\ UNCHANGED <<velero, unread, listed, toDelete, target, history>>

\* listManifests lists the keys, then gets the manifests one after the other: the
\* result need not be the bucket of any one moment.
ListKeys(o) ==
    /\ pc[o] = "retention"
    /\ unread' = [unread EXCEPT ![o] = Ready \union Deleting]
    /\ Goto(o, "listing")
    /\ UNCHANGED <<bucket, velero, time, listed, toDelete, target, history>>

\* A manifest that cannot be got, because it is gone or for a passing fault, is
\* left out.
ReadManifest(o) ==
    /\ pc[o] = "listing"
    /\ \E p \in unread[o] :
        /\ unread' = [unread EXCEPT ![o] = @ \ {p}]
        /\ \/ /\ listed' = [listed EXCEPT ![o][p] = IF p \in Ready THEN createdAt[p] ELSE 0]
              /\ toDelete' = [toDelete EXCEPT ![o] = @ \union ({p} \intersect Deleting)]
              /\ UNCHANGED missed
           \/ ListFaults /\ missed' = TRUE /\ UNCHANGED <<listed, toDelete>>
    /\ UNCHANGED <<bucket, velero, pc, time, target, published, repeated>>

\* The administrator may have changed the retention count at any time.
SelectExpired(o) ==
    /\ pc[o] = "listing"
    /\ unread[o] = {}
    /\ \E retentionCount \in RetentionCounts :
        LET expired == Expired(ToMark(o), listed[o], retentionCount)
        IN  listed' = [listed EXCEPT ![o] = [p \in Points |-> IF p \in expired THEN @[p] ELSE 0]]
    /\ Goto(o, "cleanup")
    /\ UNCHANGED <<bucket, velero, time, unread, toDelete, target, history>>

\* Marks the newest of the expired manifests first, as the sorted list has them.
MarkExpired(o) ==
    /\ pc[o] = "cleanup"
    /\ \E p \in ToMark(o) :
        /\ \A q \in ToMark(o) : listed[o][p] >= listed[o][q]
        /\ MarkRecoveryPointDeleting(p)
        /\ listed' = [listed EXCEPT ![o][p] = 0]
        /\ toDelete' = [toDelete EXCEPT ![o] = @ \union {p}]
    /\ UNCHANGED <<velero, pc, time, unread, target, history>>

\* The deletions are done in list order; the model takes any order.
RequestDeletion(o) ==
    /\ pc[o] = "cleanup"
    /\ ToMark(o) = {}
    /\ \E p \in toDelete[o] :
        /\ PostDeleteRequest(p)
        /\ target' = [target EXCEPT ![o] = p]
    /\ Goto(o, "wait-deletion")
    /\ UNCHANGED <<bucket, time, unread, listed, toDelete, history>>

DeletionProcessed(o) ==
    /\ pc[o] = "wait-deletion"
    /\ request[target[o]] = "processed"
    /\ Goto(o, "delete-archive")
    /\ UNCHANGED <<bucket, velero, time, unread, listed, toDelete, target, history>>

RemoveArchive(o) ==
    /\ pc[o] = "delete-archive"
    /\ DeleteArchive(target[o])
    /\ Goto(o, "delete-manifest")
    /\ UNCHANGED <<velero, time, unread, listed, toDelete, target, history>>

RemoveManifest(o) ==
    /\ pc[o] = "delete-manifest"
    /\ DeleteManifest(target[o])
    /\ toDelete' = [toDelete EXCEPT ![o] = @ \ {target[o]}]
    /\ target' = [target EXCEPT ![o] = Point(o)]
    /\ Goto(o, "cleanup")
    /\ UNCHANGED <<velero, time, unread, listed, history>>

\* The put takes effect.  If its reply is lost the attempt has failed as far as
\* its caller knows, and the operation is "idle" again instead of "succeeded".
Publish(o, outcome) ==
    /\ pc[o] = "cleanup"
    /\ ToMark(o) = {}
    /\ toDelete[o] = {}
    /\ PutManifest(Point(o), time[o])
    /\ EndAttempt(o, outcome)
    /\ published' = published \union {Point(o)}
    /\ repeated' = IF \/ Point(o) \in published
                      \/ \E w \in Ops \ {o} : Active(w) /\ Point(w) = Point(o)
                     THEN repeated \union {Point(o)} ELSE repeated
    /\ UNCHANGED <<velero, missed>>

\* wait() found the Backup failed or gone, or DeleteBackup found errors in the
\* processed request.
VeleroRejects(o) ==
    /\ \/ pc[o] = "wait-backup" /\ backup[Point(o)] \in {"none", "failed"}
       \/ pc[o] = "wait-deletion" /\ request[target[o]] = "failed"
    /\ EndAttempt(o, "idle")
    /\ UNCHANGED <<bucket, velero, history>>

\* Any call fails, or the attempt's context is cancelled or times out.
Interrupt(o) ==
    /\ Active(o)
    /\ EndAttempt(o, "idle")
    /\ UNCHANGED <<bucket, velero, history>>

\* The process dies with its operation table: every operation can run again.
Crash ==
    /\ pc' = [o \in Ops |-> "idle"]
    /\ time' = [o \in Ops |-> 0]
    /\ unread' = [o \in Ops |-> {}]
    /\ listed' = [o \in Ops |-> [p \in Points |-> 0]]
    /\ toDelete' = [o \in Ops |-> {}]
    /\ target' = normalizeOperationID
    /\ UNCHANGED <<bucket, velero, history>>

VeleroStep ==
    /\ \E p \in Points : \/ BackupFinishes(p)
                         \/ BackupFails(p)
                         \/ RequestSucceeds(p)
                         \/ RequestFails(p)
    /\ UNCHANGED <<bucket, attempt, history>>

Proceed(o) ==
    \/ CreateBackup(o) \/ BackupCompleted(o) \/ UploadState(o)
    \/ ListKeys(o) \/ ReadManifest(o) \/ SelectExpired(o)
    \/ MarkExpired(o) \/ RequestDeletion(o) \/ DeletionProcessed(o)
    \/ RemoveArchive(o) \/ RemoveManifest(o) \/ Publish(o, "succeeded")
    \/ VeleroRejects(o)

Next ==
    \/ \E o \in Ops : Start(o) \/ Proceed(o) \/ Publish(o, "idle") \/ Interrupt(o)
    \/ Crash
    \/ VeleroStep

Spec == Init /\ [][Next]_vars

-----------------------------------------------------------------------------
(* Properties.                                                              *)

\* A recovery point that a listing offers can be restored: its Velero backup is
\* complete and its state archive is in the bucket (Executor.backup publishes
\* last, applyRetention hides first), as long as its operation was not run again
\* after publishing it.
ReadyIsComplete ==
    \A p \in Ready \ repeated : backup[p] = "completed" /\ p \in archive

\* A point that retention has finished removing left nothing behind: deleting
\* the manifest last means no data is ever orphaned by retention.
RemovalIsComplete ==
    \A p \in published \ repeated :
        status[p] = "none" => backup[p] = "none" /\ p \notin archive

MaxRetention == CHOOSE n \in RetentionCounts : \A m \in RetentionCounts : m <= n

\* Retention keeps the number of offered points within the configured count,
\* but for one more point for each attempt running beside the first, as long as
\* every listing was complete.
ReadyWithinRetention ==
    ~missed => Cardinality(Ready) <= MaxRetention - 1 + MaxConcurrent

PhaseOf(p) ==
    IF p \in repeated THEN "repeated"
    ELSE IF p \notin published THEN "unpublished"
    ELSE IF status[p] = "ready" THEN "offered"
    ELSE IF status[p] = "deleting" THEN "hidden"
    ELSE "removed"

DataOf(p) ==
    IF backup[p] = "completed" /\ p \in archive THEN "whole"
    ELSE IF backup[p] = "none" /\ p \notin archive THEN "none"
    ELSE "partial"

\* Every point goes through the lifecycle that PointLifecycle promises.
Lifecycle == INSTANCE PointLifecycle WITH
    phase <- [p \in Points |-> PhaseOf(p)],
    data <- [p \in Points |-> DataOf(p)]

\* The workflow implements the lifecycle: no interleaving, failure or crash
\* offers a point early, takes data from an offered one, forgets one that still
\* has data, or offers a removed one again.
ImplementsLifecycle == Lifecycle!Spec

\* What testing.md:44-46 promises without the reservation in
\* ReadyIsComplete: what is offered as ready is complete.
ReadyAlwaysComplete ==
    \A p \in Ready : backup[p] = "completed" /\ p \in archive

-----------------------------------------------------------------------------
(* The inductive invariant behind ReadyIsComplete and RemovalIsComplete.      *)

HasBackup(o) == pc[o] \notin {"idle", "succeeded", "create-backup", "wait-backup"}
HasArchive(o) == HasBackup(o) /\ pc[o] # "upload"
Deletes(o) == pc[o] \in {"wait-deletion", "delete-archive", "delete-manifest"}

\* Nothing about a point is up for deletion before the point is published.
UnpublishedIsUntouched ==
    /\ \A p \in Points \ published : status[p] = "none" /\ request[p] = "none"
    /\ \A o \in Ops :
        /\ unread[o] \union ToMark(o) \subseteq published
        /\ toDelete[o] \subseteq published
        /\ Deletes(o) => target[o] \in toDelete[o]

\* Only a repeated point has an attempt running after its publication.
PublishedIsAtRest ==
    \A o \in Ops : Active(o) /\ Point(o) \in published => Point(o) \in repeated

\* What an attempt has made for an unpublished point stays made.
PreparedDataStays ==
    \A o \in Ops : Point(o) \notin published =>
        /\ HasBackup(o) => backup[Point(o)] = "completed"
        /\ HasArchive(o) => Point(o) \in archive

\* No deletion is under way for a point that is offered.
OfferedIsSafe ==
    \A p \in Ready \ repeated :
        /\ backup[p] = "completed" /\ p \in archive
        /\ request[p] = "none"
        /\ \A o \in Ops : p \notin toDelete[o]

\* Deletion removes the backup, then the archive, then the manifest.
DeletionInOrder ==
    /\ \A p \in published \ repeated :
        /\ request[p] = "processed" => backup[p] = "none"
        /\ status[p] = "none" => backup[p] = "none" /\ p \notin archive
    /\ \A o \in Ops : target[o] \notin repeated =>
        /\ pc[o] \in {"delete-archive", "delete-manifest"} => backup[target[o]] = "none"
        /\ pc[o] = "delete-manifest" => target[o] \notin archive

\* The inductive invariant: an offered point is complete and a removed one left
\* nothing, because no other attempt can touch what the steps before secured.
IInv ==
    /\ TypeOK
    /\ UnpublishedIsUntouched
    /\ PublishedIsAtRest
    /\ PreparedDataStays
    /\ OfferedIsSafe
    /\ DeletionInOrder

\* A point at rest has its backup or has lost it to retention: what is hidden is
\* never filled again (needed for ImplementsLifecycle).
PublishedIsSettled ==
    \A p \in published \ repeated : backup[p] \in {"completed", "none"}
-----------------------------------------------------------------------------
(* The inductive invariant behind ReadyWithinRetention.                       *)

\* No two points share a creation time, and a manifest that is offered or about
\* to be has one: retention can tell the newest points from the others.
TimesDiffer ==
    /\ \A p, q \in Points : p # q => TimesOf(p) \intersect TimesOf(q) \subseteq {0}
    /\ \A p \in Ready : createdAt[p] # 0
    /\ \A o \in Ops : HasArchive(o) => time[o] # 0

Running == {o \in Ops : Active(o)}

FinitelyMany ==
    /\ IsFiniteSet(Running) /\ Cardinality(Running) <= MaxConcurrent
    /\ IsFiniteSet(Ready)
    /\ \A o \in Ops : IsFiniteSet(ToMark(o))

\* The attempts that have listed the bucket and not yet published.
Pruning == {o \in Ops : HasArchive(o) /\ pc[o] # "retention"}

\* The offered points that o will neither read nor expire any more.
Spared(o) == Ready \ (unread[o] \union ToMark(o))

\* How many of the points it listed an attempt has chosen to keep, at most.
Keeps(o) == IF pc[o] = "listing" THEN 0 ELSE MaxRetention - 1

\* Every point that o spares is one it chose to keep, or was published after o
\* listed the bucket, by an attempt running beside o.  older[o] are the attempts
\* that listed before o and may still publish.  pending are those that listed
\* before an attempt that has since published, and so may publish without
\* having seen its point.
SparesFew(older, pending) ==
    /\ Cardinality(Ready) + Cardinality(pending) <= MaxRetention - 1 + MaxConcurrent
    /\ \A o \in Pruning \ pending :
        /\ pending \subseteq older[o] /\ o \notin older[o]
        /\ \A w \in Pruning \ pending : w \in older[o] \/ o \in older[w] \/ w = o
        /\ \A w \in older[o] \ pending : older[w] \subseteq older[o]
        /\ Cardinality(Spared(o)) + Cardinality(older[o]) <= Keeps(o) + MaxConcurrent - 1

AllSpareFew ==
    \E older \in [Pruning -> SUBSET Pruning], pending \in SUBSET Pruning :
        SparesFew(older, pending)

RetentionIInv ==
    /\ TypeOK
    /\ TimesDiffer
    /\ FinitelyMany
    /\ \A o \in Ops : pc[o] # "listing" => unread[o] = {}
    /\ ~missed => AllSpareFew
=============================================================================
