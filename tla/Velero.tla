------------------------------- MODULE Velero -------------------------------
(* Velero's Backup and DeleteBackupRequest resources as                     *)
(* internal/kubernetes.Velero uses them.                                    *)
(*                                                                          *)
(* Both names derive from the recovery point ("ec-dr-<id>" and              *)
(* "delete-ec-dr-<id>"), so a point has at most one of each, and a POST that *)
(* the API answers with 409 Conflict is taken to have created the resource. *)
(* What Velero's own controllers do with a resource is external: the client *)
(* code only fixes which outcomes it tells apart.                           *)
EXTENDS Identity

VARIABLES
    backup,          \* [Points -> BackupPhase]: the Backup and the data behind it
    request          \* [Points -> RequestPhase]: the DeleteBackupRequest

velero == <<backup, request>>

\* "failed" stands for Failed, PartiallyFailed, FailedValidation and for
\* Completed with errors, all of which wait() reports as the same failure.
BackupPhase == {"none", "running", "completed", "failed"}

\* "failed" is the phase Processed with a non-empty error list.
RequestPhase == {"none", "new", "processed", "failed"}

VeleroTypeOK ==
    /\ backup \in [Points -> BackupPhase]
    /\ request \in [Points -> RequestPhase]

VeleroInit ==
    /\ backup = [p \in Points |-> "none"]
    /\ request = [p \in Points |-> "none"]

-----------------------------------------------------------------------------
(* Calls of the client.                                                     *)

PostBackup(p) ==
    /\ backup' = [backup EXCEPT ![p] = IF @ = "none" THEN "running" ELSE @]
    /\ UNCHANGED request

PostDeleteRequest(p) ==
    /\ request' = [request EXCEPT ![p] = IF @ = "none" THEN "new" ELSE @]
    /\ UNCHANGED backup

-----------------------------------------------------------------------------
(* Velero's controllers.                                                    *)

BackupFinishes(p) ==
    /\ backup[p] = "running"
    /\ backup' = [backup EXCEPT ![p] = "completed"]
    /\ UNCHANGED request

BackupFails(p) ==
    /\ backup[p] = "running"
    /\ backup' = [backup EXCEPT ![p] = "failed"]
    /\ UNCHANGED request

\* The Backup and everything it stored are gone once its deletion is processed.
RequestSucceeds(p) ==
    /\ request[p] = "new"
    /\ request' = [request EXCEPT ![p] = "processed"]
    /\ backup' = [backup EXCEPT ![p] = "none"]

RequestFails(p) ==
    /\ request[p] = "new"
    /\ request' = [request EXCEPT ![p] = "failed"]
    /\ UNCHANGED backup
=============================================================================
