---------------------------- MODULE ObjectStore ----------------------------
(* The recovery bucket behind internal/recovery.ObjectStore.                *)
(*                                                                          *)
(* Each recovery point owns two objects: its manifest.json, of which only   *)
(* the status and the creation time matter here, and the encrypted archive  *)
(* of the Embedded Cluster state.  S3 applies every request atomically, so   *)
(* each operation below is one PUT or one DELETE; DeleteRecoveryPoint issues *)
(* two of them and is therefore two operations.                             *)
EXTENDS Naturals, Identity


VARIABLES
    status,          \* [Points -> Status]: the manifest's status, "none" if absent
    createdAt,       \* [Points -> Nat]: CreatedAt of the last manifest put
    archive          \* the points whose encrypted state archive exists

bucket == <<status, createdAt, archive>>

Status == {"none", "ready", "deleting"}

ObjectStoreTypeOK ==
    /\ status \in [Points -> Status]
    /\ createdAt \in [Points -> Nat]
    /\ archive \subseteq Points

ObjectStoreInit ==
    /\ status = [p \in Points |-> "none"]
    /\ createdAt = [p \in Points |-> 0]
    /\ archive = {}

-----------------------------------------------------------------------------
\* The manifests a listing returns, by status; only the ready ones are shown
\* to a user (ListManifests), retention sees both kinds.
Ready    == {p \in Points : status[p] = "ready"}
Deleting == {p \in Points : status[p] = "deleting"}

PutEncryptedFile(p) ==
    /\ archive' = archive \union {p}
    /\ UNCHANGED <<status, createdAt>>

\* Puts overwrite: there is no precondition on the manifest already there.
PutManifest(p, time) ==
    /\ status' = [status EXCEPT ![p] = "ready"]
    /\ createdAt' = [createdAt EXCEPT ![p] = time]
    /\ UNCHANGED archive

\* Seeded defect: a status that Validate refuses on every later read.
MarkRecoveryPointExpired(p) ==
    /\ status' = [status EXCEPT ![p] = "expired"]
    /\ UNCHANGED <<createdAt, archive>>

\* Also a blind put, of the copy the caller listed: it recreates a manifest
\* that was removed meanwhile.  The creation time of a "deleting" manifest is
\* never read again, so the copy's is not distinguished from the current one.
MarkRecoveryPointDeleting(p) ==
    /\ status' = [status EXCEPT ![p] = "deleting"]
    /\ UNCHANGED <<createdAt, archive>>

\* The two requests of DeleteRecoveryPoint, in the order it issues them.
\* Deleting an absent object succeeds.
DeleteArchive(p) ==
    /\ archive' = archive \ {p}
    /\ UNCHANGED <<status, createdAt>>

DeleteManifest(p) ==
    /\ status' = [status EXCEPT ![p] = "none"]
    /\ UNCHANGED <<createdAt, archive>>
=============================================================================
