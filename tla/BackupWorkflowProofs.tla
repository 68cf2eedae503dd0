------------------------ MODULE BackupWorkflowProofs ------------------------
(* Theorems about BackupWorkflow for every set of operations and points, any  *)
(* normalization of IDs, any retention counts, with or without listing        *)
(* faults, and any bounds.                                                    *)
EXTENDS BackupLiveness, TLAPS

\* An operation's recovery point is one of the points.
LEMMA PointType == \A o \in Ops : Point(o) \in Points
BY NormalizeAssumption DEF Point

-----------------------------------------------------------------------------
(* Type correctness.                                                          *)

LEMMA InitTypeOK == Init => TypeOK
<1> SUFFICES ASSUME Init PROVE TypeOK
    OBVIOUS
<1>1. missed \in BOOLEAN
    BY Zenon DEF Init
<1>2. ObjectStoreTypeOK /\ VeleroTypeOK
    BY DEF Init, ObjectStoreInit, VeleroInit, ObjectStoreTypeOK, VeleroTypeOK, Status,
           BackupPhase, RequestPhase
<1> QED
    BY <1>1, <1>2, NormalizeAssumption DEF Init, TypeOK, Step

\* An attempt that ends leaves its lists empty and the others' alone.
LEMMA EndAttemptLists ==
    ASSUME TypeOK, NEW o \in Ops, NEW step, EndAttempt(o, step)
    PROVE  /\ listed' \in [Ops -> [Points -> Nat]]
           /\ \A w \in Ops : ToMark(w)' = IF w = o THEN {} ELSE ToMark(w)
           /\ toDelete' = [toDelete EXCEPT ![o] = {}]
<1>1. [p \in Points |-> 0] \in [Points -> Nat]
    OBVIOUS
<1>2. listed' \in [Ops -> [Points -> Nat]]
    BY <1>1 DEF TypeOK, EndAttempt
<1>3. ToMark(o)' = {}
    BY DEF TypeOK, EndAttempt, ToMark
<1>4. ASSUME NEW w \in Ops, w # o PROVE ToMark(w)' = ToMark(w)
    BY <1>4 DEF TypeOK, EndAttempt, ToMark
<1> QED
    BY <1>2, <1>3, <1>4 DEF EndAttempt

LEMMA StepTypeOK == TypeOK /\ [Next]_vars => TypeOK'
<1> SUFFICES ASSUME TypeOK, [Next]_vars PROVE TypeOK'
    OBVIOUS
<1> USE DEF TypeOK, ObjectStoreTypeOK, VeleroTypeOK
<1>1. ASSUME NEW o \in Ops, Start(o) PROVE TypeOK'
    BY <1>1 DEF Start, Goto, Step, bucket, velero
<1>2. ASSUME NEW o \in Ops, CreateBackup(o) PROVE TypeOK'
    BY <1>2, PointType DEF CreateBackup, PostBackup, BackupPhase, Goto, Step, bucket, history
<1>3. ASSUME NEW o \in Ops, BackupCompleted(o) PROVE TypeOK'
    BY <1>3 DEF BackupCompleted, Goto, Step, bucket, velero, history
<1>4. ASSUME NEW o \in Ops, UploadState(o) PROVE TypeOK'
    BY <1>4, PointType, BoundsAssumption
    DEF UploadState, PutEncryptedFile, Goto, Step, velero, history
<1>5. ASSUME NEW o \in Ops, ListKeys(o) PROVE TypeOK'
    BY <1>5 DEF ListKeys, Ready, Deleting, Goto, Step, bucket, velero, history
<1>6. ASSUME NEW o \in Ops, ReadManifest(o) PROVE TypeOK'
  <2>1. PICK p \in unread[o] :
        /\ unread' = [unread EXCEPT ![o] = @ \ {p}]
        /\ \/ /\ listed' = [listed EXCEPT ![o][p] = IF p \in Ready THEN createdAt[p] ELSE 0]
              /\ toDelete' = [toDelete EXCEPT ![o] = @ \union ({p} \intersect Deleting)]
           \/ UNCHANGED <<listed, toDelete>>
    BY <1>6 DEF ReadManifest
  <2>2. p \in Points
    OBVIOUS
  <2>3. [listed[o] EXCEPT ![p] = IF p \in Ready THEN createdAt[p] ELSE 0] \in [Points -> Nat]
    BY <2>2
  <2>4. listed' \in [Ops -> [Points -> Nat]]
    BY <2>1, <2>3
  <2>5. unread' \in [Ops -> SUBSET Points] /\ toDelete' \in [Ops -> SUBSET Points]
    BY <2>1, <2>2
  <2>6. UNCHANGED <<bucket, velero, pc, time, target, published, repeated>>
        /\ missed' \in BOOLEAN
    BY <1>6 DEF ReadManifest
  <2> QED
    BY <2>4, <2>5, <2>6 DEF bucket, velero
<1>7. ASSUME NEW o \in Ops, SelectExpired(o) PROVE TypeOK'
    BY <1>7 DEF SelectExpired, Expired, Goto, Step, bucket, velero, history
<1>8. ASSUME NEW o \in Ops, MarkExpired(o) PROVE TypeOK'
  <2>1. PICK p \in ToMark(o) :
        /\ MarkRecoveryPointDeleting(p)
        /\ listed' = [listed EXCEPT ![o][p] = 0]
        /\ toDelete' = [toDelete EXCEPT ![o] = @ \union {p}]
    BY <1>8 DEF MarkExpired
  <2>2. p \in Points
    BY DEF ToMark
  <2>3. [listed[o] EXCEPT ![p] = 0] \in [Points -> Nat]
    BY <2>2
  <2>4. listed' \in [Ops -> [Points -> Nat]]
    BY <2>1, <2>3
  <2> QED
    BY <1>8, <2>1, <2>2, <2>4
    DEF MarkExpired, MarkRecoveryPointDeleting, Status, velero, history
<1>9. ASSUME NEW o \in Ops, RequestDeletion(o) PROVE TypeOK'
    BY <1>9 DEF RequestDeletion, PostDeleteRequest, RequestPhase, Goto, Step, bucket, history
<1>10. ASSUME NEW o \in Ops, DeletionProcessed(o) PROVE TypeOK'
    BY <1>10 DEF DeletionProcessed, Goto, Step, bucket, velero, history
<1>11. ASSUME NEW o \in Ops, RemoveArchive(o) PROVE TypeOK'
    BY <1>11 DEF RemoveArchive, DeleteArchive, Goto, Step, velero, history
<1>12. ASSUME NEW o \in Ops, RemoveManifest(o) PROVE TypeOK'
    BY <1>12, PointType DEF RemoveManifest, DeleteManifest, Status, Goto, Step, velero, history
<1>13. ASSUME NEW o \in Ops, NEW outcome \in {"succeeded", "idle"}, Publish(o, outcome)
       PROVE  TypeOK'
  <2>1. listed' \in [Ops -> [Points -> Nat]]
    BY <1>13, EndAttemptLists DEF Publish
  <2> QED
    BY <1>13, <2>1, PointType DEF Publish, PutManifest, Status, EndAttempt, Goto, Step, velero
<1>14. ASSUME NEW o \in Ops, VeleroRejects(o) \/ Interrupt(o) PROVE TypeOK'
  <2>1. listed' \in [Ops -> [Points -> Nat]]
    BY <1>14, EndAttemptLists DEF VeleroRejects, Interrupt
  <2>2. EndAttempt(o, "idle") /\ UNCHANGED <<bucket, velero, history>>
    BY <1>14 DEF VeleroRejects, Interrupt
  <2> QED
    BY <2>1, <2>2, PointType DEF EndAttempt, Goto, Step, bucket, velero, history
<1>15. ASSUME Crash PROVE TypeOK'
    BY <1>15, NormalizeAssumption DEF Crash, Step, bucket, velero, history
<1>16. ASSUME VeleroStep PROVE TypeOK'
    BY <1>16 DEF VeleroStep, BackupFinishes, BackupFails, RequestSucceeds, RequestFails,
                 BackupPhase, RequestPhase, bucket, attempt, history
<1>17. ASSUME UNCHANGED vars PROVE TypeOK'
    BY <1>17 DEF vars, bucket, velero, attempt, history
<1> QED
    BY <1>1, <1>2, <1>3, <1>4, <1>5, <1>6, <1>7, <1>8, <1>9, <1>10, <1>11, <1>12, <1>13, <1>14,
       <1>15, <1>16, <1>17 DEF Next, Proceed

\* Every variable keeps its type in every reachable state.
THEOREM TypeCorrect == Spec => []TypeOK
<1>1. Init => TypeOK
    BY InitTypeOK
<1>2. TypeOK /\ [Next]_vars => TypeOK'
    BY StepTypeOK
<1> QED
    BY <1>1, <1>2, PTL DEF Spec

-----------------------------------------------------------------------------
(* The inductive invariant: one step per action, and under it one per part of  *)
(* IInv.                                                                      *)

LEMMA StepIInv == IInv /\ [Next]_vars => IInv'
<1> SUFFICES ASSUME IInv, [Next]_vars PROVE IInv'
    OBVIOUS
<1> USE DEF IInv, TypeOK, ObjectStoreTypeOK, VeleroTypeOK
<1>0. TypeOK'
    BY StepTypeOK
<1>1. ASSUME NEW o \in Ops, Start(o) PROVE IInv'
  <2>1. UnpublishedIsUntouched'
    BY <1>1 DEF Start, Goto, bucket, velero, UnpublishedIsUntouched, ToMark, Deletes
  <2>2. PublishedIsAtRest'
    BY <1>1 DEF Start, Goto, PublishedIsAtRest, Active
  <2>3. PreparedDataStays'
    BY <1>1 DEF Start, Goto, bucket, velero, PreparedDataStays, HasArchive,
       HasBackup
  <2>4. OfferedIsSafe'
    BY <1>1 DEF Start, Goto, bucket, velero, OfferedIsSafe, Ready
  <2>5. DeletionInOrder'
    BY <1>1 DEF Start, Goto, bucket, velero, DeletionInOrder
  <2> QED
    BY <1>0, <2>1, <2>2, <2>3, <2>4, <2>5
<1>2. ASSUME NEW o \in Ops, CreateBackup(o) PROVE IInv'
  <2>1. UnpublishedIsUntouched'
    BY <1>2 DEF CreateBackup, PostBackup, Goto, bucket, history,
       UnpublishedIsUntouched, ToMark, Deletes
  <2>2. PublishedIsAtRest'
    BY <1>2 DEF CreateBackup, PostBackup, Goto, history, PublishedIsAtRest, Active
  <2>3. PreparedDataStays'
    BY <1>2 DEF CreateBackup, PostBackup, Goto, bucket, history, PreparedDataStays,
       HasArchive, HasBackup
  <2>4. OfferedIsSafe'
    BY <1>2 DEF CreateBackup, PostBackup, Goto, bucket, history, OfferedIsSafe,
       Ready
  <2>5. DeletionInOrder'
    BY <1>2 DEF CreateBackup, PostBackup, Goto, bucket, history,
       UnpublishedIsUntouched, ToMark, PublishedIsAtRest, DeletionInOrder, Deletes, Active
  <2> QED
    BY <1>0, <2>1, <2>2, <2>3, <2>4, <2>5
<1>3. ASSUME NEW o \in Ops, BackupCompleted(o) PROVE IInv'
  <2>1. UnpublishedIsUntouched'
    BY <1>3 DEF BackupCompleted, Goto, bucket, velero, history,
       UnpublishedIsUntouched, ToMark, Deletes
  <2>2. PublishedIsAtRest'
    BY <1>3 DEF BackupCompleted, Goto, history, PublishedIsAtRest, Active
  <2>3. PreparedDataStays'
    BY <1>3 DEF BackupCompleted, Goto, bucket, velero, history, PreparedDataStays,
       HasArchive, HasBackup
  <2>4. OfferedIsSafe'
    BY <1>3 DEF BackupCompleted, Goto, bucket, velero, history, OfferedIsSafe, Ready
  <2>5. DeletionInOrder'
    BY <1>3 DEF BackupCompleted, Goto, bucket, velero, history, DeletionInOrder
  <2> QED
    BY <1>0, <2>1, <2>2, <2>3, <2>4, <2>5
<1>4. ASSUME NEW o \in Ops, UploadState(o) PROVE IInv'
  <2>1. UnpublishedIsUntouched'
    BY <1>4 DEF UploadState, PutEncryptedFile, Goto, velero, history,
       UnpublishedIsUntouched, ToMark, Deletes
  <2>2. PublishedIsAtRest'
    BY <1>4 DEF UploadState, PutEncryptedFile, Goto, history, PublishedIsAtRest,
       Active
  <2>3. PreparedDataStays'
    BY <1>4 DEF UploadState, PutEncryptedFile, Goto, velero, history,
       PreparedDataStays, HasArchive, HasBackup
  <2>4. OfferedIsSafe'
    BY <1>4 DEF UploadState, PutEncryptedFile, Goto, velero, history, OfferedIsSafe,
       Ready
  <2>5. DeletionInOrder'
    <3>1. /\ archive' = archive \union {Point(o)}
          /\ pc' = [pc EXCEPT ![o] = "retention"]
          /\ UNCHANGED <<status, backup, request, toDelete, target, published, repeated>>
      BY <1>4 DEF UploadState, PutEncryptedFile, Goto, velero, history
    <3>2. Point(o) \in published => Point(o) \in repeated
      BY <1>4 DEF UploadState, PublishedIsAtRest, Active
    <3>3. ASSUME NEW w \in Ops, pc'[w] \in {"delete-archive", "delete-manifest"}
          PROVE  pc'[w] = pc[w] /\ target[w] \in published
      BY <3>1, <3>3 DEF UnpublishedIsUntouched, Deletes
    <3>4. \A p \in published' \ repeated' :
             /\ request'[p] = "processed" => backup'[p] = "none"
             /\ status'[p] = "none" => backup'[p] = "none" /\ p \notin archive'
      BY <3>1, <3>2 DEF DeletionInOrder
    <3> QED
      BY <3>1, <3>2, <3>3, <3>4 DEF DeletionInOrder
  <2> QED
    BY <1>0, <2>1, <2>2, <2>3, <2>4, <2>5
<1>5. ASSUME NEW o \in Ops, ListKeys(o) PROVE IInv'
  <2>1. UnpublishedIsUntouched'
    BY <1>5 DEF ListKeys, Goto, bucket, velero, history, UnpublishedIsUntouched, ToMark,
       Ready, Deleting, Deletes
  <2>2. PublishedIsAtRest'
    BY <1>5 DEF ListKeys, Goto, history, PublishedIsAtRest, Active
  <2>3. PreparedDataStays'
    BY <1>5 DEF ListKeys, Goto, bucket, velero, history, PreparedDataStays,
       HasArchive, HasBackup
  <2>4. OfferedIsSafe'
    BY <1>5 DEF ListKeys, Goto, bucket, velero, history, OfferedIsSafe, Ready
  <2>5. DeletionInOrder'
    BY <1>5 DEF ListKeys, Goto, bucket, velero, history, DeletionInOrder
  <2> QED
    BY <1>0, <2>1, <2>2, <2>3, <2>4, <2>5
<1>6. ASSUME NEW o \in Ops, ReadManifest(o) PROVE IInv'
  <2>1. UnpublishedIsUntouched'
    BY <1>6 DEF ReadManifest, bucket, velero, history, UnpublishedIsUntouched, ToMark,
       Deletes
  <2>2. PublishedIsAtRest'
    BY <1>6 DEF ReadManifest, history, PublishedIsAtRest, Active
  <2>3. PreparedDataStays'
    BY <1>6 DEF ReadManifest, bucket, velero, history, PreparedDataStays,
       HasArchive, HasBackup
  <2>4. OfferedIsSafe'
    BY <1>6 DEF ReadManifest, bucket, velero, history, OfferedIsSafe, Ready,
       Deleting
  <2>5. DeletionInOrder'
    BY <1>6 DEF ReadManifest, bucket, velero, history, DeletionInOrder
  <2> QED
    BY <1>0, <2>1, <2>2, <2>3, <2>4, <2>5
<1>7. ASSUME NEW o \in Ops, SelectExpired(o) PROVE IInv'
  <2>1. UnpublishedIsUntouched'
    BY <1>7 DEF SelectExpired, Expired, Goto, bucket, velero, history,
       UnpublishedIsUntouched, ToMark, Deletes
  <2>2. PublishedIsAtRest'
    BY <1>7 DEF SelectExpired, Expired, Goto, history, PublishedIsAtRest, Active
  <2>3. PreparedDataStays'
    BY <1>7 DEF SelectExpired, Expired, Goto, bucket, velero, history,
       PreparedDataStays, HasArchive, HasBackup
  <2>4. OfferedIsSafe'
    BY <1>7 DEF SelectExpired, Expired, Goto, bucket, velero, history,
       OfferedIsSafe, Ready
  <2>5. DeletionInOrder'
    BY <1>7 DEF SelectExpired, Expired, Goto, bucket, velero, history,
       DeletionInOrder
  <2> QED
    BY <1>0, <2>1, <2>2, <2>3, <2>4, <2>5
<1>8. ASSUME NEW o \in Ops, MarkExpired(o) PROVE IInv'
  <2>1. UnpublishedIsUntouched'
    BY <1>8 DEF MarkExpired, MarkRecoveryPointDeleting, velero, history,
       UnpublishedIsUntouched, ToMark, Deletes
  <2>2. PublishedIsAtRest'
    BY <1>8 DEF MarkExpired, MarkRecoveryPointDeleting, history, PublishedIsAtRest,
       Active
  <2>3. PreparedDataStays'
    BY <1>8 DEF MarkExpired, MarkRecoveryPointDeleting, velero, history,
       PreparedDataStays, HasArchive, HasBackup
  <2>4. OfferedIsSafe'
    BY <1>8 DEF MarkExpired, MarkRecoveryPointDeleting, velero, history,
       OfferedIsSafe, Ready
  <2>5. DeletionInOrder'
    BY <1>8 DEF MarkExpired, MarkRecoveryPointDeleting, velero, history,
       DeletionInOrder
  <2> QED
    BY <1>0, <2>1, <2>2, <2>3, <2>4, <2>5
<1>9. ASSUME NEW o \in Ops, RequestDeletion(o) PROVE IInv'
  <2>1. UnpublishedIsUntouched'
    BY <1>9 DEF RequestDeletion, PostDeleteRequest, Goto, bucket, history,
       UnpublishedIsUntouched, ToMark, Deletes
  <2>2. PublishedIsAtRest'
    BY <1>9 DEF RequestDeletion, PostDeleteRequest, Goto, history,
       PublishedIsAtRest, Active
  <2>3. PreparedDataStays'
    BY <1>9 DEF RequestDeletion, PostDeleteRequest, Goto, bucket, history,
       PreparedDataStays, HasArchive, HasBackup
  <2>4. OfferedIsSafe'
    BY <1>9 DEF RequestDeletion, PostDeleteRequest, Goto, bucket, history,
       OfferedIsSafe, Ready
  <2>5. DeletionInOrder'
    BY <1>9 DEF RequestDeletion, PostDeleteRequest, Goto, bucket, history,
       DeletionInOrder
  <2> QED
    BY <1>0, <2>1, <2>2, <2>3, <2>4, <2>5
<1>10. ASSUME NEW o \in Ops, DeletionProcessed(o) PROVE IInv'
  <2>1. UnpublishedIsUntouched'
    BY <1>10 DEF DeletionProcessed, Goto, bucket, velero, history,
       UnpublishedIsUntouched, ToMark, Deletes
  <2>2. PublishedIsAtRest'
    BY <1>10 DEF DeletionProcessed, Goto, history, PublishedIsAtRest, Active
  <2>3. PreparedDataStays'
    BY <1>10 DEF DeletionProcessed, Goto, bucket, velero, history,
       PreparedDataStays, HasArchive, HasBackup
  <2>4. OfferedIsSafe'
    BY <1>10 DEF DeletionProcessed, Goto, bucket, velero, history, OfferedIsSafe,
       Ready
  <2>5. DeletionInOrder'
    BY <1>10 DEF DeletionProcessed, Goto, bucket, velero, history,
       UnpublishedIsUntouched, ToMark, DeletionInOrder
  <2> QED
    BY <1>0, <2>1, <2>2, <2>3, <2>4, <2>5
<1>11. ASSUME NEW o \in Ops, RemoveArchive(o) PROVE IInv'
  <2>1. UnpublishedIsUntouched'
    BY <1>11 DEF RemoveArchive, DeleteArchive, Goto, velero, history,
       UnpublishedIsUntouched, ToMark, Deletes
  <2>2. PublishedIsAtRest'
    BY <1>11 DEF RemoveArchive, DeleteArchive, Goto, history, PublishedIsAtRest,
       Active
  <2>3. PreparedDataStays'
    BY <1>11 DEF RemoveArchive, DeleteArchive, Goto, velero, history,
       UnpublishedIsUntouched, ToMark, PreparedDataStays, Deletes, HasArchive, HasBackup
  <2>4. OfferedIsSafe'
    BY <1>11 DEF RemoveArchive, DeleteArchive, Goto, velero, history, OfferedIsSafe,
       DeletionInOrder, Ready
  <2>5. DeletionInOrder'
    BY <1>11 DEF RemoveArchive, DeleteArchive, Goto, velero, history,
       DeletionInOrder
  <2> QED
    BY <1>0, <2>1, <2>2, <2>3, <2>4, <2>5
<1>12. ASSUME NEW o \in Ops, RemoveManifest(o) PROVE IInv'
  <2>1. UnpublishedIsUntouched'
    BY <1>12 DEF RemoveManifest, DeleteManifest, Goto, velero, history,
       UnpublishedIsUntouched, ToMark, Deletes
  <2>2. PublishedIsAtRest'
    BY <1>12 DEF RemoveManifest, DeleteManifest, Goto, history, PublishedIsAtRest,
       Active
  <2>3. PreparedDataStays'
    BY <1>12 DEF RemoveManifest, DeleteManifest, Goto, velero, history,
       PreparedDataStays, HasArchive, HasBackup
  <2>4. OfferedIsSafe'
    BY <1>12 DEF RemoveManifest, DeleteManifest, Goto, velero, history,
       OfferedIsSafe, Ready
  <2>5. DeletionInOrder'
    BY <1>12 DEF RemoveManifest, DeleteManifest, Goto, velero, history,
       DeletionInOrder
  <2> QED
    BY <1>0, <2>1, <2>2, <2>3, <2>4, <2>5
<1>13. ASSUME NEW o \in Ops, NEW outcome \in {"succeeded", "idle"}, Publish(o, outcome)
      PROVE  IInv'
  <2>1. UnpublishedIsUntouched'
    <3>1. /\ pc' = [pc EXCEPT ![o] = outcome]
          /\ unread' = [unread EXCEPT ![o] = {}]
          /\ toDelete' = [toDelete EXCEPT ![o] = {}]
          /\ target' = [target EXCEPT ![o] = Point(o)]
          /\ status' = [status EXCEPT ![Point(o)] = "ready"]
          /\ published' = published \union {Point(o)}
          /\ UNCHANGED request
      BY <1>13 DEF Publish, PutManifest, EndAttempt, Goto, velero
    <3>2. \A w \in Ops : ToMark(w)' = IF w = o THEN {} ELSE ToMark(w)
      BY <1>13, EndAttemptLists DEF Publish
    <3>3. \A p \in Points \ published' : status'[p] = "none" /\ request'[p] = "none"
      BY <3>1 DEF UnpublishedIsUntouched
    <3>4. ASSUME NEW w \in Ops
          PROVE  /\ unread'[w] \union ToMark(w)' \subseteq published'
                 /\ toDelete'[w] \subseteq published'
                 /\ Deletes(w)' => target'[w] \in toDelete'[w]
      <4>1. CASE w = o
        BY <3>1, <3>2, <4>1 DEF Deletes
      <4>2. CASE w # o
        BY <3>1, <3>2, <4>2 DEF UnpublishedIsUntouched, Deletes
      <4> QED
        BY <4>1, <4>2
    <3> QED
      BY <3>3, <3>4 DEF UnpublishedIsUntouched
  <2>2. PublishedIsAtRest'
    BY <1>13 DEF Publish, PutManifest, EndAttempt, Goto, PublishedIsAtRest, Active
  <2>3. PreparedDataStays'
    BY <1>13 DEF Publish, PutManifest, EndAttempt, Goto, velero, PreparedDataStays,
       HasArchive, HasBackup
  <2>4. OfferedIsSafe'
    <3>1. /\ toDelete' = [toDelete EXCEPT ![o] = {}]
          /\ status' = [status EXCEPT ![Point(o)] = "ready"]
          /\ UNCHANGED <<archive, backup, request>>
          /\ HasArchive(o)
          /\ repeated \subseteq repeated'
          /\ Point(o) \in published => Point(o) \in repeated'
      BY <1>13, EndAttemptLists DEF Publish, PutManifest, velero, HasArchive, HasBackup
    <3>2. ASSUME NEW p \in Ready', p \notin repeated', p = Point(o)
          PROVE  /\ backup[p] = "completed" /\ p \in archive /\ request[p] = "none"
                 /\ \A w \in Ops : p \notin toDelete[w]
      BY <3>1, <3>2, PointType DEF UnpublishedIsUntouched, PreparedDataStays, HasArchive
    <3>3. ASSUME NEW p \in Ready', p \notin repeated', p # Point(o)
          PROVE  /\ backup[p] = "completed" /\ p \in archive /\ request[p] = "none"
                 /\ \A w \in Ops : p \notin toDelete[w]
      BY <3>1, <3>3 DEF OfferedIsSafe, Ready
    <3> QED
      BY <3>1, <3>2, <3>3 DEF OfferedIsSafe
  <2>5. DeletionInOrder'
    BY <1>13, PointType DEF Publish, PutManifest, EndAttempt, Goto, velero,
       UnpublishedIsUntouched, DeletionInOrder
  <2> QED
    BY <1>0, <2>1, <2>2, <2>3, <2>4, <2>5
<1>14. ASSUME NEW o \in Ops, VeleroRejects(o) \/ Interrupt(o) PROVE IInv'
  <2>0. EndAttempt(o, "idle") /\ UNCHANGED <<bucket, velero, history>>
    BY <1>14 DEF VeleroRejects, Interrupt
  <2>a. /\ pc' = [pc EXCEPT ![o] = "idle"]
        /\ unread' = [unread EXCEPT ![o] = {}]
        /\ toDelete' = [toDelete EXCEPT ![o] = {}]
        /\ target' = [target EXCEPT ![o] = Point(o)]
        /\ UNCHANGED <<status, archive, backup, request, published, repeated>>
    BY <2>0 DEF EndAttempt, Goto, bucket, velero, history
  <2>b. \A w \in Ops : ToMark(w)' = IF w = o THEN {} ELSE ToMark(w)
    BY <2>0, EndAttemptLists
  <2>1. UnpublishedIsUntouched'
    <3>1. \A p \in Points \ published' : status'[p] = "none" /\ request'[p] = "none"
      BY <2>a DEF UnpublishedIsUntouched
    <3>2. ASSUME NEW w \in Ops
          PROVE  /\ unread'[w] \union ToMark(w)' \subseteq published'
                 /\ toDelete'[w] \subseteq published'
                 /\ Deletes(w)' => target'[w] \in toDelete'[w]
      <4>1. CASE w = o
        BY <2>a, <2>b, <4>1 DEF Deletes
      <4>2. CASE w # o
        BY <2>a, <2>b, <4>2 DEF UnpublishedIsUntouched, Deletes
      <4> QED
        BY <4>1, <4>2
    <3> QED
      BY <3>1, <3>2 DEF UnpublishedIsUntouched
  <2>2. PublishedIsAtRest'
    BY <2>a DEF PublishedIsAtRest, Active, Point
  <2>3. PreparedDataStays'
    BY <2>a DEF PreparedDataStays, HasArchive, HasBackup, Point
  <2>4. OfferedIsSafe'
    BY <2>a DEF OfferedIsSafe, Ready
  <2>5. DeletionInOrder'
    <3>1. \A w \in Ops : w # o => pc'[w] = pc[w] /\ target'[w] = target[w]
      BY <2>a
    <3>2. pc'[o] = "idle"
      BY <2>a
    <3> QED
      BY <2>a, <3>1, <3>2 DEF DeletionInOrder
  <2> QED
    BY <1>0, <2>1, <2>2, <2>3, <2>4, <2>5
<1>15. ASSUME Crash PROVE IInv'
  <2>1. UnpublishedIsUntouched'
    BY <1>15 DEF Crash, bucket, velero, history, UnpublishedIsUntouched, ToMark, Deletes
  <2>2. PublishedIsAtRest'
    BY <1>15 DEF Crash, PublishedIsAtRest, Active
  <2>3. PreparedDataStays'
    BY <1>15 DEF Crash, PreparedDataStays, HasArchive, HasBackup
  <2>4. OfferedIsSafe'
    BY <1>15 DEF Crash, bucket, velero, history, OfferedIsSafe, Ready
  <2>5. DeletionInOrder'
    BY <1>15 DEF Crash, bucket, velero, history, DeletionInOrder
  <2> QED
    BY <1>0, <2>1, <2>2, <2>3, <2>4, <2>5
<1>16. ASSUME VeleroStep PROVE IInv'
  <2>1. UnpublishedIsUntouched'
    BY <1>16 DEF VeleroStep, BackupFinishes, BackupFails, RequestSucceeds,
       RequestFails, bucket, attempt, history, UnpublishedIsUntouched, ToMark, Deletes
  <2>2. PublishedIsAtRest'
    BY <1>16 DEF VeleroStep, BackupFinishes, BackupFails, RequestSucceeds,
       RequestFails, attempt, history, PublishedIsAtRest, Active
  <2>3. PreparedDataStays'
    BY <1>16, PointType DEF VeleroStep, BackupFinishes, BackupFails,
       RequestSucceeds, RequestFails, bucket, attempt, history,
       UnpublishedIsUntouched, ToMark, PreparedDataStays, HasArchive, HasBackup
  <2>4. OfferedIsSafe'
    BY <1>16 DEF VeleroStep, BackupFinishes, BackupFails, RequestSucceeds,
       RequestFails, bucket, attempt, history, OfferedIsSafe, Ready
  <2>5. DeletionInOrder'
    BY <1>16 DEF VeleroStep, BackupFinishes, BackupFails, RequestSucceeds,
       RequestFails, bucket, attempt, history, DeletionInOrder
  <2> QED
    BY <1>0, <2>1, <2>2, <2>3, <2>4, <2>5
<1>17. ASSUME UNCHANGED vars PROVE IInv'
  <2>1. UnpublishedIsUntouched'
    BY <1>17 DEF vars, bucket, velero, attempt, history, UnpublishedIsUntouched, ToMark,
       Deletes
  <2>2. PublishedIsAtRest'
    BY <1>17 DEF vars, attempt, history, PublishedIsAtRest, Active
  <2>3. PreparedDataStays'
    BY <1>17 DEF vars, bucket, velero, attempt, history, PreparedDataStays,
       HasArchive, HasBackup
  <2>4. OfferedIsSafe'
    BY <1>17 DEF vars, bucket, velero, attempt, history, OfferedIsSafe, Ready
  <2>5. DeletionInOrder'
    BY <1>17 DEF vars, bucket, velero, attempt, history, DeletionInOrder
  <2> QED
    BY <1>0, <2>1, <2>2, <2>3, <2>4, <2>5
<1> QED
    BY <1>1, <1>2, <1>3, <1>4, <1>5, <1>6, <1>7, <1>8, <1>9, <1>10, <1>11, <1>12, <1>13, <1>14, <1>15, <1>16, <1>17 DEF Next, Proceed

LEMMA InitIInv == Init => IInv
<1> SUFFICES ASSUME Init PROVE IInv
    OBVIOUS
<1>1. TypeOK
    BY InitTypeOK
<1>2. UnpublishedIsUntouched /\ PublishedIsAtRest /\ PreparedDataStays
    BY DEF Init, ObjectStoreInit, VeleroInit, UnpublishedIsUntouched, ToMark, PublishedIsAtRest,
           PreparedDataStays, Active, HasBackup, HasArchive, Deletes
<1>3. OfferedIsSafe /\ DeletionInOrder
    BY DEF Init, ObjectStoreInit, VeleroInit, OfferedIsSafe, DeletionInOrder, Ready
<1> QED
    BY <1>1, <1>2, <1>3 DEF IInv

\* What an attempt has secured, no other attempt, failure or crash takes away.
THEOREM InductiveInvariant == Spec => []IInv
<1>1. IInv /\ [Next]_vars => IInv'
    BY StepIInv
<1> QED
    BY <1>1, InitIInv, PTL DEF Spec

-----------------------------------------------------------------------------
(* What the invariant is for.                                                 *)

\* An offered point has its Velero backup and its archive (publish last, hide
\* first), unless its operation was run again after publishing it.
THEOREM OfferedPointsAreComplete == Spec => []ReadyIsComplete
<1>1. IInv => ReadyIsComplete
    BY DEF IInv, OfferedIsSafe, ReadyIsComplete
<1> QED
    BY <1>1, InductiveInvariant, PTL

\* A point whose manifest retention has removed left neither backup nor archive
\* behind (the manifest goes last).
THEOREM RemovedPointsLeaveNothing == Spec => []RemovalIsComplete
<1>1. IInv => RemovalIsComplete
    BY DEF IInv, DeletionInOrder, RemovalIsComplete
<1> QED
    BY <1>1, InductiveInvariant, PTL

-----------------------------------------------------------------------------
(* The refinement of PointLifecycle: every step of the workflow takes at most   *)
(* one point, and that one along a step the lifecycle has.                      *)

LEMMA StepSettled == IInv /\ PublishedIsSettled /\ [Next]_vars => PublishedIsSettled'
<1> SUFFICES ASSUME IInv, PublishedIsSettled, [Next]_vars PROVE PublishedIsSettled'
    OBVIOUS
<1> USE DEF PublishedIsSettled
<1> TypeOK
    BY DEF IInv
<1>1. ASSUME NEW o \in Ops, CreateBackup(o) PROVE PublishedIsSettled'
  <2>1. Point(o) \notin published \ repeated
    BY <1>1 DEF CreateBackup, IInv, PublishedIsAtRest, Active
  <2>2. UNCHANGED <<published, repeated>>
        /\ backup' = [backup EXCEPT ![Point(o)] = IF @ = "none" THEN "running" ELSE @]
    BY <1>1 DEF CreateBackup, PostBackup, history
  <2> QED
    BY <2>1, <2>2, PointType DEF TypeOK, VeleroTypeOK
<1>2. ASSUME NEW o \in Ops, NEW outcome, Publish(o, outcome) PROVE PublishedIsSettled'
  <2>1. /\ published' = published \union {Point(o)}
        /\ repeated \subseteq repeated'
        /\ Point(o) \in published => Point(o) \in repeated'
        /\ backup' = backup
        /\ HasBackup(o)
    BY <1>2 DEF Publish, velero, HasBackup
  <2>2. Point(o) \notin published => backup[Point(o)] = "completed"
    BY <2>1 DEF IInv, PreparedDataStays
  <2> QED
    BY <2>1, <2>2
<1>3. CASE VeleroStep
  <2>1. UNCHANGED <<published, repeated>>
    BY <1>3 DEF VeleroStep, history
  <2>2. PICK p \in Points : BackupFinishes(p) \/ BackupFails(p) \/ RequestSucceeds(p)
                                \/ RequestFails(p)
    BY <1>3 DEF VeleroStep
  <2>3. ASSUME NEW q \in Points, backup[q] \in {"completed", "none"}
        PROVE  backup'[q] \in {"completed", "none"}
    BY <2>2, <2>3 DEF BackupFinishes, BackupFails, RequestSucceeds, RequestFails, TypeOK,
                      VeleroTypeOK
  <2> QED
    BY <2>1, <2>3 DEF TypeOK
<1>4. ASSUME backup' = backup, published' = published, repeated \subseteq repeated'
      PROVE  PublishedIsSettled'
    BY <1>4
<1>5. ASSUME NEW o \in Ops, Start(o) PROVE PublishedIsSettled'
    BY <1>4, <1>5 DEF Start, velero
<1>6. ASSUME NEW o \in Ops, Proceed(o), ~CreateBackup(o), ~Publish(o, "succeeded")
      PROVE PublishedIsSettled'
    BY <1>4, <1>6 DEF Proceed, BackupCompleted, UploadState, ListKeys, ReadManifest, SelectExpired,
       MarkExpired, RequestDeletion, PostDeleteRequest, DeletionProcessed, RemoveArchive,
       RemoveManifest, VeleroRejects, velero, history
<1>7. ASSUME NEW o \in Ops, Interrupt(o) PROVE PublishedIsSettled'
    BY <1>4, <1>7 DEF Interrupt, velero, history
<1>8. CASE Crash
    BY <1>4, <1>8 DEF Crash, velero, history
<1>9. CASE UNCHANGED vars
    BY <1>4, <1>9 DEF vars, velero, history
<1> QED
    BY <1>1, <1>2, <1>3, <1>5, <1>6, <1>7, <1>8, <1>9 DEF Next

LEMMA Settled == Spec => []PublishedIsSettled
<1>1. Init => PublishedIsSettled
    BY DEF Init, PublishedIsSettled
<1> QED
    BY <1>1, StepSettled, InductiveInvariant, PTL DEF Spec

-----------------------------------------------------------------------------
(* The refinement.                                                            *)

LEMMA PhaseDataTypes ==
    \A p \in Points : PhaseOf(p) \in Lifecycle!Phase /\ DataOf(p) \in Lifecycle!Data
BY DEF PhaseOf, DataOf, Lifecycle!Phase, Lifecycle!Data

Same(p) == PhaseOf(p)' = PhaseOf(p) /\ DataOf(p)' = DataOf(p)

\* What the lifecycle lets happen to one point.
Allowed(p) ==
    \/ Same(p)
    \/ PhaseOf(p) = "unpublished" /\ PhaseOf(p)' = "unpublished"
    \/ PhaseOf(p) = "unpublished" /\ PhaseOf(p)' = "offered"
          /\ DataOf(p) = "whole" /\ DataOf(p)' = "whole"
    \/ PhaseOf(p) \in {"offered", "removed"} /\ PhaseOf(p)' = "hidden" /\ DataOf(p)' = DataOf(p)
    \/ PhaseOf(p) = "hidden" /\ PhaseOf(p)' = "hidden"
          /\ DataOf(p) # "none" /\ DataOf(p)' # "whole"
    \/ PhaseOf(p) = "hidden" /\ PhaseOf(p)' = "removed"
          /\ DataOf(p) = "none" /\ DataOf(p)' = "none"
    \/ PhaseOf(p)' = "repeated"

\* A step that takes one point along is a step of the lifecycle.
LEMMA OnePointMoves ==
    ASSUME NEW p \in Points, \A q \in Points \ {p} : Same(q), Allowed(p)
    PROVE  [Lifecycle!Next]_(Lifecycle!vars)
<1> DEFINE phase == [q \in Points |-> PhaseOf(q)]
           data == [q \in Points |-> DataOf(q)]
<1>1. /\ phase' = [phase EXCEPT ![p] = PhaseOf(p)']
      /\ data' = [data EXCEPT ![p] = DataOf(p)']
    BY DEF Same
<1>2. DataOf(p)' \in Lifecycle!Data
    BY DEF DataOf, Lifecycle!Data
<1>3. PhaseOf(p)' = PhaseOf(p) => phase' = phase
    BY <1>1
<1>4. DataOf(p)' = DataOf(p) => data' = data
    BY <1>1
<1>5. CASE Same(p)
    BY <1>3, <1>4, <1>5 DEF Same, Lifecycle!vars
<1>6. CASE PhaseOf(p) = "unpublished" /\ PhaseOf(p)' = "unpublished"
  <2>1. Lifecycle!Collect(p)
    BY <1>1, <1>2, <1>3, <1>6 DEF Lifecycle!Collect
  <2> QED
    BY <2>1 DEF Lifecycle!Next
<1>7. CASE PhaseOf(p) = "unpublished" /\ PhaseOf(p)' = "offered"
             /\ DataOf(p) = "whole" /\ DataOf(p)' = "whole"
  <2>1. Lifecycle!Offer(p)
    BY <1>1, <1>4, <1>7 DEF Lifecycle!Offer, Lifecycle!Move
  <2> QED
    BY <2>1 DEF Lifecycle!Next
<1>8. CASE PhaseOf(p) \in {"offered", "removed"} /\ PhaseOf(p)' = "hidden"
             /\ DataOf(p)' = DataOf(p)
  <2>1. Lifecycle!Hide(p) \/ Lifecycle!Resurface(p)
    BY <1>1, <1>4, <1>8 DEF Lifecycle!Hide, Lifecycle!Resurface, Lifecycle!Move
  <2> QED
    BY <2>1 DEF Lifecycle!Next
<1>9. CASE PhaseOf(p) = "hidden" /\ PhaseOf(p)' = "hidden"
             /\ DataOf(p) # "none" /\ DataOf(p)' # "whole"
  <2>1. Lifecycle!Discard(p)
    BY <1>1, <1>2, <1>3, <1>9 DEF Lifecycle!Discard, Lifecycle!Data
  <2> QED
    BY <2>1 DEF Lifecycle!Next
<1>10. CASE PhaseOf(p) = "hidden" /\ PhaseOf(p)' = "removed"
              /\ DataOf(p) = "none" /\ DataOf(p)' = "none"
  <2>1. Lifecycle!Forget(p)
    BY <1>1, <1>4, <1>10 DEF Lifecycle!Forget, Lifecycle!Move
  <2> QED
    BY <2>1 DEF Lifecycle!Next
<1>11. CASE PhaseOf(p)' = "repeated"
  <2>1. Lifecycle!Repeat(p)
    BY <1>1, <1>2, <1>11 DEF Lifecycle!Repeat
  <2> QED
    BY <2>1 DEF Lifecycle!Next
<1> QED
    BY <1>5, <1>6, <1>7, <1>8, <1>9, <1>10, <1>11 DEF Allowed

Untouched(p) ==
    /\ status'[p] = status[p] /\ backup'[p] = backup[p] /\ (p \in archive' <=> p \in archive)
    /\ (p \in published' <=> p \in published) /\ (p \in repeated' <=> p \in repeated)

LEMMA UntouchedIsSame == ASSUME NEW p \in Points, Untouched(p) PROVE Same(p)
BY DEF Untouched, Same, PhaseOf, DataOf

LEMMA OneTouched ==
    ASSUME NEW p \in Points, \A q \in Points \ {p} : Untouched(q), Allowed(p)
    PROVE  [Lifecycle!Next]_(Lifecycle!vars)
BY OnePointMoves, UntouchedIsSame

LEMMA NoneTouched ==
    ASSUME UNCHANGED <<status, backup, archive, published, repeated>>
    PROVE  [Lifecycle!Next]_(Lifecycle!vars)
<1>1. \A p \in Points : Same(p)
    BY UntouchedIsSame DEF Untouched
<1> QED
    BY <1>1 DEF Same, Lifecycle!vars

LEMMA Phases ==
    ASSUME NEW p \in Points
    PROVE  /\ p \in repeated => PhaseOf(p) = "repeated"
           /\ p \notin repeated /\ p \notin published => PhaseOf(p) = "unpublished"
           /\ p \in published \ repeated =>
                /\ status[p] = "ready" => PhaseOf(p) = "offered"
                /\ status[p] = "deleting" => PhaseOf(p) = "hidden"
                /\ status[p] = "none" => PhaseOf(p) = "removed"
BY DEF PhaseOf

LEMMA PhasesAfter ==
    ASSUME NEW p \in Points
    PROVE  /\ p \in repeated' => PhaseOf(p)' = "repeated"
           /\ p \notin repeated' /\ p \notin published' => PhaseOf(p)' = "unpublished"
           /\ p \in published' \ repeated' =>
                /\ status'[p] = "ready" => PhaseOf(p)' = "offered"
                /\ status'[p] = "deleting" => PhaseOf(p)' = "hidden"
                /\ status'[p] = "none" => PhaseOf(p)' = "removed"
BY DEF PhaseOf

\* A point whose data an attempt collects is unpublished or repeated.
LEMMA CollectingIsAllowed ==
    ASSUME NEW p \in Points, p \in published => p \in repeated,
           UNCHANGED <<published, repeated>>
    PROVE  Allowed(p)
<1>1. CASE p \in repeated
    BY <1>1, PhasesAfter DEF Allowed
<1>2. CASE p \notin repeated
    BY <1>2, Phases, PhasesAfter DEF Allowed
<1> QED
    BY <1>1, <1>2

LEMMA StepImplements ==
    ASSUME IInv, PublishedIsSettled, [Next]_vars
    PROVE  [Lifecycle!Next]_(Lifecycle!vars)
<1> TypeOK
    BY DEF IInv
<1> USE DEF TypeOK, ObjectStoreTypeOK, VeleroTypeOK
<1> DEFINE Goal == [Lifecycle!Next]_(Lifecycle!vars)
<1>1. ASSUME NEW o \in Ops, Start(o) PROVE Goal
  <2>1. PICK p \in Points : p = Point(o)
    BY PointType
  <2>2. /\ UNCHANGED <<status, backup, archive, published>>
        /\ repeated' = repeated \union ({p} \intersect published)
    BY <1>1, <2>1 DEF Start, bucket, velero
  <2>3. CASE p \in published
    <3>1. \A q \in Points \ {p} : Untouched(q)
      BY <2>2 DEF Untouched
    <3>2. Allowed(p)
      BY <2>2, <2>3, PhasesAfter DEF Allowed
    <3> QED
      BY <3>1, <3>2, OneTouched
  <2>4. CASE p \notin published
    BY <2>2, <2>4, NoneTouched
  <2> QED
    BY <2>3, <2>4
<1>2. ASSUME NEW o \in Ops, CreateBackup(o) \/ UploadState(o) PROVE Goal
  <2>1. PICK p \in Points : p = Point(o)
    BY PointType
  <2>2. p \in published => p \in repeated
    BY <1>2, <2>1 DEF CreateBackup, UploadState, IInv, PublishedIsAtRest, Active
  <2>3. UNCHANGED <<published, repeated>>
    BY <1>2 DEF CreateBackup, UploadState, history
  <2>4. \A q \in Points \ {p} : Untouched(q)
    BY <1>2, <2>1 DEF CreateBackup, PostBackup, UploadState, PutEncryptedFile, Untouched, bucket,
       velero, history
  <2>5. Allowed(p)
    BY <2>2, <2>3, CollectingIsAllowed
  <2> QED
    BY <2>4, <2>5, OneTouched
<1>3. ASSUME NEW o \in Ops, MarkExpired(o) PROVE Goal
  <2>1. PICK p \in ToMark(o) : MarkRecoveryPointDeleting(p)
    BY <1>3 DEF MarkExpired
  <2>2. UNCHANGED <<backup, published, repeated, archive>>
    BY <1>3, <2>1 DEF MarkExpired, MarkRecoveryPointDeleting, velero, history
  <2>3. p \in Points /\ p \in published
    BY <2>1 DEF ToMark, IInv, UnpublishedIsUntouched
  <2>4. status' = [status EXCEPT ![p] = "deleting"]
    BY <2>1 DEF MarkRecoveryPointDeleting
  <2>5. \A q \in Points \ {p} : Untouched(q)
    BY <2>2, <2>4 DEF Untouched
  <2>6. DataOf(p)' = DataOf(p)
    BY <2>2 DEF DataOf
  <2>7. Allowed(p)
    BY <2>2, <2>3, <2>4, <2>6, Phases, PhasesAfter DEF Allowed, Same, Status
  <2> QED
    BY <2>3, <2>5, <2>7, OneTouched
<1>4. ASSUME NEW o \in Ops, RemoveArchive(o) PROVE Goal
  <2>0. PICK p \in Points : p = target[o]
    OBVIOUS
  <2>1. /\ p \in published
        /\ p \in toDelete[o]
        /\ p \notin repeated => backup[p] = "none"
    BY <1>4, <2>0 DEF RemoveArchive, IInv, UnpublishedIsUntouched, Deletes, DeletionInOrder
  <2>2. /\ UNCHANGED <<status, backup, published, repeated>>
        /\ archive' = archive \ {p}
    BY <1>4, <2>0 DEF RemoveArchive, DeleteArchive, velero, history
  <2>3. \A q \in Points \ {p} : Untouched(q)
    BY <2>2 DEF Untouched
  <2>4. p \notin repeated => status[p] # "ready"
    BY <2>1 DEF IInv, OfferedIsSafe, Ready
  <2>5. p \notin repeated /\ status[p] = "none" => p \notin archive
    BY <2>1 DEF IInv, DeletionInOrder
  <2>6. PhaseOf(p)' = PhaseOf(p)
    BY <2>2 DEF PhaseOf
  <2>7. ASSUME p \in repeated PROVE Allowed(p)
    BY <2>2, <2>7, PhasesAfter DEF Allowed
  <2>8. ASSUME p \notin repeated, p \notin archive PROVE Allowed(p)
    <3>1. DataOf(p)' = DataOf(p)
      BY <2>2, <2>8 DEF DataOf
    <3> QED
      BY <2>6, <3>1 DEF Allowed, Same
  <2>9. ASSUME p \notin repeated, p \in archive PROVE Allowed(p)
    <3>1. DataOf(p) # "none" /\ DataOf(p)' = "none"
      BY <2>1, <2>2, <2>9 DEF DataOf
    <3>2. PhaseOf(p) = "hidden"
      BY <2>1, <2>4, <2>5, <2>9, Phases DEF Status
    <3> QED
      BY <2>6, <3>1, <3>2 DEF Allowed
  <2>10. Allowed(p)
    BY <2>7, <2>8, <2>9
  <2> QED
    BY <2>3, <2>10, OneTouched
<1>5. ASSUME NEW o \in Ops, RemoveManifest(o) PROVE Goal
  <2>0. PICK p \in Points : p = target[o]
    OBVIOUS
  <2>1. /\ p \in published
        /\ p \in toDelete[o]
        /\ p \notin repeated => backup[p] = "none" /\ p \notin archive
    BY <1>5, <2>0 DEF RemoveManifest, IInv, UnpublishedIsUntouched, Deletes, DeletionInOrder
  <2>2. /\ UNCHANGED <<archive, backup, published, repeated>>
        /\ status' = [status EXCEPT ![p] = "none"]
    BY <1>5, <2>0 DEF RemoveManifest, DeleteManifest, velero, history
  <2>3. \A q \in Points \ {p} : Untouched(q)
    BY <2>2 DEF Untouched
  <2>4. p \notin repeated => status[p] # "ready"
    BY <2>1 DEF IInv, OfferedIsSafe, Ready
  <2>5. ASSUME p \in repeated PROVE Allowed(p)
    BY <2>2, <2>5, PhasesAfter DEF Allowed
  <2>6. ASSUME p \notin repeated PROVE Allowed(p)
    <3>1. DataOf(p) = "none" /\ DataOf(p)' = "none"
      BY <2>1, <2>2, <2>6 DEF DataOf
    <3>2. PhaseOf(p) \in {"hidden", "removed"} /\ PhaseOf(p)' = "removed"
      BY <2>1, <2>2, <2>4, <2>6, Phases, PhasesAfter DEF Status
    <3> QED
      BY <3>1, <3>2 DEF Allowed, Same
  <2>7. Allowed(p)
    BY <2>5, <2>6
  <2> QED
    BY <2>3, <2>7, OneTouched
<1>6. ASSUME NEW o \in Ops, NEW outcome, Publish(o, outcome) PROVE Goal
  <2>0. PICK p \in Points : p = Point(o)
    BY PointType
  <2>1. /\ published' = published \union {p}
        /\ repeated \subseteq repeated' /\ repeated' \subseteq repeated \union {p}
        /\ p \in published => p \in repeated'
        /\ UNCHANGED <<backup, archive>>
        /\ status' = [status EXCEPT ![p] = "ready"]
        /\ HasArchive(o)
    BY <1>6, <2>0 DEF Publish, PutManifest, velero, HasArchive, HasBackup
  <2>2. p \notin published => DataOf(p) = "whole" /\ DataOf(p)' = "whole"
    BY <2>0, <2>1 DEF IInv, PreparedDataStays, HasArchive, DataOf
  <2>3. \A q \in Points \ {p} : Untouched(q)
    BY <2>1 DEF Untouched
  <2>4. Allowed(p)
    BY <2>1, <2>2, Phases, PhasesAfter DEF Allowed
  <2> QED
    BY <2>3, <2>4, OneTouched
<1>7. CASE VeleroStep
  <2>1. UNCHANGED <<status, archive, published, repeated>>
    BY <1>7 DEF VeleroStep, history, bucket
  <2>2. PICK p \in Points : BackupFinishes(p) \/ BackupFails(p) \/ RequestSucceeds(p)
                                \/ RequestFails(p)
    BY <1>7 DEF VeleroStep
  <2>3. \A q \in Points \ {p} : Untouched(q)
    BY <2>1, <2>2 DEF Untouched, BackupFinishes, BackupFails, RequestSucceeds, RequestFails
  <2>4. ASSUME p \notin published \ repeated PROVE Allowed(p)
    BY <2>1, <2>4, Phases, PhasesAfter DEF Allowed
  <2>5. ASSUME p \in published \ repeated, ~RequestSucceeds(p) PROVE Allowed(p)
    <3>1. backup' = backup
      BY <2>2, <2>5 DEF PublishedIsSettled, BackupFinishes, BackupFails, RequestFails
    <3>2. Untouched(p)
      BY <2>1, <3>1 DEF Untouched
    <3> QED
      BY <3>2, UntouchedIsSame DEF Allowed
  <2>6. ASSUME p \in published \ repeated, RequestSucceeds(p) PROVE Allowed(p)
    <3>1. request[p] = "new" /\ backup' = [backup EXCEPT ![p] = "none"]
      BY <2>6 DEF RequestSucceeds
    <3>2. status[p] # "ready"
      BY <2>6, <3>1 DEF IInv, OfferedIsSafe, Ready
    <3>3. status[p] = "none" => backup[p] = "none" /\ p \notin archive
      BY <2>6 DEF IInv, DeletionInOrder
    <3>4. DataOf(p)' # "whole" /\ (DataOf(p) = "none" => DataOf(p)' = "none")
      BY <2>1, <3>1 DEF DataOf
    <3>5. ASSUME status[p] = "none" PROVE Allowed(p)
      <4>1. Untouched(p)
        BY <2>1, <3>1, <3>3, <3>5 DEF Untouched
      <4> QED
        BY <4>1, UntouchedIsSame DEF Allowed
    <3>6. ASSUME status[p] = "deleting" PROVE Allowed(p)
      <4>1. PhaseOf(p) = "hidden" /\ PhaseOf(p)' = "hidden"
        BY <2>1, <2>6, <3>6, Phases, PhasesAfter
      <4>3. ASSUME DataOf(p) = "none" PROVE Allowed(p)
        BY <3>4, <4>1, <4>3 DEF Allowed, Same
      <4>4. ASSUME DataOf(p) # "none" PROVE Allowed(p)
        BY <3>4, <4>1, <4>4 DEF Allowed
      <4> QED
        BY <4>3, <4>4
    <3> QED
      BY <3>2, <3>5, <3>6 DEF Status
  <2> QED
    BY <2>3, <2>4, <2>5, <2>6, OneTouched
<1>8. ASSUME UNCHANGED <<status, backup, archive, published, repeated>> PROVE Goal
    BY <1>8, NoneTouched
<1>9. ASSUME NEW o \in Ops, Proceed(o), ~CreateBackup(o), ~UploadState(o), ~MarkExpired(o),
             ~RemoveArchive(o), ~RemoveManifest(o), ~Publish(o, "succeeded")
      PROVE  Goal
  <2>1. UNCHANGED <<status, backup, archive, published, repeated>>
    BY <1>9 DEF Proceed, BackupCompleted, ListKeys, ReadManifest, SelectExpired, RequestDeletion,
       PostDeleteRequest, DeletionProcessed, VeleroRejects, bucket, velero, history
  <2> QED
    BY <1>8, <2>1
<1>10. ASSUME NEW o \in Ops, Interrupt(o) PROVE Goal
    BY <1>8, <1>10 DEF Interrupt, bucket, velero, history
<1>11. CASE Crash
    BY <1>8, <1>11 DEF Crash, bucket, velero, history
<1>12. CASE UNCHANGED vars
    BY <1>8, <1>12 DEF vars, bucket, velero, history
<1> QED
    BY <1>1, <1>2, <1>3, <1>4, <1>5, <1>6, <1>7, <1>9, <1>10, <1>11, <1>12 DEF Next

\* No interleaving, failure or crash offers a point early, takes data from an offered
\* one, fills a hidden one or forgets one that still has data: the workflow keeps the
\* promise of PointLifecycle (publish last, hide first, delete the manifest last).
THEOREM LifecycleIsImplemented == Spec => ImplementsLifecycle
<1>1. Init => Lifecycle!Init
  <2>1. ASSUME Init, NEW p \in Points PROVE PhaseOf(p) = "unpublished" /\ DataOf(p) = "none"
    BY <2>1 DEF Init, ObjectStoreInit, VeleroInit, PhaseOf, DataOf
  <2> QED
    BY <2>1 DEF Lifecycle!Init
<1>2. IInv /\ PublishedIsSettled /\ [Next]_vars => [Lifecycle!Next]_(Lifecycle!vars)
    BY StepImplements
<1> QED
    BY <1>1, <1>2, InductiveInvariant, Settled, PTL DEF Spec, ImplementsLifecycle, Lifecycle!Spec

-----------------------------------------------------------------------------
(* The fair workflow of BackupLiveness.                                       *)

\* Counting the faults and asking for fairness adds no behaviour: what is proved of
\* every attempt holds of those that the liveness properties speak about.
THEOREM LivenessIsWorkflow == LivenessSpec => Spec
<1>1. LivenessInit => Init
    BY DEF LivenessInit
<1>2. [LivenessNext]_livenessVars => [Next]_vars
  <2> SUFFICES ASSUME [LivenessNext]_livenessVars PROVE [Next]_vars
    OBVIOUS
  <2>1. ASSUME NEW o \in Ops, Retry(o) \/ Work(o) PROVE Next
    BY <2>1 DEF Retry, Work, Next
  <2>2. ASSUME NEW p \in Points, VeleroBacksUp(p) \/ VeleroDeletes(p) PROVE Next
    BY <2>2 DEF VeleroBacksUp, VeleroDeletes, Next, VeleroStep
  <2>3. CASE Disturb
    BY <2>3 DEF Disturb, Next
  <2>4. CASE UNCHANGED livenessVars
    BY <2>4 DEF livenessVars
  <2> QED
    BY <2>1, <2>2, <2>3, <2>4 DEF LivenessNext
<1> QED
    BY <1>1, <1>2, PTL DEF LivenessSpec, Spec
=============================================================================
