----------------------- MODULE RestoreWorkflowProofs -----------------------
(* Theorems about RestoreWorkflow for any points and restores, any number of   *)
(* interruptions and failures, and any change of the points that              *)
(* PointLifecycle allows.                                                     *)
EXTENDS RestoreWorkflow, TLAPS

-----------------------------------------------------------------------------
(* Type correctness.                                                          *)

\* The points keep their types whatever happens to them.
LEMMA PointsType ==
    ASSUME phase \in [Points -> Lifecycle!Phase], data \in [Points -> Lifecycle!Data],
           Lifecycle!Next
    PROVE  phase' \in [Points -> Lifecycle!Phase] /\ data' \in [Points -> Lifecycle!Data]
<1> USE DEF Lifecycle!Phase, Lifecycle!Data
<1>1. PICK p \in Points :
        \/ Lifecycle!Collect(p) \/ Lifecycle!Offer(p) \/ Lifecycle!Hide(p)
        \/ Lifecycle!Discard(p) \/ Lifecycle!Forget(p) \/ Lifecycle!Resurface(p)
        \/ Lifecycle!Repeat(p)
    BY DEF Lifecycle!Next
<1>2. CASE Lifecycle!Collect(p) \/ Lifecycle!Discard(p) \/ Lifecycle!Repeat(p)
    BY <1>2 DEF Lifecycle!Collect, Lifecycle!Discard, Lifecycle!Repeat
<1>3. CASE \/ Lifecycle!Offer(p) \/ Lifecycle!Hide(p) \/ Lifecycle!Forget(p)
           \/ Lifecycle!Resurface(p)
    BY <1>3 DEF Lifecycle!Offer, Lifecycle!Hide, Lifecycle!Forget, Lifecycle!Resurface,
                Lifecycle!Move
<1> QED
    BY <1>1, <1>2, <1>3

\* A step of one attempt moves its pc and may change its file.
LEMMA AttemptType ==
    ASSUME TypeOK, NEW o \in Restores, NEW step \in Step,
           pc' = [pc EXCEPT ![o] = step],
           UNCHANGED <<points, synced, faults>>,
           file' \in [Bootstrap -> File], restore' \in [Application -> RestorePhase]
    PROVE  TypeOK'
BY DEF TypeOK, points, faults

LEMMA StepTypeOK == TypeOK /\ [Next]_vars => TypeOK'
<1> SUFFICES ASSUME TypeOK, [Next]_vars PROVE TypeOK'
    OBVIOUS
<1> USE DEF Step, File, RestorePhase, Move
<1>0. /\ file \in [Bootstrap -> File] /\ restore \in [Application -> RestorePhase]
      /\ pc \in [Restores -> Step]
    BY DEF TypeOK
<1>1. ASSUME NEW o \in Restores,
             Start(o) \/ ReadManifest(o) \/ NotReady(o) \/ Report(o)
      PROVE  TypeOK'
    BY <1>0, <1>1, AttemptType DEF Start, ReadManifest, NotReady, Report, velero
<1>2. ASSUME NEW o \in Bootstrap, BootstrapStep(o) PROVE TypeOK'
  <2>1. o \in Restores
    BY DEF Restores
  <2> QED
    BY <1>0, <1>2, <2>1, AttemptType
    DEF BootstrapStep, Stage, OpenArchive, OpenFails, CopyFinishes, velero
<1>3. ASSUME NEW o \in Application, ApplicationStep(o) PROVE TypeOK'
  <2>1. o \in Restores
    BY DEF Restores
  <2>2. CASE CreateRestore(o)
    BY <1>0, <2>1, <2>2, AttemptType DEF CreateRestore
  <2>3. CASE BackupSynced(o) \/ SyncTimesOut(o) \/ RestoreCompleted(o) \/ RestoreRejected(o)
    BY <1>0, <2>1, <2>3, AttemptType
    DEF BackupSynced, SyncTimesOut, RestoreCompleted, RestoreRejected, velero
  <2> QED
    BY <1>3, <2>2, <2>3 DEF ApplicationStep
<1>4. ASSUME NEW o \in Restores, Interrupt(o) PROVE TypeOK'
  <2>1. file' \in [Bootstrap -> File]
    BY <1>0, <1>4 DEF Interrupt
  <2>2. pc' \in [Restores -> Step]
    BY <1>0, <1>4 DEF Interrupt
  <2>3. interruptions' \in 0..MaxInterruptions
    BY <1>4, FaultsAssumption DEF Interrupt, Counted, TypeOK
  <2> QED
    BY <1>4, <2>1, <2>2, <2>3 DEF Interrupt, TypeOK, points, velero
<1>5. CASE Crash
    BY <1>5, FaultsAssumption DEF Crash, Counted, TypeOK, points, velero
<1>6. ASSUME NEW o \in Application, VeleroRestores(o) PROVE TypeOK'
    BY <1>6, FaultsAssumption DEF VeleroRestores, Counted, TypeOK, points, faults
<1>7. ASSUME NEW p \in Points, Synchronize(p) PROVE TypeOK'
    BY <1>7 DEF Synchronize, TypeOK, points, faults
<1>8. CASE PointsChange
    BY <1>8, PointsType DEF PointsChange, TypeOK, velero, faults
<1>9. CASE UNCHANGED vars
    BY <1>9 DEF vars, TypeOK, points, velero, faults
<1> QED
    BY <1>1, <1>2, <1>3, <1>4, <1>5, <1>6, <1>7, <1>8, <1>9 DEF Next, Work

LEMMA InitTypeOK == Init => TypeOK
BY FaultsAssumption
DEF Init, TypeOK, Lifecycle!Init, Lifecycle!Phase, Lifecycle!Data, Step, File, RestorePhase

\* Every variable keeps its type in every reachable state.
THEOREM TypeCorrect == Spec => []TypeOK
BY InitTypeOK, StepTypeOK, PTL DEF Spec

-----------------------------------------------------------------------------
(* SucceededIsRestored.                                                       *)

Restored(o) ==
    /\ o \in Bootstrap => file[o] = "whole"
    /\ o \in Application => restore[o] = "completed"

\* An attempt that has its answer, or has reported it.
Done(o) == pc[o] \in {"report", "succeeded"}

\* The inductive invariant: what is to be reported has been restored.
DoneIsRestored == \A o \in Restores : Done(o) => Restored(o)

\* What such an operation has restored no step of any operation takes away.
LEMMA RestoredStays ==
    ASSUME TypeOK, NEW o \in Restores, Done(o), Restored(o), [Next]_vars
    PROVE  Restored(o)'
<1> USE DEF Done, Restored, TypeOK, Move
<1>1. ASSUME NEW b \in Restores, Start(b) \/ ReadManifest(b) \/ NotReady(b) \/ Report(b)
      PROVE  Restored(o)'
    BY <1>1 DEF Start, ReadManifest, NotReady, Report, velero
<1>2. ASSUME NEW b \in Bootstrap, BootstrapStep(b) PROVE Restored(o)'
    BY <1>2 DEF BootstrapStep, Stage, OpenArchive, OpenFails, CopyFinishes, velero
<1>3. ASSUME NEW a \in Application, ApplicationStep(a) PROVE Restored(o)'
    BY <1>3 DEF ApplicationStep, BackupSynced, SyncTimesOut, CreateRestore, RestoreCompleted,
                RestoreRejected, velero
<1>4. ASSUME NEW b \in Restores, Interrupt(b) PROVE Restored(o)'
    BY <1>4 DEF Interrupt, velero
<1>5. CASE Crash
    BY <1>5 DEF Crash, velero
<1>6. ASSUME NEW a \in Application, VeleroRestores(a) PROVE Restored(o)'
    BY <1>6 DEF VeleroRestores
<1>7. ASSUME NEW p \in Points, Synchronize(p) PROVE Restored(o)'
    BY <1>7 DEF Synchronize
<1>8. CASE PointsChange \/ UNCHANGED vars
    BY <1>8 DEF PointsChange, vars, velero
<1> QED
    BY <1>1, <1>2, <1>3, <1>4, <1>5, <1>6, <1>7, <1>8 DEF Next, Work

\* An attempt that gets its answer has just restored something.
LEMMA AnswerIsRestored ==
    ASSUME TypeOK, NEW o \in Restores, ~Done(o), Done(o)', [Next]_vars
    PROVE  Restored(o)'
<1> USE DEF Done, TypeOK, Move
<1>1. ASSUME NEW b \in Restores, Start(b) \/ ReadManifest(b) \/ NotReady(b) \/ Report(b)
      PROVE  FALSE
    BY <1>1 DEF Start, ReadManifest, NotReady, Report
<1>2. ASSUME NEW b \in Bootstrap, BootstrapStep(b) PROVE Restored(o)'
  <2>1. b = o /\ CopyFinishes(b) /\ b \in Restores
    BY <1>2 DEF BootstrapStep, Stage, OpenArchive, OpenFails, CopyFinishes, Restores
  <2> QED
    BY <2>1, RestoresAssumption DEF CopyFinishes, Restored
<1>3. ASSUME NEW a \in Application, ApplicationStep(a) PROVE Restored(o)'
  <2>1. a = o /\ RestoreCompleted(a) /\ a \in Restores
    BY <1>3 DEF ApplicationStep, BackupSynced, SyncTimesOut, CreateRestore, RestoreCompleted,
                RestoreRejected, Restores
  <2> QED
    BY <2>1, RestoresAssumption DEF RestoreCompleted, Restored, velero
<1>4. ASSUME NEW b \in Restores, Interrupt(b) PROVE FALSE
    BY <1>4 DEF Interrupt
<1>5. CASE Crash
    BY <1>5 DEF Crash
<1>6. ASSUME pc' = pc PROVE FALSE
    BY <1>6
<1>7. CASE \/ \E a \in Application : VeleroRestores(a)
           \/ \E p \in Points : Synchronize(p)
           \/ PointsChange \/ UNCHANGED vars
    BY <1>6, <1>7 DEF VeleroRestores, Synchronize, PointsChange, vars
<1> QED
    BY <1>1, <1>2, <1>3, <1>4, <1>5, <1>7 DEF Next, Work

\* Success is never reported of less than a whole archive on disk or a completed
\* Velero restore, whatever happens to the point and to earlier attempts.
THEOREM SuccessMeansRestored == Spec => []SucceededIsRestored
<1>1. Init => DoneIsRestored
    BY DEF Init, DoneIsRestored, Done
<1>2. TypeOK /\ DoneIsRestored /\ [Next]_vars => DoneIsRestored'
    BY RestoredStays, AnswerIsRestored DEF DoneIsRestored
<1>3. DoneIsRestored => SucceededIsRestored
    BY DEF DoneIsRestored, Done, Restored, SucceededIsRestored
<1> QED
    BY <1>1, <1>2, <1>3, TypeCorrect, PTL DEF Spec
=============================================================================
