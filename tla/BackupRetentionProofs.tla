----------------------- MODULE BackupRetentionProofs -----------------------
(* The number of points that BackupWorkflow offers, for every set of          *)
(* operations and points, any normalization of IDs, any retention counts with *)
(* a largest one, and any number of attempts at a time.                       *)
EXTENDS BackupWorkflowProofs, FiniteSetTheorems, WellFoundedInduction

-----------------------------------------------------------------------------
(* Retention keeps what it should.                                            *)

\* A non-empty set of points with creation times has an oldest one.
LEMMA OldestExists ==
    ASSUME NEW S, S # {}, NEW createdOn, \A p \in S : createdOn[p] \in Nat
    PROVE  \E p \in S : \A q \in S : createdOn[p] <= createdOn[q]
<1> DEFINE R == OpToRel(<, Nat)
           T == {createdOn[p] : p \in S}
<1>1. T \subseteq Nat /\ T # {}
    OBVIOUS
<1>2. PICK t \in T : \A u \in T : ~ (<<u, t>> \in R)
    <2> HIDE DEF R, T
    <2>1. IsWellFoundedOn(R, Nat)
        BY NatLessThanWellFounded DEF R
    <2> QED
        BY <1>1, <2>1, WFMin
<1>3. \A u \in T : t <= u
    <2>1. \A u \in T : ~ (u < t)
        BY <1>1, <1>2 DEF OpToRel
    <2> QED
        <3> HIDE DEF R, T
        <3> QED
            BY <1>1, <2>1
<1> QED
    BY <1>3

\* At most retentionCount - 1 points survive: with the one about to be published
\* there are at most retentionCount.
LEMMA SurvivorsFit ==
    ASSUME NEW S, IsFiniteSet(S), NEW createdOn, \A p \in S : createdOn[p] \in Nat,
           \A p, q \in S : createdOn[p] = createdOn[q] => p = q,
           NEW retentionCount \in Nat \ {0}
    PROVE  Cardinality(S \ Expired(S, createdOn, retentionCount)) <= retentionCount - 1
<1> DEFINE kept == S \ Expired(S, createdOn, retentionCount)
<1>1. IsFiniteSet(kept) /\ Cardinality(kept) \in Nat
    BY FS_Subset, FS_CardinalityType
<1>2. CASE kept = {}
    BY <1>2, FS_EmptySet
<1>3. CASE kept # {}
  <2>1. PICK p \in kept : \A q \in kept : createdOn[p] <= createdOn[q]
    <3> HIDE DEF kept
    <3>1. \A q \in kept : createdOn[q] \in Nat
        BY DEF kept
    <3> QED
        BY <1>3, <3>1, OldestExists
  <2> DEFINE newer == {q \in S : createdOn[q] > createdOn[p]}
  <2>2. IsFiniteSet(newer) /\ Cardinality(newer) \in Nat
      BY FS_Subset, FS_CardinalityType
  <2>3. Cardinality(newer) < retentionCount - 1
      BY <2>1, <2>2 DEF Expired
  <2>4. \A q \in kept \ {p} : createdOn[q] > createdOn[p]
      BY <2>1
  <2>5. kept \ {p} \subseteq newer
      BY <2>4
  <2> HIDE DEF kept, newer
  <2>6. Cardinality(kept \ {p}) <= Cardinality(newer)
      BY <2>2, <2>5, FS_Subset
  <2>7. Cardinality(kept \ {p}) = Cardinality(kept) - 1
      BY <1>1, <2>1, FS_RemoveElement
  <2> QED
      BY <1>1, <2>2, <2>3, <2>6, <2>7 DEF kept
<1> QED
    BY <1>2, <1>3

LEMMA MaxRetentionType ==
    /\ MaxRetention \in RetentionCounts /\ MaxRetention \in Nat \ {0}
    /\ \A n \in RetentionCounts : n <= MaxRetention
BY LargestCountAssumption, RetentionAssumption DEF MaxRetention

-----------------------------------------------------------------------------
(* Creation times.                                                            *)

LEMMA TimesOfPoint ==
    ASSUME NEW p, NEW t
    PROVE  t \in TimesOf(p) <=> \/ t = createdAt[p]
                                \/ \E o \in Ops : Point(o) = p /\ t = time[o]
                                \/ \E o \in Ops : t = listed[o][p]
BY DEF TimesOf

LEMMA TimesOfType ==
    ASSUME TypeOK, NEW p \in Points PROVE TimesOf(p) \subseteq Nat
BY DEF TypeOK, ObjectStoreTypeOK, TimesOf

\* A step that only copies or forgets creation times keeps them apart.
LEMMA NoNewTimes ==
    ASSUME TypeOK, TimesDiffer,
           \A p \in Points : createdAt'[p] \in TimesOf(p) \union {0},
           \A o \in Ops : time'[o] \in {time[o], 0},
           \A o \in Ops, p \in Points : listed'[o][p] \in TimesOf(p) \union {0}
    PROVE  \A p, q \in Points : p # q => TimesOf(p)' \intersect TimesOf(q)' \subseteq {0}
<1>1. ASSUME NEW p \in Points PROVE TimesOf(p)' \subseteq TimesOf(p) \union {0}
    BY DEF TimesOf, Point
<1> QED
    BY <1>1 DEF TimesDiffer

\* What reading one manifest leaves in the attempt's lists.
LEMMA ReadOne ==
    ASSUME TypeOK, NEW o \in Ops, ReadManifest(o)
    PROVE  \E p \in unread[o] :
             /\ p \in Points
             /\ unread' = [unread EXCEPT ![o] = @ \ {p}]
             /\ \/ listed' = [listed EXCEPT ![o][p] = IF p \in Ready THEN createdAt[p] ELSE 0]
                \/ missed' = TRUE /\ listed' = listed
<1>1. PICK p \in unread[o] :
        /\ unread' = [unread EXCEPT ![o] = @ \ {p}]
        /\ \/ listed' = [listed EXCEPT ![o][p] = IF p \in Ready THEN createdAt[p] ELSE 0]
           \/ missed' = TRUE /\ listed' = listed
    BY Zenon DEF ReadManifest
<1>2. p \in Points
    BY DEF TypeOK
<1> QED
    BY <1>1, <1>2

\* Selecting leaves the expired manifests to be marked.
LEMMA SelectLists ==
    ASSUME TypeOK, NEW o \in Ops, SelectExpired(o)
    PROVE  \E retentionCount \in RetentionCounts : \A w \in Ops :
             ToMark(w)' = IF w = o THEN Expired(ToMark(o), listed[o], retentionCount) ELSE ToMark(w)
<1>1. PICK retentionCount \in RetentionCounts :
        listed' = [listed EXCEPT ![o] =
                     [p \in Points |-> IF p \in Expired(ToMark(o), listed[o], retentionCount)
                                       THEN @[p] ELSE 0]]
    BY DEF SelectExpired
<1>2. Expired(ToMark(o), listed[o], retentionCount) \subseteq ToMark(o)
    BY DEF Expired
<1>3. ToMark(o)' = Expired(ToMark(o), listed[o], retentionCount)
    BY <1>1, <1>2 DEF ToMark, TypeOK
<1>4. \A w \in Ops \ {o} : ToMark(w)' = ToMark(w)
    BY <1>1 DEF ToMark, TypeOK
<1> QED
    BY <1>3, <1>4

LEMMA StepTimesDiffer == TypeOK /\ TimesDiffer /\ [Next]_vars => TimesDiffer'
<1> SUFFICES ASSUME TypeOK, TimesDiffer, [Next]_vars PROVE TimesDiffer'
    OBVIOUS
<1> DEFINE Apart == \A p, q \in Points : p # q => TimesOf(p) \intersect TimesOf(q) \subseteq {0}
           Stamped == \A p \in Ready : createdAt[p] # 0
           Taken == \A o \in Ops : HasArchive(o) => time[o] # 0
<1>0. /\ TimesDiffer' <=> Apart' /\ Stamped' /\ Taken'
      /\ Stamped /\ Taken
      /\ \A p \in Points : createdAt[p] \in TimesOf(p)
      /\ \A o \in Ops, p \in Points : listed[o][p] \in TimesOf(p)
      /\ \A o \in Ops : time[o] \in TimesOf(Point(o))
    BY TimesOfPoint DEF TimesDiffer
<1> USE <1>0
<1> HIDE DEF Apart
<1>1. ASSUME \A p \in Points : createdAt'[p] \in TimesOf(p) \union {0},
             \A o \in Ops : time'[o] \in {time[o], 0},
             \A o \in Ops, p \in Points : listed'[o][p] \in TimesOf(p) \union {0}
      PROVE  Apart'
    BY <1>1, NoNewTimes DEF Apart
\* Most steps touch no creation time.
<1>2. ASSUME UNCHANGED <<createdAt, time, listed>>,
             Ready' \subseteq Ready,
             \A o \in Ops : HasArchive(o)' => HasArchive(o)
      PROVE  TimesDiffer'
    BY <1>1, <1>2
<1>3. ASSUME NEW o \in Ops, \/ Start(o) \/ CreateBackup(o) \/ BackupCompleted(o)
                            \/ ListKeys(o) \/ RequestDeletion(o) \/ DeletionProcessed(o)
                            \/ RemoveArchive(o) \/ RemoveManifest(o)
      PROVE  TimesDiffer'
  <2>1. UNCHANGED <<createdAt, time, listed>> /\ Ready' \subseteq Ready
    BY <1>3 DEF Start, CreateBackup, BackupCompleted, ListKeys, RequestDeletion,
                DeletionProcessed, RemoveArchive, RemoveManifest, DeleteArchive,
                DeleteManifest, Ready, bucket, TypeOK, ObjectStoreTypeOK
  <2>2. ASSUME NEW w \in Ops, HasArchive(w)' PROVE HasArchive(w)
    BY <1>3, <2>2 DEF Start, CreateBackup, BackupCompleted, ListKeys, RequestDeletion,
                DeletionProcessed, RemoveArchive, RemoveManifest, Goto, TypeOK, Step,
                HasArchive, HasBackup
  <2> QED
    BY <1>2, <2>1, <2>2
<1>4. ASSUME NEW o \in Ops, UploadState(o) PROVE TimesDiffer'
  <2>1. PICK now \in 1..MaxTime : /\ \A t \in TimesTaken : t < now
                                  /\ time' = [time EXCEPT ![o] = now]
    BY <1>4 DEF UploadState
  <2>2. now \in Nat \ {0}
    BY BoundsAssumption
  <2>3. UNCHANGED <<createdAt, listed, status>>
    BY <1>4 DEF UploadState, PutEncryptedFile
  <2>4. ASSUME NEW p \in Points PROVE TimesOf(p)' \subseteq TimesOf(p) \union {now}
    BY <2>1, <2>3, TimesOfPoint DEF TimesOf, Point, TypeOK
  <2>5. ASSUME NEW p \in Points, p # Point(o) PROVE TimesOf(p)' = TimesOf(p)
    BY <2>1, <2>3, <2>5 DEF TimesOf, Point, TypeOK
  <2>6. ASSUME NEW p \in Points PROVE now \notin TimesOf(p)
    BY <2>1, <2>2, TimesOfType DEF TimesTaken
  <2>7. Apart'
    BY <2>4, <2>5, <2>6 DEF Apart, TimesDiffer
  <2>8. Stamped' /\ Taken'
    BY <1>4, <2>1, <2>2, <2>3 DEF UploadState, Goto, Ready, HasArchive, HasBackup, TypeOK
  <2> QED
    BY <2>7, <2>8
<1>5. ASSUME NEW o \in Ops, ReadManifest(o) PROVE TimesDiffer'
  <2>1. UNCHANGED <<status, createdAt, time, pc>>
    BY <1>5 DEF ReadManifest, bucket
  <2>2. PICK q \in unread[o] :
        listed' \in {listed, [listed EXCEPT ![o][q] = IF q \in Ready THEN createdAt[q] ELSE 0]}
    BY <1>5, ReadOne
  <2>3. ASSUME NEW w \in Ops, NEW p \in Points PROVE listed'[w][p] \in TimesOf(p) \union {0}
    BY <2>2 DEF TypeOK
  <2>4. Apart'
    BY <1>1, <2>1, <2>3
  <2> QED
    BY <2>1, <2>4 DEF Ready, HasArchive, HasBackup
<1>6. ASSUME NEW o \in Ops, SelectExpired(o) PROVE TimesDiffer'
  <2>1. UNCHANGED <<status, createdAt, time>>
    BY <1>6 DEF SelectExpired, bucket
  <2>2. ASSUME NEW w \in Ops, NEW p \in Points PROVE listed'[w][p] \in TimesOf(p) \union {0}
    BY <1>6 DEF SelectExpired, TypeOK
  <2>3. Apart'
    BY <1>1, <2>1, <2>2
  <2> QED
    BY <1>6, <2>1, <2>3 DEF SelectExpired, Goto, Ready, HasArchive, HasBackup, TypeOK
<1>7. ASSUME NEW o \in Ops, MarkExpired(o) PROVE TimesDiffer'
  <2>1. UNCHANGED <<createdAt, time, pc>> /\ Ready' \subseteq Ready
    BY <1>7 DEF MarkExpired, MarkRecoveryPointDeleting, Ready, TypeOK, ObjectStoreTypeOK
  <2>2. ASSUME NEW w \in Ops, NEW p \in Points PROVE listed'[w][p] \in TimesOf(p) \union {0}
    BY <1>7 DEF MarkExpired, TypeOK
  <2>3. Apart'
    BY <1>1, <2>1, <2>2
  <2> QED
    BY <2>1, <2>3 DEF HasArchive, HasBackup
\* The attempts that end hold no time any more.
<1>8. ASSUME NEW o \in Ops, NEW outcome \in {"succeeded", "idle"}, EndAttempt(o, outcome)
      PROVE  /\ Taken'
             /\ \A w \in Ops : time'[w] \in {time[w], 0}
             /\ \A w \in Ops, p \in Points : listed'[w][p] \in {listed[w][p], 0}
    BY <1>8 DEF EndAttempt, Goto, HasArchive, HasBackup, TypeOK
<1>9. ASSUME NEW o \in Ops, NEW outcome \in {"succeeded", "idle"}, Publish(o, outcome)
      PROVE  TimesDiffer'
  <2>1. /\ createdAt' = [createdAt EXCEPT ![Point(o)] = time[o]]
        /\ status' = [status EXCEPT ![Point(o)] = "ready"]
        /\ EndAttempt(o, outcome)
        /\ time[o] # 0
    BY <1>9 DEF Publish, PutManifest, HasArchive, HasBackup
  <2>2. Apart'
    BY <1>1, <1>8, <2>1, PointType DEF TypeOK, ObjectStoreTypeOK
  <2>3. Stamped'
    BY <2>1, PointType DEF Ready, TypeOK, ObjectStoreTypeOK
  <2> QED
    BY <1>8, <2>1, <2>2, <2>3
<1>10. ASSUME NEW o \in Ops, VeleroRejects(o) \/ Interrupt(o) PROVE TimesDiffer'
  <2>1. EndAttempt(o, "idle") /\ UNCHANGED bucket
    BY <1>10 DEF VeleroRejects, Interrupt
  <2>2. Apart'
    BY <1>1, <1>8, <2>1 DEF bucket
  <2> QED
    BY <1>8, <2>1, <2>2 DEF Ready, bucket
<1>11. ASSUME Crash PROVE TimesDiffer'
  <2>1. Apart'
    BY <1>1, <1>11 DEF Crash, bucket
  <2> QED
    BY <1>11, <2>1 DEF Crash, bucket, Ready, HasArchive, HasBackup
<1>12. ASSUME VeleroStep \/ UNCHANGED vars PROVE TimesDiffer'
    BY <1>2, <1>12 DEF VeleroStep, vars, bucket, attempt, Ready, HasArchive, HasBackup
<1> QED
    BY <1>3, <1>4, <1>5, <1>6, <1>7, <1>9, <1>10, <1>11, <1>12 DEF Next, Proceed

-----------------------------------------------------------------------------
(* Finiteness.                                                                *)

LEMMA StepFinitelyMany == TypeOK /\ FinitelyMany /\ [Next]_vars => FinitelyMany'
<1> SUFFICES ASSUME TypeOK, FinitelyMany, [Next]_vars PROVE FinitelyMany'
    OBVIOUS
<1> DEFINE FewRunning == IsFiniteSet(Running) /\ Cardinality(Running) <= MaxConcurrent
           FewReady == IsFiniteSet(Ready)
           FewToMark == \A o \in Ops : IsFiniteSet(ToMark(o))
<1>0. /\ FinitelyMany' <=> FewRunning' /\ FewReady' /\ FewToMark'
      /\ FewRunning /\ FewReady /\ FewToMark
    BY DEF FinitelyMany
<1> HIDE DEF FewRunning, FewReady, FewToMark
<1>1. ASSUME Running' \subseteq Running PROVE FewRunning'
  <2>1. IsFiniteSet(Running') /\ Cardinality(Running') <= Cardinality(Running)
        /\ Cardinality(Running) \in Nat /\ Cardinality(Running') \in Nat
    BY <1>0, <1>1, FS_Subset, FS_CardinalityType DEF FewRunning
  <2> QED
    BY <1>0, <2>1, BoundsAssumption DEF FewRunning
<1>2. ASSUME Ready' \subseteq Ready PROVE FewReady'
    BY <1>0, <1>2, FS_Subset DEF FewReady
<1>3. ASSUME \A w \in Ops : ToMark(w)' \subseteq ToMark(w) PROVE FewToMark'
    BY <1>0, <1>3, FS_Subset DEF FewToMark
<1>4. ASSUME NEW o \in Ops, Start(o) PROVE FinitelyMany'
  <2>1. Running' = Running \union {o}
    BY <1>4 DEF Start, Goto, Running, Active, TypeOK, Step
  <2>2. /\ Cardinality(Running) < MaxConcurrent
        /\ UNCHANGED <<status, listed>>
    BY <1>4 DEF Start, Running, bucket
  <2>3. /\ IsFiniteSet(Running \union {o})
        /\ Cardinality(Running \union {o}) <= Cardinality(Running) + 1
    <3>1. IsFiniteSet(Running) /\ Cardinality(Running) \in Nat
        BY <1>0, FS_CardinalityType DEF FewRunning
    <3>2. /\ IsFiniteSet(Running \union {o})
          /\ Cardinality(Running \union {o}) =
                IF o \in Running THEN Cardinality(Running) ELSE Cardinality(Running) + 1
        BY <3>1, FS_AddElement
    <3> QED
        BY <3>1, <3>2
  <2>4. /\ Cardinality(Running \union {o}) \in Nat /\ Cardinality(Running) \in Nat
    BY <1>0, <2>3, FS_CardinalityType DEF FewRunning
  <2>5. Cardinality(Running') <= MaxConcurrent
    BY <2>1, <2>2, <2>3, <2>4, BoundsAssumption
  <2>6. FewRunning'
    BY <2>1, <2>3, <2>5 DEF FewRunning
  <2> QED
    BY <1>0, <1>2, <1>3, <2>2, <2>6 DEF Ready, ToMark
<1>5. ASSUME NEW o \in Ops, \/ CreateBackup(o) \/ BackupCompleted(o) \/ UploadState(o)
                            \/ ListKeys(o) \/ RequestDeletion(o) \/ DeletionProcessed(o)
                            \/ RemoveArchive(o) \/ RemoveManifest(o)
      PROVE  FinitelyMany'
  <2>1. UNCHANGED listed /\ Ready' \subseteq Ready
    BY <1>5 DEF CreateBackup, BackupCompleted, UploadState, ListKeys, RequestDeletion,
                DeletionProcessed, RemoveArchive, RemoveManifest, DeleteArchive,
                DeleteManifest, PutEncryptedFile, Ready, bucket, TypeOK, ObjectStoreTypeOK
  <2>2. Running' \subseteq Running
    BY <1>5 DEF CreateBackup, BackupCompleted, UploadState, ListKeys, RequestDeletion,
                DeletionProcessed, RemoveArchive, RemoveManifest, Goto, TypeOK, Step,
                Running, Active
  <2> QED
    BY <1>0, <1>1, <1>2, <1>3, <2>1, <2>2 DEF ToMark
<1>6. ASSUME NEW o \in Ops, ReadManifest(o) PROVE FinitelyMany'
  <2>1. UNCHANGED <<status, pc>>
    BY <1>6 DEF ReadManifest, bucket
  <2>2. PICK q \in Points :
        listed' \in {listed, [listed EXCEPT ![o][q] = IF q \in Ready THEN createdAt[q] ELSE 0]}
    BY <1>6, ReadOne
  <2>3. \A w \in Ops : ToMark(w)' \subseteq ToMark(w) \union {q}
    BY <2>2 DEF ToMark, TypeOK
  <2>4. FewToMark'
    BY <1>0, <2>3, FS_AddElement, FS_Subset DEF FewToMark
  <2> QED
    BY <1>0, <1>1, <1>2, <2>1, <2>4 DEF Ready, Running, Active
<1>7. ASSUME NEW o \in Ops, SelectExpired(o) \/ MarkExpired(o) PROVE FinitelyMany'
  <2>1. Ready' \subseteq Ready /\ Running' \subseteq Running
    BY <1>7 DEF SelectExpired, MarkExpired, MarkRecoveryPointDeleting, Goto, Running, Active,
                Ready, bucket, TypeOK, ObjectStoreTypeOK, Step
  <2>2. ASSUME NEW w \in Ops PROVE ToMark(w)' \subseteq ToMark(w)
    <3>1. CASE SelectExpired(o)
      <4>1. PICK retentionCount \in RetentionCounts :
              \A v \in Ops : ToMark(v)' = IF v = o THEN Expired(ToMark(o), listed[o], retentionCount)
                                                  ELSE ToMark(v)
        BY <3>1, SelectLists
      <4> QED
        BY <4>1 DEF Expired
    <3>2. CASE MarkExpired(o)
        BY <3>2 DEF MarkExpired, ToMark, TypeOK
    <3> QED
        BY <1>7, <3>1, <3>2
  <2> QED
    BY <1>0, <1>1, <1>2, <1>3, <2>1, <2>2
<1>8. ASSUME NEW o \in Ops, NEW outcome \in {"succeeded", "idle"}, EndAttempt(o, outcome)
      PROVE  FewRunning' /\ FewToMark'
  <2>1. Running' \subseteq Running
    BY <1>8 DEF EndAttempt, Goto, Running, Active, TypeOK
  <2>2. \A w \in Ops : ToMark(w)' \subseteq ToMark(w)
    BY <1>8, EndAttemptLists
  <2> QED
    BY <1>1, <1>3, <2>1, <2>2
<1>9. ASSUME NEW o \in Ops, NEW outcome \in {"succeeded", "idle"}, Publish(o, outcome)
      PROVE  FinitelyMany'
  <2>1. Ready' \subseteq Ready \union {Point(o)}
    BY <1>9, PointType DEF Publish, PutManifest, Ready, TypeOK, ObjectStoreTypeOK
  <2>2. FewReady'
    BY <1>0, <2>1, FS_AddElement, FS_Subset DEF FewReady
  <2>3. EndAttempt(o, outcome)
    BY <1>9 DEF Publish
  <2> QED
    BY <1>0, <1>8, <2>2, <2>3
<1>10. ASSUME NEW o \in Ops, VeleroRejects(o) \/ Interrupt(o) PROVE FinitelyMany'
  <2>1. EndAttempt(o, "idle") /\ UNCHANGED bucket
    BY <1>10 DEF VeleroRejects, Interrupt
  <2> QED
    BY <1>0, <1>2, <1>8, <2>1 DEF Ready, bucket
<1>11. ASSUME Crash PROVE FinitelyMany'
  <2>1. Ready' = Ready /\ Running' \subseteq Running /\ \A w \in Ops : ToMark(w)' = {}
    BY <1>11 DEF Crash, bucket, Ready, Running, Active, ToMark
  <2> QED
    BY <1>0, <1>1, <1>2, <1>3, <2>1
<1>12. ASSUME VeleroStep \/ UNCHANGED vars PROVE FinitelyMany'
  <2>1. UNCHANGED <<status, pc, listed>>
    BY <1>12 DEF VeleroStep, vars, bucket, attempt
  <2> QED
    BY <1>0, <1>1, <1>2, <1>3, <2>1 DEF Ready, Running, Active, ToMark
<1> QED
    BY <1>4, <1>5, <1>6, <1>7, <1>9, <1>10, <1>11, <1>12 DEF Next, Proceed

-----------------------------------------------------------------------------
(* Counting.                                                                  *)

LEMMA Fewer ==
    ASSUME NEW S, IsFiniteSet(S), NEW T \in SUBSET S
    PROVE  /\ IsFiniteSet(T)
           /\ Cardinality(S) \in Nat /\ Cardinality(T) \in Nat
           /\ Cardinality(T) <= Cardinality(S)
BY FS_Subset, FS_CardinalityType

LEMMA OneMore ==
    ASSUME NEW S, IsFiniteSet(S), NEW x, NEW T \in SUBSET (S \union {x})
    PROVE  /\ IsFiniteSet(T)
           /\ Cardinality(S) \in Nat /\ Cardinality(T) \in Nat
           /\ Cardinality(T) <= Cardinality(S) + 1
<1>1. Cardinality(S) \in Nat
    BY FS_CardinalityType
<1>2. /\ IsFiniteSet(S \union {x})
      /\ Cardinality(S \union {x}) \in {Cardinality(S), Cardinality(S) + 1}
    BY FS_AddElement
<1>3. /\ IsFiniteSet(T) /\ Cardinality(T) \in Nat
      /\ Cardinality(T) <= Cardinality(S \union {x})
    BY <1>2, Fewer
<1> QED
    BY <1>1, <1>2, <1>3

LEMMA OneLess ==
    ASSUME NEW S, IsFiniteSet(S), NEW x \in S
    PROVE  /\ IsFiniteSet(S \ {x})
           /\ Cardinality(S) \in Nat /\ Cardinality(S \ {x}) \in Nat
           /\ Cardinality(S \ {x}) = Cardinality(S) - 1
<1>1. IsFiniteSet(S \ {x}) /\ Cardinality(S \ {x}) = Cardinality(S) - 1
    BY FS_RemoveElement
<1> QED
    BY <1>1, FS_CardinalityType

\* Every attempt that prunes is running.
LEMMA PruningIsFinite ==
    ASSUME FinitelyMany PROVE IsFiniteSet(Pruning) /\ Cardinality(Pruning) <= MaxConcurrent
<1>1. Pruning \subseteq Running
    BY DEF Pruning, Running, HasArchive, HasBackup, Active
<1> QED
    BY <1>1, Fewer, BoundsAssumption DEF FinitelyMany

\* A step after which fewer attempts spare fewer points keeps the count.
LEMMA FewerSpared ==
    ASSUME FinitelyMany, AllSpareFew,
           Ready' \subseteq Ready, Pruning' \subseteq Pruning,
           \A o \in Pruning' : Spared(o)' \subseteq Spared(o) /\ Keeps(o)' \in {Keeps(o), MaxRetention - 1}
    PROVE  AllSpareFew'
<1>1. PICK older \in [Pruning -> SUBSET Pruning], pending \in SUBSET Pruning :
        SparesFew(older, pending)
    BY DEF AllSpareFew
<1>2. PICK remaining : remaining = Pruning'
    OBVIOUS
<1> DEFINE olderLeft == [o \in remaining |-> older[o] \intersect remaining]
           pendingLeft == pending \intersect remaining
<1>3. /\ olderLeft \in [remaining -> SUBSET remaining]
      /\ pendingLeft \in SUBSET remaining
      /\ \A o \in remaining : olderLeft[o] = older[o] \intersect remaining
      /\ remaining \subseteq Pruning
    BY <1>2
<1>4. IsFiniteSet(Pruning) /\ IsFiniteSet(Ready)
    BY PruningIsFinite DEF FinitelyMany
<1>5. Cardinality(Ready') + Cardinality(pendingLeft) <= MaxRetention - 1 + MaxConcurrent
  <2>1. Cardinality(Ready') <= Cardinality(Ready)
        /\ Cardinality(Ready') \in Nat /\ Cardinality(Ready) \in Nat
    BY <1>4, Fewer
  <2>2. IsFiniteSet(pending)
    BY <1>4, Fewer
  <2>3. Cardinality(pendingLeft) <= Cardinality(pending)
        /\ Cardinality(pendingLeft) \in Nat /\ Cardinality(pending) \in Nat
    BY <2>2, Fewer
  <2> QED
    BY <1>1, <2>1, <2>3, MaxRetentionType, BoundsAssumption DEF SparesFew
<1>6. ASSUME NEW o \in remaining \ pendingLeft
      PROVE  /\ pendingLeft \subseteq olderLeft[o] /\ o \notin olderLeft[o]
             /\ \A w \in remaining \ pendingLeft : w \in olderLeft[o] \/ o \in olderLeft[w] \/ w = o
             /\ \A w \in olderLeft[o] \ pendingLeft : olderLeft[w] \subseteq olderLeft[o]
             /\ Cardinality(Spared(o)') + Cardinality(olderLeft[o]) <= Keeps(o)' + MaxConcurrent - 1
  <2>1. o \in Pruning \ pending
    BY <1>3
  <2>2. /\ pendingLeft \subseteq olderLeft[o] /\ o \notin olderLeft[o]
        /\ \A w \in remaining \ pendingLeft : w \in olderLeft[o] \/ o \in olderLeft[w] \/ w = o
    BY <1>1, <1>3, <2>1 DEF SparesFew
  <2>3. ASSUME NEW w \in olderLeft[o] \ pendingLeft PROVE olderLeft[w] \subseteq olderLeft[o]
    BY <1>1, <1>3, <2>1, <2>3 DEF SparesFew
  <2>4. Cardinality(Spared(o)') <= Cardinality(Spared(o))
        /\ Cardinality(Spared(o)') \in Nat /\ Cardinality(Spared(o)) \in Nat
    <3>1. IsFiniteSet(Spared(o))
        BY <1>4, Fewer DEF Spared
    <3> QED
        BY <1>2, <3>1, Fewer
  <2>5. Cardinality(olderLeft[o]) <= Cardinality(older[o])
        /\ Cardinality(olderLeft[o]) \in Nat /\ Cardinality(older[o]) \in Nat
    <3>1. IsFiniteSet(older[o])
        BY <1>4, <2>1, Fewer
    <3> QED
        BY <1>3, <3>1, Fewer
  <2>6. Cardinality(Spared(o)) + Cardinality(older[o]) <= Keeps(o) + MaxConcurrent - 1
    BY <1>1, <2>1 DEF SparesFew
  <2>7. Keeps(o) \in Nat /\ Keeps(o)' \in Nat /\ Keeps(o) <= Keeps(o)'
    BY <1>2, MaxRetentionType DEF Keeps
  <2>8. Cardinality(Spared(o)') + Cardinality(olderLeft[o]) <= Keeps(o)' + MaxConcurrent - 1
    <3> HIDE DEF olderLeft
    <3> QED
        BY <2>4, <2>5, <2>6, <2>7, BoundsAssumption
  <2> QED
    BY <2>2, <2>3, <2>8
<1>7. SparesFew(olderLeft, pendingLeft)'
    <2> HIDE DEF olderLeft, pendingLeft
    <2> QED
        BY <1>2, <1>5, <1>6 DEF SparesFew
<1> QED
    <2> HIDE DEF olderLeft, pendingLeft
    <2> QED
        BY <1>2, <1>3, <1>7 DEF AllSpareFew

\* An attempt that lists the bucket sees every offered point, and counts on the
\* points of all attempts that listed it before.
LEMMA ListKeysSparesFew ==
    ASSUME TypeOK, FinitelyMany, AllSpareFew, NEW o \in Ops, ListKeys(o)
    PROVE  AllSpareFew'
<1>1. PICK older \in [Pruning -> SUBSET Pruning], pending \in SUBSET Pruning :
        SparesFew(older, pending)
    BY DEF AllSpareFew
<1>2. PICK before : before = Pruning
    OBVIOUS
<1> DEFINE after == before \union {o}
           olderNow == [w \in after |-> IF w = o THEN before ELSE older[w]]
<1>3. o \notin Pruning /\ o \in Running
    BY DEF ListKeys, Pruning, Running, Active
<1>4. /\ Pruning' = after /\ Ready' = Ready
      /\ Spared(o)' = {} /\ Keeps(o)' = 0
      /\ \A w \in Pruning : Spared(w)' = Spared(w) /\ Keeps(w)' = Keeps(w)
  <2>1. /\ pc' = [pc EXCEPT ![o] = "listing"] /\ pc[o] = "retention"
        /\ unread' = [unread EXCEPT ![o] = Ready \union Deleting]
        /\ UNCHANGED <<status, listed>>
    BY DEF ListKeys, Goto, bucket
  <2>2. pc \in [Ops -> Step] /\ unread \in [Ops -> SUBSET Points]
    BY DEF TypeOK
  <2>3. Pruning' = after
    BY <1>2, <2>1, <2>2 DEF Pruning, HasArchive, HasBackup
  <2>4. Ready' = Ready /\ Spared(o)' = {} /\ Keeps(o)' = 0
    BY <2>1, <2>2 DEF Ready, Spared, Keeps
  <2>5. ASSUME NEW w \in Pruning PROVE Spared(w)' = Spared(w) /\ Keeps(w)' = Keeps(w)
    BY <1>3, <2>1, <2>2 DEF Ready, Spared, Keeps, ToMark, Pruning
  <2> QED
    BY <2>3, <2>4, <2>5
<1>5. /\ olderNow \in [after -> SUBSET after] /\ pending \in SUBSET after
      /\ olderNow[o] = before
      /\ \A w \in before : olderNow[w] = older[w]
    BY <1>2, <1>3
<1> HIDE DEF olderNow
<1>6. Cardinality(before) <= MaxConcurrent - 1
  <2>1. before \subseteq Running \ {o}
    BY <1>2, <1>3 DEF Pruning, Running, HasArchive, HasBackup, Active
  <2>2. /\ IsFiniteSet(Running \ {o})
        /\ Cardinality(Running \ {o}) <= MaxConcurrent - 1
    <3>1. /\ IsFiniteSet(Running \ {o}) /\ Cardinality(Running) \in Nat
          /\ Cardinality(Running \ {o}) = Cardinality(Running) - 1
        BY <1>3, OneLess DEF FinitelyMany
    <3> QED
        BY <3>1, BoundsAssumption DEF FinitelyMany
  <2> QED
    BY <2>1, <2>2, Fewer, BoundsAssumption
<1>7. Cardinality({}) = 0 /\ Cardinality(before) \in Nat
    BY <1>2, FS_EmptySet, FS_CardinalityType, PruningIsFinite
<1>8. Cardinality(Spared(o)') + Cardinality(olderNow[o]) <= Keeps(o)' + MaxConcurrent - 1
    BY <1>4, <1>5, <1>6, <1>7, BoundsAssumption
<1>9. /\ pending \subseteq olderNow[o] /\ o \notin olderNow[o]
      /\ \A w \in after \ pending : w \in olderNow[o] \/ w = o
      /\ \A w \in olderNow[o] \ pending : olderNow[w] \subseteq olderNow[o]
    BY <1>2, <1>3, <1>5
<1>10. ASSUME NEW u \in after \ pending, u # o
       PROVE  /\ pending \subseteq olderNow[u] /\ u \notin olderNow[u]
              /\ \A w \in after \ pending : w \in olderNow[u] \/ u \in olderNow[w] \/ w = u
              /\ \A w \in olderNow[u] \ pending : olderNow[w] \subseteq olderNow[u]
              /\ Cardinality(Spared(u)') + Cardinality(olderNow[u]) <= Keeps(u)' + MaxConcurrent - 1
    BY <1>1, <1>2, <1>4, <1>5, <1>10 DEF SparesFew
<1>11. Cardinality(Ready') + Cardinality(pending) <= MaxRetention - 1 + MaxConcurrent
    BY <1>1, <1>4 DEF SparesFew
<1>12. SparesFew(olderNow, pending)'
    BY <1>4, <1>8, <1>9, <1>10, <1>11 DEF SparesFew
<1> QED
    BY <1>4, <1>5, <1>12 DEF AllSpareFew

\* Selecting keeps at most the retention count less one of the points that the
\* attempt listed.
LEMMA SelectExpiredSparesFew ==
    ASSUME TypeOK, TimesDiffer, FinitelyMany, AllSpareFew, NEW o \in Ops, SelectExpired(o)
    PROVE  AllSpareFew'
<1>1. PICK older \in [Pruning -> SUBSET Pruning], pending \in SUBSET Pruning :
        SparesFew(older, pending)
    BY DEF AllSpareFew
<1>2. PICK retentionCount \in RetentionCounts : \A w \in Ops :
        ToMark(w)' = IF w = o THEN Expired(ToMark(o), listed[o], retentionCount) ELSE ToMark(w)
    BY SelectLists
<1> DEFINE kept == ToMark(o) \ Expired(ToMark(o), listed[o], retentionCount)
<1>3. IsFiniteSet(kept) /\ Cardinality(kept) <= MaxRetention - 1
  <2>1. IsFiniteSet(ToMark(o)) /\ \A p \in ToMark(o) : listed[o][p] \in Nat
    BY DEF FinitelyMany, TypeOK, ToMark
  <2>2. \A p, q \in ToMark(o) : listed[o][p] = listed[o][q] => p = q
    <3>1. \A p \in ToMark(o) : p \in Points /\ listed[o][p] \in TimesOf(p) /\ listed[o][p] # 0
        BY TimesOfPoint DEF ToMark
    <3> QED
        BY <3>1 DEF TimesDiffer
  <2>3. retentionCount \in Nat \ {0} /\ retentionCount <= MaxRetention
    BY MaxRetentionType, RetentionAssumption
  <2>4. Cardinality(kept) <= retentionCount - 1
    BY <2>1, <2>2, <2>3, SurvivorsFit
  <2>5. IsFiniteSet(kept) /\ Cardinality(kept) \in Nat
    BY <2>1, Fewer
  <2> QED
    <3> HIDE DEF kept
    <3> QED
        BY <2>3, <2>4, <2>5, MaxRetentionType
<1>4. /\ Pruning' = Pruning /\ Ready' = Ready
      /\ unread[o] = {} /\ pc[o] = "listing" /\ o \in Pruning
      /\ Keeps(o) = 0 /\ Keeps(o)' = MaxRetention - 1
      /\ \A w \in Pruning \ {o} : Spared(w)' = Spared(w) /\ Keeps(w)' = Keeps(w)
  <2>1. /\ pc' = [pc EXCEPT ![o] = "cleanup"] /\ pc[o] = "listing"
        /\ unread[o] = {}
        /\ UNCHANGED <<status, unread>>
    BY DEF SelectExpired, Goto, bucket
  <2>2. pc \in [Ops -> Step]
    BY DEF TypeOK
  <2>3. Pruning' = Pruning /\ o \in Pruning
    BY <2>1, <2>2 DEF Pruning, HasArchive, HasBackup
  <2>4. Ready' = Ready /\ Keeps(o) = 0 /\ Keeps(o)' = MaxRetention - 1
    BY <2>1, <2>2 DEF Ready, Keeps
  <2>5. ASSUME NEW w \in Pruning \ {o} PROVE Spared(w)' = Spared(w) /\ Keeps(w)' = Keeps(w)
    BY <1>2, <2>1, <2>2 DEF Ready, Spared, Keeps, Pruning
  <2> QED
    BY <2>1, <2>3, <2>4, <2>5
<1>5. Spared(o)' \subseteq Spared(o) \union kept
    BY <1>2, <1>4 DEF Spared
<1>6. ASSUME o \notin pending
      PROVE  Cardinality(Spared(o)') + Cardinality(older[o]) <= Keeps(o)' + MaxConcurrent - 1
  <2>1. Cardinality(Spared(o)) + Cardinality(older[o]) <= Keeps(o) + MaxConcurrent - 1
    BY <1>1, <1>4, <1>6 DEF SparesFew
  <2>2. /\ IsFiniteSet(Spared(o)) /\ IsFiniteSet(older[o])
        /\ Cardinality(Spared(o)) \in Nat /\ Cardinality(older[o]) \in Nat
        /\ Cardinality(kept) \in Nat
    BY <1>3, <1>4, Fewer, PruningIsFinite, FS_CardinalityType DEF Spared, FinitelyMany
  <2> HIDE DEF kept
  <2>3. IsFiniteSet(Spared(o) \union kept)
        /\ Cardinality(Spared(o) \union kept) <= Cardinality(Spared(o)) + Cardinality(kept)
    <3>1. Cardinality(Spared(o) \intersect kept) \in Nat
        BY <1>3, <2>2, FS_Intersection, FS_CardinalityType
    <3>2. /\ IsFiniteSet(Spared(o) \union kept)
          /\ Cardinality(Spared(o) \union kept) = Cardinality(Spared(o)) + Cardinality(kept)
                                                 - Cardinality(Spared(o) \intersect kept)
        BY <1>3, <2>2, FS_Union
    <3> QED
        BY <2>2, <3>1, <3>2
  <2>4. Cardinality(Spared(o)') <= Cardinality(Spared(o) \union kept)
        /\ Cardinality(Spared(o)') \in Nat /\ Cardinality(Spared(o) \union kept) \in Nat
    BY <1>5, <2>3, Fewer
  <2> QED
    BY <1>3, <1>4, <2>1, <2>2, <2>3, <2>4, MaxRetentionType, BoundsAssumption
<1>7. ASSUME NEW u \in Pruning \ pending
      PROVE  Cardinality(Spared(u)') + Cardinality(older[u]) <= Keeps(u)' + MaxConcurrent - 1
  <2>1. CASE u = o
    BY <1>6, <1>7, <2>1
  <2>2. CASE u # o
    BY <1>1, <1>4, <1>7, <2>2 DEF SparesFew
  <2> QED
    BY <2>1, <2>2
<1>8. SparesFew(older, pending)'
    BY <1>1, <1>4, <1>7 DEF SparesFew
<1> QED
    BY <1>4, <1>8 DEF AllSpareFew

\* An attempt that publishes was counted on by every attempt that listed the bucket
\* after it; those that listed it before become pending.
LEMMA PublishSparesFew ==
    ASSUME TypeOK, FinitelyMany, AllSpareFew, NEW o \in Ops, unread[o] = {},
           NEW outcome \in {"succeeded", "idle"}, Publish(o, outcome)
    PROVE  AllSpareFew'
<1>1. PICK older \in [Pruning -> SUBSET Pruning], pending \in SUBSET Pruning :
        SparesFew(older, pending)
    BY DEF AllSpareFew
<1>2. PICK left : left = Pruning \ {o}
    OBVIOUS
<1> DEFINE olderLeft == [w \in left |-> older[w] \ {o}]
           pendingLeft == IF o \in pending THEN pending \ {o} ELSE older[o]
<1>3. /\ Pruning' = left /\ Ready' \subseteq Ready \union {Point(o)}
      /\ \A w \in left : Spared(w)' \subseteq Spared(w) \union {Point(o)} /\ Keeps(w)' = Keeps(w)
      /\ o \in Pruning /\ Spared(o) = Ready /\ Keeps(o) = MaxRetention - 1
  <2>1. /\ pc' = [pc EXCEPT ![o] = outcome] /\ pc[o] = "cleanup"
        /\ unread' = [unread EXCEPT ![o] = {}] /\ ToMark(o) = {}
        /\ status' = [status EXCEPT ![Point(o)] = "ready"]
        /\ EndAttempt(o, outcome)
    BY DEF Publish, PutManifest, EndAttempt, Goto
  <2>2. pc \in [Ops -> Step] /\ unread \in [Ops -> SUBSET Points] /\ status \in [Points -> Status]
    BY DEF TypeOK, ObjectStoreTypeOK
  <2>3. Pruning' = left /\ o \in Pruning
    BY <1>2, <2>1, <2>2 DEF Pruning, HasArchive, HasBackup
  <2>4. Ready' \subseteq Ready \union {Point(o)} /\ Spared(o) = Ready /\ Keeps(o) = MaxRetention - 1
    BY <2>1, <2>2 DEF Ready, Spared, Keeps
  <2>5. ASSUME NEW w \in left
        PROVE  Spared(w)' \subseteq Spared(w) \union {Point(o)} /\ Keeps(w)' = Keeps(w)
    <3>1. ToMark(w)' = ToMark(w)
        BY <1>2, <2>1, EndAttemptLists DEF Pruning
    <3> QED
        BY <1>2, <2>1, <2>2, <2>4, <3>1 DEF Spared, Keeps, Pruning
  <2> QED
    BY <2>3, <2>4, <2>5
<1>4. IsFiniteSet(Ready) /\ IsFiniteSet(Pruning) /\ IsFiniteSet(pending)
    BY Fewer, PruningIsFinite DEF FinitelyMany
<1>5. /\ olderLeft \in [left -> SUBSET left] /\ pendingLeft \in SUBSET left
      /\ \A w \in left : olderLeft[w] = older[w] \ {o}
    BY <1>1, <1>2, <1>3 DEF SparesFew
\* Those that are left have all counted on o.
<1>6. ASSUME NEW u \in left \ pendingLeft
      PROVE  u \in Pruning \ pending /\ o \in older[u] /\ pendingLeft \subseteq older[u] \ {o}
    BY <1>1, <1>2, <1>3, <1>6 DEF SparesFew
<1> HIDE DEF olderLeft
<1>7. Cardinality(Ready') + Cardinality(pendingLeft) <= MaxRetention - 1 + MaxConcurrent
  <2>1. Cardinality(Ready') <= Cardinality(Ready) + 1
        /\ Cardinality(Ready') \in Nat /\ Cardinality(Ready) \in Nat
    BY <1>3, <1>4, OneMore
  <2>2. CASE o \in pending
    <3>1. Cardinality(pendingLeft) = Cardinality(pending) - 1 /\ Cardinality(pending) \in Nat
        BY <1>4, <2>2, OneLess
    <3>2. Cardinality(Ready) + Cardinality(pending) <= MaxRetention - 1 + MaxConcurrent
        BY <1>1 DEF SparesFew
    <3> HIDE DEF pendingLeft
    <3> QED
        BY <2>1, <3>1, <3>2, MaxRetentionType, BoundsAssumption
  <2>3. CASE o \notin pending
    <3>1. Cardinality(Ready) + Cardinality(older[o]) <= MaxRetention - 1 + MaxConcurrent - 1
        BY <1>1, <1>3, <2>3 DEF SparesFew
    <3>2. Cardinality(older[o]) \in Nat /\ pendingLeft = older[o]
        BY <1>3, <1>4, <2>3, Fewer
    <3> HIDE DEF pendingLeft
    <3> QED
        BY <2>1, <3>1, <3>2, MaxRetentionType, BoundsAssumption
  <2> QED
    BY <2>2, <2>3
<1> HIDE DEF pendingLeft
<1>8. ASSUME NEW u \in left \ pendingLeft
      PROVE  /\ pendingLeft \subseteq olderLeft[u] /\ u \notin olderLeft[u]
             /\ \A w \in left \ pendingLeft : w \in olderLeft[u] \/ u \in olderLeft[w] \/ w = u
             /\ \A w \in olderLeft[u] \ pendingLeft : olderLeft[w] \subseteq olderLeft[u]
             /\ Cardinality(Spared(u)') + Cardinality(olderLeft[u]) <= Keeps(u)' + MaxConcurrent - 1
  <2>1. u \in Pruning \ pending /\ o \in older[u] /\ pendingLeft \subseteq older[u] \ {o}
    BY <1>6
  <2>2. pendingLeft \subseteq olderLeft[u] /\ u \notin olderLeft[u]
    BY <1>1, <1>5, <1>8, <2>1 DEF SparesFew
  <2>3. ASSUME NEW w \in left \ pendingLeft
        PROVE  w \in olderLeft[u] \/ u \in olderLeft[w] \/ w = u
    <3>1. w \in Pruning \ pending
        BY <1>6
    <3> QED
        BY <1>1, <1>2, <1>5, <1>8, <2>1, <2>3, <3>1 DEF SparesFew
  <2>4. ASSUME NEW w \in olderLeft[u] \ pendingLeft PROVE olderLeft[w] \subseteq olderLeft[u]
    <3>1. w \in left \ pendingLeft /\ w \in older[u]
        BY <1>5, <1>8, <2>4
    <3>2. w \in Pruning \ pending
        BY <1>6, <3>1
    <3>3. older[w] \subseteq older[u]
        BY <1>1, <2>1, <3>1, <3>2 DEF SparesFew
    <3> QED
        BY <1>5, <1>8, <3>1, <3>3
  <2>5. Cardinality(Spared(u)) + Cardinality(older[u]) <= Keeps(u) + MaxConcurrent - 1
    BY <1>1, <2>1 DEF SparesFew
  <2>6. Cardinality(Spared(u)') <= Cardinality(Spared(u)) + 1
        /\ Cardinality(Spared(u)') \in Nat /\ Cardinality(Spared(u)) \in Nat
    <3>1. IsFiniteSet(Spared(u))
        BY <1>4, Fewer DEF Spared
    <3>2. Spared(u)' \in SUBSET (Spared(u) \union {Point(o)})
        BY <1>3, <1>8
    <3> QED
        BY <3>1, <3>2, OneMore
  <2>7. Cardinality(olderLeft[u]) = Cardinality(older[u]) - 1 /\ Cardinality(older[u]) \in Nat
    <3>1. IsFiniteSet(older[u])
        BY <1>4, <2>1, Fewer
    <3> QED
        BY <1>5, <1>8, <2>1, <3>1, OneLess
  <2>8. Keeps(u)' = Keeps(u) /\ Keeps(u) \in Nat
    BY <1>3, <1>8, MaxRetentionType DEF Keeps
  <2>9. Cardinality(Spared(u)') + Cardinality(olderLeft[u]) <= Keeps(u)' + MaxConcurrent - 1
    BY <2>5, <2>6, <2>7, <2>8, BoundsAssumption
  <2> QED
    BY <2>2, <2>3, <2>4, <2>9
<1>9. SparesFew(olderLeft, pendingLeft)'
    BY <1>3, <1>7, <1>8 DEF SparesFew
<1> QED
    BY <1>3, <1>5, <1>9 DEF AllSpareFew

\* No other step adds to what an attempt spares.
LEMMA OthersSpareFew ==
    ASSUME TypeOK, TimesDiffer, FinitelyMany, AllSpareFew, NEW o \in Ops,
           \/ Start(o) \/ CreateBackup(o) \/ BackupCompleted(o) \/ UploadState(o) \/ MarkExpired(o)
           \/ RequestDeletion(o) \/ DeletionProcessed(o) \/ RemoveArchive(o) \/ RemoveManifest(o)
    PROVE  AllSpareFew'
<1> USE DEF TypeOK, ObjectStoreTypeOK
<1>1. Pruning' = Pruning
    BY DEF Start, CreateBackup, BackupCompleted, UploadState, MarkExpired, RequestDeletion,
           DeletionProcessed, RemoveArchive, RemoveManifest, Goto, Step, Pruning, HasArchive,
           HasBackup
<1>2. ASSUME NEW w \in Pruning PROVE Keeps(w)' = Keeps(w)
    BY <1>2 DEF Start, CreateBackup, BackupCompleted, UploadState, MarkExpired, RequestDeletion,
           DeletionProcessed, RemoveArchive, RemoveManifest, Goto, Step, Pruning, Keeps
<1>3. Ready' \subseteq Ready
    BY DEF Start, CreateBackup, BackupCompleted, UploadState, MarkExpired, RequestDeletion,
           DeletionProcessed, RemoveArchive, RemoveManifest, DeleteArchive, DeleteManifest,
           PutEncryptedFile, MarkRecoveryPointDeleting, bucket, Ready
<1>4. CASE MarkExpired(o)
  <2>1. PICK p \in ToMark(o) : /\ MarkRecoveryPointDeleting(p)
                               /\ listed' = [listed EXCEPT ![o][p] = 0]
                               /\ unread' = unread
    BY <1>4 DEF MarkExpired
  <2>2. p \notin Ready'
    BY <2>1 DEF MarkRecoveryPointDeleting, Ready, ToMark
  <2>3. ASSUME NEW w \in Ops, NEW q \in ToMark(w), q # p PROVE q \in ToMark(w)'
    BY <2>1, <2>3 DEF ToMark
  <2>4. \A w \in Pruning : Spared(w)' \subseteq Spared(w)
    BY <1>3, <2>1, <2>2, <2>3 DEF Spared, Pruning
  <2> QED
    BY <1>1, <1>2, <1>3, <2>4, FewerSpared
<1>5. CASE ~ MarkExpired(o)
  <2>1. UNCHANGED <<unread, listed>>
    BY <1>5 DEF Start, CreateBackup, BackupCompleted, UploadState, RequestDeletion,
                DeletionProcessed, RemoveArchive, RemoveManifest
  <2>2. \A w \in Pruning : Spared(w)' \subseteq Spared(w)
    BY <1>3, <2>1 DEF Spared, ToMark
  <2> QED
    BY <1>1, <1>2, <1>3, <2>2, FewerSpared
<1> QED
    BY <1>4, <1>5

LEMMA ReadManifestSparesFew ==
    ASSUME TypeOK, TimesDiffer, FinitelyMany, AllSpareFew, NEW o \in Ops, ReadManifest(o)
    PROVE  AllSpareFew' \/ missed' = TRUE
<1>1. PICK p \in unread[o] :
        /\ p \in Points
        /\ unread' = [unread EXCEPT ![o] = @ \ {p}]
        /\ \/ listed' = [listed EXCEPT ![o][p] = IF p \in Ready THEN createdAt[p] ELSE 0]
           \/ missed' = TRUE /\ listed' = listed
    BY ReadOne, Zenon
<1>2. CASE listed' = [listed EXCEPT ![o][p] = IF p \in Ready THEN createdAt[p] ELSE 0]
  <2>1. UNCHANGED <<status, pc>>
    BY DEF ReadManifest, bucket
  <2>2. /\ unread \in [Ops -> SUBSET Points] /\ listed \in [Ops -> [Points -> Nat]]
        /\ unread' = [unread EXCEPT ![o] = @ \ {p}]
    BY <1>1 DEF TypeOK
  <2>3. p \in Ready => p \in ToMark(o)'
    BY <1>1, <1>2, <2>2 DEF ToMark, TimesDiffer
  <2>4. ASSUME NEW w \in Ops, NEW q \in ToMark(w), q # p PROVE q \in ToMark(w)'
    BY <1>2, <2>2, <2>4 DEF ToMark
  <2>5. ASSUME NEW w \in Ops \ {o}, p \in ToMark(w) PROVE p \in ToMark(w)'
    BY <1>2, <2>2, <2>5 DEF ToMark
  <2>6. \A w \in Pruning : Spared(w)' \subseteq Spared(w)
    BY <2>1, <2>2, <2>3, <2>4, <2>5 DEF Spared, Ready, Pruning
  <2>7. Pruning' = Pruning /\ Ready' = Ready /\ \A w \in Pruning : Keeps(w)' = Keeps(w)
    BY <2>1 DEF Pruning, HasArchive, HasBackup, Ready, Keeps
  <2> QED
    BY <2>6, <2>7, FewerSpared
<1> QED
    BY <1>1, <1>2, Zenon

LEMMA EndingSparesFew ==
    ASSUME TypeOK, FinitelyMany, AllSpareFew,
           \/ Crash \/ VeleroStep \/ UNCHANGED vars
           \/ \E o \in Ops : VeleroRejects(o) \/ Interrupt(o)
    PROVE  AllSpareFew'
<1>1. CASE VeleroStep \/ UNCHANGED vars
  <2>1. UNCHANGED <<status, pc, unread, listed>>
    BY <1>1 DEF VeleroStep, vars, bucket, attempt
  <2> QED
    BY <2>1, FewerSpared DEF Ready, Pruning, HasArchive, HasBackup, Spared, ToMark, Keeps
<1>2. CASE Crash
  <2>1. Ready' = Ready /\ Pruning' = {}
    BY <1>2 DEF Crash, bucket, Ready, Pruning, HasArchive, HasBackup
  <2> QED
    BY <2>1, FewerSpared
<1>3. ASSUME NEW o \in Ops, VeleroRejects(o) \/ Interrupt(o) PROVE AllSpareFew'
  <2>1. EndAttempt(o, "idle") /\ UNCHANGED bucket
    BY <1>3 DEF VeleroRejects, Interrupt
  <2>2. /\ pc' = [pc EXCEPT ![o] = "idle"] /\ unread' = [unread EXCEPT ![o] = {}]
        /\ pc \in [Ops -> Step] /\ unread \in [Ops -> SUBSET Points]
        /\ Ready' = Ready
        /\ \A w \in Ops \ {o} : ToMark(w)' = ToMark(w)
    BY <2>1, EndAttemptLists DEF EndAttempt, Goto, TypeOK, bucket, Ready
  <2>3. Pruning' = Pruning \ {o}
    BY <2>2 DEF Pruning, HasArchive, HasBackup
  <2>4. \A w \in Pruning \ {o} : Spared(w)' = Spared(w) /\ Keeps(w)' = Keeps(w)
    BY <2>2 DEF Pruning, Spared, Keeps
  <2> QED
    BY <2>2, <2>3, <2>4, FewerSpared
<1> QED
    BY <1>1, <1>2, <1>3

\* Reading is what an attempt does with its list of manifests before anything else.
LEMMA StepReadsFirst ==
    ASSUME TypeOK, \A o \in Ops : pc[o] # "listing" => unread[o] = {}, [Next]_vars
    PROVE  \A o \in Ops : pc'[o] # "listing" => unread'[o] = {}
<1> SUFFICES ASSUME NEW w \in Ops, pc'[w] # "listing" PROVE unread'[w] = {}
    OBVIOUS
<1> pc \in [Ops -> Step] /\ unread \in [Ops -> SUBSET Points]
    BY DEF TypeOK
<1>1. ASSUME NEW o \in Ops,
             \/ Start(o) \/ CreateBackup(o) \/ BackupCompleted(o) \/ UploadState(o)
             \/ RequestDeletion(o) \/ DeletionProcessed(o) \/ RemoveArchive(o)
             \/ RemoveManifest(o) \/ SelectExpired(o) \/ MarkExpired(o)
      PROVE  unread'[w] = {}
  <2>1. unread' = unread
    BY <1>1 DEF Start, CreateBackup, BackupCompleted, UploadState, RequestDeletion,
                DeletionProcessed, RemoveArchive, RemoveManifest, SelectExpired, MarkExpired
  <2>2. pc[w] # "listing" \/ unread[w] = {}
    BY <1>1 DEF Start, CreateBackup, BackupCompleted, UploadState, RequestDeletion,
                DeletionProcessed, RemoveArchive, RemoveManifest, SelectExpired, MarkExpired,
                Goto
  <2> QED
    BY <2>1, <2>2
<1>2. ASSUME NEW o \in Ops, ListKeys(o) PROVE unread'[w] = {}
    BY <1>2 DEF ListKeys, Goto
<1>3. ASSUME NEW o \in Ops, ReadManifest(o) PROVE unread'[w] = {}
  <2>1. pc' = pc /\ pc[o] = "listing"
    BY <1>3 DEF ReadManifest
  <2>2. PICK p \in unread[o] : unread' = [unread EXCEPT ![o] = @ \ {p}]
    BY <1>3, ReadOne
  <2> QED
    BY <2>1, <2>2
<1>4. ASSUME NEW o \in Ops, NEW outcome, EndAttempt(o, outcome) PROVE unread'[w] = {}
    BY <1>4 DEF EndAttempt, Goto
<1>5. ASSUME NEW o \in Ops, VeleroRejects(o) \/ Interrupt(o)
                            \/ Publish(o, "succeeded") \/ Publish(o, "idle")
      PROVE  unread'[w] = {}
    BY <1>4, <1>5 DEF VeleroRejects, Interrupt, Publish
<1>6. ASSUME Crash PROVE unread'[w] = {}
    BY <1>6 DEF Crash
<1>7. ASSUME VeleroStep \/ UNCHANGED vars PROVE unread'[w] = {}
    BY <1>7 DEF VeleroStep, vars, attempt
<1> QED
    BY <1>1, <1>2, <1>3, <1>5, <1>6, <1>7 DEF Next, Proceed

-----------------------------------------------------------------------------
(* The theorem.                                                               *)

LEMMA InitRetentionIInv == Init => RetentionIInv
<1> SUFFICES ASSUME Init PROVE RetentionIInv
    OBVIOUS
<1>1. TypeOK
    BY InitTypeOK
<1>2. /\ \A o \in Ops : pc[o] = "idle" /\ time[o] = 0 /\ unread[o] = {}
      /\ \A o \in Ops, p \in Points : listed[o][p] = 0
      /\ \A p \in Points : createdAt[p] = 0 /\ status[p] = "none"
    BY DEF Init, ObjectStoreInit
<1>3. /\ Ready = {} /\ Running = {} /\ Pruning = {}
      /\ \A o \in Ops : ToMark(o) = {} /\ ~ HasArchive(o)
    BY <1>2 DEF Ready, Running, Active, Pruning, HasArchive, HasBackup, ToMark
<1>4. TimesDiffer
  <2>1. \A p \in Points : TimesOf(p) \subseteq {0}
    BY <1>2 DEF TimesOf
  <2> QED
    BY <1>3, <2>1 DEF TimesDiffer
<1>5. FinitelyMany
    BY <1>3, FS_EmptySet, BoundsAssumption DEF FinitelyMany
<1>6. AllSpareFew
  <2> DEFINE older == [o \in Pruning |-> {}]
  <2>1. older \in [Pruning -> SUBSET Pruning] /\ {} \in SUBSET Pruning
    OBVIOUS
  <2>2. Cardinality(Ready) + Cardinality({}) <= MaxRetention - 1 + MaxConcurrent
    BY <1>3, FS_EmptySet, MaxRetentionType, BoundsAssumption
  <2>3. SparesFew(older, {})
    BY <1>3, <2>2 DEF SparesFew
  <2> QED
    BY <2>1, <2>3 DEF AllSpareFew
<1> QED
    BY <1>1, <1>2, <1>4, <1>5, <1>6 DEF RetentionIInv

\* A listing that missed a manifest is never forgotten.
LEMMA MissedStays == [Next]_vars /\ ~ missed' => ~ missed
<1> SUFFICES ASSUME [Next]_vars, missed PROVE missed'
    BY Zenon
<1>1. ASSUME UNCHANGED missed PROVE missed'
    BY <1>1, Zenon
<1>2. ASSUME NEW o \in Ops, ReadManifest(o) PROVE missed'
    BY <1>2, Zenon DEF ReadManifest
<1>3. ASSUME NEW o \in Ops, Start(o) \/ Interrupt(o) \/ Publish(o, "succeeded")
                            \/ Publish(o, "idle") \/ (Proceed(o) /\ ~ ReadManifest(o))
      PROVE  UNCHANGED missed
    BY <1>3, Zenon DEF Start, Interrupt, Publish, Proceed, CreateBackup, BackupCompleted,
       UploadState, ListKeys, SelectExpired, MarkExpired, RequestDeletion, DeletionProcessed,
       RemoveArchive, RemoveManifest, VeleroRejects, history
<1>4. ASSUME Crash \/ VeleroStep \/ UNCHANGED vars PROVE UNCHANGED missed
    BY <1>4, Zenon DEF Crash, VeleroStep, vars, history
<1> QED
    BY <1>1, <1>2, <1>3, <1>4, Zenon DEF Next

LEMMA StepRetentionIInv == RetentionIInv /\ [Next]_vars => RetentionIInv'
<1> SUFFICES ASSUME RetentionIInv, [Next]_vars PROVE RetentionIInv'
    OBVIOUS
<1>1. /\ TypeOK /\ TimesDiffer /\ FinitelyMany
      /\ \A o \in Ops : pc[o] # "listing" => unread[o] = {}
    BY DEF RetentionIInv
<1>2. /\ TypeOK' /\ TimesDiffer' /\ FinitelyMany'
      /\ \A o \in Ops : pc'[o] # "listing" => unread'[o] = {}
    BY <1>1, StepTypeOK, StepTimesDiffer, StepFinitelyMany, StepReadsFirst
<1>3. ASSUME ~ missed' PROVE AllSpareFew'
  <2>1. AllSpareFew
    BY <1>3, MissedStays, Zenon DEF RetentionIInv
  <2>2. ASSUME NEW o \in Ops, ListKeys(o) PROVE AllSpareFew'
    BY <1>1, <2>1, <2>2, ListKeysSparesFew
  <2>3. ASSUME NEW o \in Ops, ReadManifest(o) PROVE AllSpareFew'
    BY <1>1, <1>3, <2>1, <2>3, ReadManifestSparesFew, Zenon
  <2>4. ASSUME NEW o \in Ops, SelectExpired(o) PROVE AllSpareFew'
    BY <1>1, <2>1, <2>4, SelectExpiredSparesFew
  <2>5. ASSUME NEW o \in Ops, NEW outcome \in {"succeeded", "idle"}, Publish(o, outcome)
        PROVE  AllSpareFew'
    <3>1. unread[o] = {}
        BY <1>1, <2>5 DEF Publish
    <3> QED
        BY <1>1, <2>1, <2>5, <3>1, PublishSparesFew
  <2>6. ASSUME NEW o \in Ops,
               \/ Start(o) \/ CreateBackup(o) \/ BackupCompleted(o) \/ UploadState(o)
               \/ MarkExpired(o) \/ RequestDeletion(o) \/ DeletionProcessed(o)
               \/ RemoveArchive(o) \/ RemoveManifest(o)
        PROVE  AllSpareFew'
    BY <1>1, <2>1, <2>6, OthersSpareFew
  <2>7. ASSUME \/ Crash \/ VeleroStep \/ UNCHANGED vars
               \/ \E o \in Ops : VeleroRejects(o) \/ Interrupt(o)
        PROVE  AllSpareFew'
    BY <1>1, <2>1, <2>7, EndingSparesFew
  <2> QED
    BY <2>2, <2>3, <2>4, <2>5, <2>6, <2>7 DEF Next, Proceed
<1> QED
    BY <1>2, <1>3, Zenon DEF RetentionIInv

\* What an attempt neither hides nor has yet to read is bounded by what it kept of its
\* listing and what ran beside it, in every reachable state (executor.go:213, 243).
THEOREM RetentionInvariant == Spec => []RetentionIInv
  BY InitRetentionIInv, StepRetentionIInv, PTL DEF Spec

\* However many backups run side by side, and however they are interleaved,
\* interrupted and repeated, retention leaves no more points on offer than the
\* largest count configured, but for one point for each attempt running beside
\* the first (Executor.applyRetention runs before the manifest is put).
THEOREM WithinRetention == Spec => []ReadyWithinRetention
<1>1. RetentionIInv => ReadyWithinRetention
  <2> SUFFICES ASSUME FinitelyMany, AllSpareFew
               PROVE  Cardinality(Ready) <= MaxRetention - 1 + MaxConcurrent
    BY Zenon DEF RetentionIInv, ReadyWithinRetention
  <2>1. PICK pending \in SUBSET Pruning :
          Cardinality(Ready) + Cardinality(pending) <= MaxRetention - 1 + MaxConcurrent
    BY DEF AllSpareFew, SparesFew
  <2>2. Cardinality(pending) \in Nat /\ Cardinality(Ready) \in Nat
    BY PruningIsFinite, Fewer, FS_CardinalityType DEF FinitelyMany
  <2> QED
    BY <2>1, <2>2, MaxRetentionType, BoundsAssumption
<1> QED
    BY <1>1, RetentionInvariant, PTL
=============================================================================
