------------------------ MODULE BackupSchedulerProofs ------------------------
(* Theorems about BackupScheduler for any instants and manual backups, any     *)
(* retention count, and any number of failures, cancellations, restarts and    *)
(* changes of the bucket.                                                     *)
EXTENDS BackupScheduler, TLAPS, FiniteSetTheorems, WellFoundedInduction

-----------------------------------------------------------------------------
(* Instants.                                                                  *)

LEMMA OpsAreNumbers ==
    /\ Ops \subseteq Nat /\ Scheduled \subseteq Ops /\ Manual \intersect Scheduled = {}
    /\ None \notin Ops
<1>1. Instants \subseteq Nat /\ Manual \subseteq Nat /\ 0 \in Nat
    BY InstantsAssumption
<1>2. Ops \subseteq Nat /\ Scheduled \subseteq Ops
    BY <1>1 DEF Ops, Scheduled, Initial
<1>3. Manual \intersect Scheduled = {}
    BY InstantsAssumption DEF Scheduled, Initial
<1> QED
    BY <1>2, <1>3, InstantsAssumption

\* A non-empty set of past times has a latest one.
LEMMA LatestExists ==
    ASSUME NEW T, T \subseteq Nat, T # {}, NEW now \in Nat, \A t \in T : t <= now
    PROVE  \E t \in T : \A u \in T : u <= t
<1> DEFINE R == OpToRel(<, Nat)
           D == {now - t : t \in T}
<1>1. D \subseteq Nat /\ D # {}
    <2>1. \A t \in T : now - t \in Nat
        OBVIOUS
    <2> QED
        BY <2>1
<1>2. PICK d \in D : \A e \in D : ~ (<<e, d>> \in R)
    <2> HIDE DEF R, D
    <2>1. IsWellFoundedOn(R, Nat)
        BY NatLessThanWellFounded DEF R
    <2> QED
        BY <1>1, <2>1, WFMin
<1>3. \A e \in D : d <= e
    <2>1. \A e \in D : ~ (e < d)
        BY <1>1, <1>2 DEF OpToRel
    <2> QED
        <3> HIDE DEF R, D
        <3> QED
            BY <1>1, <2>1
<1>4. PICK t \in T : d = now - t
    OBVIOUS
<1>5. ASSUME NEW u \in T PROVE u <= t
    <2>1. d <= now - u
        BY <1>3
    <2>2. u \in Nat /\ t \in Nat
        OBVIOUS
    <2> QED
        BY <1>4, <2>1, <2>2
<1> QED
    BY <1>4, <1>5

\* A time that is not before every instant has a last instant.
LEMMA LastInstantExists ==
    ASSUME NEW t \in Nat, NEW i \in Instants, i <= t
    PROVE  \E j \in LastInstant(t) : i <= j
<1>1. {k \in Instants : k <= t} \subseteq Nat /\ {k \in Instants : k <= t} # {}
    BY InstantsAssumption
<1>2. PICK j \in {k \in Instants : k <= t} : \A u \in {k \in Instants : k <= t} : u <= j
    BY <1>1, LatestExists
<1> QED
    BY <1>2 DEF LastInstant

\* A point made before an instant and one made at or after it are not for the same.
LEMMA InstantsDiffer ==
    ASSUME NEW i \in Instants, NEW s \in Nat, NEW t \in Nat, s < i, i <= t
    PROVE  LastInstant(s) # LastInstant(t)
<1>1. PICK j \in LastInstant(t) : i <= j
    BY LastInstantExists
<1>2. j \in Nat /\ i \in Nat
    BY InstantsAssumption DEF LastInstant
<1> QED
    BY <1>1, <1>2 DEF LastInstant

-----------------------------------------------------------------------------
(* Type correctness.                                                          *)

LEMMA DueIsScheduled == ASSUME NEW seen PROVE Due(seen) \subseteq Scheduled
BY DEF Due, NextOf, Scheduled

LEMMA CountedType ==
    ASSUME NEW bound \in Nat, NEW counter \in 0..bound, counter < bound
    PROVE  counter + 1 \in 0..bound
OBVIOUS

\* Attempts in a state that ends or forgets them hold nothing.
LEMMA EndType ==
    ASSUME TypeOK, NEW o \in Ops, NEW outcome \in {"succeeded", "failed", "canceled"},
           EndAttempt(o, outcome)
    PROVE  /\ pc' \in [Ops -> Step] /\ prepared' \in [Ops -> Nat]
           /\ expired' \in [Ops -> SUBSET Ops]
BY DEF TypeOK, EndAttempt, Step

LEMMA PutType ==
    ASSUME TypeOK, NEW o \in Ops, PutManifest(o)
    PROVE  ready' \subseteq Ops /\ createdAt' \in [Ops -> Nat] /\ repeated' \subseteq Ops
BY DEF TypeOK, PutManifest

LEMMA StepTypeOK == TypeOK /\ [Next]_vars => TypeOK'
<1> SUFFICES ASSUME TypeOK, [Next]_vars PROVE TypeOK'
    OBVIOUS
<1> USE DEF Step, Running
<1>0. {MaxInterruptions, MaxMoves} \subseteq Nat
    BY CountsAssumption
<1>1. CASE Poll
  <2>1. PICK seen \in SUBSET ready :
          /\ asked' \in Due(seen)
          /\ misread' = (misread \/ seen # ready)
          /\ interruptions' = interruptions \/ Counted(interruptions, MaxInterruptions)
    BY <1>1 DEF Poll
  <2>2. misread' \in BOOLEAN
    BY <2>1, Zenon
  <2>3. interruptions' \in 0..MaxInterruptions
    BY <1>0, <2>1, CountedType DEF TypeOK, Counted
  <2> QED
    BY <1>1, <2>1, <2>2, <2>3, DueIsScheduled DEF Poll, TypeOK, points, attempts
<1>2. CASE Submit
  <2>1. asked \in Scheduled
    BY <1>2 DEF Submit, TypeOK
  <2>2. pc' \in [Ops -> Step]
    BY <1>2 DEF Submit, TypeOK
  <2> QED
    BY <1>2, <2>2 DEF Submit, TypeOK, points, counters
<1>3. ASSUME NEW o \in Manual, RunManual(o) PROVE TypeOK'
    BY <1>3 DEF RunManual, TypeOK, points, counters
<1>4. ASSUME NEW o \in Ops, Prepare(o) PROVE TypeOK'
    BY <1>4 DEF Prepare, TypeOK, points, counters
<1>5. ASSUME NEW o \in Ops, ListAndSelect(o) PROVE TypeOK'
  <2>1. expired' \in [Ops -> SUBSET Ops]
    BY <1>5 DEF ListAndSelect, TypeOK, Expired
  <2> QED
    BY <1>5, <2>1 DEF ListAndSelect, TypeOK, points, counters
<1>6. ASSUME NEW o \in Ops, Hide(o) PROVE TypeOK'
    BY <1>6 DEF Hide, TypeOK, counters
<1>7. ASSUME NEW o \in Ops, Publish(o) PROVE TypeOK'
    BY <1>7, EndType, PutType DEF Publish, TypeOK, counters
<1>8. ASSUME NEW o \in Ops, Fail(o) \/ Cancel(o) PROVE TypeOK'
  <2>1. interruptions' \in 0..MaxInterruptions
    BY <1>0, <1>8, CountedType DEF Fail, Cancel, Counted, TypeOK
  <2>2. ready' \subseteq Ops /\ createdAt' \in [Ops -> Nat] /\ repeated' \subseteq Ops
    BY <1>8, PutType DEF Fail, Cancel, TypeOK, points
  <2>3. PICK outcome \in {"failed", "canceled"} :
          EndAttempt(o, outcome) /\ UNCHANGED <<clock, asked, misread, moves>>
    BY <1>8 DEF Fail, Cancel
  <2> QED
    BY <2>1, <2>2, <2>3, EndType DEF TypeOK
<1>9. CASE Restart
  <2>1. interruptions' \in 0..MaxInterruptions
    BY <1>0, <1>9, CountedType DEF Restart, Counted, TypeOK
  <2> QED
    BY <1>9, <2>1 DEF Restart, TypeOK, points
<1>10. CASE MoveBucket
  <2>1. moves' \in 0..MaxMoves
    BY <1>0, <1>10, CountedType DEF MoveBucket, Counted, TypeOK
  <2> QED
    BY <1>10, <2>1 DEF MoveBucket, TypeOK, attempts
<1>11. CASE Tick
    BY <1>11 DEF Tick, TypeOK, points, attempts, counters
<1>12. CASE UNCHANGED vars
    BY <1>12 DEF vars, TypeOK, points, attempts, counters
<1> QED
    BY <1>1, <1>2, <1>3, <1>4, <1>5, <1>6, <1>7, <1>8, <1>9, <1>10, <1>11, <1>12
    DEF Next, Work

LEMMA InitTypeOK == Init => TypeOK
<1> SUFFICES ASSUME Init PROVE TypeOK
    OBVIOUS
<1>1. misread \in BOOLEAN
    BY Zenon DEF Init
<1>2. 0 \in 0..MaxInterruptions /\ 0 \in 0..MaxMoves
    BY CountsAssumption
<1> QED
    BY <1>1, <1>2 DEF Init, TypeOK, Step

\* Every variable keeps its type in every reachable state.
THEOREM TypeCorrect == Spec => []TypeOK
<1>1. Spec => Init /\ [][Next]_vars
    BY PTL DEF Spec
<1> QED
    BY <1>1, InitTypeOK, StepTypeOK, PTL

-----------------------------------------------------------------------------
(* OnePointPerInstant.                                                        *)

\* A scheduled operation that will publish, unless something fails.
Active(o) == asked = o \/ pc[o] \in Running

\* The schedule has one operation at a time.
OneScheduled ==
    /\ asked # None => \A o \in Scheduled : pc[o] \notin Running
    /\ \A o, p \in Scheduled : pc[o] \in Running /\ pc[p] \in Running => o = p

\* Its instant has come, and its point will have been made after that.
InTime(o) ==
    /\ Active(o) => o <= clock
    /\ pc[o] \in {"list", "expire"} => o <= prepared[o]

\* The points that scheduled operations made before are from before its instant.
OthersAreEarlier(o) ==
    \A q \in ready \intersect Scheduled : q # o => o # Initial /\ createdAt[q] < o

ScheduleInv ==
    /\ OneScheduled
    /\ \A o \in Scheduled : InTime(o)
    /\ ~misread => \A o \in Scheduled : Active(o) => OthersAreEarlier(o)
    /\ OnePointPerInstant

\* Steps that make no point and no operation active.
LEMMA NothingNew ==
    ASSUME TypeOK, ScheduleInv, misread' = misread,
           \A o \in Scheduled : Active(o)' => Active(o) /\ o <= clock',
           asked' \in {asked, None},
           \A o \in Scheduled : pc'[o] \in Running => pc[o] \in Running,
           \A o \in Scheduled : pc'[o] \in {"list", "expire"} => o <= prepared'[o],
           \A q \in ready' \intersect Scheduled : q \in ready /\ createdAt'[q] = createdAt[q]
    PROVE  ScheduleInv'
<1>1. OneScheduled'
    BY DEF ScheduleInv, OneScheduled
<1>2. \A o \in Scheduled : InTime(o)'
    BY DEF InTime
<1>3. ~misread => \A o \in Scheduled : Active(o)' => OthersAreEarlier(o)'
    BY DEF ScheduleInv, OthersAreEarlier
<1>4. OnePointPerInstant'
    BY DEF ScheduleInv, OnePointPerInstant
<1> QED
    BY <1>1, <1>2, <1>3, <1>4 DEF ScheduleInv

\* An answer from all ready points names an instant after every one of them.
LEMMA DueIsLater ==
    ASSUME TypeOK, NEW o \in Due(ready), NEW q \in ready
    PROVE  o # Initial /\ createdAt[q] < o
<1>1. PICK p \in Newest(ready) : o \in NextOf({j \in Instants : j > createdAt[p]})
    BY DEF Due
<1>2. createdAt[q] <= createdAt[p] /\ o > createdAt[p] /\ o \in Nat \ {0}
    BY <1>1, InstantsAssumption DEF Newest, NextOf
<1>3. createdAt[q] \in Nat /\ createdAt[p] \in Nat
    BY <1>1 DEF TypeOK, Newest
<1> QED
    BY <1>2, <1>3 DEF Initial

LEMMA DueHasCome ==
    ASSUME TypeOK, NEW seen, NEW o \in Due(seen)
    PROVE  o <= clock
BY DEF Due, Initial, TypeOK

LEMMA PollSchedules == TypeOK /\ ScheduleInv /\ Poll => ScheduleInv'
<1> SUFFICES ASSUME TypeOK, ScheduleInv, Poll PROVE ScheduleInv'
    OBVIOUS
<1>1. PICK seen \in SUBSET ready :
        asked' \in Due(seen) /\ misread' = (misread \/ seen # ready)
    BY DEF Poll
<1>2. /\ UNCHANGED <<clock, ready, createdAt, pc, prepared>>
      /\ \A o \in Scheduled : pc[o] \notin Running
    BY DEF Poll, points, attempts
<1>3. \A o \in Scheduled : Active(o)' => o = asked'
    BY <1>2 DEF Active
<1>4. OneScheduled' /\ \A o \in Scheduled : InTime(o)'
    BY <1>1, <1>2, <1>3, DueHasCome DEF OneScheduled, InTime, ScheduleInv
<1>5. ~misread' => ~misread /\ seen = ready
    BY <1>1, Zenon
<1>6. ~misread' => \A o \in Scheduled : Active(o)' => OthersAreEarlier(o)'
    BY <1>1, <1>2, <1>3, <1>5, DueIsLater DEF OthersAreEarlier
<1>7. OnePointPerInstant'
    BY <1>2, <1>5 DEF ScheduleInv, OnePointPerInstant
<1> QED
    BY <1>4, <1>6, <1>7 DEF ScheduleInv

\* An attempt publishes, whether or not it is told, and is over.
LEMMA PutSchedules ==
    ASSUME TypeOK, ScheduleInv, NEW o \in Ops, PutManifest(o), pc'[o] \notin Running,
           \A p \in Ops \ {o} : pc'[p] = pc[p] /\ prepared'[p] = prepared[p],
           UNCHANGED <<clock, asked, misread>>
    PROVE  ScheduleInv'
<1>1. /\ ready' = ready \union {o} /\ createdAt' = [createdAt EXCEPT ![o] = prepared[o]]
      /\ pc[o] = "expire"
    BY DEF PutManifest
<1>2. CASE o \notin Scheduled
    <2>1. \A p \in Scheduled : p # o /\ p \in Ops
        BY <1>2, OpsAreNumbers
    <2>2. \A p \in Scheduled : Active(p)' => Active(p) /\ p <= clock'
        BY <2>1 DEF Active, ScheduleInv, InTime
    <2>3. \A p \in Scheduled : pc'[p] \in {"list", "expire"} => p <= prepared'[p]
        BY <2>1 DEF ScheduleInv, InTime
    <2>4. \A q \in ready' \intersect Scheduled : q \in ready /\ createdAt'[q] = createdAt[q]
        BY <1>1, <2>1 DEF TypeOK
    <2> QED
        BY <2>1, <2>2, <2>3, <2>4, NothingNew
<1>3. CASE o \in Scheduled
    <2>1. asked = None /\ \A p \in Scheduled : pc[p] \in Running => p = o
        BY <1>1, <1>3 DEF ScheduleInv, OneScheduled, Running
    <2>2. \A p \in Scheduled : pc'[p] \notin Running /\ ~Active(p)'
        BY <2>1, OpsAreNumbers DEF Active
    <2>3. \A p \in Scheduled : InTime(p)'
        BY <2>2 DEF InTime, Running
    <2>4. ASSUME ~misread,
                 NEW p \in ready \intersect Scheduled, p # o
          PROVE  LastInstant(createdAt'[p]) # LastInstant(createdAt'[o])
        <3>1. o # Initial /\ createdAt[p] < o /\ o <= prepared[o]
            BY <1>1, <1>3, <2>4 DEF ScheduleInv, Active, OthersAreEarlier, InTime, Running
        <3>2. o \in Instants
            BY <1>3, <3>1 DEF Scheduled
        <3>3. createdAt'[p] = createdAt[p] /\ createdAt'[o] = prepared[o]
            BY <1>1, <2>4 DEF TypeOK
        <3>4. createdAt[p] \in Nat /\ prepared[o] \in Nat
            BY <2>4 DEF TypeOK
        <3> QED
            BY <3>1, <3>2, <3>3, <3>4, InstantsDiffer
    <2>5. ASSUME ~misread,
                 NEW p \in ready \intersect Scheduled, NEW q \in ready \intersect Scheduled,
                 p # o, q # o, p # q
          PROVE  LastInstant(createdAt'[p]) # LastInstant(createdAt'[q])
        <3>1. createdAt'[p] = createdAt[p] /\ createdAt'[q] = createdAt[q]
            BY <1>1, <2>5 DEF TypeOK
        <3> QED
            BY <2>5, <3>1 DEF ScheduleInv, OnePointPerInstant
    <2>6. OnePointPerInstant'
        BY <1>1, <2>4, <2>5 DEF OnePointPerInstant
    <2> QED
        BY <2>1, <2>2, <2>3, <2>6 DEF ScheduleInv, OneScheduled
<1> QED
    BY <1>2, <1>3

\* An attempt moves on and the others stay where they are.
LEMMA OneMoves ==
    ASSUME TypeOK, NEW o, NEW step, pc' = [pc EXCEPT ![o] = step], NEW p \in Scheduled
    PROVE  pc'[p] = IF p = o THEN step ELSE pc[p]
<1>1. p \in Ops
    BY OpsAreNumbers
<1>2. pc \in [Ops -> Step]
    BY DEF TypeOK
<1> QED
    BY <1>1, <1>2

LEMMA SubmitSchedules == TypeOK /\ ScheduleInv /\ Submit => ScheduleInv'
<1> SUFFICES ASSUME TypeOK, ScheduleInv, Submit PROVE ScheduleInv'
    OBVIOUS
<1>1. /\ asked \in Scheduled /\ asked' = None /\ None \notin Scheduled
      /\ UNCHANGED <<clock, ready, createdAt, prepared, misread>>
    BY OpsAreNumbers DEF Submit, TypeOK, points
<1>2. \A o \in Scheduled : pc[o] \notin Running
    BY <1>1 DEF ScheduleInv, OneScheduled
<1>3. \A o \in Scheduled : pc'[o] = pc[o] \/ (o = asked /\ pc'[o] = "prepare")
    BY OneMoves DEF Submit
<1>4. OneScheduled'
    BY <1>1, <1>2, <1>3 DEF OneScheduled
<1>5. \A o \in Scheduled : Active(o)' => Active(o)
    BY <1>1, <1>2, <1>3 DEF Active
<1>6. \A o \in Scheduled : InTime(o)'
    BY <1>1, <1>2, <1>3, <1>5 DEF ScheduleInv, InTime, Running
<1>7. OnePointPerInstant' /\ \A o \in Scheduled : OthersAreEarlier(o) => OthersAreEarlier(o)'
    BY <1>1 DEF ScheduleInv, OnePointPerInstant, OthersAreEarlier
<1> QED
    BY <1>1, <1>4, <1>5, <1>6, <1>7 DEF ScheduleInv

LEMMA StepScheduleInv == TypeOK /\ ScheduleInv /\ [Next]_vars => ScheduleInv'
<1> SUFFICES ASSUME TypeOK, ScheduleInv, [Next]_vars PROVE ScheduleInv'
    OBVIOUS
<1>1. ASSUME NEW o \in Manual, RunManual(o) PROVE ScheduleInv'
  <2>1. \A p \in Scheduled : pc'[p] = pc[p]
    BY <1>1, OpsAreNumbers DEF RunManual, TypeOK
  <2> QED
    BY <1>1, <2>1, NothingNew DEF RunManual, ScheduleInv, InTime, Active, points
<1>2. ASSUME NEW o \in Ops, Prepare(o) PROVE ScheduleInv'
  <2>1. clock \in Nat /\ clock' = clock + 1 /\ UNCHANGED <<points, asked, misread>>
    BY <1>2 DEF Prepare, TypeOK
  <2>2. \A p \in Scheduled : pc'[p] = pc[p] \/ (p = o /\ pc[p] = "prepare" /\ pc'[p] = "list")
    BY <1>2, OneMoves DEF Prepare
  <2>3. \A p \in Scheduled : Active(p)' => Active(p)
    BY <2>1, <2>2 DEF Active, Running
  <2>4. \A p \in Scheduled : prepared'[p] = IF p = o THEN clock ELSE prepared[p]
    BY <1>2, OpsAreNumbers DEF Prepare, TypeOK
  <2>5. \A p \in Scheduled : Active(p) => p <= clock'
    <3> SUFFICES ASSUME NEW p \in Scheduled, Active(p) PROVE p <= clock'
      OBVIOUS
    <3>1. p <= clock /\ p \in Nat
      BY OpsAreNumbers DEF ScheduleInv, InTime
    <3> QED
      BY <2>1, <3>1
  <2>6. \A p \in Scheduled : pc'[p] \in {"list", "expire"} => p <= prepared'[p]
    BY <2>2, <2>4 DEF ScheduleInv, InTime, Active, Running
  <2> QED
    BY <2>1, <2>2, <2>3, <2>5, <2>6, NothingNew DEF points, Running
<1>3. ASSUME NEW o \in Ops, ListAndSelect(o) PROVE ScheduleInv'
  <2>1. \A p \in Scheduled : pc'[p] = pc[p] \/ (p = o /\ pc[p] = "list" /\ pc'[p] = "expire")
    BY <1>3, OneMoves DEF ListAndSelect
  <2>2. UNCHANGED <<clock, points, prepared, asked, misread>>
    BY <1>3 DEF ListAndSelect
  <2> QED
    BY <2>1, <2>2, NothingNew DEF ScheduleInv, InTime, Active, Running, points
<1>4. ASSUME NEW o \in Ops, Hide(o) PROVE ScheduleInv'
    BY <1>4, NothingNew DEF Hide, ScheduleInv, InTime, Active
<1>5. ASSUME NEW o \in Ops, PutManifest(o), NEW outcome,
             outcome \in {"succeeded", "failed", "canceled"}, EndAttempt(o, outcome),
             UNCHANGED <<clock, asked, misread>>
      PROVE  ScheduleInv'
  <2>1. pc'[o] \notin Running /\
        \A p \in Ops \ {o} : pc'[p] = pc[p] /\ prepared'[p] = prepared[p]
    BY <1>5 DEF EndAttempt, TypeOK, Running
  <2> QED
    BY <1>5, <2>1, PutSchedules
<1>6. ASSUME NEW o \in Ops, Publish(o) PROVE ScheduleInv'
    BY <1>5, <1>6 DEF Publish
<1>7. ASSUME NEW o \in Ops, Fail(o) \/ Cancel(o) PROVE ScheduleInv'
  <2>1. PICK outcome \in {"failed", "canceled"} :
          EndAttempt(o, outcome) /\ UNCHANGED <<clock, asked, misread>>
    BY <1>7 DEF Fail, Cancel
  <2>2. CASE PutManifest(o)
    BY <1>5, <2>1, <2>2
  <2>3. CASE UNCHANGED points
    <3>1. \A p \in Scheduled :
            IF p = o THEN pc'[p] = outcome ELSE pc'[p] = pc[p] /\ prepared'[p] = prepared[p]
      BY <2>1, OpsAreNumbers DEF EndAttempt, TypeOK
    <3> QED
      BY <2>1, <2>3, <3>1, NothingNew DEF ScheduleInv, InTime, Active, Running, points
  <2> QED
    BY <1>7, <2>2, <2>3 DEF Fail, Cancel
<1>8. CASE Restart
  <2>1. \A p \in Scheduled : pc'[p] = "absent"
    BY <1>8, OpsAreNumbers DEF Restart
  <2> QED
    BY <1>8, <2>1, NothingNew DEF Restart, ScheduleInv, InTime, Active, Running, points
<1>9. CASE MoveBucket
    BY <1>9, NothingNew DEF MoveBucket, ScheduleInv, InTime, Active, attempts
<1>10. CASE Tick
  <2>1. clock \in Nat /\ clock' = clock + 1 /\ UNCHANGED <<points, attempts, asked, misread>>
    BY <1>10 DEF Tick, TypeOK
  <2>2. \A p \in Scheduled : Active(p) => p <= clock'
    <3> SUFFICES ASSUME NEW p \in Scheduled, Active(p) PROVE p <= clock'
      OBVIOUS
    <3>1. p <= clock /\ p \in Nat
      BY OpsAreNumbers DEF ScheduleInv, InTime
    <3> QED
      BY <2>1, <3>1
  <2>3. \A p \in Scheduled : Active(p)' => Active(p)
    BY <2>1 DEF Active, attempts
  <2> QED
    BY <2>1, <2>2, <2>3, NothingNew DEF ScheduleInv, InTime, points, attempts
<1>11. CASE UNCHANGED vars
    BY <1>11, NothingNew DEF vars, points, attempts, ScheduleInv, InTime, Active
<1> QED
    BY <1>1, <1>2, <1>3, <1>4, <1>6, <1>7, <1>8, <1>9, <1>10, <1>11, PollSchedules,
       SubmitSchedules
    DEF Next, Work

LEMMA ScheduleInvariant == Spec => []ScheduleInv
<1>1. Spec => Init /\ [][Next]_vars
    BY PTL DEF Spec
<1>2. Init => ScheduleInv
  <2> SUFFICES ASSUME Init PROVE ScheduleInv
    OBVIOUS
  <2>1. \A o \in Scheduled : pc[o] = "absent" /\ ~Active(o)
    BY OpsAreNumbers DEF Init, Active, Running
  <2> QED
    BY <2>1 DEF Init, ScheduleInv, OneScheduled, InTime, OnePointPerInstant, Running
<1> QED
    BY <1>1, <1>2, TypeCorrect, StepScheduleInv, PTL

\* There are never two ready points from scheduled operations for one instant,
\* unless a schedule was answered from an incomplete listing.
THEOREM InstantsGetOnePoint == Spec => []OnePointPerInstant
<1>1. ScheduleInv => OnePointPerInstant
    BY DEF ScheduleInv
<1> QED
    BY <1>1, ScheduleInvariant, PTL

-----------------------------------------------------------------------------
(* NewestNeverStepsBack.                                                      *)

\* Every creation time is past, and a repeated attempt's is later than the last.
ClockInv ==
    \A o \in Ops :
        /\ createdAt[o] < clock /\ prepared[o] < clock
        /\ pc[o] \in {"list", "expire"} => createdAt[o] < prepared[o]
        /\ expired[o] # {} => pc[o] = "expire"

\* What an attempt is about to hide is older than something offered.
ExpiredIsOlder ==
    \A o \in Ops : \A p \in expired[o] :
        createdAt[p] # 0 /\ \E q \in ready : createdAt[q] > createdAt[p]

NewestInv ==
    /\ ClockInv
    /\ \A p \in ready : createdAt[p] # 0
    /\ RetentionCount > 1 /\ repeated = {} => ExpiredIsOlder

LEMMA NewestTimeIsLatest ==
    TypeOK /\ ClockInv =>
        /\ NewestTime \in {createdAt[p] : p \in ready} \union {0}
        /\ \A p \in ready : createdAt[p] <= NewestTime
<1> SUFFICES ASSUME TypeOK, ClockInv
             PROVE  /\ NewestTime \in {createdAt[p] : p \in ready} \union {0}
                    /\ \A p \in ready : createdAt[p] <= NewestTime
    OBVIOUS
<1> DEFINE times == {createdAt[p] : p \in ready} \union {0}
<1>1. times \subseteq Nat /\ times # {} /\ clock \in Nat /\ \A t \in times : t <= clock
    BY DEF TypeOK, ClockInv
<1>2. \E t \in times : \A u \in times : u <= t
    <2> HIDE DEF times
    <2> QED
        BY <1>1, LatestExists
<1>3. NewestTime \in times /\ \A u \in times : u <= NewestTime
    BY <1>2 DEF NewestTime
<1> QED
    BY <1>3

\* Retention with room for more than the next point expires none that is not older
\* than another one it has seen.
LEMMA ExpiredHaveNewer ==
    ASSUME NEW seen, RetentionCount > 1, NEW p \in Expired(seen, createdAt, RetentionCount)
    PROVE  p \in seen /\ \E q \in seen : createdAt[q] > createdAt[p]
<1> DEFINE newer == {q \in seen : createdAt[q] > createdAt[p]}
<1>1. p \in seen /\ Cardinality(newer) >= RetentionCount - 1
    BY DEF Expired
<1>2. newer # {}
    <2> SUFFICES ASSUME newer = {} PROVE FALSE
        OBVIOUS
    <2>1. Cardinality(newer) = 0
        BY FS_EmptySet
    <2> QED
        <3> HIDE DEF newer
        <3> QED
            BY <1>1, <2>1, CountsAssumption
<1> QED
    BY <1>1, <1>2

\* Steps that only take time or attempts away.
LEMMA NothingPublished ==
    ASSUME TypeOK, NewestInv, clock' \in Nat, clock <= clock',
           \A o \in Ops : /\ prepared'[o] \in {prepared[o], 0}
                          /\ pc'[o] \in {"list", "expire"} =>
                                pc[o] \in {"list", "expire"} /\ prepared'[o] = prepared[o]
                          /\ expired'[o] # {} => pc'[o] = "expire" /\ expired'[o] = expired[o],
           UNCHANGED points
    PROVE  NewestInv'
<1>1. ClockInv'
    BY DEF NewestInv, ClockInv, TypeOK, points
<1>2. /\ \A p \in ready' : createdAt'[p] # 0
      /\ RetentionCount > 1 /\ repeated' = {} => ExpiredIsOlder'
    BY DEF NewestInv, ExpiredIsOlder, points
<1> QED
    BY <1>1, <1>2 DEF NewestInv

LEMMA PublishNewest ==
    ASSUME TypeOK, NewestInv, NEW o \in Ops, PutManifest(o),
           NEW outcome \in {"succeeded", "failed", "canceled"},
           EndAttempt(o, outcome), clock' = clock
    PROVE  NewestInv'
<1>1. /\ createdAt' = [createdAt EXCEPT ![o] = prepared[o]]
      /\ ready' = ready \union {o} /\ repeated \subseteq repeated'
      /\ repeated' = {} => createdAt[o] = 0
      /\ createdAt[o] < prepared[o] /\ prepared[o] < clock
    BY DEF PutManifest, NewestInv, ClockInv
<1>2. /\ createdAt \in [Ops -> Nat] /\ prepared \in [Ops -> Nat] /\ pc \in [Ops -> Step]
      /\ expired \in [Ops -> SUBSET Ops] /\ ready \subseteq Ops /\ clock \in Nat
    BY DEF TypeOK
<1>3. ClockInv'
    BY <1>1, <1>2 DEF EndAttempt, NewestInv, ClockInv
<1>4. \A p \in ready' : createdAt'[p] # 0
    BY <1>1, <1>2 DEF NewestInv
<1>5. ASSUME RetentionCount > 1, repeated' = {} PROVE ExpiredIsOlder'
  <2>1. repeated = {} /\ createdAt[o] = 0 /\ o \notin ready /\ ExpiredIsOlder
    BY <1>1, <1>5 DEF NewestInv
  <2>2. \A w \in Ops : expired'[w] \subseteq expired[w]
    BY <1>2 DEF EndAttempt
  <2> QED
    BY <1>1, <1>2, <2>1, <2>2 DEF ExpiredIsOlder
<1> QED
    BY <1>3, <1>4, <1>5 DEF NewestInv

LEMMA StepNewestInv == TypeOK /\ ScheduleInv /\ NewestInv /\ [Next]_vars => NewestInv'
<1> SUFFICES ASSUME TypeOK, ScheduleInv, NewestInv, [Next]_vars PROVE NewestInv'
    OBVIOUS
<1> /\ createdAt \in [Ops -> Nat] /\ prepared \in [Ops -> Nat] /\ pc \in [Ops -> Step]
    /\ expired \in [Ops -> SUBSET Ops] /\ ready \subseteq Ops /\ clock \in Nat
    BY DEF TypeOK
<1>1. CASE Poll \/ Tick \/ UNCHANGED vars
  <2>1. clock' \in Nat /\ clock <= clock' /\ UNCHANGED <<points, attempts>>
    BY <1>1 DEF Poll, Tick, vars
  <2> QED
    BY <2>1, NothingPublished DEF attempts, NewestInv, ClockInv
<1>2. CASE Submit
  <2>1. pc[asked] \notin Running
    BY <1>2 DEF Submit, TypeOK, ScheduleInv, OneScheduled
  <2>2. \A o \in Ops : pc'[o] = pc[o] \/ (pc'[o] = "prepare" /\ expired[o] = {})
    BY <1>2, <2>1 DEF Submit, NewestInv, ClockInv, Running
  <2> QED
    BY <1>2, <2>2, NothingPublished DEF Submit, NewestInv, ClockInv
<1>3. ASSUME NEW o \in Manual, RunManual(o) PROVE NewestInv'
    BY <1>3, NothingPublished DEF RunManual, NewestInv, ClockInv
<1>4. ASSUME NEW o \in Ops, Prepare(o) PROVE NewestInv'
  <2>1. ClockInv'
    BY <1>4 DEF Prepare, points, NewestInv, ClockInv
  <2> QED
    BY <1>4, <2>1 DEF Prepare, points, NewestInv, ExpiredIsOlder
<1>5. ASSUME NEW o \in Ops, ListAndSelect(o) PROVE NewestInv'
  <2>1. PICK seen \in SUBSET ready :
          expired' = [expired EXCEPT ![o] = Expired(seen, createdAt, RetentionCount)]
    BY <1>5 DEF ListAndSelect
  <2>2. UNCHANGED <<clock, points, prepared>> /\ pc' = [pc EXCEPT ![o] = "expire"] /\ pc[o] = "list"
    BY <1>5 DEF ListAndSelect
  <2>3. ClockInv'
    BY <2>1, <2>2 DEF NewestInv, ClockInv, points
  <2>4. ASSUME RetentionCount > 1, repeated = {} PROVE ExpiredIsOlder'
    <3>1. ExpiredIsOlder
      BY <2>4 DEF NewestInv
    <3>2. ASSUME NEW w \in Ops, NEW p \in expired'[w]
          PROVE  createdAt[p] # 0 /\ \E q \in ready : createdAt[q] > createdAt[p]
      <4>1. CASE w = o
        <5>1. p \in Expired(seen, createdAt, RetentionCount)
          BY <2>1, <3>2, <4>1
        <5>2. p \in seen /\ \E q \in seen : createdAt[q] > createdAt[p]
          BY <2>4, <5>1, ExpiredHaveNewer
        <5> QED
          BY <5>2 DEF NewestInv
      <4>2. CASE w # o
        BY <2>1, <3>1, <3>2, <4>2 DEF ExpiredIsOlder
      <4> QED
        BY <4>1, <4>2
    <3> QED
      BY <2>2, <3>2 DEF ExpiredIsOlder, points
  <2> QED
    BY <2>2, <2>3, <2>4 DEF NewestInv, points
<1>6. ASSUME NEW o \in Ops, Hide(o) PROVE NewestInv'
  <2>1. PICK p \in expired[o] : /\ ready' = ready \ {p}
                                /\ expired' = [expired EXCEPT ![o] = @ \ {p}]
    BY <1>6 DEF Hide, Newest
  <2>2. UNCHANGED <<clock, createdAt, repeated, pc, prepared>> /\ pc[o] = "expire"
    BY <1>6 DEF Hide
  <2>3. ClockInv'
    BY <2>1, <2>2 DEF NewestInv, ClockInv
  <2>4. ASSUME RetentionCount > 1, repeated = {} PROVE ExpiredIsOlder'
    <3>1. ExpiredIsOlder
      BY <2>4 DEF NewestInv
    <3>2. PICK q \in ready : createdAt[q] > createdAt[p]
      BY <3>1 DEF ExpiredIsOlder
    <3>3. \A w \in Ops : expired'[w] \subseteq expired[w]
      BY <2>1
    <3>4. ASSUME NEW w \in Ops, NEW r \in expired'[w]
          PROVE  createdAt[r] # 0 /\ \E s \in ready' : createdAt[s] > createdAt[r]
      <4>1. r \in expired[w] /\ r \in Ops
        BY <3>3, <3>4
      <4>2. PICK s \in ready : createdAt[s] > createdAt[r] /\ createdAt[r] # 0
        BY <3>1, <4>1 DEF ExpiredIsOlder
      <4>3. CASE s = p
        <5>1. q \in ready' /\ createdAt[q] > createdAt[r]
          BY <2>1, <3>2, <4>1, <4>2, <4>3
        <5> QED
          BY <4>2, <5>1
      <4>4. CASE s # p
        BY <2>1, <4>2, <4>4
      <4> QED
        BY <4>3, <4>4
    <3> QED
      BY <2>2, <3>4 DEF ExpiredIsOlder
  <2> QED
    BY <2>1, <2>2, <2>3, <2>4 DEF NewestInv
<1>7. ASSUME NEW o \in Ops, Publish(o) PROVE NewestInv'
    BY <1>7, PublishNewest DEF Publish
<1>8. ASSUME NEW o \in Ops, Fail(o) \/ Cancel(o) PROVE NewestInv'
  <2>1. PICK outcome \in {"failed", "canceled"} : EndAttempt(o, outcome) /\ clock' = clock
    BY <1>8 DEF Fail, Cancel
  <2>2. CASE PutManifest(o)
    BY <2>1, <2>2, PublishNewest
  <2>3. CASE UNCHANGED points
    BY <2>1, <2>3, NothingPublished DEF EndAttempt, NewestInv, ClockInv
  <2> QED
    BY <1>8, <2>2, <2>3 DEF Fail, Cancel
<1>9. CASE Restart
    BY <1>9, NothingPublished DEF Restart
<1>10. CASE MoveBucket
  <2>1. \A o \in Ops : expired[o] = {} /\ pc[o] \notin Running
    BY <1>10 DEF MoveBucket, NewestInv, ClockInv, Running
  <2>2. /\ ready' = {} /\ createdAt' = [o \in Ops |-> 0]
        /\ UNCHANGED <<clock, prepared, pc, expired>>
    BY <1>10 DEF MoveBucket, attempts
  <2>3. ClockInv'
    BY <2>1, <2>2 DEF NewestInv, ClockInv, Running
  <2>4. ExpiredIsOlder' /\ \A p \in ready' : createdAt'[p] # 0
    BY <2>1, <2>2 DEF ExpiredIsOlder
  <2> QED
    BY <2>3, <2>4 DEF NewestInv
<1> QED
    BY <1>1, <1>2, <1>3, <1>4, <1>5, <1>6, <1>7, <1>8, <1>9, <1>10 DEF Next, Work

LEMMA StepNewest ==
    TypeOK /\ NewestInv /\ TypeOK' /\ NewestInv' /\ [Next]_vars =>
        (RetentionCount > 1 /\ moves' = moves /\ repeated = {} => NewestTime' >= NewestTime)
<1> SUFFICES ASSUME TypeOK, NewestInv, TypeOK', NewestInv', [Next]_vars,
                    RetentionCount > 1, moves' = moves, repeated = {}
             PROVE  NewestTime' >= NewestTime
    OBVIOUS
<1> DEFINE IsNewest(t, offered, creation) ==
        t \in {creation[p] : p \in offered} \union {0} /\ \A p \in offered : creation[p] <= t
<1>1. IsNewest(NewestTime, ready, createdAt) /\ IsNewest(NewestTime', ready', createdAt')
  <2>1. (TypeOK /\ ClockInv => IsNewest(NewestTime, ready, createdAt))'
    BY NewestTimeIsLatest, PTL
  <2> QED
    BY <2>1, NewestTimeIsLatest DEF NewestInv
<1>2. /\ createdAt \in [Ops -> Nat] /\ createdAt' \in [Ops -> Nat]
      /\ ready \subseteq Ops /\ ready' \subseteq Ops
    BY DEF TypeOK
\* It is enough that every offered point leaves one that is no older.
<1>3. SUFFICES ASSUME NEW p \in ready PROVE \E q \in ready' : createdAt'[q] >= createdAt[p]
    BY <1>1, <1>2
<1>4. CASE UNCHANGED points
    BY <1>2, <1>4 DEF points
<1>5. ASSUME NEW o \in Ops, PutManifest(o) PROVE \E q \in ready' : createdAt'[q] >= createdAt[p]
  <2>1. /\ createdAt' = [createdAt EXCEPT ![o] = prepared[o]] /\ ready' = ready \union {o}
        /\ createdAt[o] < prepared[o] /\ prepared[o] \in Nat
    BY <1>5 DEF PutManifest, NewestInv, ClockInv, TypeOK
  <2> QED
    BY <1>2, <2>1
<1>6. ASSUME NEW o \in Ops, Hide(o) PROVE \E q \in ready' : createdAt'[q] >= createdAt[p]
  <2>1. PICK r \in expired[o] : ready' = ready \ {r}
    BY <1>6 DEF Hide, Newest
  <2>2. createdAt' = createdAt
    BY <1>6 DEF Hide
  <2>3. PICK q \in ready : createdAt[q] > createdAt[r]
    BY DEF NewestInv, ExpiredIsOlder
  <2>4. CASE p = r
    <3>1. q # r
      BY <1>2, <2>3, <2>4
    <3> QED
      BY <1>2, <2>1, <2>2, <2>3, <2>4, <3>1
  <2>5. CASE p # r
    BY <1>2, <2>1, <2>2, <2>5
  <2> QED
    BY <2>4, <2>5
<1>7. CASE MoveBucket
  <2>1. moves \in Nat /\ moves' = moves + 1
    BY <1>7, CountsAssumption DEF MoveBucket, Counted, TypeOK
  <2> QED
    BY <2>1
<1>8. CASE \/ Poll \/ Submit \/ Restart \/ Tick \/ UNCHANGED vars
           \/ \E o \in Manual : RunManual(o)
           \/ \E o \in Ops : Prepare(o) \/ ListAndSelect(o)
  <2>1. UNCHANGED points
    BY <1>8 DEF Poll, Submit, Restart, Tick, vars, RunManual, Prepare, ListAndSelect
  <2> QED
    BY <1>4, <2>1
<1>9. ASSUME NEW o \in Ops, Publish(o) \/ Fail(o) \/ Cancel(o)
      PROVE  \E q \in ready' : createdAt'[q] >= createdAt[p]
    BY <1>4, <1>5, <1>9 DEF Publish, Fail, Cancel
<1> QED
    BY <1>6, <1>7, <1>8, <1>9 DEF Next, Work

\* Whatever attempts run side by side, whatever listings miss and whatever fails,
\* the newest point offered is never older than before, so that the schedule does
\* not step back, until an operation publishes a second time.
THEOREM NewestStays == Spec => NewestNeverStepsBack
<1>1. Spec => Init /\ [][Next]_vars
    BY PTL DEF Spec
<1>2. Init => NewestInv
    BY DEF Init, NewestInv, ClockInv, ExpiredIsOlder
<1>3. Spec => []NewestInv
    BY <1>1, <1>2, TypeCorrect, ScheduleInvariant, StepNewestInv, PTL
<1>4. [](TypeOK /\ NewestInv) /\ [][Next]_vars => NewestNeverStepsBack
  <2>1. TypeOK /\ NewestInv /\ TypeOK' /\ NewestInv' /\ [Next]_vars =>
          [RetentionCount > 1 /\ moves' = moves /\ repeated = {} => NewestTime' >= NewestTime]_vars
    BY StepNewest
  <2> QED
    BY <2>1, PTL DEF NewestNeverStepsBack
<1> QED
    BY <1>1, <1>3, <1>4, TypeCorrect, PTL
=============================================================================
