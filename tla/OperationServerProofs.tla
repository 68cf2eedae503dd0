----------------------- MODULE OperationServerProofs -----------------------
(* Theorems about OperationServer for every set of IDs, points,               *)
(* configurations and requests, and any number of attempts, and about         *)
(* AttemptDeadline, which with its deadlines does nothing that OperationServer *)
(* does not do.                                                               *)
EXTENDS AttemptDeadline, TLAPS

-----------------------------------------------------------------------------
(* Type correctness.                                                          *)

LEMMA InitTypeOK == Init => TypeOK
BY RequestsAssumption, AttemptsAssumption DEF Init, TypeOK, State

\* The attempt a launch starts is well formed.
LEMMA LaunchType ==
    ASSUME TypeOK, NEW id \in Ids, Launch(id), creates' = creates, selects' \subseteq selects
    PROVE  TypeOK'
<1> USE DEF TypeOK, State, Launch, Attempt
<1> DEFINE new == [id |-> id, number |-> started[id] + 1, point |-> point[id],
              config |-> IF request[id].kind = "bootstrap" THEN configuration[id] ELSE NoConfig]
<1>1. new \in Attempt
    BY AttemptsAssumption
<1>2. attempts' \subseteq Attempt
    BY <1>1
<1>3. started' \in [Ids -> 0..MaxAttempts]
    BY AttemptsAssumption
<1>4. \A i \in Ids : \A a \in attempts' : a.id = i => a.number <= started'[i]
    BY <1>1, AttemptsAssumption
<1> QED
    BY <1>2, <1>3, <1>4 DEF history

LEMMA StepTypeOK == TypeOK /\ [Next]_vars => TypeOK'
<1> SUFFICES ASSUME TypeOK, [Next]_vars PROVE TypeOK'
    OBVIOUS
<1> USE DEF TypeOK, table, handlers, goroutines, history, Pairs, Pair
<1>1. ASSUME NEW id \in Ids, NEW r \in Requests, BeginCreate(id, r) PROVE TypeOK'
    BY <1>1 DEF BeginCreate, Create
<1>2. ASSUME NEW c \in creates, Accept(c) PROVE TypeOK'
    BY <1>2, RequestsAssumption DEF Accept, NeedsAcceptance, Create, Request
<1>3. ASSUME NEW c \in creates, AcceptFails(c) PROVE TypeOK'
    BY <1>3, RequestsAssumption DEF AcceptFails, NeedsAcceptance, Create, Request
<1>4. ASSUME NEW c \in creates, Insert(c) PROVE TypeOK'
    BY <1>4, RequestsAssumption DEF Insert, StageConfiguration, Create, Request, State
<1>5. ASSUME NEW c \in creates, InsertFails(c) PROVE TypeOK'
    BY <1>5 DEF InsertFails
<1>6. ASSUME NEW id \in Ids, Upload(id) PROVE TypeOK'
    BY <1>6 DEF Upload
<1>7. ASSUME NEW id \in Ids, LaunchFails(id), creates' = creates, selects' \subseteq selects
      PROVE  TypeOK'
    BY <1>7 DEF LaunchFails, State
<1>8. ASSUME NEW id \in Ids, Run(id) PROVE TypeOK'
    BY <1>7, <1>8, LaunchType DEF Run
<1>9. ASSUME NEW s \in selects, RunSelected(s) PROVE TypeOK'
    BY <1>7, <1>9, LaunchType DEF RunSelected, Selection
<1>10. ASSUME NEW a \in attempts, NEW outcome \in {"succeeded", "failed"}, Finish(a, outcome)
       PROVE  TypeOK'
  <2>1. a.config \in Configs \union {NoConfig}
      BY DEF Attempt
  <2>2. attempts' \subseteq attempts
      BY <1>10 DEF Finish
  <2> QED
      BY <1>10, <2>1, <2>2 DEF Finish, State
<1>11. ASSUME NEW id \in Ids, Cancel(id) PROVE TypeOK'
    BY <1>11 DEF Cancel, State
<1>12. ASSUME NEW id \in Ids, NEW p \in Points, NEW c \in Configs, Select(id, p, c)
       PROVE  TypeOK'
    BY <1>12 DEF Select, StageConfiguration, Selection
<1>13. ASSUME Restart PROVE TypeOK'
    BY <1>13, AttemptsAssumption DEF Restart, State
<1>14. ASSUME UNCHANGED vars PROVE TypeOK'
    BY <1>14 DEF vars
<1> QED
    BY <1>1, <1>2, <1>3, <1>4, <1>5, <1>6, <1>8, <1>9, <1>10, <1>11, <1>12, <1>13, <1>14 DEF Next

\* Every variable keeps its type in every reachable state.
THEOREM TypeCorrect == Spec => []TypeOK
<1>1. Init => TypeOK
    BY InitTypeOK
<1>2. TypeOK /\ [Next]_vars => TypeOK'
    BY StepTypeOK
<1> QED
    BY <1>1, <1>2, PTL DEF Spec

-----------------------------------------------------------------------------
(* One attempt at a time.                                                     *)

\* An attempt belongs to an operation that is running or was canceled meanwhile;
\* neither can be launched again.
AttemptsAreOpen == \A a \in attempts : state[a.id] \in {"running", "canceled"}

\* The inductive invariant behind OneAttempt and RunningHasAttempt.
AttemptInv == OneAttempt /\ RunningHasAttempt /\ AttemptsAreOpen

\* A launch adds one attempt, and leaves the operation running.
LEMMA LaunchAttemptInv ==
    ASSUME TypeOK, AttemptInv, NEW id \in Ids, Launch(id)
    PROVE  AttemptInv'
<1>1. \A a \in attempts : a.id # id
    BY DEF Launch, Runnable, AttemptInv, AttemptsAreOpen
<1> DEFINE new == [id |-> id, number |-> started[id] + 1, point |-> point[id],
              config |-> IF request[id].kind = "bootstrap" THEN configuration[id] ELSE NoConfig]
<1>2. new.id = id /\ attempts' = attempts \union {new}
    BY DEF Launch
<1>3. state' = [state EXCEPT ![id] = "running"]
    BY DEF Launch
<1> HIDE DEF new
<1> QED
    BY <1>1, <1>2, <1>3 DEF AttemptInv, OneAttempt, RunningHasAttempt, AttemptsAreOpen, TypeOK, Attempt

LEMMA StepAttemptInv == TypeOK /\ AttemptInv /\ [Next]_vars => AttemptInv'
<1> SUFFICES ASSUME TypeOK, AttemptInv, [Next]_vars PROVE AttemptInv'
    OBVIOUS
<1> USE DEF AttemptInv, OneAttempt, RunningHasAttempt, AttemptsAreOpen
<1>1. ASSUME attempts' = attempts, state' = state PROVE AttemptInv'
    BY <1>1
<1>2. ASSUME NEW id \in Ids, attempts' = attempts,
             state[id] \in {"absent", "pending", "failed"},
             \E s \in {"pending", "failed"} : state' = [state EXCEPT ![id] = s]
      PROVE  AttemptInv'
    BY <1>2 DEF TypeOK, Attempt
<1>3. ASSUME NEW c \in creates, Insert(c) PROVE AttemptInv'
    BY <1>1, <1>2, <1>3 DEF Insert, TypeOK, Create, table, goroutines
<1>4. ASSUME NEW id \in Ids, LaunchFails(id) PROVE AttemptInv'
    BY <1>2, <1>4 DEF LaunchFails, Runnable, goroutines
<1>5. ASSUME NEW id \in Ids, Run(id) PROVE AttemptInv'
    BY <1>4, <1>5, LaunchAttemptInv DEF Run
<1>6. ASSUME NEW s \in selects, RunSelected(s) PROVE AttemptInv'
    BY <1>1, <1>4, <1>6, LaunchAttemptInv DEF RunSelected, TypeOK, Selection, table, goroutines
<1>7. ASSUME NEW a \in attempts, NEW outcome \in {"succeeded", "failed"}, Finish(a, outcome)
      PROVE  AttemptInv'
    BY <1>7 DEF Finish, TypeOK, Attempt
<1>8. ASSUME NEW id \in Ids, Cancel(id) PROVE AttemptInv'
    BY <1>8 DEF Cancel, goroutines, TypeOK, Attempt
<1>9. ASSUME Restart PROVE AttemptInv'
    BY <1>9 DEF Restart
<1>10. ASSUME NEW c \in creates, Accept(c) \/ AcceptFails(c) \/ InsertFails(c) PROVE AttemptInv'
    BY <1>1, <1>10 DEF Accept, AcceptFails, InsertFails, table, goroutines
<1>11. ASSUME NEW id \in Ids,
              \/ Upload(id)
              \/ \E r \in Requests : BeginCreate(id, r)
              \/ \E p \in Points, c \in Configs : Select(id, p, c)
       PROVE  AttemptInv'
    BY <1>1, <1>11 DEF Upload, BeginCreate, Select, table, goroutines
<1>12. ASSUME UNCHANGED vars PROVE AttemptInv'
    BY <1>1, <1>12 DEF vars, table, goroutines
<1> QED
    BY <1>3, <1>5, <1>6, <1>7, <1>8, <1>9, <1>10, <1>11, <1>12 DEF Next

LEMMA AttemptInvariant == Spec => [](TypeOK /\ AttemptInv)
<1>1. Init => TypeOK /\ AttemptInv
    BY InitTypeOK DEF Init, AttemptInv, OneAttempt, RunningHasAttempt, AttemptsAreOpen
<1>2. TypeOK /\ AttemptInv /\ [Next]_vars => (TypeOK /\ AttemptInv)'
    BY StepTypeOK, StepAttemptInv
<1> QED
    BY <1>1, <1>2, PTL DEF Spec

\* However requests, selections, cancellations and late answers interleave, an
\* operation has at most one attempt (runOperation's early returns).
THEOREM AttemptsNeverOverlap == Spec => []OneAttempt
<1>1. AttemptInv => OneAttempt
    BY DEF AttemptInv
<1> QED
    BY <1>1, AttemptInvariant, PTL

\* A running operation has a goroutine that will end it.
THEOREM RunningIsAttended == Spec => []RunningHasAttempt
<1>1. AttemptInv => RunningHasAttempt
    BY DEF AttemptInv
<1> QED
    BY <1>1, AttemptInvariant, PTL

\* A cancellation holds until a restart forgets the operation, whatever a late
\* attempt answers (execute's check of the state).
THEOREM CancellationIsFinal == Spec => CanceledIsFinal
<1> DEFINE Final == \A id \in Ids : state[id] = "canceled" => state'[id] \in {"canceled", "absent"}
<1>1. TypeOK /\ [Next]_vars => [Final]_vars
  <2> SUFFICES ASSUME TypeOK, Next PROVE Final
      OBVIOUS
  <2> USE DEF TypeOK
  <2>1. ASSUME NEW c \in creates, Insert(c) PROVE Final
      BY <2>1 DEF Insert, Create, table
  <2>2. ASSUME NEW id \in Ids, Launch(id) \/ LaunchFails(id) PROVE Final
      BY <2>2 DEF Launch, LaunchFails, Runnable
  <2>3. ASSUME NEW id \in Ids, Run(id) PROVE Final
      BY <2>2, <2>3 DEF Run
  <2>4. ASSUME NEW s \in selects, RunSelected(s) PROVE Final
      BY <2>2, <2>4 DEF RunSelected, Selection, table
  <2>5. ASSUME NEW a \in attempts, NEW outcome \in {"succeeded", "failed"}, Finish(a, outcome)
        PROVE  Final
      BY <2>5 DEF Finish, Attempt
  <2>6. ASSUME NEW id \in Ids, Cancel(id) PROVE Final
      BY <2>6 DEF Cancel
  <2>7. ASSUME Restart PROVE Final
      BY <2>7 DEF Restart
  <2>8. ASSUME NEW c \in creates, Accept(c) \/ AcceptFails(c) \/ InsertFails(c) PROVE Final
      BY <2>8 DEF Accept, AcceptFails, InsertFails, table
  <2>9. ASSUME NEW id \in Ids,
               \/ Upload(id)
               \/ \E r \in Requests : BeginCreate(id, r)
               \/ \E p \in Points, c \in Configs : Select(id, p, c)
        PROVE  Final
      BY <2>9 DEF Upload, BeginCreate, Select, table
  <2> QED
      BY <2>1, <2>3, <2>4, <2>5, <2>6, <2>7, <2>8, <2>9 DEF Next
<1> QED
    BY <1>1, TypeCorrect, PTL DEF CanceledIsFinal, Spec

-----------------------------------------------------------------------------
(* One selection per attempt.                                                 *)

Bootstrap(id) == request[id].kind = "bootstrap"

\* Only a recorded operation has a staged configuration, and the table and the
\* staged file hold a point and a configuration that were sent together.
StagedTogether ==
    \A id \in staged :
        /\ state[id] # "absent"
        /\ Bootstrap(id) => Pair(point[id], configuration[id]) \in submitted[id]

\* A running attempt works with the configuration that is staged; a selection is
\* refused as soon as the operation has left "pending".
StagedWhileRunning ==
    \A a \in attempts :
        Bootstrap(a.id) /\ state[a.id] = "running" => a.config = configuration[a.id]

\* The inductive invariant behind AttemptIsOneSelection and HandedOverConfiguration.
SelectionInv ==
    /\ StagedTogether /\ StagedWhileRunning
    /\ AttemptIsOneSelection /\ HandedOverConfiguration

LEMMA LaunchSelectionInv ==
    ASSUME TypeOK, AttemptInv, SelectionInv, NEW id \in Ids, Launch(id)
    PROVE  SelectionInv'
<1> DEFINE new == [id |-> id, number |-> started[id] + 1, point |-> point[id],
              config |-> IF request[id].kind = "bootstrap" THEN configuration[id] ELSE NoConfig]
<1>1. /\ new.id = id /\ new.point = point[id]
      /\ Bootstrap(id) => new.config = configuration[id]
    BY DEF Bootstrap
<1>2. attempts' = attempts \union {new}
    BY DEF Launch
<1>3. Bootstrap(id) => id \in staged
    BY DEF Launch, Runnable, Bootstrap
<1>4. state' = [state EXCEPT ![id] = "running"]
    BY DEF Launch
<1>5. UNCHANGED <<request, point, staged, configuration, submitted, restored>>
    BY DEF Launch, history
<1>6. \A a \in attempts : a.id \in Ids /\ a.id # id
    BY DEF Launch, Runnable, AttemptInv, AttemptsAreOpen, TypeOK, Attempt
<1> HIDE DEF new
<1> QED
    BY <1>1, <1>2, <1>3, <1>4, <1>5, <1>6
    DEF SelectionInv, StagedTogether, StagedWhileRunning, AttemptIsOneSelection,
        HandedOverConfiguration, Bootstrap, TypeOK

LEMMA StepSelectionInv == TypeOK /\ AttemptInv /\ SelectionInv /\ [Next]_vars => SelectionInv'
<1> SUFFICES ASSUME TypeOK, AttemptInv, SelectionInv, [Next]_vars PROVE SelectionInv'
    OBVIOUS
<1> USE DEF SelectionInv, StagedTogether, StagedWhileRunning, AttemptIsOneSelection,
            HandedOverConfiguration, Bootstrap
<1>1. ASSUME NEW c \in creates, Insert(c) PROVE SelectionInv'
  <2>1. CASE state[c.id] # "absent"
      BY <1>1, <2>1 DEF Insert, table, goroutines
  <2>2. CASE state[c.id] = "absent"
    <3>1. \A a \in attempts : a.id \in Ids /\ a.id # c.id
        BY <2>2 DEF AttemptInv, AttemptsAreOpen, TypeOK, Attempt
    <3>2. c.id \in Ids /\ c.id \notin staged
        BY <2>2 DEF TypeOK, Create
    <3>3. \A id \in Ids \ {c.id} :
            /\ state'[id] = state[id] /\ request'[id] = request[id]
            /\ point'[id] = point[id] /\ submitted'[id] = submitted[id]
            /\ configuration'[id] = configuration[id]
            /\ id \in staged' <=> id \in staged
        BY <1>1, <2>2 DEF Insert, StageConfiguration, TypeOK
    <3>4. /\ state'[c.id] = "pending"
          /\ point'[c.id] = c.request.point
          /\ submitted'[c.id] = {Pair(c.request.point, c.request.config)}
          /\ c.id \in staged' => configuration'[c.id] = c.request.config
        BY <1>1, <2>2, <3>2 DEF Insert, StageConfiguration, TypeOK
    <3>5. attempts' = attempts /\ restored' = restored /\ staged' \subseteq Ids
        BY <1>1, <2>2, <3>2 DEF Insert, StageConfiguration, goroutines, TypeOK
    <3>6. StagedTogether'
        BY <3>3, <3>4, <3>5
    <3>7. StagedWhileRunning' /\ AttemptIsOneSelection'
        BY <3>1, <3>3, <3>5
    <3>8. HandedOverConfiguration'
        BY <3>3, <3>4, <3>5
    <3> QED
        BY <3>6, <3>7, <3>8
  <2> QED
      BY <2>1, <2>2
<1>2. ASSUME NEW id \in Ids, LaunchFails(id) PROVE SelectionInv'
    BY <1>2 DEF LaunchFails, Runnable, goroutines, history, TypeOK, Attempt
<1>3. ASSUME NEW id \in Ids, Run(id) PROVE SelectionInv'
    BY <1>2, <1>3, LaunchSelectionInv DEF Run
<1>4. ASSUME NEW s \in selects, RunSelected(s) PROVE SelectionInv'
    BY <1>2, <1>4, LaunchSelectionInv DEF RunSelected, TypeOK, Selection, table, goroutines, history
<1>5. ASSUME NEW a \in attempts, NEW outcome \in {"succeeded", "failed"}, Finish(a, outcome)
      PROVE  SelectionInv'
  <2>1. a.id \in Ids /\ state[a.id] \in {"running", "canceled"}
      BY DEF AttemptInv, AttemptsAreOpen, TypeOK, Attempt
  <2>2. \A b \in attempts' : b \in attempts /\ b.id \in Ids
      BY <1>5 DEF Finish, TypeOK, Attempt
  <2>3. UNCHANGED <<request, point, staged, configuration, submitted>>
      BY <1>5 DEF Finish
  <2>4. StagedTogether' /\ AttemptIsOneSelection'
      BY <1>5, <2>1, <2>2, <2>3 DEF Finish, TypeOK
  <2>5. StagedWhileRunning'
      BY <1>5, <2>1, <2>2, <2>3 DEF Finish, TypeOK
  <2>6. HandedOverConfiguration'
      BY <1>5, <2>1, <2>3 DEF Finish, TypeOK
  <2> QED
      BY <2>4, <2>5, <2>6
<1>6. ASSUME NEW id \in Ids, Cancel(id) PROVE SelectionInv'
    BY <1>6 DEF Cancel, goroutines, history, TypeOK, Attempt
<1>7. ASSUME NEW id \in Ids, NEW p \in Points, NEW c \in Configs, Select(id, p, c)
      PROVE  SelectionInv'
  <2>1. \A a \in attempts : a.id \in Ids /\ a.id # id
      BY <1>7 DEF Select, AttemptInv, AttemptsAreOpen, TypeOK, Attempt
  <2>2. \A i \in Ids \ {id} :
          /\ point'[i] = point[i] /\ submitted'[i] = submitted[i]
          /\ configuration'[i] = configuration[i]
          /\ i \in staged' <=> i \in staged
      BY <1>7 DEF Select, StageConfiguration, TypeOK
  <2>3. point'[id] = p /\ configuration'[id] = c /\ Pair(p, c) \in submitted'[id]
      BY <1>7 DEF Select, StageConfiguration, TypeOK
  <2>4. state[id] = "pending" /\ UNCHANGED <<state, request, attempts, restored>>
      BY <1>7 DEF Select, goroutines
  <2>5. staged' \subseteq Ids
      BY <1>7 DEF Select, StageConfiguration, TypeOK
  <2>6. StagedTogether'
      BY <2>2, <2>3, <2>4, <2>5
  <2>7. StagedWhileRunning' /\ AttemptIsOneSelection'
      BY <2>1, <2>2, <2>4
  <2>8. HandedOverConfiguration'
      BY <2>2, <2>4
  <2> QED
      BY <2>6, <2>7, <2>8
<1>8. ASSUME Restart PROVE SelectionInv'
    BY <1>8 DEF Restart
<1>9. ASSUME NEW c \in creates, Accept(c) \/ AcceptFails(c) \/ InsertFails(c) PROVE SelectionInv'
    BY <1>9 DEF Accept, AcceptFails, InsertFails, table, goroutines, history
<1>10. ASSUME NEW id \in Ids, Upload(id) \/ \E r \in Requests : BeginCreate(id, r)
       PROVE  SelectionInv'
    BY <1>10 DEF Upload, BeginCreate, table, goroutines, history
<1>11. ASSUME UNCHANGED vars PROVE SelectionInv'
    BY <1>11 DEF vars, table, goroutines, history
<1> QED
    BY <1>1, <1>3, <1>4, <1>5, <1>6, <1>7, <1>8, <1>9, <1>10, <1>11 DEF Next

LEMMA SelectionInvariant == Spec => []SelectionInv
<1>1. Init => SelectionInv
    BY DEF Init, SelectionInv, StagedTogether, StagedWhileRunning, AttemptIsOneSelection,
           HandedOverConfiguration
<1>2. TypeOK /\ AttemptInv /\ SelectionInv /\ [Next]_vars => SelectionInv'
    BY StepSelectionInv
<1> QED
    BY <1>1, <1>2, AttemptInvariant, PTL DEF Spec

\* A bootstrap attempt never mixes the point of one selection with the
\* configuration of another (the lock around staging and around reading back).
THEOREM SelectionsNeverMix == Spec => []AttemptIsOneSelection
<1>1. SelectionInv => AttemptIsOneSelection
    BY DEF SelectionInv
<1> QED
    BY <1>1, SelectionInvariant, PTL

\* What is handed over after a bootstrap restore is what the restore used.
THEOREM HandOverIsWhatRan == Spec => []HandedOverConfiguration
<1>1. SelectionInv => HandedOverConfiguration
    BY DEF SelectionInv
<1> QED
    BY <1>1, SelectionInvariant, PTL

-----------------------------------------------------------------------------
(* Settings change for the owner of the ID.                                   *)

\* One create is between its sections at a time, and its ID has no record.
CreateAlone ==
    /\ \A c, d \in creates : c = d
    /\ \A c \in creates : state[c.id] = "absent"
    /\ \A c \in creates : c.accepted => c.request.kind = "application"

\* Settings accepted for an ID without a record belong to the create under way.
AcceptedIsPending ==
    accepted # NoRequest /\ state[accepted.id] = "absent" =>
        \E c \in creates :
            c.accepted /\ c.id = accepted.id /\ c.request = accepted.request

\* The inductive invariant behind SettingsMatchRecord.
CreateInv == CreateAlone /\ AcceptedIsPending /\ SettingsMatchRecord

LEMMA StepCreateInv == TypeOK /\ AttemptInv /\ CreateInv /\ [Next]_vars => CreateInv'
<1> SUFFICES ASSUME TypeOK, AttemptInv, CreateInv, [Next]_vars PROVE CreateInv'
    OBVIOUS
<1> USE DEF CreateInv, CreateAlone, AcceptedIsPending, SettingsMatchRecord
<1>0. accepted # NoRequest => accepted.id \in Ids
    BY DEF TypeOK, Create
\* Steps that create no record and leave the creates alone.
<1>1. ASSUME UNCHANGED <<creates, accepted, request>>,
             \A id \in Ids : state'[id] = "absent" <=> state[id] = "absent"
      PROVE  CreateInv'
    BY <1>0, <1>1 DEF TypeOK, Create
<1>2. ASSUME NEW id \in Ids, NEW r \in Requests, BeginCreate(id, r) PROVE CreateInv'
    BY <1>2 DEF BeginCreate, table, history
<1>3. ASSUME NEW c \in creates, Accept(c) PROVE CreateInv'
  <2> DEFINE d == [c EXCEPT !.accepted = TRUE]
  <2>1. creates' = {d} /\ accepted' = c
      BY <1>3 DEF Accept
  <2>2. d.id = c.id /\ d.request = c.request /\ d.accepted
      BY DEF TypeOK, Create
  <2>3. c.request.kind = "application" /\ state[c.id] = "absent" /\ UNCHANGED <<state, request>>
      BY <1>3 DEF Accept, NeedsAcceptance, table
  <2> HIDE DEF d
  <2> QED
      BY <2>1, <2>2, <2>3
<1>4. ASSUME NEW c \in creates, AcceptFails(c) PROVE CreateInv'
    BY <1>4 DEF AcceptFails, NeedsAcceptance, table
<1>5. ASSUME NEW c \in creates, Insert(c) PROVE CreateInv'
  <2>1. c.id \in Ids /\ state[c.id] = "absent" /\ creates' = {} /\ accepted' = accepted
      BY <1>5 DEF Insert, TypeOK, Create
  <2>2. /\ state' = [state EXCEPT ![c.id] = "pending"]
        /\ request' = [request EXCEPT ![c.id] = c.request]
      BY <1>5, <2>1 DEF Insert
  <2> QED
      BY <1>0, <2>1, <2>2 DEF TypeOK
<1>6. ASSUME NEW c \in creates, InsertFails(c) PROVE CreateInv'
    BY <1>6 DEF InsertFails, table, history
<1>7. ASSUME NEW id \in Ids, Launch(id) \/ LaunchFails(id), UNCHANGED creates PROVE CreateInv'
    BY <1>1, <1>7 DEF Launch, LaunchFails, Runnable, history, TypeOK
<1>8. ASSUME NEW id \in Ids, Run(id) PROVE CreateInv'
    BY <1>7, <1>8 DEF Run, handlers
<1>9. ASSUME NEW s \in selects, RunSelected(s) PROVE CreateInv'
  <2>1. s.id \in Ids /\ UNCHANGED creates
      BY <1>9 DEF RunSelected, TypeOK, Selection
  <2>2. CASE Launch(s.id) \/ LaunchFails(s.id)
      BY <1>7, <2>1, <2>2
  <2>3. CASE ~(Launch(s.id) \/ LaunchFails(s.id))
      BY <1>1, <1>9, <2>1, <2>3 DEF RunSelected, table, history
  <2> QED
      BY <2>2, <2>3
<1>10. ASSUME NEW a \in attempts, NEW outcome \in {"succeeded", "failed"}, Finish(a, outcome)
       PROVE  CreateInv'
  <2>1. a.id \in Ids /\ state[a.id] # "absent"
      BY DEF AttemptInv, AttemptsAreOpen, TypeOK, Attempt
  <2> QED
      BY <1>1, <1>10, <2>1 DEF Finish, handlers, TypeOK
<1>11. ASSUME NEW id \in Ids,
              \/ Cancel(id) \/ Upload(id)
              \/ \E p \in Points, c \in Configs : Select(id, p, c)
       PROVE  CreateInv'
    BY <1>1, <1>11 DEF Cancel, Upload, Select, handlers, history, TypeOK
<1>12. ASSUME Restart PROVE CreateInv'
    BY <1>12 DEF Restart
<1>13. ASSUME UNCHANGED vars PROVE CreateInv'
    BY <1>1, <1>13 DEF vars, table, handlers, history
<1> QED
    BY <1>2, <1>3, <1>4, <1>5, <1>6, <1>8, <1>9, <1>10, <1>11, <1>12, <1>13 DEF Next

\* No create changes the settings under an ID that belongs to another request
\* (what createMu is held for).
THEOREM SettingsFollowTheRecord == Spec => []SettingsMatchRecord
<1>1. Init => CreateInv
    BY DEF Init, CreateInv, CreateAlone, AcceptedIsPending, SettingsMatchRecord
<1>2. TypeOK /\ AttemptInv /\ CreateInv /\ [Next]_vars => CreateInv'
    BY StepCreateInv
<1>3. CreateInv => SettingsMatchRecord
    BY DEF CreateInv
<1> QED
    BY <1>1, <1>2, <1>3, AttemptInvariant, PTL DEF Spec

-----------------------------------------------------------------------------
(* AttemptDeadline refines OperationServer, so the theorems carry over; and no  *)
(* attempt is cut short.                                                       *)

LEMMA TimedStepIsStep == [TimedNext]_timedVars => [Next]_vars
<1> SUFFICES ASSUME [TimedNext]_timedVars PROVE [Next]_vars
    OBVIOUS
<1> DEFINE Goal == [Next]_vars
<1>1. ASSUME NEW id \in Ids, NEW r \in Requests, Begin(id, r) PROVE Goal
    BY <1>1 DEF Begin, Next
<1>2. ASSUME NEW id \in Ids, NEW d, Extend(id, d) PROVE Goal
    BY <1>2 DEF Extend
<1>3. ASSUME NEW c \in creates, Inserted(c) \/ NotInserted(c) PROVE Goal
    BY <1>3 DEF Inserted, NotInserted, Next
<1>4. ASSUME NEW id \in Ids, Runs(id) PROVE Goal
    BY <1>4 DEF Runs, Next
<1>5. ASSUME NEW a \in attempts, NEW outcome \in {"succeeded", "failed"}, Finishes(a, outcome)
      PROVE  Goal
    BY <1>5 DEF Finishes, Next
<1>6. CASE Untimed
    BY <1>6 DEF Untimed, Next
<1>7. CASE Restarts
    BY <1>7 DEF Restarts, Next
<1>8. CASE Tick
    BY <1>8 DEF Tick
<1>9. CASE UNCHANGED timedVars
    BY <1>9 DEF timedVars
<1> QED
    BY <1>1, <1>2, <1>3, <1>4, <1>5, <1>6, <1>7, <1>8, <1>9 DEF TimedNext

\* Deadlines add no behaviour to the handlers: whatever holds of every behaviour of
\* OperationServer holds of the server with its clock.
THEOREM DeadlinesImplementServer == TimedSpec => Spec
<1>1. TimedInit => Init
    BY DEF TimedInit
<1> QED
    BY <1>1, TimedStepIsStep, PTL DEF TimedSpec, Spec

-----------------------------------------------------------------------------
(* The invariant.                                                             *)

\* A duration counted from now reaches at least to its deadline.
Reaches(d, t) == (t = 0 <=> d = NoDeadline) /\ d <= t + clock

\* The limits a record or a create holds reach their deadlines, and no context but
\* that of an attempt has an end.
TimeInv ==
    /\ TimeTypeOK
    /\ Reaches(incoming.deadline, incoming.timeout)
    /\ \A id \in Ids : Reaches(deadline[id], timeout[id])
    /\ \A id \in Ids : expiry[id] # 0 => \E a \in attempts : a.id = id

LEMMA InitTimeInv == TimedInit => TimeInv
BY DeadlinesAssumption DEF TimedInit, TimeInv, TimeTypeOK, NoLimit, Limit, NoDeadline, Reaches

\* Steps that leave the limits and the clock alone.
LEMMA LimitsKept ==
    ASSUME TimeInv, UNCHANGED <<clock, incoming, limits>>, expiry' \in [Ids -> Nat],
           \A id \in Ids : expiry'[id] # 0 => \E a \in attempts' : a.id = id
    PROVE  TimeInv'
BY DEF TimeInv, TimeTypeOK, Reaches, limits

\* Steps that leave the contexts alone.
LEMMA ContextsKept ==
    ASSUME TimeInv, expiry' = expiry, attempts' = attempts,
           clock' \in 0..MaxClock, incoming' \in Limit,
           deadline' \in [Ids -> Deadlines \union {NoDeadline}], timeout' \in [Ids -> Nat],
           Reaches(incoming.deadline, incoming.timeout)',
           \A id \in Ids : Reaches(deadline[id], timeout[id])'
    PROVE  TimeInv'
BY DEF TimeInv, TimeTypeOK, Reaches

\* What a create reads from its request.
LEMMA NewLimit ==
    ASSUME TimeInv, NEW d \in Deadlines, d > clock
    PROVE  /\ d - clock \in Nat /\ d - clock # 0 /\ d \in Nat /\ d # NoDeadline
           /\ d <= (d - clock) + clock
BY DeadlinesAssumption DEF TimeInv, TimeTypeOK, NoDeadline

LEMMA StepTimeInv ==
    TypeOK /\ AttemptInv /\ TimeInv /\ [TimedNext]_timedVars => TimeInv'
<1> SUFFICES ASSUME TypeOK, AttemptInv, TimeInv, [TimedNext]_timedVars PROVE TimeInv'
    OBVIOUS
<1>0. NoLimit \in Limit /\ Reaches(NoLimit.deadline, NoLimit.timeout)
    BY DEF NoLimit, Limit, NoDeadline, Reaches, TimeInv, TimeTypeOK
<1>1. ASSUME NEW id \in Ids, NEW r \in Requests, Begin(id, r) PROVE TimeInv'
  <2>1. UNCHANGED <<clock, deadline, timeout, expiry, attempts>>
    BY <1>1 DEF Begin, BeginCreate, limits, goroutines
  <2>2. incoming' \in Limit /\ Reaches(incoming.deadline, incoming.timeout)'
    <3>1. CASE incoming' = NoLimit
      BY <1>0, <2>1, <3>1 DEF Reaches
    <3>2. ASSUME NEW d \in Deadlines, d > clock,
                 incoming' = [deadline |-> d, timeout |-> d - clock]
          PROVE  incoming' \in Limit /\ Reaches(incoming.deadline, incoming.timeout)'
      BY <2>1, <3>2, NewLimit DEF Reaches, Limit
    <3> QED
      BY <1>1, <3>1, <3>2 DEF Begin
  <2> QED
    BY <2>1, <2>2, ContextsKept DEF TimeInv, TimeTypeOK, Reaches
<1>2. ASSUME NEW id \in Ids, NEW d \in Deadlines, Extend(id, d) PROVE TimeInv'
  <2>1. /\ UNCHANGED <<clock, incoming, expiry, attempts>>
        /\ deadline' = [deadline EXCEPT ![id] = d]
        /\ timeout' = [timeout EXCEPT ![id] = d - clock]
        /\ d > clock
    BY <1>2 DEF Extend, vars, goroutines
  <2>2. \A i \in Ids : Reaches(deadline[i], timeout[i])'
    BY <2>1, NewLimit DEF TimeInv, TimeTypeOK, Reaches
  <2> QED
    BY <2>1, <2>2, NewLimit, ContextsKept DEF TimeInv, TimeTypeOK, Reaches
<1>3. ASSUME NEW c \in creates, Inserted(c) PROVE TimeInv'
  <2>1. /\ UNCHANGED <<clock, expiry, attempts>>
        /\ incoming' = NoLimit
        /\ \/ UNCHANGED <<deadline, timeout>>
           \/ /\ deadline' = [deadline EXCEPT ![c.id] = incoming.deadline]
              /\ timeout' = [timeout EXCEPT ![c.id] = incoming.timeout]
    BY <1>3 DEF Inserted, Insert, limits, goroutines
  <2>2. /\ deadline' \in [Ids -> Deadlines \union {NoDeadline}]
        /\ timeout' \in [Ids -> Nat]
    BY <2>1 DEF TimeInv, TimeTypeOK, Limit
  <2>3. \A i \in Ids : Reaches(deadline[i], timeout[i])'
    BY <2>1 DEF TimeInv, TimeTypeOK, Limit, Reaches
  <2> QED
    BY <1>0, <2>1, <2>2, <2>3, ContextsKept DEF TimeInv, TimeTypeOK, Reaches
<1>4. ASSUME NEW c \in creates, NotInserted(c) PROVE TimeInv'
  <2>1. UNCHANGED <<clock, deadline, timeout, expiry, attempts>> /\ incoming' = NoLimit
    BY <1>4 DEF NotInserted, AcceptFails, InsertFails, limits, goroutines
  <2> QED
    BY <1>0, <2>1, ContextsKept DEF TimeInv, TimeTypeOK, Reaches
<1>5. ASSUME NEW id \in Ids, Runs(id) PROVE TimeInv'
  <2>1. /\ UNCHANGED <<clock, incoming, limits>>
        /\ expiry' = IF started'[id] > started[id] /\ timeout[id] # 0
                     THEN [expiry EXCEPT ![id] = clock + timeout[id]] ELSE expiry
    BY <1>5 DEF Runs
  <2>2. expiry' \in [Ids -> Nat]
    BY <2>1 DEF TimeInv, TimeTypeOK
  <2>3. attempts \subseteq attempts'
    BY <1>5 DEF Runs, Run, RunSelected, Launch, LaunchFails, goroutines
  <2>4. CASE started' = started
    <3>1. expiry' = expiry
      BY <2>1, <2>4 DEF TypeOK
    <3> QED
      BY <2>1, <2>2, <2>3, <3>1, LimitsKept DEF TimeInv
  <2>5. CASE started' # started
    <3>1. \E a \in attempts' : a.id = id
      <4>1. Launch(id)
        BY <1>5, <2>5 DEF Runs, Run, RunSelected, LaunchFails, goroutines
      <4> DEFINE new == [id |-> id, number |-> started[id] + 1, point |-> point[id],
              config |-> IF request[id].kind = "bootstrap" THEN configuration[id] ELSE NoConfig]
      <4>2. new.id = id /\ attempts' = attempts \union {new}
        BY <4>1 DEF Launch
      <4> HIDE DEF new
      <4> QED
        BY <4>2
    <3>2. \A i \in Ids \ {id} : expiry'[i] = expiry[i]
      BY <2>1 DEF TimeInv, TimeTypeOK
    <3> QED
      BY <2>1, <2>2, <2>3, <3>1, <3>2, LimitsKept DEF TimeInv
  <2> QED
    BY <2>4, <2>5
<1>6. ASSUME NEW a \in attempts, NEW outcome \in {"succeeded", "failed"}, Finishes(a, outcome)
      PROVE  TimeInv'
  <2>1. /\ UNCHANGED <<clock, incoming, limits>>
        /\ expiry' = [expiry EXCEPT ![a.id] = 0]
        /\ attempts' = attempts \ {a}
    BY <1>6 DEF Finishes, Finish
  <2> QED
    BY <2>1, LimitsKept DEF TimeInv, TimeTypeOK
<1>7. CASE Untimed
  <2>1. UNCHANGED <<clock, incoming, limits, expiry, attempts>>
    BY <1>7 DEF Untimed, Select, Upload, Cancel, Accept, goroutines
  <2> QED
    BY <2>1, LimitsKept DEF TimeInv, TimeTypeOK
<1>8. CASE Restarts
  <2>1. /\ clock' = clock /\ incoming' = NoLimit
        /\ deadline' = [id \in Ids |-> NoDeadline]
        /\ timeout' = [id \in Ids |-> 0] /\ expiry' = [id \in Ids |-> 0]
    BY <1>8 DEF Restarts
  <2> QED
    BY <1>0, <2>1 DEF TimeInv, TimeTypeOK, Reaches, NoDeadline
<1>9. CASE Tick
  <2>0. ASSUME NEW d \in Deadlines \union {NoDeadline}, NEW t \in Nat, Reaches(d, t),
               clock' = clock + 1
        PROVE  Reaches(d, t)'
    BY <2>0, DeadlinesAssumption DEF TimeInv, TimeTypeOK, Reaches, NoDeadline
  <2>1. UNCHANGED <<incoming, deadline, timeout, expiry, attempts>> /\ clock' = clock + 1
    BY <1>9 DEF Tick, limits, vars, goroutines
  <2>2. clock' \in 0..MaxClock
    BY <1>9, DeadlinesAssumption DEF Tick, TimeInv, TimeTypeOK
  <2>3. \A id \in Ids : Reaches(deadline[id], timeout[id])'
    BY <2>0, <2>1 DEF TimeInv, TimeTypeOK
  <2>4. Reaches(incoming.deadline, incoming.timeout)'
    BY <2>0, <2>1 DEF TimeInv, TimeTypeOK, Limit
  <2> QED
    BY <2>1, <2>2, <2>3, <2>4, ContextsKept DEF TimeInv, TimeTypeOK
<1>11. CASE UNCHANGED timedVars
    BY <1>11, LimitsKept DEF timedVars, vars, goroutines, TimeInv, TimeTypeOK
<1> QED
    BY <1>1, <1>2, <1>3, <1>4, <1>5, <1>6, <1>7, <1>8, <1>9, <1>11 DEF TimedNext

LEMMA TimeInvariant == TimedSpec => [](TypeOK /\ AttemptInv /\ TimeInv)
<1>1. TimedSpec => TimedInit /\ [][TimedNext]_timedVars
    BY PTL DEF TimedSpec
<1> QED
    BY <1>1, InitTimeInv, StepTimeInv, AttemptInvariant, DeadlinesImplementServer, PTL

\* Every clock, deadline and duration keeps its type, and a record has a duration
\* exactly if it has a deadline.
THEOREM TimeTypeCorrect == TimedSpec => []TimeTypeOK
<1>1. TimeInv => TimeTypeOK
    BY DEF TimeInv
<1> QED
    BY <1>1, TimeInvariant, PTL

-----------------------------------------------------------------------------
(* NotCutShort.                                                               *)

LEMMA StepNotCutShort ==
    ASSUME TypeOK, AttemptInv, TimeInv, [TimedNext]_timedVars, NEW id \in Ids,
           started'[id] > started[id]
    PROVE  IF deadline[id] = NoDeadline THEN expiry'[id] = 0
                                        ELSE expiry'[id] >= deadline[id]
<1>0. started[id] \in Nat /\ started' # started
    BY DEF TypeOK
<1>1. PICK i \in Ids : Runs(i)
  <2>1. CASE Restarts
    BY <1>0, <2>1 DEF Restarts, Restart
  <2>2. ASSUME UNCHANGED started PROVE FALSE
    BY <1>0, <2>2
  <2>3. CASE Untimed
    BY <2>2, <2>3 DEF Untimed, Select, Upload, Cancel, Accept, goroutines
  <2>4. CASE Tick \/ UNCHANGED timedVars
    BY <2>2, <2>4 DEF Tick, timedVars, vars, goroutines
  <2>5. ASSUME NEW i \in Ids,
               (\E r \in Requests : Begin(i, r)) \/ (\E d \in Deadlines : Extend(i, d))
        PROVE  FALSE
    BY <2>2, <2>5 DEF Begin, BeginCreate, Extend, vars, goroutines
  <2>6. ASSUME NEW c \in creates, Inserted(c) \/ NotInserted(c) PROVE FALSE
    BY <2>2, <2>6 DEF Inserted, Insert, NotInserted, AcceptFails, InsertFails, goroutines
  <2>7. ASSUME NEW a \in attempts, NEW outcome \in {"succeeded", "failed"},
               Finishes(a, outcome)
        PROVE  FALSE
    BY <2>2, <2>7 DEF Finishes, Finish
  <2> QED
    BY <2>1, <2>3, <2>4, <2>5, <2>6, <2>7 DEF TimedNext
<1>2. Launch(i)
    BY <1>0, <1>1 DEF Runs, Run, RunSelected, LaunchFails, goroutines
<1>3. i = id
    BY <1>2 DEF Launch, TypeOK
<1>4. \A a \in attempts : a.id # id
    BY <1>2, <1>3 DEF Launch, Runnable, AttemptInv, AttemptsAreOpen
<1>5. expiry[id] = 0
    BY <1>4 DEF TimeInv
<1>6. expiry' = IF timeout[id] # 0 THEN [expiry EXCEPT ![id] = clock + timeout[id]] ELSE expiry
    BY <1>1, <1>3 DEF Runs
<1>7. Reaches(deadline[id], timeout[id])
    BY DEF TimeInv
<1>8. CASE timeout[id] = 0
    BY <1>5, <1>6, <1>7, <1>8 DEF Reaches
<1>9. CASE timeout[id] # 0
    BY <1>6, <1>7, <1>9, DeadlinesAssumption DEF Reaches, TimeInv, TimeTypeOK, NoDeadline
<1> QED
    BY <1>8, <1>9

\* No attempt is cut short of the latest deadline its operation had when it began,
\* however late it began and however the deadline was extended.
THEOREM AttemptsGetTheirTime == TimedSpec => NotCutShort
<1>1. TypeOK /\ AttemptInv /\ TimeInv /\ [TimedNext]_timedVars =>
        [\A id \in Ids : started'[id] > started[id] =>
            IF deadline[id] = NoDeadline THEN expiry'[id] = 0
                                         ELSE expiry'[id] >= deadline[id]]_timedVars
    BY StepNotCutShort
<1>2. TimedSpec => [][TimedNext]_timedVars
    BY PTL DEF TimedSpec
<1> QED
    BY <1>1, <1>2, TimeInvariant, PTL DEF NotCutShort
=============================================================================
