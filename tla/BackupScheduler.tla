--------------------------- MODULE BackupScheduler ---------------------------
(* Executor.BackupSchedule and what Embedded Cluster makes of its answers: the *)
(* schedule names an operation from nothing but the newest ready point and the *)
(* clock; Embedded Cluster runs it, unless the operation table says it has      *)
(* succeeded, and asks again.  Attempts are BackupWorkflow's in four steps:     *)
(* the data is made and CreatedAt read, the listing, one hiding after the       *)
(* other, the publication.                                                     *)
EXTENDS Retention

CONSTANTS
    Instants,           \* the times at which the cron expression fires
    Manual,             \* manual backup operations
    None,               \* no operation
    RetentionCount,
    MaxClock,           \* bound: how far time passes on its own
    MaxInterruptions,   \* bound: failures, cancellations, restarts and
                        \* misread schedules
    MaxMoves            \* bound: setups that change the bucket

ASSUME InstantsAssumption ==
    /\ Instants \subseteq Nat \ {0}
    /\ Manual \subseteq Nat \ (Instants \union {0})
    /\ None \notin Nat
ASSUME CountsAssumption ==
    RetentionCount \in Nat \ {0} /\ {MaxClock, MaxInterruptions, MaxMoves} \subseteq Nat

\* The operation ID is made from "initial" or from the instant.
Initial == 0
Scheduled == {Initial} \union Instants
Ops == Scheduled \union Manual

VARIABLES
    clock,
    ready,          \* operations whose point is ready, in the configured bucket
    createdAt,      \* [Ops -> Nat]: CreatedAt of the last manifest put in it, or 0
    repeated,       \* history: the operations that published more than once
    pc,             \* [Ops -> Step]: the operation's state, by step while it runs
    prepared,       \* [Ops -> Nat]: CreatedAt of the manifest in the making
    expired,        \* [Ops -> SUBSET Ops]: points the attempt has yet to hide
    asked,          \* the schedule's last answer, until it is acted on
    misread,        \* history: was it ever made from an incomplete listing?
    interruptions, moves

points == <<ready, createdAt, repeated>>
attempts == <<pc, prepared, expired>>
counters == <<interruptions, moves>>
vars == <<clock, points, attempts, asked, misread, counters>>

Running == {"prepare", "list", "expire"}
Step == Running \union {"absent", "succeeded", "failed", "canceled"}

TypeOK ==
    /\ clock \in Nat
    /\ ready \subseteq Ops
    /\ createdAt \in [Ops -> Nat]
    /\ repeated \subseteq Ops
    /\ pc \in [Ops -> Step]
    /\ prepared \in [Ops -> Nat]
    /\ expired \in [Ops -> SUBSET Ops]
    /\ asked \in Scheduled \union {None}
    /\ misread \in BOOLEAN
    /\ interruptions \in 0..MaxInterruptions
    /\ moves \in 0..MaxMoves

Init ==
    /\ clock = 1
    /\ ready = {} /\ createdAt = [o \in Ops |-> 0] /\ repeated = {}
    /\ pc = [o \in Ops |-> "absent"]
    /\ prepared = [o \in Ops |-> 0]
    /\ expired = [o \in Ops |-> {}]
    /\ asked = None /\ misread = FALSE
    /\ interruptions = 0 /\ moves = 0

Counted(counter, bound) == counter < bound /\ counter' = counter + 1

Newest(seen) == {p \in seen : \A q \in seen : createdAt[q] <= createdAt[p]}

\* What a schedule that fires at these instants names next after the newest point:
\* one instant, or none.
NextOf(instants) == {i \in instants : \A j \in instants : i <= j}

-----------------------------------------------------------------------------
(* Seeded defects, to show that the properties notice them.                   *)

\* An instant at which the newest point was made is due again.
DueAgain(seen) ==
    IF seen = {} THEN {Initial}
    ELSE {i \in UNION {NextOf({j \in Instants : j >= createdAt[p]}) : p \in Newest(seen)} :
            clock >= i}

\* The operation is named after the time of the answer.
DueNow(seen) ==
    IF seen = {} THEN {Initial}
    ELSE {clock : i \in {i \in UNION {NextOf({j \in Instants : j > createdAt[p]}) :
                                         p \in Newest(seen)} : clock >= i}}


-----------------------------------------------------------------------------
(* BackupSchedule.                                                            *)

\* The operations a schedule answers from the manifests it has seen: at most one.
Due(seen) ==
    IF seen = {} THEN {Initial}
    ELSE {i \in UNION {NextOf({j \in Instants : j > createdAt[p]}) : p \in Newest(seen)} :
            clock >= i}

\* The manifests are read one after the other and those that cannot be are skipped,
\* so an answer may be made from some of those that are ready by its end.  While an
\* operation it was answered runs, Embedded Cluster waits for that.
Poll ==
    /\ asked = None
    /\ \A o \in Scheduled : pc[o] \notin Running
    /\ \E seen \in SUBSET ready :
        /\ asked' \in Due(seen)
        /\ misread' = (misread \/ seen # ready)
        /\ IF seen = ready THEN UNCHANGED interruptions
                           ELSE Counted(interruptions, MaxInterruptions)
    /\ UNCHANGED <<clock, points, attempts, moves>>

-----------------------------------------------------------------------------
(* Operations.                                                                *)

\* Running an operation that has succeeded only answers its status, and one that was
\* canceled is refused.
Submit ==
    /\ asked # None
    /\ asked' = None
    /\ pc' = IF pc[asked] \in {"succeeded", "canceled"} THEN pc
             ELSE [pc EXCEPT ![asked] = "prepare"]
    /\ UNCHANGED <<clock, points, prepared, expired, misread, counters>>

RunManual(o) ==
    /\ pc[o] \in {"absent", "failed"}
    /\ pc' = [pc EXCEPT ![o] = "prepare"]
    /\ UNCHANGED <<clock, points, prepared, expired, asked, misread, counters>>

\* The Velero backup and the upload are done; no two attempts read one time.
Prepare(o) ==
    /\ pc[o] = "prepare"
    /\ prepared' = [prepared EXCEPT ![o] = clock]
    /\ clock' = clock + 1
    /\ pc' = [pc EXCEPT ![o] = "list"]
    /\ UNCHANGED <<points, expired, asked, misread, counters>>

\* The listing may miss manifests it cannot read.
ListAndSelect(o) ==
    /\ pc[o] = "list"
    /\ \E seen \in SUBSET ready :
        expired' = [expired EXCEPT ![o] = Expired(seen, createdAt, RetentionCount)]
    /\ pc' = [pc EXCEPT ![o] = "expire"]
    /\ UNCHANGED <<clock, points, prepared, asked, misread, counters>>

\* From the newest expired point to the oldest.
Hide(o) ==
    /\ pc[o] = "expire"
    /\ \E p \in Newest(expired[o]) :
        /\ ready' = ready \ {p}
        /\ expired' = [expired EXCEPT ![o] = @ \ {p}]
    /\ UNCHANGED <<clock, createdAt, repeated, pc, prepared, asked, misread, counters>>

EndAttempt(o, outcome) ==
    /\ pc' = [pc EXCEPT ![o] = outcome]
    /\ prepared' = [prepared EXCEPT ![o] = 0]
    /\ expired' = [expired EXCEPT ![o] = {}]

PutManifest(o) ==
    /\ pc[o] = "expire"
    /\ expired[o] = {}
    /\ ready' = ready \union {o}
    /\ createdAt' = [createdAt EXCEPT ![o] = prepared[o]]
    /\ repeated' = repeated \union {p \in {o} : createdAt[p] # 0}

Publish(o) ==
    /\ PutManifest(o)
    /\ EndAttempt(o, "succeeded")
    /\ UNCHANGED <<clock, asked, misread, counters>>

\* A failure anywhere, or of nothing but the reply to the manifest put.
Fail(o) ==
    /\ pc[o] \in Running
    /\ Counted(interruptions, MaxInterruptions)
    /\ PutManifest(o) \/ UNCHANGED points
    /\ EndAttempt(o, "failed")
    /\ UNCHANGED <<clock, asked, misread, moves>>

\* Anybody cancels an operation that has been created, in whatever state it is.  The
\* request its attempt has in flight takes effect now or not at all, every later one
\* fails on the canceled context, and the answer is dropped.
Cancel(o) ==
    /\ pc[o] # "canceled"
    /\ pc[o] # "absent" \/ o = asked
    /\ Counted(interruptions, MaxInterruptions)
    /\ PutManifest(o) \/ UNCHANGED points
    /\ EndAttempt(o, "canceled")
    /\ UNCHANGED <<clock, asked, misread, moves>>

\* The operation table is gone, and with it who has succeeded or was canceled.
Restart ==
    /\ Counted(interruptions, MaxInterruptions)
    /\ pc' = [o \in Ops |-> "absent"]
    /\ prepared' = [o \in Ops |-> 0]
    /\ expired' = [o \in Ops |-> {}]
    /\ UNCHANGED <<clock, points, asked, misread, moves>>

\* A setup turns to an empty bucket while no attempt is running.
MoveBucket ==
    /\ \A o \in Ops : pc[o] \notin Running
    /\ Counted(moves, MaxMoves)
    /\ ready' = {}
    /\ createdAt' = [o \in Ops |-> 0]
    /\ UNCHANGED <<clock, repeated, attempts, asked, misread, interruptions>>

Tick ==
    /\ clock < MaxClock
    /\ clock' = clock + 1
    /\ UNCHANGED <<points, attempts, asked, misread, counters>>

Work(o) == Prepare(o) \/ ListAndSelect(o) \/ Hide(o) \/ Publish(o)

Next ==
    \/ Poll \/ Submit
    \/ \E o \in Manual : RunManual(o)
    \/ \E o \in Ops : Work(o) \/ Fail(o) \/ Cancel(o)
    \/ Restart \/ MoveBucket \/ Tick

\* Embedded Cluster keeps polling and acts on the answer, attempts are scheduled.
\* Nothing is assumed of manual backups, failures, cancellations or the clock.
Spec ==
    /\ Init /\ [][Next]_vars
    /\ WF_vars(Poll) /\ WF_vars(Submit)
    /\ \A o \in Ops : WF_vars(Work(o))

-----------------------------------------------------------------------------
(* Properties.                                                                *)

NewestTime == LET times == {createdAt[p] : p \in ready} \union {0}
              IN  CHOOSE t \in times : \A u \in times : u <= t

\* The newest point offered never gets older (testing.md:41-43), whatever concurrent
\* attempts expire from incomplete listings and whatever fails on the way, until an
\* operation publishes a second time: a retention that listed its first point still
\* counts that with the old ones.  A retention of one point hides the newest before
\* it has the next.
NewestNeverStepsBack ==
    [][RetentionCount > 1 /\ moves' = moves /\ repeated = {} => NewestTime' >= NewestTime]_vars

LastInstant(t) == {i \in Instants : i <= t /\ \A j \in Instants : j <= t => j <= i}

\* There are never two ready points from scheduled operations for one instant, the
\* time before the first instant included (testing.md:42-43), as long as no schedule
\* was answered from an incomplete listing.
OnePointPerInstant ==
    ~misread =>
        \A p, q \in ready \intersect Scheduled :
            LastInstant(createdAt[p]) = LastInstant(createdAt[q]) => p = q

Covered(i) == \E p \in ready : createdAt[p] >= i

\* The schedule names an operation that was canceled: it is refused, and named again,
\* until the process restarts or another backup is the newest.
NamesCanceled == \E o \in Ops : pc[o] = "canceled" /\ o \in Due(ready)


\* "With no complete recovery point, the initial scheduled backup is immediately
\* due" (design.md:88-90): an empty bucket does not stay empty.
EmptyBucketIsFilled == ready = {} ~> ready # {}
=============================================================================
