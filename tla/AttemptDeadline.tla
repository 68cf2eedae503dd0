-------------------------- MODULE AttemptDeadline --------------------------
(* The deadlines Embedded Cluster gives the attempts of OperationServer.  The  *)
(* server turns a deadline into a duration when it reads the request, keeps     *)
(* both, and counts the duration from the start of an attempt, which may come    *)
(* much later; a create of an operation that exists already extends them, unless  *)
(* an attempt is running: that keeps the context it was started with.           *)
EXTENDS OperationServer

CONSTANTS
    Deadlines,       \* deadlines Embedded Cluster sends
    MaxClock         \* bound: the time the model ends at

ASSUME DeadlinesAssumption == Deadlines \subseteq Nat \ {0} /\ MaxClock \in Nat

NoDeadline == 0

VARIABLES
    clock,
    incoming,        \* the deadline and duration of the create between its sections
    deadline,        \* [Ids -> Nat]: request.Deadline of the record
    timeout,         \* [Ids -> Nat]: attemptTimeout of the record, 0 for none
    expiry           \* [Ids -> Nat]: when the running attempt's context ends, 0 for never

limits == <<deadline, timeout>>
timedVars == <<vars, clock, incoming, limits, expiry>>

Limit == [deadline : Deadlines \union {NoDeadline}, timeout : Nat]
NoLimit == [deadline |-> NoDeadline, timeout |-> 0]

TimeTypeOK ==
    /\ clock \in 0..MaxClock
    /\ incoming \in Limit
    /\ deadline \in [Ids -> Deadlines \union {NoDeadline}]
    /\ timeout \in [Ids -> Nat]
    /\ expiry \in [Ids -> Nat]
    /\ \A id \in Ids : timeout[id] = 0 <=> deadline[id] = NoDeadline

TimedInit ==
    /\ Init
    /\ clock = 0
    /\ incoming = NoLimit
    /\ deadline = [id \in Ids |-> NoDeadline]
    /\ timeout = [id \in Ids |-> 0]
    /\ expiry = [id \in Ids |-> 0]

-----------------------------------------------------------------------------
(* Seeded defects, to show that the properties notice them.                   *)

\* The new deadline without its duration.
ExtendDeadlineOnly(id, d) ==
    /\ creates = {}
    /\ state[id] # "absent"
    /\ d > clock /\ d > deadline[id]
    /\ deadline' = [deadline EXCEPT ![id] = d]
    /\ timeout' = IF timeout[id] = 0 THEN [timeout EXCEPT ![id] = d - clock] ELSE timeout
    /\ UNCHANGED <<vars, clock, incoming, expiry>>

\* The duration without the deadline.
ExtendTimeoutOnly(id, d) ==
    /\ creates = {}
    /\ state[id] # "absent"
    /\ d > clock /\ d > deadline[id]
    /\ timeout' = [timeout EXCEPT ![id] = d - clock]
    /\ UNCHANGED <<vars, clock, incoming, deadline, expiry>>

\* A canceled operation's attempt keeps its context.
ContextRunsOn(a) == expiry[a.id] # 0 /\ clock >= expiry[a.id]

-----------------------------------------------------------------------------
(* createOperation.                                                           *)

\* A deadline must lie in the future.
Begin(id, r) ==
    /\ BeginCreate(id, r)
    /\ \/ incoming' = NoLimit
       \/ \E d \in Deadlines :
            d > clock /\ incoming' = [deadline |-> d, timeout |-> d - clock]
    /\ UNCHANGED <<clock, limits, expiry>>

\* The same request again: its identity is without the deadline.
Extend(id, d) ==
    /\ creates = {}
    /\ state[id] # "absent"
    /\ d > clock /\ d > deadline[id]
    /\ deadline' = [deadline EXCEPT ![id] = d]
    /\ timeout' = [timeout EXCEPT ![id] = d - clock]
    /\ UNCHANGED <<vars, clock, incoming, expiry>>

Inserted(c) ==
    /\ Insert(c)
    /\ IF state[c.id] # "absent"
       THEN UNCHANGED limits
       ELSE /\ deadline' = [deadline EXCEPT ![c.id] = incoming.deadline]
            /\ timeout' = [timeout EXCEPT ![c.id] = incoming.timeout]
    /\ incoming' = NoLimit
    /\ UNCHANGED <<clock, expiry>>

NotInserted(c) ==
    /\ AcceptFails(c) \/ InsertFails(c)
    /\ incoming' = NoLimit
    /\ UNCHANGED <<clock, limits, expiry>>

-----------------------------------------------------------------------------
(* Attempts.                                                                  *)

\* runOperation, called for itself or by a selection, gives the attempt a context.
Runs(id) ==
    /\ Run(id) \/ \E s \in selects : s.id = id /\ RunSelected(s)
    /\ expiry' = IF started'[id] > started[id] /\ timeout[id] # 0
                 THEN [expiry EXCEPT ![id] = clock + timeout[id]] ELSE expiry
    /\ expiry'[id] <= MaxClock
    /\ UNCHANGED <<clock, incoming, limits>>

Finishes(a, outcome) ==
    /\ Finish(a, outcome)
    /\ expiry' = [expiry EXCEPT ![a.id] = 0]
    /\ UNCHANGED <<clock, incoming, limits>>

\* The attempt's context is done: its time is over or the operation is canceled.
ContextDone(a) ==
    state[a.id] = "canceled" \/ (expiry[a.id] # 0 /\ clock >= expiry[a.id])

\* Every wait of the executor ends with its context: the attempt returns an error,
\* or a result it just had.
Stops(a) ==
    /\ ContextDone(a)
    /\ \E outcome \in {"succeeded", "failed"} : Finishes(a, outcome)

Untimed ==
    /\ \/ \E id \in Ids : \/ \E p \in Points, c \in Configs : Select(id, p, c)
                          \/ Upload(id) \/ Cancel(id)
       \/ \E c \in creates : Accept(c)
    /\ UNCHANGED <<clock, incoming, limits, expiry>>

Restarts ==
    /\ Restart
    /\ incoming' = NoLimit
    /\ deadline' = [id \in Ids |-> NoDeadline]
    /\ timeout' = [id \in Ids |-> 0]
    /\ expiry' = [id \in Ids |-> 0]
    /\ UNCHANGED clock

Tick ==
    /\ clock < MaxClock
    /\ clock' = clock + 1
    /\ UNCHANGED <<vars, incoming, limits, expiry>>

TimedNext ==
    \/ \E id \in Ids : (\E r \in Requests : Begin(id, r)) \/ (\E d \in Deadlines : Extend(id, d))
    \/ \E c \in creates : Inserted(c) \/ NotInserted(c)
    \/ \E id \in Ids : Runs(id)
    \/ \E a \in attempts, outcome \in {"succeeded", "failed"} : Finishes(a, outcome)
    \/ Untimed \/ Restarts \/ Tick

\* Time passes, and an attempt whose context is done notices: the executor's calls
\* take the context, and between them it only computes.
TimedSpec ==
    /\ TimedInit /\ [][TimedNext]_timedVars
    /\ WF_timedVars(Tick)
    /\ \A id \in Ids : WF_timedVars(\E a \in attempts : a.id = id /\ Stops(a))

-----------------------------------------------------------------------------
(* Properties.                                                                *)

\* An attempt is never cut short of the latest deadline its operation was given
\* before it began, however late it began and however the deadline was extended
\* (design.md:32-33, server.go:600-601), and only a deadline limits an attempt.
NotCutShort ==
    [][\A id \in Ids : started'[id] > started[id] =>
          IF deadline[id] = NoDeadline THEN expiry'[id] = 0
                                       ELSE expiry'[id] >= deadline[id]]_timedVars

\* An operation with a deadline, and one that is canceled, is not executed for ever,
\* so it can be run again or its data removed.
AttemptEnds ==
    \A id \in Ids :
        (\E a \in attempts : a.id = id /\ (expiry[id] # 0 \/ state[id] = "canceled"))
            ~> ~\E a \in attempts : a.id = id
=============================================================================
