-------------------------- MODULE OperationServer --------------------------
(* The lifecycle protocol of internal/protocol.Server: HTTP handlers that run *)
(* concurrently on one operation table, and one goroutine per attempt.        *)
(*                                                                          *)
(* Server.mu makes each critical section atomic, so a handler with one        *)
(* section is one action and a handler that unlocks in between is several:    *)
(* createOperation accepts a restore configuration between its two sections   *)
(* while it holds createMu, and selectRecoveryPoint stages the selection in    *)
(* one section and calls runOperation, which takes another.  Requests that     *)
(* only read, or that are refused, change nothing and have no action.         *)
EXTENDS Naturals

CONSTANTS
    Ids,             \* operation IDs
    Points,          \* recovery points
    Configs,         \* restore configurations
    NoPoint,         \* no recovery point in a request
    NoConfig,        \* no configuration in a request, file or Secret
    Requests,        \* the requests Embedded Cluster may create operations from
    MaxAttempts      \* bound: attempts of one operation per process

Request == [kind : {"backup", "bootstrap", "application"},
            point : Points \union {NoPoint},
            config : Configs \union {NoConfig}]

\* What OperationRequest.Validate lets through.  (Of the bootstrap restores only
\* headless ones carry a configuration; nothing else depends on being headless.)
Validate(r) ==
    /\ r.kind = "backup" => r.config = NoConfig
    /\ r.kind = "application" => r.point # NoPoint

ASSUME RequestsAssumption ==
    /\ NoPoint \notin Points /\ NoConfig \notin Configs
    /\ Requests \subseteq Request
    /\ \A r \in Requests : Validate(r)
ASSUME AttemptsAssumption == MaxAttempts \in Nat

NoRequest == [kind |-> "none", point |-> NoPoint, config |-> NoConfig]

VARIABLES
    state,           \* [Ids -> State]: status.State, "absent" without a record
    request,         \* [Ids -> Requests]: requestJSON, the idempotency identity
    point,           \* [Ids -> Points]: request.RecoveryPointID of the record
    staged,          \* the operations with a configurationPath
    uploaded,        \* the operations with a statePath
    configuration,   \* [Ids -> Configs]: configuration.json in the work directory
    settings,        \* the configuration Secret
    creates,         \* createOperation handlers between their two sections
    selects,         \* selectRecoveryPoint handlers about to call runOperation
    attempts,        \* execute goroutines
    started,         \* [Ids -> Nat]: attempts started by this process
    accepted,        \* history: the create that last succeeded in changing settings
    submitted,       \* history: [Ids -> set of points and configurations sent together]
    restored         \* history: [Ids -> Configs]: what the successful attempt used

table == <<state, request, point, staged, uploaded>>
handlers == <<creates, selects>>
goroutines == <<attempts, started>>
history == <<accepted, submitted, restored>>
vars == <<table, configuration, settings, handlers, goroutines, history>>

State == {"absent", "pending", "running", "succeeded", "failed", "canceled"}
Create == [id : Ids, request : Requests, accepted : BOOLEAN]
Selection == [id : Ids, point : Points, config : Configs]
Attempt == [id : Ids, number : 1..MaxAttempts,
            point : Points \union {NoPoint}, config : Configs \union {NoConfig}]
Pairs == [point : Points \union {NoPoint}, config : Configs \union {NoConfig}]
Pair(p, c) == [point |-> p, config |-> c]

TypeOK ==
    /\ state \in [Ids -> State]
    /\ request \in [Ids -> Requests \union {NoRequest}]
    /\ point \in [Ids -> Points \union {NoPoint}]
    /\ staged \subseteq Ids /\ uploaded \subseteq Ids
    /\ configuration \in [Ids -> Configs \union {NoConfig}]
    /\ settings \in Configs \union {NoConfig}
    /\ creates \subseteq Create /\ selects \subseteq Selection
    /\ attempts \subseteq Attempt
    /\ started \in [Ids -> 0..MaxAttempts]
    /\ \A id \in Ids : \A a \in attempts : a.id = id => a.number <= started[id]
    /\ accepted \in Create \union {NoRequest}
    /\ submitted \in [Ids -> SUBSET Pairs]
    /\ restored \in [Ids -> Configs \union {NoConfig}]

Init ==
    /\ state = [id \in Ids |-> "absent"]
    /\ request = [id \in Ids |-> NoRequest]
    /\ point = [id \in Ids |-> NoPoint]
    /\ staged = {} /\ uploaded = {}
    /\ configuration = [id \in Ids |-> NoConfig]
    /\ settings = NoConfig
    /\ creates = {} /\ selects = {}
    /\ attempts = {}
    /\ started = [id \in Ids |-> 0]
    /\ accepted = NoRequest
    /\ submitted = [id \in Ids |-> {}]
    /\ restored = [id \in Ids |-> NoConfig]

-----------------------------------------------------------------------------
(* Seeded defects, to show that the properties notice them.                   *)

\* createOperation without createMu.
BeginCreateUnlocked(id, r) ==
    /\ state[id] = "absent"
    /\ creates' = creates \union {[id |-> id, request |-> r, accepted |-> FALSE]}
    /\ UNCHANGED <<table, configuration, settings, selects, goroutines, history>>

\* runOperation without the check for an attempt that is running.
RunnableAgain(id) ==
    /\ state[id] \in {"pending", "running", "failed"}
    /\ request[id].kind = "backup" => id \in uploaded
    /\ request[id].kind = "bootstrap" => point[id] # NoPoint /\ id \in staged

\* A failed start that forgets to leave "running".
LaunchFailsRunning(id) ==
    /\ state[id] \in {"pending", "failed"}
    /\ request[id].kind = "bootstrap" /\ point[id] # NoPoint /\ id \in staged
    /\ state' = [state EXCEPT ![id] = "running"]
    /\ UNCHANGED <<request, point, staged, uploaded, configuration, settings, goroutines, history>>

\* execute without the check for a cancellation.
FinishCanceled(a, outcome) ==
    /\ attempts' = attempts \ {a}
    /\ state' = [state EXCEPT ![a.id] = outcome]
    /\ restored' = IF outcome = "succeeded"
                   THEN [restored EXCEPT ![a.id] = a.config] ELSE restored
    /\ UNCHANGED <<request, point, staged, uploaded, configuration, settings, handlers, started,
                   accepted, submitted>>

\* The other spelling of the state.
CancelMisspelt(id) ==
    /\ state[id] # "absent"
    /\ state' = [state EXCEPT ![id] = "cancelled"]
    /\ UNCHANGED <<request, point, staged, uploaded, configuration, settings, handlers, goroutines,
                   history>>

\* Staging a selection's configuration only if none is staged yet.
SelectKeepsStaged(id, p, c) ==
    /\ state[id] = "pending"
    /\ request[id].kind = "bootstrap"
    /\ point' = [point EXCEPT ![id] = p]
    /\ configuration' = IF id \in staged THEN configuration ELSE [configuration EXCEPT ![id] = c]
    /\ staged' = staged \union {id}
    /\ selects' = selects \union {[id |-> id, point |-> p, config |-> c]}
    /\ submitted' = [submitted EXCEPT ![id] = @ \union {Pair(p, c)}]
    /\ UNCHANGED <<state, request, uploaded, settings, creates, goroutines, accepted, restored>>

\* Accepting a selection in any state.
SelectAnyTime(id, p, c) ==
    /\ request[id].kind = "bootstrap"
    /\ point' = [point EXCEPT ![id] = p]
    /\ configuration' = [configuration EXCEPT ![id] = c]
    /\ staged' = staged \union {id}
    /\ selects' = selects \union {[id |-> id, point |-> p, config |-> c]}
    /\ submitted' = [submitted EXCEPT ![id] = @ \union {Pair(p, c)}]
    /\ UNCHANGED <<state, request, uploaded, settings, creates, goroutines, accepted, restored>>

-----------------------------------------------------------------------------
(* createOperation.                                                           *)

\* The file is replaced in one step, by a rename.
StageConfiguration(id, c) ==
    /\ configuration' = [configuration EXCEPT ![id] = c]
    /\ staged' = staged \union {id}

\* Takes createMu and finds no record of the ID.  A record of the same request
\* is answered with its status (it may also extend the deadline, see AttemptDeadline;
\* here an attempt may end at any moment), one of another request with a conflict.
BeginCreate(id, r) ==
    /\ creates = {}
    /\ state[id] = "absent"
    /\ creates' = {[id |-> id, request |-> r, accepted |-> FALSE]}
    /\ UNCHANGED <<table, configuration, settings, selects, goroutines, history>>

NeedsAcceptance(c) ==
    c.request.kind = "application" /\ c.request.config # NoConfig /\ ~c.accepted

\* AcceptRestoreConfiguration has published the configuration Secret.
Accept(c) ==
    /\ NeedsAcceptance(c)
    /\ settings' = c.request.config
    /\ accepted' = c
    /\ creates' = (creates \ {c}) \union {[c EXCEPT !.accepted = TRUE]}
    /\ UNCHANGED <<table, configuration, selects, goroutines, submitted, restored>>

\* It failed, before or after the Secret changed; no record is made.
AcceptFails(c) ==
    /\ NeedsAcceptance(c)
    /\ \/ UNCHANGED <<settings, accepted>>
       \/ settings' = c.request.config /\ accepted' = NoRequest
    /\ creates' = creates \ {c}
    /\ UNCHANGED <<table, configuration, selects, goroutines, submitted, restored>>

\* The second section: the record is made unless one appeared meanwhile.
Insert(c) ==
    /\ ~NeedsAcceptance(c)
    /\ creates' = creates \ {c}
    /\ LET id == c.id  r == c.request
           stages == r.kind = "bootstrap" /\ r.config # NoConfig
       IN  IF state[id] # "absent"
           THEN UNCHANGED <<table, configuration, submitted>>
           ELSE /\ state' = [state EXCEPT ![id] = "pending"]
                /\ request' = [request EXCEPT ![id] = r]
                /\ point' = [point EXCEPT ![id] = r.point]
                /\ IF stages THEN StageConfiguration(id, r.config)
                             ELSE UNCHANGED <<configuration, staged>>
                /\ submitted' = [submitted EXCEPT ![id] = {Pair(r.point, r.config)}]
                /\ UNCHANGED uploaded
    /\ UNCHANGED <<settings, selects, goroutines, accepted, restored>>

\* stageConfiguration failed, or a caller went away: no record either.
InsertFails(c) ==
    /\ ~NeedsAcceptance(c)
    /\ c.request.kind = "bootstrap" /\ c.request.config # NoConfig
    /\ creates' = creates \ {c}
    /\ UNCHANGED <<table, configuration, settings, selects, goroutines, history>>

-----------------------------------------------------------------------------
(* uploadState, runOperation, execute.                                        *)

Upload(id) ==
    /\ state[id] # "absent"
    /\ request[id].kind = "backup"
    /\ uploaded' = uploaded \union {id}
    /\ UNCHANGED <<state, request, point, staged, configuration, settings, handlers, goroutines,
                   history>>

\* None of runOperation's early returns applies.
Runnable(id) ==
    /\ state[id] \in {"pending", "failed"}
    /\ request[id].kind = "backup" => id \in uploaded
    /\ request[id].kind = "bootstrap" => point[id] # NoPoint /\ id \in staged

\* The file is read under the lock that sets the state: the attempt gets the
\* point and the configuration of one moment.
Launch(id) ==
    /\ Runnable(id)
    /\ started[id] < MaxAttempts
    /\ state' = [state EXCEPT ![id] = "running"]
    /\ started' = [started EXCEPT ![id] = @ + 1]
    /\ attempts' = attempts \union
            {[id |-> id, number |-> started[id] + 1, point |-> point[id],
              config |-> IF request[id].kind = "bootstrap" THEN configuration[id] ELSE NoConfig]}
    /\ UNCHANGED <<request, point, staged, uploaded, configuration, settings, history>>

\* The staged configuration cannot be read.
LaunchFails(id) ==
    /\ Runnable(id)
    /\ request[id].kind = "bootstrap"
    /\ state' = [state EXCEPT ![id] = "failed"]
    /\ UNCHANGED <<request, point, staged, uploaded, configuration, settings, goroutines, history>>

Run(id) ==
    /\ Launch(id) \/ LaunchFails(id)
    /\ UNCHANGED handlers

\* The executor returned; a canceled operation ignores its answer.
Finish(a, outcome) ==
    /\ attempts' = attempts \ {a}
    /\ IF state[a.id] = "canceled"
       THEN UNCHANGED <<state, restored>>
       ELSE /\ state' = [state EXCEPT ![a.id] = outcome]
            /\ restored' = IF outcome = "succeeded"
                           THEN [restored EXCEPT ![a.id] = a.config] ELSE restored
    /\ UNCHANGED <<request, point, staged, uploaded, configuration, settings, handlers, started,
                   accepted, submitted>>

-----------------------------------------------------------------------------
(* cancelOperation, selectRecoveryPoint, a restart.                           *)

\* Whatever the state.  The attempt's context is canceled; the attempt itself
\* ends when the executor notices, with any outcome.
Cancel(id) ==
    /\ state[id] # "absent"
    /\ state' = [state EXCEPT ![id] = "canceled"]
    /\ UNCHANGED <<request, point, staged, uploaded, configuration, settings, handlers, goroutines,
                   history>>

Select(id, p, c) ==
    /\ state[id] = "pending"
    /\ request[id].kind = "bootstrap"
    /\ point' = [point EXCEPT ![id] = p]
    /\ StageConfiguration(id, c)
    /\ selects' = selects \union {[id |-> id, point |-> p, config |-> c]}
    /\ submitted' = [submitted EXCEPT ![id] = @ \union {Pair(p, c)}]
    /\ UNCHANGED <<state, request, uploaded, settings, creates, goroutines, accepted, restored>>

\* The handler's call of runOperation, on whatever the table holds by now.
RunSelected(s) ==
    /\ selects' = selects \ {s}
    /\ \/ Launch(s.id) \/ LaunchFails(s.id)
       \/ ~Runnable(s.id)
          /\ UNCHANGED <<table, configuration, settings, goroutines, history>>
    /\ UNCHANGED creates

\* Only the work directory and the Secret survive.
Restart ==
    /\ state' = [id \in Ids |-> "absent"]
    /\ request' = [id \in Ids |-> NoRequest]
    /\ point' = [id \in Ids |-> NoPoint]
    /\ staged' = {} /\ uploaded' = {}
    /\ creates' = {} /\ selects' = {}
    /\ attempts' = {}
    /\ started' = [id \in Ids |-> 0]
    /\ accepted' = NoRequest
    /\ submitted' = [id \in Ids |-> {}]
    /\ restored' = [id \in Ids |-> NoConfig]
    /\ UNCHANGED <<configuration, settings>>

Next ==
    \/ \E id \in Ids :
        \/ \E r \in Requests : BeginCreate(id, r)
        \/ \E p \in Points, c \in Configs : Select(id, p, c)
        \/ Upload(id) \/ Run(id) \/ Cancel(id)
    \/ \E c \in creates : Accept(c) \/ AcceptFails(c) \/ Insert(c) \/ InsertFails(c)
    \/ \E s \in selects : RunSelected(s)
    \/ \E a \in attempts, outcome \in {"succeeded", "failed"} : Finish(a, outcome)
    \/ Restart

Spec == Init /\ [][Next]_vars

-----------------------------------------------------------------------------
(* Properties.                                                                *)

\* Two attempts of an operation never run side by side, however run requests,
\* selections, cancellations and failures interleave: the workflow's steps are
\* not safe against a second attempt of the same operation.
OneAttempt == \A a, b \in attempts : a.id = b.id => a = b

\* An operation is never left "running" with nobody to end it; runOperation
\* would answer every further request with that status.
RunningHasAttempt ==
    \A id \in Ids : state[id] = "running" => \E a \in attempts : a.id = id

\* The comment at server.go:157-159: settings accepted under an operation ID
\* come from the very request the table holds for that ID, so a conflicting
\* create has not touched them.
SettingsMatchRecord ==
    \A id \in Ids :
        accepted # NoRequest /\ state[id] # "absent" =>
            (accepted.id = id => accepted.request = request[id])

\* A bootstrap attempt restores a point with the configuration it was chosen
\* with, never with that of another selection.
AttemptIsOneSelection ==
    \A a \in attempts :
        request[a.id].kind = "bootstrap" => Pair(a.point, a.config) \in submitted[a.id]

\* The configuration downloaded after a bootstrap restore is the one that found
\* and decrypted the point.
HandedOverConfiguration ==
    \A id \in Ids :
        state[id] = "succeeded" /\ request[id].kind = "bootstrap"
            => configuration[id] = restored[id]

\* A canceled operation stays canceled until the process restarts, whatever its
\* attempt answers afterwards.
CanceledIsFinal ==
    [][\A id \in Ids : state[id] = "canceled" => state'[id] \in {"canceled", "absent"}]_vars
=============================================================================
