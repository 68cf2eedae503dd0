--------------------------- MODULE SettingsStore ---------------------------
(* The settings that internal/settings.Store keeps in Kubernetes: a Secret    *)
(* with the whole configuration, and what it derives from it for Velero -- the *)
(* repository password, the proxy Secret, the BackupStorageLocation and a      *)
(* rollout of the Velero deployment.                                          *)
(*                                                                          *)
(* Every save reads what it builds on, then updates the objects one after the  *)
(* other, each by a GET of its resource version and a conditional PUT (or a    *)
(* POST).  Setup requests come straight from the UI and nothing serializes     *)
(* them; a restore configuration is accepted under createMu, which a setup     *)
(* does not take.                                                             *)
EXTENDS Naturals, FiniteSets

CONSTANTS
    Savers,            \* concurrent callers of SaveSetup and SaveRestore
    Kinds,             \* which of the two: a subset of {"setup", "restore"}
    Storages,          \* storage configurations, merged with the stored one
    Keys,              \* recovery keys; bound: saves that generate one
    None,              \* no object, no key
    MaxConcurrentSaves,\* bound: saves at a time
    MaxFailures,       \* bound: saves that fail half-way
    MaxSaves           \* bound: saves in all

ASSUME KindsAssumption == Kinds \subseteq {"setup", "restore"}
ASSUME NoneAssumption == None \notin Storages \union Keys
ASSUME SaveBoundsAssumption ==
    MaxConcurrentSaves \in Nat /\ MaxFailures \in Nat /\ MaxSaves \in Nat

VARIABLES
    password,      \* velero-repo-credentials: a key
    proxy,         \* embedded-cluster-dr-proxy: the storage whose proxy it names
    location,      \* the BackupStorageLocation "default": a storage
    secret,        \* embedded-cluster-dr: the published settings
    version,       \* [Objects -> Nat]: resource versions, 0 before creation
    annotation,    \* the proxy hash on the Velero deployment's pod template
    running,       \* the proxy hash that all its pods have
    step,          \* [Savers -> Step]
    wanted,        \* [Savers -> Settings]: what the save is to establish
    generated,     \* the saves that generated their key
    seen,          \* [Savers -> Nat]: resource version got for the next update
    offered,       \* history: keys answered to the UI as generated
    known,         \* history: keys that somebody may have
    supplied,      \* history: keys that came with a restore configuration
    overlapped,    \* history: has a save begun during another?
    alone,         \* history: the save with no other beside it since it began
    acknowledged,  \* history: what the last save was, if it ran alone and succeeded
    failures, saves

objects == <<password, proxy, location, secret, version>>
deployment == <<annotation, running>>
saver == <<step, wanted, generated, seen>>
counters == <<failures, saves>>
answers == <<overlapped, alone, acknowledged>>
history == <<offered, known, supplied, answers>>
vars == <<objects, deployment, saver, history, counters>>

Objects == {"password", "proxy", "location", "secret"}
Settings == [storage : Storages, key : Keys, paused : BOOLEAN]
Unset == [storage |-> None, key |-> None, paused |-> FALSE]

\* A save gets, then puts each object; the rollout stands before the last.
Idle == <<"idle", "save">>
Step == ({"get", "put"} \X Objects) \union
        {Idle, <<"start", "rollout">>, <<"await", "rollout">>, <<"send", "reply">>}

TypeOK ==
    /\ password \in Keys \union {None}
    /\ {proxy, location, annotation, running} \subseteq Storages \union {None}
    /\ secret \in Settings \union {Unset}
    /\ version \in [Objects -> Nat]
    /\ step \in [Savers -> Step]
    /\ wanted \in [Savers -> Settings \union {Unset}]
    /\ generated \subseteq Savers
    /\ seen \in [Savers -> Nat]
    /\ offered \subseteq known /\ supplied \subseteq known /\ known \subseteq Keys
    /\ overlapped \in BOOLEAN /\ alone \subseteq Savers
    /\ acknowledged \in Settings \union {Unset}
    /\ failures \in 0..MaxFailures /\ saves \in 0..MaxSaves

Init ==
    /\ password = None /\ proxy = None /\ location = None /\ secret = Unset
    /\ version = [name \in Objects |-> 0]
    /\ annotation = None /\ running = None
    /\ step = [s \in Savers |-> Idle]
    /\ wanted = [s \in Savers |-> Unset]
    /\ generated = {}
    /\ seen = [s \in Savers |-> 0]
    /\ offered = {} /\ known = {} /\ supplied = {}
    /\ overlapped = FALSE /\ alone = {} /\ acknowledged = Unset
    /\ failures = 0 /\ saves = 0

Saving(s) == step[s] # Idle
Goto(s, next) == step' = [step EXCEPT ![s] = next]

StartSave(s) ==
    /\ ~Saving(s)
    /\ Cardinality({t \in Savers : Saving(t)}) < MaxConcurrentSaves
    /\ saves < MaxSaves
    /\ saves' = saves + 1
    /\ overlapped' = (overlapped \/ \E t \in Savers : Saving(t))
    /\ alone' = IF \E t \in Savers : Saving(t) THEN {} ELSE {s}
    /\ acknowledged' = Unset
    /\ Goto(s, <<"get", "password">>)
    /\ UNCHANGED failures

-----------------------------------------------------------------------------
(* Seeded defects, to show that the properties notice them.                   *)

\* A setup that generates a key although one is stored.
BeginSetupNewKey(s, storage) ==
    /\ StartSave(s)
    /\ \E key \in Keys \ known :
        /\ known' = known \union {key}
        /\ generated' = generated \union {s}
        /\ wanted' = [wanted EXCEPT ![s] = [storage |-> storage, key |-> key, paused |-> FALSE]]
    /\ UNCHANGED <<objects, deployment, seen, offered, supplied>>

\* Going on without waiting for the pods.
AwaitRolloutNot(s) ==
    /\ step[s] = <<"await", "rollout">>
    /\ Goto(s, <<"get", "secret">>)
    /\ UNCHANGED <<objects, deployment, wanted, generated, seen, history, counters>>

\* Writing the name of the storage where the key belongs.
WriteUntyped(name, settings) ==
    /\ password' = IF name = "password" THEN settings.storage ELSE password
    /\ proxy' = IF name = "proxy" THEN settings.storage ELSE proxy
    /\ location' = IF name = "location" THEN settings.storage ELSE location
    /\ secret' = IF name = "secret" THEN settings ELSE secret

\* A BackupStorageLocation that is created and never updated.
WriteLocationOnce(name, settings) ==
    /\ password' = IF name = "password" THEN settings.key ELSE password
    /\ proxy' = IF name = "proxy" THEN settings.storage ELSE proxy
    /\ location' = IF name = "location" /\ location = None THEN settings.storage ELSE location
    /\ secret' = IF name = "secret" THEN settings ELSE secret

\* A proxy Secret that keeps the first proxy.
WriteProxyOnce(name, settings) ==
    /\ password' = IF name = "password" THEN settings.key ELSE password
    /\ proxy' = IF name = "proxy" /\ proxy = None THEN settings.storage ELSE proxy
    /\ location' = IF name = "location" THEN settings.storage ELSE location
    /\ secret' = IF name = "secret" THEN settings ELSE secret

-----------------------------------------------------------------------------
(* SaveSetup and SaveRestore.                                                 *)

\* Loads the stored settings; the first setup finds none and generates a key.
BeginSetup(s, storage) ==
    /\ StartSave(s)
    /\ \E key \in Keys :
        /\ IF secret = Unset
           THEN /\ key \notin known
                /\ known' = known \union {key}
                /\ generated' = generated \union {s}
           ELSE /\ key = secret.key
                /\ UNCHANGED <<known, generated>>
        /\ wanted' = [wanted EXCEPT ![s] = [storage |-> storage, key |-> key, paused |-> FALSE]]
    /\ UNCHANGED <<objects, deployment, seen, offered, supplied>>

\* The operator supplies the key; the schedule is cleared and paused.
BeginRestore(s, storage, key) ==
    /\ StartSave(s)
    /\ wanted' = [wanted EXCEPT ![s] = [storage |-> storage, key |-> key, paused |-> TRUE]]
    /\ known' = known \union {key} /\ supplied' = supplied \union {key}
    /\ UNCHANGED <<objects, deployment, generated, seen, offered>>

-----------------------------------------------------------------------------
(* save: the same two requests for each object.                               *)

\* What follows the update of an object.
After ==
    [password |-> <<"get", "proxy">>, proxy |-> <<"get", "location">>,
     location |-> <<"start", "rollout">>, secret |-> <<"send", "reply">>]

Write(name, settings) ==
    /\ password' = IF name = "password" THEN settings.key ELSE password
    /\ proxy' = IF name = "proxy" THEN settings.storage ELSE proxy
    /\ location' = IF name = "location" THEN settings.storage ELSE location
    /\ secret' = IF name = "secret" THEN settings ELSE secret

Get(s, name) ==
    /\ step[s] = <<"get", name>>
    /\ seen' = [seen EXCEPT ![s] = version[name]]
    /\ Goto(s, <<"put", name>>)
    /\ UNCHANGED <<objects, deployment, wanted, generated, history, counters>>

\* The API server applies the update only at the version it was based on.
Put(s, name) ==
    /\ step[s] = <<"put", name>>
    /\ version[name] = seen[s]
    /\ Write(name, wanted[s])
    /\ version' = [version EXCEPT ![name] = @ + 1]
    /\ seen' = [seen EXCEPT ![s] = 0]
    /\ Goto(s, After[name])
    /\ UNCHANGED <<deployment, wanted, generated, history, counters>>

EndSave(s) ==
    /\ Goto(s, Idle)
    /\ wanted' = [wanted EXCEPT ![s] = Unset]
    /\ generated' = generated \ {s}
    /\ seen' = [seen EXCEPT ![s] = 0]

\* Another save got in between: the update is refused and the save fails.
Conflict(s, name) ==
    /\ step[s] = <<"put", name>>
    /\ version[name] # seen[s]
    /\ EndSave(s)
    /\ UNCHANGED <<objects, deployment, history, counters>>

\* Annotates the pod template if the proxy changed; the deployment then restarts.
\* (Losing the race to update the Deployment is a Fail.)
Rollout(s) ==
    /\ step[s] = <<"start", "rollout">>
    /\ annotation' = wanted[s].storage
    /\ Goto(s, <<"await", "rollout">>)
    /\ UNCHANGED <<objects, running, wanted, generated, seen, history, counters>>

AwaitRollout(s) ==
    /\ step[s] = <<"await", "rollout">>
    /\ running = annotation
    /\ Goto(s, <<"get", "secret">>)
    /\ UNCHANGED <<objects, deployment, wanted, generated, seen, history, counters>>

\* A generated key is answered once; the UI offers it for download.
Reply(s) ==
    /\ step[s] = <<"send", "reply">>
    /\ offered' = IF s \in generated THEN offered \union {wanted[s].key} ELSE offered
    /\ acknowledged' = IF s \in alone THEN wanted[s] ELSE acknowledged
    /\ EndSave(s)
    /\ UNCHANGED <<objects, deployment, known, supplied, overlapped, alone, counters>>

\* A request fails, the caller goes away, the process dies, or the reply is lost.
\* What was updated stays updated.
Fail(s) ==
    /\ Saving(s)
    /\ failures < MaxFailures
    /\ failures' = failures + 1
    /\ EndSave(s)
    /\ UNCHANGED <<objects, deployment, history, saves>>

\* The deployment controller has replaced all pods.
PodsReplaced ==
    /\ running # annotation
    /\ running' = annotation
    /\ UNCHANGED <<objects, annotation, saver, history, counters>>

Next ==
    \/ \E s \in Savers :
        \/ \E storage \in Storages :
            \/ "setup" \in Kinds /\ BeginSetup(s, storage)
            \/ "restore" \in Kinds /\ \E key \in Keys : BeginRestore(s, storage, key)
        \/ \E name \in Objects : Get(s, name) \/ Put(s, name) \/ Conflict(s, name)
        \/ Rollout(s) \/ AwaitRollout(s) \/ Reply(s) \/ Fail(s)
    \/ PodsReplaced

Spec == Init /\ [][Next]_vars

-----------------------------------------------------------------------------
(* Properties.                                                                *)

Configured == secret # Unset

\* As long as saves follow one another, failing anywhere, only a restore changes the
\* key of a cluster that has one: no setup makes earlier archives and Velero's
\* repository unreadable (design.md:84-86).
KeyIsStable ==
    [][Configured /\ ~overlapped /\ secret'.key # secret.key => secret'.paused]_vars

\* Nor does a setup ever leave Velero's repository password different from the key,
\* so that the one downloaded secret opens both halves of a recovery point; a
\* restore that is under way or has failed may.
PasswordMatchesKey ==
    Configured /\ ~overlapped => password \in {secret.key} \union supplied

\* The first setup is visible only when everything it needs is in place, even
\* with another save at work (settings/store.go:318-320).
FirstSetupIsComplete == Configured => None \notin {password, proxy, location, running}

\* When a save that had no other beside it is acknowledged, everything is in place
\* and stays so until the next save begins, whatever failed or raced before it: only
\* then may Embedded Cluster delete its own copy (design.md:50-54).
AcknowledgedIsInPlace ==
    acknowledged # Unset =>
        /\ secret = acknowledged
        /\ password = acknowledged.key
        /\ {proxy, location, annotation, running} = {acknowledged.storage}

\* A key that a user was told to keep is the key in use (README: "generated and
\* offered for download exactly once").
OfferedKeyIsInUse == offered \subseteq {secret.key}
=============================================================================
