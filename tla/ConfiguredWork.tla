--------------------------- MODULE ConfiguredWork ---------------------------
(* SettingsStore composed with the backups that run under its settings.  An   *)
(* attempt loads the configuration once and works with that copy: the archive  *)
(* and the manifest go to its storage, encrypted with its key.  Velero is told  *)
(* nothing but a name; it stores where BackupStorageLocation and repository     *)
(* password point when it gets to the Backup, and a retry finds that Backup      *)
(* under the same name however the settings have changed since.                *)
EXTENDS SettingsStore

CONSTANT Ops      \* backup operations

VARIABLES
    loaded,        \* [Ops -> Settings]: the running attempt's copy, Unset without one
    posted,        \* operations whose Velero Backup was created
    stored,        \* [Ops -> Place]: where Velero has stored it
    placed,        \* [Ops -> Place]: where archive and ready manifest are
    undisturbed    \* history: operations since whose first attempt the acknowledged
                   \* settings have been left alone

attempts == <<loaded, posted, stored, placed>>
workVars == <<vars, attempts, undisturbed>>

Place == [storage : Storages, key : Keys]
Nowhere == [storage |-> None, key |-> None]
PlaceOf(settings) == [storage |-> settings.storage, key |-> settings.key]

Published == {o \in Ops : placed[o] # Nowhere}

WorkTypeOK ==
    /\ TypeOK
    /\ loaded \in [Ops -> Settings \union {Unset}]
    /\ posted \subseteq Ops /\ undisturbed \subseteq Ops
    /\ stored \in [Ops -> Place \union {Nowhere}]
    /\ placed \in [Ops -> Place \union {Nowhere}]

WorkInit ==
    /\ Init
    /\ loaded = [o \in Ops |-> Unset]
    /\ posted = {} /\ undisturbed = {}
    /\ stored = [o \in Ops |-> Nowhere]
    /\ placed = [o \in Ops |-> Nowhere]


-----------------------------------------------------------------------------
\* configuration: the settings the attempt runs with are read here and not again.
Load(o) ==
    /\ loaded[o] = Unset
    /\ o \notin Published
    /\ secret # Unset
    /\ loaded' = [loaded EXCEPT ![o] = secret]
    /\ undisturbed' = IF acknowledged # Unset /\ o \notin posted
                      THEN undisturbed \union {o} ELSE undisturbed
    /\ UNCHANGED <<vars, posted, stored, placed>>

\* A Backup that exists already is taken as it is.
CreateBackup(o) ==
    /\ loaded[o] # Unset
    /\ posted' = posted \union {o}
    /\ UNCHANGED <<vars, loaded, stored, placed, undisturbed>>

VeleroStores(o) ==
    /\ o \in posted
    /\ stored[o] = Nowhere
    /\ stored' = [stored EXCEPT ![o] = [storage |-> location, key |-> password]]
    /\ UNCHANGED <<vars, loaded, posted, placed, undisturbed>>

\* Uploads the archive and, last, the manifest.
Publish(o) ==
    /\ loaded[o] # Unset
    /\ stored[o] # Nowhere
    /\ placed' = [placed EXCEPT ![o] = PlaceOf(loaded[o])]
    /\ loaded' = [loaded EXCEPT ![o] = Unset]
    /\ UNCHANGED <<vars, posted, stored, undisturbed>>

\* A failure, a timeout, a cancellation, a crash; the operation is retried.
GiveUp(o) ==
    /\ loaded[o] # Unset
    /\ loaded' = [loaded EXCEPT ![o] = Unset]
    /\ UNCHANGED <<vars, posted, stored, placed, undisturbed>>

SettingsStep ==
    /\ Next
    /\ undisturbed' = IF saves' # saves THEN undisturbed \intersect Published ELSE undisturbed
    /\ UNCHANGED attempts

WorkNext ==
    \/ SettingsStep
    \/ \E o \in Ops : Load(o) \/ CreateBackup(o) \/ VeleroStores(o) \/ Publish(o) \/ GiveUp(o)

WorkSpec == WorkInit /\ [][WorkNext]_workVars

-----------------------------------------------------------------------------
(* Properties.                                                                *)

\* The two halves of a recovery point are in the same storage, under the same key,
\* when the operation began after an acknowledged save and no other save began
\* before it was published, however often it was retried (design.md:72-73).
UndisturbedIsPaired ==
    \A o \in Published \intersect undisturbed : stored[o] = placed[o]

\* The same of every published point: scheduled work "cannot observe a setup that
\* has not finished configuring Velero" (design.md:82-84).
PublishedIsPaired == \A o \in Published : stored[o] = placed[o]
=============================================================================
