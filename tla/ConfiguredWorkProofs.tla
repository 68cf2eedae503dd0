------------------------ MODULE ConfiguredWorkProofs ------------------------
(* The theorems about SettingsStore hold beside the backups that use the       *)
(* settings, and an undisturbed backup is in one place under one key.          *)
EXTENDS ConfiguredWork, SettingsStoreProofs

LEMMA WorkStepIsStep == [WorkNext]_workVars => [Next]_vars
<1> SUFFICES ASSUME [WorkNext]_workVars PROVE [Next]_vars
    OBVIOUS
<1> DEFINE Goal == [Next]_vars
<1>1. ASSUME NEW o \in Ops,
             Load(o) \/ CreateBackup(o) \/ VeleroStores(o) \/ Publish(o) \/ GiveUp(o)
      PROVE  Goal
    BY <1>1 DEF Load, CreateBackup, VeleroStores, Publish, GiveUp
<1>2. CASE SettingsStep
    BY <1>2 DEF SettingsStep
<1>3. CASE UNCHANGED workVars
    BY <1>3 DEF workVars
<1> QED
    BY <1>1, <1>2, <1>3 DEF WorkNext

\* Backups never touch the settings: whatever holds of every behaviour of
\* SettingsStore holds beside them.
THEOREM WorkLeavesSettings == WorkSpec => Spec
<1>1. WorkInit => Init
    BY DEF WorkInit
<1> QED
    BY <1>1, WorkStepIsStep, PTL DEF WorkSpec, Spec

-----------------------------------------------------------------------------
(* UndisturbedIsPaired.                                                       *)

\* While the acknowledged settings are left alone, everything an undisturbed
\* operation has read or stored is theirs.
AgreesWithSettings(o) ==
    /\ acknowledged # Unset
    /\ stored[o] \in {Nowhere, PlaceOf(secret)}
    /\ loaded[o] \in {Unset, secret}

WorkInv ==
    /\ WorkTypeOK
    /\ (\E o \in Ops : o \in posted \/ loaded[o] # Unset) => Configured
    /\ \A o \in Ops : loaded[o] # Unset => o \notin Published
    /\ \A o \in Ops : stored[o] # Nowhere => o \in posted
    /\ \A o \in Published : stored[o] # Nowhere
    /\ \A o \in undisturbed \ Published : AgreesWithSettings(o)
    /\ UndisturbedIsPaired

LEMMA PlacesAreSomewhere ==
    ASSUME NEW settings \in Settings
    PROVE  PlaceOf(settings) \in Place /\ PlaceOf(settings) # Nowhere
BY NoneIsNew DEF Settings, PlaceOf, Place, Nowhere

\* Acknowledged settings change only when a save begins.
LEMMA AcknowledgedRests ==
    ASSUME TypeOK, SerialInv, acknowledged # Unset, [Next]_vars, saves' = saves
    PROVE  UNCHANGED <<acknowledged, secret>>
<1>1. \A s \in Savers : ~Saving(s)
    BY DEF SerialInv
<1>2. saves + 1 # saves
    BY DEF TypeOK
<1>3. ASSUME NEW s \in Savers, StartSave(s) PROVE FALSE
    BY <1>2, <1>3 DEF StartSave
<1>4. ASSUME NEW s \in Savers, NEW name \in Objects,
             Get(s, name) \/ Put(s, name) \/ Conflict(s, name)
      PROVE  FALSE
    BY <1>1, <1>4 DEF Get, Put, Conflict, Saving, Idle
<1>5. ASSUME NEW s \in Savers, Rollout(s) \/ AwaitRollout(s) \/ Reply(s) \/ Fail(s) PROVE FALSE
    BY <1>1, <1>5 DEF Rollout, AwaitRollout, Reply, Fail, Saving, Idle
<1>6. CASE PodsReplaced \/ UNCHANGED vars
    BY <1>6 DEF PodsReplaced, vars, objects, history, answers
<1> QED
    BY <1>3, <1>4, <1>5, <1>6 DEF Next, BeginSetup, BeginRestore

\* Where Velero stores while the settings are acknowledged.
LEMMA VeleroFollows ==
    ASSUME AcknowledgedIsInPlace, acknowledged # Unset
    PROVE  [storage |-> location, key |-> password] = PlaceOf(secret)
BY DEF AcknowledgedIsInPlace, PlaceOf

\* Settings once published are replaced, never removed.
LEMMA ConfiguredStays ==
    ASSUME TypeOK, Definite, Configured, [Next]_vars
    PROVE  Configured'
<1>1. CASE UNCHANGED objects
    BY <1>1 DEF Configured, objects
<1>2. ASSUME NEW s \in Savers, NEW name \in Objects, Put(s, name) PROVE Configured'
  <2>1. wanted[s] \in Settings
    BY <1>2 DEF Definite, DefiniteSave, Saving, Put, Idle
  <2> QED
    BY <1>2, <2>1, NoneIsNew DEF Put, Write, Configured
<1> QED
    BY <1>1, <1>2
    DEF Next, BeginSetup, BeginRestore, Get, Conflict, Rollout, AwaitRollout, Reply, Fail,
        PodsReplaced, vars

LEMMA InitWorkInv == WorkInit /\ TypeOK => WorkInv
BY DEF WorkInit, WorkInv, WorkTypeOK, UndisturbedIsPaired, Published

LEMMA StepWorkInv ==
    /\ TypeOK /\ TypeOK' /\ Definite /\ SerialInv /\ FirstSetupIsComplete /\ WorkInv
    /\ [WorkNext]_workVars
    => WorkInv'
<1> SUFFICES ASSUME TypeOK, TypeOK', Definite, SerialInv, FirstSetupIsComplete, WorkInv,
                    [WorkNext]_workVars
             PROVE  WorkInv'
    OBVIOUS
<1>0. Configured => Configured'
    BY WorkStepIsStep, ConfiguredStays
<1> USE DEF WorkInv, WorkTypeOK, UndisturbedIsPaired, AgreesWithSettings, Published
<1>1. ASSUME NEW o \in Ops, Load(o) PROVE WorkInv'
  <2>1. /\ loaded' = [loaded EXCEPT ![o] = secret] /\ secret \in Settings
        /\ placed[o] = Nowhere
        /\ UNCHANGED <<vars, posted, stored, placed>>
        /\ undisturbed' = IF acknowledged # Unset /\ o \notin posted
                          THEN undisturbed \union {o} ELSE undisturbed
    BY <1>1 DEF Load, TypeOK
  <2>2. UNCHANGED <<acknowledged, secret>>
    BY <2>1 DEF vars, objects, history, answers
  <2> QED
    BY <1>0, <1>1, <2>1, <2>2 DEF Load, Configured
<1>2. ASSUME NEW o \in Ops, CreateBackup(o) PROVE WorkInv'
  <2>1. UNCHANGED <<acknowledged, secret>>
    BY <1>2 DEF CreateBackup, vars, objects, history, answers
  <2> QED
    BY <1>0, <1>2, <2>1 DEF CreateBackup
<1>3. ASSUME NEW o \in Ops, VeleroStores(o) PROVE WorkInv'
  <2>1. UNCHANGED <<acknowledged, secret>>
    BY <1>3 DEF VeleroStores, vars, objects, history, answers
  <2>2. [storage |-> location, key |-> password] \in Place
    BY <1>3 DEF VeleroStores, FirstSetupIsComplete, TypeOK, Place
  <2>3. acknowledged # Unset => [storage |-> location, key |-> password] = PlaceOf(secret)
    BY VeleroFollows DEF SerialInv
  <2> QED
    BY <1>0, <1>3, <2>1, <2>2, <2>3 DEF VeleroStores
<1>4. ASSUME NEW o \in Ops, Publish(o) PROVE WorkInv'
  <2>1. UNCHANGED <<acknowledged, secret>>
    BY <1>4 DEF Publish, vars, objects, history, answers
  <2>2. PlaceOf(loaded[o]) \in Place /\ PlaceOf(loaded[o]) # Nowhere
    BY <1>4, PlacesAreSomewhere DEF Publish
  <2> QED
    BY <1>0, <1>4, <2>1, <2>2 DEF Publish
<1>5. ASSUME NEW o \in Ops, GiveUp(o) PROVE WorkInv'
  <2>1. UNCHANGED <<acknowledged, secret>>
    BY <1>5 DEF GiveUp, vars, objects, history, answers
  <2> QED
    BY <1>0, <1>5, <2>1 DEF GiveUp
<1>6. CASE SettingsStep
  <2>1. UNCHANGED <<loaded, posted, stored, placed>>
    BY <1>6 DEF SettingsStep, attempts
  <2>2. CASE saves' = saves
    <3>1. undisturbed' = undisturbed
      BY <1>6, <2>2 DEF SettingsStep
    <3>2. \A o \in undisturbed \ Published : UNCHANGED <<acknowledged, secret>>
      BY <1>6, <2>2, AcknowledgedRests DEF SettingsStep
    <3> QED
      BY <1>0, <2>1, <3>1, <3>2
  <2>3. CASE saves' # saves
    BY <1>0, <1>6, <2>1, <2>3 DEF SettingsStep
  <2> QED
    BY <2>2, <2>3
<1>7. CASE UNCHANGED workVars
    BY <1>0, <1>7 DEF workVars, attempts, vars, objects, history, answers
<1> QED
    BY <1>1, <1>2, <1>3, <1>4, <1>5, <1>6, <1>7 DEF WorkNext

LEMMA WorkInvariant == WorkSpec => []WorkInv
<1>1. WorkSpec => WorkInit /\ [][WorkNext]_workVars
    BY PTL DEF WorkSpec
<1> QED
    BY <1>1, InitWorkInv, StepWorkInv, SerialInvariant, FirstSetupCompletes, WorkLeavesSettings, PTL

\* Every variable keeps its type.
THEOREM WorkTypeCorrect == WorkSpec => []WorkTypeOK
<1>1. WorkInv => WorkTypeOK
    BY DEF WorkInv
<1> QED
    BY <1>1, WorkInvariant, PTL

\* A backup that began after an acknowledged save, and was published before another
\* save began, has its two halves in the same storage under the same key.
THEOREM UndisturbedBackupIsPaired == WorkSpec => []UndisturbedIsPaired
<1>1. WorkInv => UndisturbedIsPaired
    BY DEF WorkInv
<1> QED
    BY <1>1, WorkInvariant, PTL
=============================================================================
