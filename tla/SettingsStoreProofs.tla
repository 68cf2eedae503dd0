------------------------- MODULE SettingsStoreProofs -------------------------
(* Theorems about SettingsStore for any savers, storages and keys and any      *)
(* bounds on saves and failures.                                              *)
EXTENDS SettingsStore, TLAPS

-----------------------------------------------------------------------------
(* The steps of a save before each thing it establishes.                      *)

BeforePassword == {Idle, <<"get", "password">>, <<"put", "password">>}
BeforeProxy == BeforePassword \union {<<"get", "proxy">>, <<"put", "proxy">>}
BeforeLocation == BeforeProxy \union {<<"get", "location">>, <<"put", "location">>}
BeforeAnnotation == BeforeLocation \union {<<"start", "rollout">>}
BeforeRunning == BeforeAnnotation \union {<<"await", "rollout">>}
BeforeSecret == BeforeRunning \union {<<"get", "secret">>, <<"put", "secret">>}

-----------------------------------------------------------------------------
(* Type correctness.                                                          *)

LEMMA NoneIsNew ==
    /\ None \notin Storages /\ None \notin Keys
    /\ Unset \notin Settings
BY NoneAssumption DEF Settings, Unset

\* What a save that begins sets besides what it wants.
LEMMA StartType ==
    ASSUME TypeOK, NEW s \in Savers, StartSave(s)
    PROVE  /\ step' \in [Savers -> Step] /\ overlapped' \in BOOLEAN /\ alone' \subseteq Savers
           /\ acknowledged' = Unset /\ saves' \in 0..MaxSaves /\ failures' = failures
<1>1. saves' \in 0..MaxSaves
    BY SaveBoundsAssumption DEF TypeOK, StartSave
<1>2. step' \in [Savers -> Step]
    BY DEF TypeOK, StartSave, Goto, Step, Objects
<1>3. overlapped' \in BOOLEAN
    BY Zenon DEF StartSave
<1>4. alone' \subseteq Savers /\ acknowledged' = Unset /\ failures' = failures
    BY DEF StartSave
<1> QED
    BY <1>1, <1>2, <1>3, <1>4

LEMMA EndType ==
    ASSUME TypeOK, NEW s \in Savers, EndSave(s)
    PROVE  /\ step' \in [Savers -> Step] /\ wanted' \in [Savers -> Settings \union {Unset}]
           /\ generated' \subseteq Savers /\ seen' \in [Savers -> Nat]
BY DEF TypeOK, EndSave, Goto, Step

\* A save that is under way wants something definite, and the key that it generated
\* or was given is on record.
DefiniteSave(s) ==
    /\ Saving(s) => wanted[s] \in Settings /\ (wanted[s].paused => wanted[s].key \in supplied)
    /\ s \in generated => Saving(s) /\ wanted[s].key \in known

Definite == \A s \in Savers : DefiniteSave(s)

LEMMA PutType ==
    ASSUME TypeOK, Definite, NEW s \in Savers, NEW name \in Objects, Put(s, name)
    PROVE  TypeOK'
<1>0. wanted[s] \in Settings
    BY DEF Definite, DefiniteSave, Saving, Put, Idle
<1>1. /\ password' \in Keys \union {None} /\ proxy' \in Storages \union {None}
      /\ location' \in Storages \union {None} /\ secret' \in Settings \union {Unset}
    BY <1>0 DEF TypeOK, Put, Write, Settings
<1>2. version' \in [Objects -> Nat] /\ seen' \in [Savers -> Nat]
    BY DEF TypeOK, Put
<1>3. After[name] \in Step
    BY DEF After, Objects, Step
<1>4. step' \in [Savers -> Step]
    BY <1>3 DEF TypeOK, Put, Goto
<1> QED
    BY <1>1, <1>2, <1>4 DEF TypeOK, Put, deployment, history, answers, counters

LEMMA StepTypeOK == TypeOK /\ Definite /\ [Next]_vars => TypeOK'
<1> SUFFICES ASSUME TypeOK, Definite, [Next]_vars PROVE TypeOK'
    OBVIOUS
<1>1. ASSUME NEW s \in Savers, NEW storage \in Storages, BeginSetup(s, storage) PROVE TypeOK'
  <2>1. PICK key \in Keys :
          /\ \/ known' = known \union {key} /\ generated' = generated \union {s}
             \/ UNCHANGED <<known, generated>>
          /\ wanted' = [wanted EXCEPT ![s] = [storage |-> storage, key |-> key, paused |-> FALSE]]
    BY <1>1 DEF BeginSetup
  <2>2. StartSave(s) /\ UNCHANGED <<objects, deployment, seen, offered, supplied>>
    BY <1>1 DEF BeginSetup
  <2>3. wanted' \in [Savers -> Settings \union {Unset}]
    BY <2>1 DEF TypeOK, Settings
  <2> QED
    BY <2>1, <2>2, <2>3, StartType DEF TypeOK, objects, deployment
<1>2. ASSUME NEW s \in Savers, NEW storage \in Storages, NEW key \in Keys,
             BeginRestore(s, storage, key)
      PROVE  TypeOK'
  <2>1. StartSave(s) /\ UNCHANGED <<objects, deployment, generated, seen, offered>>
    BY <1>2 DEF BeginRestore
  <2>2. wanted' \in [Savers -> Settings \union {Unset}]
    BY <1>2 DEF BeginRestore, TypeOK, Settings
  <2>3. known' = known \union {key} /\ supplied' = supplied \union {key}
    BY <1>2 DEF BeginRestore
  <2> QED
    BY <2>1, <2>2, <2>3, StartType DEF TypeOK, objects, deployment
<1>3. ASSUME NEW s \in Savers, NEW name \in Objects, Get(s, name) PROVE TypeOK'
  <2>1. step' \in [Savers -> Step] /\ seen' \in [Savers -> Nat]
    BY <1>3 DEF Get, Goto, TypeOK, Step
  <2> QED
    BY <1>3, <2>1 DEF Get, TypeOK, objects, deployment, history, answers, counters
<1>4. ASSUME NEW s \in Savers, NEW name \in Objects, Put(s, name) PROVE TypeOK'
    BY <1>4, PutType
<1>5. ASSUME NEW s \in Savers, NEW name \in Objects, Conflict(s, name) PROVE TypeOK'
    BY <1>5, EndType DEF Conflict, TypeOK, objects, deployment, history, answers, counters
<1>6. ASSUME NEW s \in Savers, Rollout(s) PROVE TypeOK'
  <2>1. annotation' \in Storages \union {None}
    BY <1>6 DEF Rollout, Definite, DefiniteSave, Saving, Idle, Settings
  <2>2. step' \in [Savers -> Step]
    BY <1>6 DEF Rollout, Goto, TypeOK, Step
  <2> QED
    BY <1>6, <2>1, <2>2 DEF Rollout, TypeOK, objects, history, answers, counters
<1>7. ASSUME NEW s \in Savers, AwaitRollout(s) PROVE TypeOK'
  <2>1. step' \in [Savers -> Step]
    BY <1>7 DEF AwaitRollout, Goto, TypeOK, Step, Objects
  <2> QED
    BY <1>7, <2>1 DEF AwaitRollout, TypeOK, objects, deployment, history, answers, counters
<1>8. ASSUME NEW s \in Savers, Reply(s) PROVE TypeOK'
  <2>1. offered' \subseteq known
    BY <1>8 DEF Reply, TypeOK, Definite, DefiniteSave
  <2>2. acknowledged' \in Settings \union {Unset}
    BY <1>8 DEF Reply, TypeOK
  <2> QED
    BY <1>8, <2>1, <2>2, EndType DEF Reply, TypeOK, objects, deployment, counters
<1>9. ASSUME NEW s \in Savers, Fail(s) PROVE TypeOK'
  <2>1. failures' \in 0..MaxFailures
    BY <1>9, SaveBoundsAssumption DEF Fail, TypeOK
  <2> QED
    BY <1>9, <2>1, EndType DEF Fail, TypeOK, objects, deployment, history, answers
<1>10. CASE PodsReplaced
    BY <1>10 DEF PodsReplaced, TypeOK, objects, saver, history, answers, counters
<1>11. CASE UNCHANGED vars
    BY <1>11 DEF vars, TypeOK, objects, deployment, saver, history, answers, counters
<1> QED
    BY <1>1, <1>2, <1>3, <1>4, <1>5, <1>6, <1>7, <1>8, <1>9, <1>10, <1>11 DEF Next

\* Steps that move one save on, or end it, and record nothing.
LEMMA OnwardDefinite ==
    ASSUME TypeOK, Definite, NEW s \in Savers, Saving(s), NEW next \in Step,
           UNCHANGED <<wanted, generated, known, supplied>>, next # Idle, Goto(s, next)
    PROVE  Definite'
BY DEF TypeOK, Definite, DefiniteSave, Saving, Goto

LEMMA EndDefinite ==
    ASSUME TypeOK, Definite, NEW s \in Savers, EndSave(s), UNCHANGED <<known, supplied>>
    PROVE  Definite'
BY DEF TypeOK, Definite, DefiniteSave, Saving, EndSave, Goto

LEMMA StepDefinite == TypeOK /\ Definite /\ [Next]_vars => Definite'
<1> SUFFICES ASSUME TypeOK, Definite, [Next]_vars PROVE Definite'
    OBVIOUS
<1>1. ASSUME NEW s \in Savers, NEW storage \in Storages, BeginSetup(s, storage)
      PROVE  Definite'
  <2>1. PICK key \in Keys :
          /\ \/ known' = known \union {key} /\ generated' = generated \union {s}
             \/ UNCHANGED <<known, generated>>
          /\ wanted' = [wanted EXCEPT ![s] = [storage |-> storage, key |-> key, paused |-> FALSE]]
    BY <1>1 DEF BeginSetup
  <2>2. ~Saving(s) /\ step' = [step EXCEPT ![s] = <<"get", "password">>] /\ supplied' = supplied
    BY <1>1 DEF BeginSetup, StartSave, Goto
  <2>3. s \notin generated
    BY <2>2 DEF Definite, DefiniteSave
  <2>4. DefiniteSave(s)'
    BY <2>1, <2>2, <2>3 DEF TypeOK, DefiniteSave, Saving, Idle, Settings
  <2>5. ASSUME NEW t \in Savers \ {s} PROVE DefiniteSave(t)'
    BY <2>1, <2>2 DEF TypeOK, Definite, DefiniteSave, Saving
  <2> QED
    BY <2>4, <2>5 DEF Definite
<1>2. ASSUME NEW s \in Savers, NEW storage \in Storages, NEW key \in Keys,
             BeginRestore(s, storage, key)
      PROVE  Definite'
  <2>1. /\ ~Saving(s) /\ step' = [step EXCEPT ![s] = <<"get", "password">>]
        /\ wanted' = [wanted EXCEPT ![s] = [storage |-> storage, key |-> key, paused |-> TRUE]]
        /\ known' = known \union {key} /\ supplied' = supplied \union {key}
        /\ generated' = generated
    BY <1>2 DEF BeginRestore, StartSave, Goto
  <2>2. DefiniteSave(s)'
    BY <2>1 DEF TypeOK, Definite, DefiniteSave, Saving, Idle, Settings
  <2>3. ASSUME NEW t \in Savers \ {s} PROVE DefiniteSave(t)'
    BY <2>1 DEF TypeOK, Definite, DefiniteSave, Saving
  <2> QED
    BY <2>2, <2>3 DEF Definite
<1>3. ASSUME NEW s \in Savers, NEW name \in Objects, Get(s, name) PROVE Definite'
  <2>1. Saving(s) /\ <<"put", name>> \in Step \ {Idle}
    BY <1>3 DEF Get, Saving, Step, Idle
  <2> QED
    BY <1>3, <2>1, OnwardDefinite DEF Get, history
<1>4. ASSUME NEW s \in Savers, NEW name \in Objects, Put(s, name) PROVE Definite'
  <2>1. Saving(s) /\ After[name] \in Step \ {Idle}
    BY <1>4 DEF Put, Saving, Step, Idle, After, Objects
  <2> QED
    BY <1>4, <2>1, OnwardDefinite DEF Put, history
<1>5. ASSUME NEW s \in Savers, (\E name \in Objects : Conflict(s, name)) \/ Reply(s) \/ Fail(s)
      PROVE  Definite'
    BY <1>5, EndDefinite DEF Conflict, Reply, Fail, history
<1>6. ASSUME NEW s \in Savers, Rollout(s) \/ AwaitRollout(s) PROVE Definite'
  <2>1. Saving(s) /\ {<<"await", "rollout">>, <<"get", "secret">>} \subseteq Step \ {Idle}
    BY <1>6 DEF Rollout, AwaitRollout, Saving, Step, Idle, Objects
  <2> QED
    BY <1>6, <2>1, OnwardDefinite DEF Rollout, AwaitRollout, history
<1>7. CASE PodsReplaced \/ UNCHANGED vars
    BY <1>7 DEF PodsReplaced, vars, saver, history, Definite, DefiniteSave, Saving
<1> QED
    BY <1>1, <1>2, <1>3, <1>4, <1>5, <1>6, <1>7 DEF Next

LEMMA InitTypeOK == Init => TypeOK /\ Definite
<1> SUFFICES ASSUME Init PROVE TypeOK /\ Definite
    OBVIOUS
<1>1. overlapped \in BOOLEAN
    BY Zenon DEF Init
<1>2. 0 \in 0..MaxFailures /\ 0 \in 0..MaxSaves
    BY SaveBoundsAssumption
<1>3. step \in [Savers -> Step] /\ version \in [Objects -> Nat]
    BY DEF Init, Step
<1>4. TypeOK
    BY <1>1, <1>2, <1>3 DEF Init, TypeOK
<1>5. Definite
    BY DEF Init, Definite, DefiniteSave, Saving
<1> QED
    BY <1>4, <1>5

LEMMA TypeInvariant == Spec => [](TypeOK /\ Definite)
BY InitTypeOK, StepTypeOK, StepDefinite, PTL DEF Spec

\* Every variable keeps its type, and no key is offered or supplied that nobody has.
THEOREM TypeCorrect == Spec => []TypeOK
BY TypeInvariant, PTL

-----------------------------------------------------------------------------
(* FirstSetupIsComplete.                                                      *)

\* What a save has established, as far as it has come.
Established(s) ==
    /\ step[s] \notin BeforePassword => password # None
    /\ step[s] \notin BeforeProxy => proxy # None
    /\ step[s] \notin BeforeLocation => location # None
    /\ step[s] \notin BeforeAnnotation => annotation # None
    /\ step[s] \notin BeforeRunning => running # None

\* Nothing is published before all is in place, and pods follow their template.
SetupInv ==
    /\ \A s \in Savers : Established(s)
    /\ running # None => annotation # None
    /\ Configured => None \notin {password, proxy, location, annotation, running}

\* Nothing that is in place is ever taken away.
Remains ==
    /\ password # None => password' # None
    /\ proxy # None => proxy' # None
    /\ location # None => location' # None
    /\ annotation # None => annotation' # None
    /\ running # None => running' # None

LEMMA OthersEstablished ==
    ASSUME TypeOK, SetupInv, Remains, NEW s \in Savers, NEW next \in Step, Goto(s, next),
           Established(s)', running' # None => annotation' # None,
           secret' # Unset => None \notin {password, proxy, location, annotation, running}'
    PROVE  SetupInv'
BY DEF TypeOK, SetupInv, Remains, Goto, Established, Configured

LEMMA StepSetupInv == TypeOK /\ Definite /\ SetupInv /\ [Next]_vars => SetupInv'
<1> SUFFICES ASSUME TypeOK, Definite, SetupInv, [Next]_vars PROVE SetupInv'
    OBVIOUS
<1> USE DEF BeforePassword, BeforeProxy, BeforeLocation, BeforeAnnotation, BeforeRunning
<1>1. ASSUME NEW s \in Savers, NEW next \in Step, Goto(s, next), next \in BeforePassword,
             UNCHANGED <<password, proxy, location, annotation, running, secret>>
      PROVE  SetupInv'
    BY <1>1 DEF TypeOK, SetupInv, Established, Configured, Goto
<1>2. ASSUME NEW s \in Savers, NEW storage \in Storages,
             BeginSetup(s, storage) \/ \E key \in Keys : BeginRestore(s, storage, key)
      PROVE  SetupInv'
  <2>1. <<"get", "password">> \in Step
    BY DEF Step, Objects
  <2> QED
    BY <1>1, <1>2, <2>1 DEF BeginSetup, BeginRestore, StartSave, objects, deployment
<1>3. ASSUME NEW s \in Savers,
             (\E name \in Objects : Conflict(s, name)) \/ Reply(s) \/ Fail(s)
      PROVE  SetupInv'
  <2>1. Idle \in Step
    BY DEF Step
  <2> QED
    BY <1>1, <1>3, <2>1 DEF Conflict, Reply, Fail, EndSave, objects, deployment
<1>4. ASSUME NEW s \in Savers, NEW name \in Objects, Get(s, name) PROVE SetupInv'
    BY <1>4 DEF TypeOK, SetupInv, Established, Configured, Get, Goto, Objects, Idle,
                objects, deployment
<1>5. ASSUME NEW s \in Savers, NEW name \in Objects, Put(s, name) PROVE SetupInv'
  <2>1. wanted[s].storage \in Storages /\ wanted[s].key \in Keys /\ After[name] \in Step
    BY <1>5 DEF Definite, DefiniteSave, Saving, Put, Idle, Settings, After, Objects, Step
  <2>2. Remains
    BY <1>5, <2>1, NoneIsNew DEF Remains, Put, Write, deployment
  <2>3. Goto(s, After[name]) /\ UNCHANGED <<annotation, running>>
    BY <1>5 DEF Put, deployment
  <2>4. Established(s) /\ step[s] = <<"put", name>>
    BY <1>5 DEF SetupInv, Put
  <2>5. CASE name = "password"
    BY <1>5, <2>1, <2>2, <2>3, <2>4, <2>5, NoneIsNew, OthersEstablished
    DEF SetupInv, Established, Configured, Put, Write, Goto, After, TypeOK, Idle
  <2>6. CASE name = "proxy"
    BY <1>5, <2>1, <2>2, <2>3, <2>4, <2>6, NoneIsNew, OthersEstablished
    DEF SetupInv, Established, Configured, Put, Write, Goto, After, TypeOK, Idle
  <2>7. CASE name = "location"
    BY <1>5, <2>1, <2>2, <2>3, <2>4, <2>7, NoneIsNew, OthersEstablished
    DEF SetupInv, Established, Configured, Put, Write, Goto, After, TypeOK, Idle
  <2>8. CASE name = "secret"
    BY <1>5, <2>1, <2>2, <2>3, <2>4, <2>8, NoneIsNew, OthersEstablished
    DEF SetupInv, Established, Configured, Put, Write, Goto, After, TypeOK, Idle
  <2> QED
    BY <2>5, <2>6, <2>7, <2>8 DEF Objects
<1>6. ASSUME NEW s \in Savers, Rollout(s) PROVE SetupInv'
  <2>1. wanted[s].storage \in Storages /\ <<"await", "rollout">> \in Step
    BY <1>6 DEF Definite, DefiniteSave, Saving, Rollout, Idle, Settings, Step
  <2>2. Remains
    BY <1>6, <2>1, NoneIsNew DEF Remains, Rollout, objects
  <2> QED
    BY <1>6, <2>1, <2>2, NoneIsNew, OthersEstablished
    DEF SetupInv, Established, Configured, Rollout, Goto, TypeOK, Idle, objects
<1>7. ASSUME NEW s \in Savers, AwaitRollout(s) PROVE SetupInv'
    BY <1>7 DEF SetupInv, Established, Configured, AwaitRollout, Goto, TypeOK, Idle,
                objects, deployment
<1>8. CASE PodsReplaced
    BY <1>8 DEF SetupInv, Established, Configured, PodsReplaced, objects, saver
<1>9. CASE UNCHANGED vars
    BY <1>9 DEF SetupInv, Established, Configured, vars, objects, deployment, saver
<1> QED
    BY <1>2, <1>3, <1>4, <1>5, <1>6, <1>7, <1>8, <1>9 DEF Next

\* The first setup is visible only when everything it needs is in place, however
\* many saves race and wherever they fail.
THEOREM FirstSetupCompletes == Spec => []FirstSetupIsComplete
<1>1. Init => SetupInv
    BY DEF Init, SetupInv, Established, Configured, BeforePassword, BeforeProxy,
           BeforeLocation, BeforeAnnotation, BeforeRunning
<1>2. SetupInv => FirstSetupIsComplete
    BY DEF SetupInv, FirstSetupIsComplete
<1> QED
    BY <1>1, <1>2, StepSetupInv, TypeInvariant, PTL DEF Spec

-----------------------------------------------------------------------------
(* KeyIsStable, PasswordMatchesKey and AcknowledgedIsInPlace.                 *)

Alone(s) == \A t \in Savers \ {s} : ~Saving(t)

\* As far as it has come, everything is as the save wants it.
InPlace(s) ==
    /\ step[s] \notin BeforePassword => password = wanted[s].key
    /\ step[s] \notin BeforeProxy => proxy = wanted[s].storage
    /\ step[s] \notin BeforeLocation => location = wanted[s].storage
    /\ step[s] \notin BeforeAnnotation => annotation = wanted[s].storage
    /\ step[s] \notin BeforeRunning => running = wanted[s].storage
    /\ step[s] \notin BeforeSecret => secret = wanted[s]

\* A setup wants the stored key, if there is one.
KeepsKey(s) ==
    Saving(s) /\ Configured /\ ~wanted[s].paused => wanted[s].key = secret.key

\* A save that nobody has joined has established what it has done so far; of saves
\* that never overlapped, the one under way is such a save.
SerialInv ==
    /\ \A s \in alone : Alone(s) /\ InPlace(s) /\ KeepsKey(s)
    /\ ~overlapped => \A s \in Savers : Saving(s) => s \in alone
    /\ acknowledged # Unset => \A s \in Savers : ~Saving(s)
    /\ AcknowledgedIsInPlace
    /\ PasswordMatchesKey

\* A save begins: beside another it is on record as overlapping, or it is alone.
LEMMA BeginSerial ==
    ASSUME TypeOK, SerialInv, NEW s \in Savers, StartSave(s), UNCHANGED <<objects, deployment>>,
           supplied \subseteq supplied', wanted'[s] \in Settings,
           Configured /\ ~wanted'[s].paused => wanted'[s].key = secret.key
    PROVE  SerialInv'
<1>1. /\ acknowledged' = Unset /\ step' = [step EXCEPT ![s] = <<"get", "password">>]
      /\ ~Saving(s)
    BY DEF StartSave, Goto
<1>2. AcknowledgedIsInPlace'
    BY <1>1 DEF AcknowledgedIsInPlace
<1>3. CASE \E t \in Savers : Saving(t)
  <2>1. alone' = {} /\ overlapped'
    BY <1>3 DEF StartSave
  <2> QED
    BY <1>1, <1>2, <2>1 DEF SerialInv, PasswordMatchesKey
<1>4. CASE \A t \in Savers : ~Saving(t)
  <2>1. alone' = {s} /\ (overlapped' <=> overlapped)
    BY <1>4 DEF StartSave
  <2>2. \A t \in Savers \ {s} : ~Saving(t)'
    BY <1>1, <1>4 DEF TypeOK, Saving
  <2>3. InPlace(s)'
    BY <1>1 DEF TypeOK, InPlace, BeforePassword, BeforeProxy, BeforeLocation,
                BeforeAnnotation, BeforeRunning, BeforeSecret
  <2>4. KeepsKey(s)'
    BY DEF KeepsKey, Configured, objects
  <2>5. PasswordMatchesKey'
    BY <2>1 DEF SerialInv, PasswordMatchesKey, Configured, objects
  <2> QED
    BY <1>1, <1>2, <2>1, <2>2, <2>3, <2>4, <2>5 DEF SerialInv, Alone
<1> QED
    BY <1>3, <1>4

\* A save ends without having done anything.
LEMMA EndSerial ==
    ASSUME TypeOK, SerialInv, NEW s \in Savers, EndSave(s), UNCHANGED <<objects, deployment>>,
           UNCHANGED <<overlapped, alone, supplied>>, AcknowledgedIsInPlace',
           acknowledged' # Unset => acknowledged' = acknowledged \/ s \in alone
    PROVE  SerialInv'
<1>1. ~Saving(s)' /\ \A t \in Savers \ {s} : Saving(t)' <=> Saving(t)
    BY DEF TypeOK, EndSave, Goto, Saving
<1>2. \A t \in alone : Alone(t)'
    BY <1>1 DEF TypeOK, SerialInv, Alone
<1>3. InPlace(s)' /\ KeepsKey(s)'
    BY <1>1 DEF TypeOK, EndSave, Goto, InPlace, KeepsKey, BeforePassword, BeforeProxy,
                BeforeLocation, BeforeAnnotation, BeforeRunning, BeforeSecret
<1>4. ASSUME NEW t \in alone, t # s PROVE InPlace(t)' /\ KeepsKey(t)'
    BY <1>1, <1>4
    DEF TypeOK, SerialInv, EndSave, Goto, InPlace, KeepsKey, Saving, Configured, objects, deployment
<1>5. PasswordMatchesKey'
    BY DEF SerialInv, PasswordMatchesKey, Configured, objects
<1>6. acknowledged' # Unset => \A t \in Savers : ~Saving(t)'
    BY <1>1 DEF SerialInv, Alone
<1> QED
    BY <1>1, <1>2, <1>3, <1>4, <1>5, <1>6 DEF SerialInv

\* A save goes on, and what it does is in place.
LEMMA OnwardSerial ==
    ASSUME TypeOK, SerialInv, NEW s \in Savers, Saving(s), NEW next \in Step, next # Idle,
           Goto(s, next), UNCHANGED <<wanted, overlapped, alone, supplied, acknowledged>>,
           s \in alone => InPlace(s)' /\ KeepsKey(s)', PasswordMatchesKey'
    PROVE  SerialInv'
<1>1. \A t \in Savers : Saving(t)' <=> Saving(t)
    BY DEF TypeOK, Goto, Saving
<1>2. \A t \in alone : Alone(t)'
    BY <1>1 DEF TypeOK, SerialInv, Alone
<1>3. acknowledged = Unset
    BY DEF SerialInv
<1>4. \A t \in alone : t = s
    BY DEF TypeOK, SerialInv, Alone
<1> QED
    BY <1>1, <1>2, <1>3, <1>4 DEF SerialInv, AcknowledgedIsInPlace

LEMMA PutSerial ==
    ASSUME TypeOK, Definite, SerialInv, NEW s \in Savers, NEW name \in Objects, Put(s, name)
    PROVE  SerialInv'
<1> USE DEF BeforePassword, BeforeProxy, BeforeLocation, BeforeAnnotation, BeforeRunning,
            BeforeSecret
<1>1. Saving(s) /\ After[name] \in Step \ {Idle}
    BY DEF Put, Saving, Step, Idle, After, Objects
<1>2. /\ Goto(s, After[name]) /\ Write(name, wanted[s]) /\ step[s] = <<"put", name>>
      /\ UNCHANGED <<annotation, running, wanted, overlapped, alone, supplied, acknowledged>>
    BY DEF Put, deployment, history, answers
<1>3. wanted[s] \in Settings /\ (wanted[s].paused => wanted[s].key \in supplied)
    BY <1>1 DEF Definite, DefiniteSave
<1>4. ASSUME s \in alone PROVE InPlace(s)'
  <2>0. InPlace(s) /\ step'[s] = After[name]
    BY <1>2, <1>4 DEF SerialInv, TypeOK, Goto
  <2>1. CASE name = "password"
    BY <1>2, <2>0, <2>1 DEF InPlace, Write, After, Idle
  <2>2. CASE name = "proxy"
    BY <1>2, <2>0, <2>2 DEF InPlace, Write, After, Idle
  <2>3. CASE name = "location"
    BY <1>2, <2>0, <2>3 DEF InPlace, Write, After, Idle
  <2>4. CASE name = "secret"
    BY <1>2, <2>0, <2>4 DEF InPlace, Write, After, Idle
  <2> QED
    BY <2>1, <2>2, <2>3, <2>4 DEF Objects
<1>5. ASSUME s \in alone PROVE KeepsKey(s)'
    BY <1>1, <1>2, <1>5 DEF SerialInv, KeepsKey, Configured, Write
<1>6. PasswordMatchesKey'
  <2>1. CASE overlapped
    BY <1>2, <2>1 DEF PasswordMatchesKey
  <2>2. CASE ~overlapped
    <3>1. InPlace(s) /\ KeepsKey(s)
      BY <1>1, <2>2 DEF SerialInv
    <3>2. CASE name = "password"
      BY <1>1, <1>2, <1>3, <3>1, <3>2 DEF PasswordMatchesKey, KeepsKey, Configured, Write
    <3>3. CASE name = "secret"
      BY <1>2, <3>1, <3>3 DEF PasswordMatchesKey, InPlace, Write, Idle
    <3>4. CASE name \in {"proxy", "location"}
      BY <1>2, <3>4 DEF SerialInv, PasswordMatchesKey, Configured, Write
    <3> QED
      BY <3>2, <3>3, <3>4 DEF Objects
  <2> QED
    BY <2>1, <2>2
<1> QED
    BY <1>1, <1>2, <1>4, <1>5, <1>6, OnwardSerial

LEMMA StepSerialInv == TypeOK /\ Definite /\ SerialInv /\ [Next]_vars => SerialInv'
<1> SUFFICES ASSUME TypeOK, Definite, SerialInv, [Next]_vars PROVE SerialInv'
    OBVIOUS
<1> USE DEF BeforePassword, BeforeProxy, BeforeLocation, BeforeAnnotation, BeforeRunning,
            BeforeSecret
<1>1. ASSUME NEW s \in Savers, NEW storage \in Storages, BeginSetup(s, storage)
      PROVE  SerialInv'
  <2>1. PICK key \in Keys :
          /\ secret # Unset => key = secret.key
          /\ wanted' = [wanted EXCEPT ![s] = [storage |-> storage, key |-> key, paused |-> FALSE]]
    BY <1>1 DEF BeginSetup
  <2>2. wanted'[s] = [storage |-> storage, key |-> key, paused |-> FALSE]
    BY <2>1 DEF TypeOK
  <2>3. wanted'[s] \in Settings /\ wanted'[s].key = key
    BY <2>2 DEF Settings
  <2>4. StartSave(s) /\ UNCHANGED <<objects, deployment>> /\ supplied' = supplied
    BY <1>1 DEF BeginSetup
  <2> QED
    BY <2>1, <2>3, <2>4, BeginSerial DEF Configured
<1>2. ASSUME NEW s \in Savers, NEW storage \in Storages, NEW key \in Keys,
             BeginRestore(s, storage, key)
      PROVE  SerialInv'
  <2>1. wanted'[s] = [storage |-> storage, key |-> key, paused |-> TRUE]
    BY <1>2 DEF BeginRestore, TypeOK
  <2>2. wanted'[s] \in Settings /\ wanted'[s].paused
    BY <2>1 DEF Settings
  <2>3. StartSave(s) /\ UNCHANGED <<objects, deployment>> /\ supplied \subseteq supplied'
    BY <1>2 DEF BeginRestore
  <2> QED
    BY <2>2, <2>3, BeginSerial
<1>3. ASSUME NEW s \in Savers, NEW name \in Objects, Get(s, name) PROVE SerialInv'
  <2>1. Saving(s) /\ <<"put", name>> \in Step \ {Idle}
    BY <1>3 DEF Get, Saving, Step, Idle
  <2>2. /\ Goto(s, <<"put", name>>) /\ step[s] = <<"get", name>>
        /\ UNCHANGED <<objects, deployment, wanted, overlapped, alone, supplied, acknowledged>>
    BY <1>3 DEF Get, history, answers
  <2>3. s \in alone => InPlace(s)' /\ KeepsKey(s)'
    BY <2>1, <2>2 DEF SerialInv, InPlace, KeepsKey, Configured, Goto, TypeOK, Objects, Idle,
                      objects, deployment, Saving
  <2>4. PasswordMatchesKey'
    BY <2>2 DEF SerialInv, PasswordMatchesKey, Configured, objects
  <2> QED
    BY <2>1, <2>2, <2>3, <2>4, OnwardSerial
<1>4. ASSUME NEW s \in Savers, NEW name \in Objects, Put(s, name) PROVE SerialInv'
    BY <1>4, PutSerial
<1>5. ASSUME NEW s \in Savers, (\E name \in Objects : Conflict(s, name)) \/ Fail(s)
      PROVE  SerialInv'
  <2>1. EndSave(s) /\ UNCHANGED <<objects, deployment, history>>
    BY <1>5 DEF Conflict, Fail
  <2>2. AcknowledgedIsInPlace'
    BY <2>1 DEF SerialInv, AcknowledgedIsInPlace, objects, deployment, history, answers
  <2> QED
    BY <2>1, <2>2, EndSerial DEF history, answers
<1>6. ASSUME NEW s \in Savers, Rollout(s) PROVE SerialInv'
  <2>1. Saving(s) /\ <<"await", "rollout">> \in Step \ {Idle}
    BY <1>6 DEF Rollout, Saving, Step, Idle
  <2>2. /\ Goto(s, <<"await", "rollout">>) /\ step[s] = <<"start", "rollout">>
        /\ annotation' = wanted[s].storage
        /\ UNCHANGED <<objects, running, wanted, overlapped, alone, supplied, acknowledged>>
    BY <1>6 DEF Rollout, history, answers
  <2>3. s \in alone => InPlace(s)' /\ KeepsKey(s)'
    BY <2>1, <2>2 DEF SerialInv, InPlace, KeepsKey, Configured, Goto, TypeOK, Idle, objects
  <2>4. PasswordMatchesKey'
    BY <2>2 DEF SerialInv, PasswordMatchesKey, Configured, objects
  <2> QED
    BY <2>1, <2>2, <2>3, <2>4, OnwardSerial
<1>7. ASSUME NEW s \in Savers, AwaitRollout(s) PROVE SerialInv'
  <2>1. Saving(s) /\ <<"get", "secret">> \in Step \ {Idle}
    BY <1>7 DEF AwaitRollout, Saving, Step, Idle, Objects
  <2>2. /\ Goto(s, <<"get", "secret">>) /\ step[s] = <<"await", "rollout">>
        /\ running = annotation
        /\ UNCHANGED <<objects, deployment, wanted, overlapped, alone, supplied, acknowledged>>
    BY <1>7 DEF AwaitRollout, history, answers
  <2>3. s \in alone => InPlace(s)' /\ KeepsKey(s)'
    BY <2>1, <2>2 DEF SerialInv, InPlace, KeepsKey, Configured, Goto, TypeOK, Idle, objects,
                      deployment
  <2>4. PasswordMatchesKey'
    BY <2>2 DEF SerialInv, PasswordMatchesKey, Configured, objects
  <2> QED
    BY <2>1, <2>2, <2>3, <2>4, OnwardSerial
<1>8. ASSUME NEW s \in Savers, Reply(s) PROVE SerialInv'
  <2>1. /\ EndSave(s) /\ UNCHANGED <<objects, deployment, overlapped, alone, supplied>>
        /\ acknowledged' = IF s \in alone THEN wanted[s] ELSE acknowledged
        /\ step[s] = <<"send", "reply">> /\ Saving(s)
    BY <1>8 DEF Reply, Saving, Idle
  <2>2. acknowledged = Unset
    BY <2>1 DEF SerialInv
  <2>3. s \in alone => InPlace(s)
    BY DEF SerialInv
  <2>4. AcknowledgedIsInPlace'
    BY <2>1, <2>2, <2>3 DEF AcknowledgedIsInPlace, InPlace, Idle, objects, deployment
  <2> QED
    BY <2>1, <2>2, <2>4, EndSerial
<1>9. CASE PodsReplaced
  <2>1. /\ UNCHANGED <<objects, annotation, saver, overlapped, alone, supplied, acknowledged>>
        /\ running' = annotation
    BY <1>9 DEF PodsReplaced, history, answers
  <2>2. \A s \in alone : Alone(s)' /\ InPlace(s)' /\ KeepsKey(s)'
    BY <2>1 DEF SerialInv, Alone, InPlace, KeepsKey, Configured, Saving, objects, saver
  <2>3. AcknowledgedIsInPlace' /\ PasswordMatchesKey'
    BY <2>1 DEF SerialInv, AcknowledgedIsInPlace, PasswordMatchesKey, Configured, objects
  <2> QED
    BY <2>1, <2>2, <2>3 DEF SerialInv, Saving, saver
<1>10. CASE UNCHANGED vars
    BY <1>10 DEF vars, objects, deployment, saver, history, answers, SerialInv, Alone, InPlace,
                 KeepsKey, Configured, Saving, AcknowledgedIsInPlace, PasswordMatchesKey
<1> QED
    BY <1>1, <1>2, <1>3, <1>4, <1>5, <1>6, <1>7, <1>8, <1>9, <1>10 DEF Next

LEMMA SerialInvariant == Spec => [](TypeOK /\ Definite /\ SerialInv)
<1>1. Init => SerialInv
    BY DEF Init, SerialInv, Saving, AcknowledgedIsInPlace, PasswordMatchesKey, Configured
<1> QED
    BY <1>1, StepSerialInv, TypeInvariant, PTL DEF Spec

\* What an acknowledged save that ran alone wanted is in place until the next begins.
THEOREM AcknowledgedStaysInPlace == Spec => []AcknowledgedIsInPlace
<1>1. SerialInv => AcknowledgedIsInPlace
    BY DEF SerialInv
<1> QED
    BY <1>1, SerialInvariant, PTL

\* Saves that never overlapped leave Velero's password equal to the key, or to one
\* that a restore supplied.
THEOREM PasswordFollowsKey == Spec => []PasswordMatchesKey
<1>1. SerialInv => PasswordMatchesKey
    BY DEF SerialInv
<1> QED
    BY <1>1, SerialInvariant, PTL

\* As long as saves do not overlap, only a restore changes the key of a cluster.
THEOREM SetupKeepsKey == Spec => KeyIsStable
<1>1. ASSUME TypeOK, SerialInv, [Next]_vars, Configured, ~overlapped, secret'.key # secret.key
      PROVE  secret'.paused
  <2>0. secret' # secret
    BY <1>1
  <2>1. PICK s \in Savers : Put(s, "secret")
    <3>1. ASSUME UNCHANGED objects PROVE FALSE
      BY <2>0, <3>1 DEF objects
    <3>2. PICK s \in Savers, name \in Objects : Put(s, name)
      BY <1>1, <3>1
      DEF Next, BeginSetup, BeginRestore, Get, Conflict, Rollout, AwaitRollout, Reply, Fail,
          PodsReplaced, vars
    <3>3. name = "secret"
      BY <2>0, <3>2 DEF Put, Write
    <3> QED
      BY <3>2, <3>3
  <2>2. Saving(s) /\ secret' = wanted[s]
    BY <2>1 DEF Put, Write, Saving, Idle
  <2> QED
    BY <1>1, <2>2 DEF SerialInv, KeepsKey
<1>2. TypeOK /\ SerialInv /\ [Next]_vars =>
        [Configured /\ ~overlapped /\ secret'.key # secret.key => secret'.paused]_vars
    BY <1>1
<1> QED
    BY <1>2, SerialInvariant, PTL DEF Spec, KeyIsStable
=============================================================================
