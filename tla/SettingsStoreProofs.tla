------------------------ MODULE SettingsStoreProofs ------------------------
(***************************************************************************)
(* For every number of keys, every value set, clock width and save delay:  *)
(* the types hold, no update of the settings is lost, and the store        *)
(* implements WriteBehind.                                                 *)
(***************************************************************************)
EXTENDS SettingsStore, TLAPS

\* settingsLoad gives every key a value, whatever NVS holds.
LEMMA LoadType ==
  ASSUME NEW store \in [Keys -> Values \cup {Unset}]
  PROVE  Load(store) \in [Keys -> Values]
BY ValuesAssumption DEF Load

\* The difference of two clock readings is a clock value: the loop's test
\* of the delay is that of unsigned arithmetic.
LEMMA ElapsedType ==
  ASSUME NEW t \in Clock, NEW t0 \in Clock
  PROVE  Elapsed(t, t0) \in Clock
BY ClockAssumption DEF Elapsed, Clock

\* Every variable keeps its type.
THEOREM TypeCorrect == Spec => []TypeOK
<1>1. Init => TypeOK
  <2> SUFFICES ASSUME Init PROVE TypeOK
    OBVIOUS
  <2>1. nvs \in [Keys -> Values \cup {Unset}]
    BY DEF Init
  <2>2. settings \in [Keys -> Values]
    BY <2>1, LoadType DEF Init
  <2>3. edit \in UNION {[S -> Values] : S \in SUBSET Keys}
    <3>1. edit \in [{} -> Values]
      BY DEF Init, NoEdit
    <3> QED
      BY <3>1
  <2>4. 0 \in Clock /\ 0 \in 0..MaxLag /\ 1 \in Keys
    BY ClockAssumption, TimingAssumption, KeysAssumption DEF Clock, Keys
  <2> QED
    BY <2>1, <2>2, <2>3, <2>4 DEF Init, TypeOK
<1>2. TypeOK /\ [Next]_vars => TypeOK'
  <2> SUFFICES ASSUME TypeOK, [Next]_vars PROVE TypeOK'
    OBVIOUS
  <2> USE DEF TypeOK
  <2>1. ASSUME NEW e \in Edits, BeginEdit(e) PROVE TypeOK'
    <3>1. e \in UNION {[S -> Values] : S \in SUBSET Keys}
      BY KeysAssumption DEF Edits
    <3> QED
      BY <2>1, <3>1 DEF BeginEdit, flagVars, clockVars, loopVars
  <2>2. CASE WriteField
    <3>1. PICK k \in DOMAIN edit :
             /\ settings' = [settings EXCEPT ![k] = edit[k]]
             /\ edit' = [j \in DOMAIN edit \ {k} |-> edit[j]]
      BY <2>2 DEF WriteField
    <3>2. PICK S \in SUBSET Keys : edit \in [S -> Values]
      OBVIOUS
    <3>3. settings' \in [Keys -> Values]
      BY <3>1, <3>2
    <3>4. S \ {k} \in SUBSET Keys /\ edit' \in [S \ {k} -> Values]
      BY <3>1, <3>2
    <3>5. edit' \in UNION {[R -> Values] : R \in SUBSET Keys}
      BY <3>4
    <3> QED
      BY <2>2, <3>3, <3>5 DEF WriteField, flagVars, clockVars, loopVars
  <2>3. CASE MarkDirty
    BY <2>3 DEF MarkDirty, clockVars, loopVars
  <2>4. CASE StampDirty
    BY <2>4 DEF StampDirty, clockVars, loopVars
  <2>5. CASE PollFlag
    BY <2>5, TimingAssumption DEF PollFlag, flagVars, handlerVars
  <2>6. CASE ReadClock
    BY <2>6, TimingAssumption DEF ReadClock, flagVars, handlerVars
  <2>7. CASE CompareStamp
    BY <2>7 DEF CompareStamp, flagVars, clockVars, handlerVars
  <2>8. CASE ClearFlag
    <3>1. 1 \in Keys
      BY KeysAssumption DEF Keys
    <3> QED
      BY <2>8, <3>1 DEF ClearFlag, clockVars, handlerVars
  <2>9. CASE ReadField
    BY <2>9 DEF ReadField, flagVars, clockVars, handlerVars
  <2>10. CASE PutField
    <3>1. key # NKeys => key + 1 \in Keys
      BY KeysAssumption DEF Keys
    <3>2. nvs' \in [Keys -> Values \cup {Unset}]
      BY <2>10 DEF PutField
    <3> QED
      BY <2>10, <3>1, <3>2 DEF PutField, flagVars, clockVars, handlerVars
  <2>11. CASE Tick
    BY <2>11, ClockAssumption, TimingAssumption
    DEF Tick, NextTick, flagVars, handlerVars, loopVars, Clock
  <2>12. CASE PowerLoss
    <3>1. settings' \in [Keys -> Values]
      BY <2>12, LoadType DEF PowerLoss
    <3>2. edit' \in UNION {[S -> Values] : S \in SUBSET Keys}
      <4>1. edit' \in [{} -> Values]
        BY <2>12 DEF PowerLoss, NoEdit
      <4> QED
        BY <4>1
    <3>3. 0 \in Clock /\ 0 \in 0..MaxLag /\ 1 \in Keys
      BY ClockAssumption, TimingAssumption, KeysAssumption DEF Clock, Keys
    <3> QED
      BY <2>12, <3>1, <3>2, <3>3 DEF PowerLoss
  <2>13. CASE UNCHANGED vars
    BY <2>13 DEF vars, flagVars, clockVars, handlerVars, loopVars
  <2> QED
    BY <2>1, <2>2, <2>3, <2>4, <2>5, <2>6, <2>7, <2>8, <2>9, <2>10, <2>11,
       <2>12, <2>13 DEF Next, Handler, Loop
<1> QED
  BY <1>1, <1>2, PTL DEF Spec

-----------------------------------------------------------------------------
(***************************************************************************)
(* No update is lost.  SavedOrOwed alone is not inductive: a save that     *)
(* carries a stale value could overwrite a fresh one.  CarriedFresh rules  *)
(* that out, and the two together are inductive.                           *)
(***************************************************************************)

\* A first boot owes nothing.
LEMMA InitNoLostUpdate == Init => NoLostUpdate
BY DEF Init, NoLostUpdate, SavedOrOwed, CarriedFresh

\* A put becomes stale only through a handler that will raise the flag.
LEMMA StepCarriedFresh ==
  TypeOK /\ CarriedFresh /\ [Next]_vars => CarriedFresh'
<1> SUFFICES ASSUME TypeOK, CarriedFresh, [Next]_vars PROVE CarriedFresh'
  OBVIOUS
<1> USE DEF CarriedFresh
<1>1. ASSUME NEW e \in Edits, BeginEdit(e) PROVE CarriedFresh'
  BY <1>1 DEF BeginEdit
<1>2. CASE WriteField
  BY <1>2 DEF WriteField
<1>3. CASE MarkDirty
  BY <1>3 DEF MarkDirty
<1>4. CASE StampDirty
  BY <1>4 DEF StampDirty, loopVars
<1>5. CASE PollFlag
  BY <1>5 DEF PollFlag
<1>6. CASE ReadClock
  BY <1>6 DEF ReadClock
<1>7. CASE CompareStamp
  BY <1>7 DEF CompareStamp
<1>8. CASE ClearFlag
  BY <1>8 DEF ClearFlag
<1>9. CASE ReadField
  BY <1>9 DEF ReadField
<1>10. CASE PutField
  BY <1>10 DEF PutField
<1>11. CASE Tick
  BY <1>11 DEF Tick, flagVars, handlerVars, loopVars
<1>12. CASE PowerLoss
  BY <1>12 DEF PowerLoss
<1>13. CASE UNCHANGED vars
  BY <1>13 DEF vars, flagVars, handlerVars, loopVars
<1> QED
  BY <1>1, <1>2, <1>3, <1>4, <1>5, <1>6, <1>7, <1>8, <1>9, <1>10, <1>11,
     <1>12, <1>13 DEF Next, Handler, Loop

\* A key that stops being owed is on NVS.
LEMMA StepSavedOrOwed ==
  TypeOK /\ NoLostUpdate /\ [Next]_vars => SavedOrOwed'
<1> SUFFICES ASSUME TypeOK, NoLostUpdate, [Next]_vars, NEW k \in Keys
             PROVE  settings'[k] = Load(nvs')[k] \/ Owed(k)'
  BY DEF SavedOrOwed
<1>0. settings[k] = Load(nvs)[k] \/ Owed(k)
  BY DEF NoLostUpdate, SavedOrOwed
<1> USE DEF Owed
<1>1. ASSUME NEW e \in Edits, BeginEdit(e) PROVE Owed(k)'
  BY <1>1 DEF BeginEdit
<1>2. CASE WriteField
  BY <1>2 DEF WriteField
<1>3. CASE MarkDirty
  BY <1>3 DEF MarkDirty
<1>4. CASE StampDirty
  BY <1>4, <1>0 DEF StampDirty, loopVars
<1>5. CASE PollFlag
  BY <1>5, <1>0 DEF PollFlag, flagVars, handlerVars
<1>6. CASE ReadClock
  BY <1>6, <1>0 DEF ReadClock, flagVars, handlerVars
<1>7. CASE CompareStamp
  BY <1>7, <1>0 DEF CompareStamp, flagVars, handlerVars
<1>8. CASE ClearFlag
  BY <1>8 DEF ClearFlag, Keys
<1>9. CASE ReadField
  <2>1. k \in Int /\ key \in Int
    BY DEF TypeOK, Keys
  <2> QED
    BY <1>9, <1>0, <2>1 DEF ReadField, flagVars, handlerVars
<1>10. CASE PutField
  <2>1. CASE settings_dirty \/ hpc = "write"
    BY <1>10, <2>1 DEF PutField, flagVars, handlerVars
  <2>2. CASE key = k /\ arg = settings[k]
    <3>1. arg \in Values /\ arg # Unset
      BY <1>10, ValuesAssumption DEF PutField, TypeOK
    <3>2. nvs'[k] = arg /\ settings'[k] = arg
      BY <1>10, <2>2 DEF PutField, TypeOK
    <3> QED
      BY <3>1, <3>2 DEF Load
  <2>3. CASE key < k
    <3>1. key # NKeys /\ key + 1 <= k
      BY <2>3, KeysAssumption DEF Keys, TypeOK
    <3> QED
      BY <1>10, <3>1 DEF PutField
  <2>4. CASE settings[k] = Load(nvs)[k] /\ key # k
    <3>1. nvs'[k] = nvs[k] /\ settings'[k] = settings[k]
      BY <1>10, <2>4 DEF PutField, TypeOK
    <3> QED
      BY <2>4, <3>1 DEF Load
  <2>5. key = k => arg = settings[k] \/ settings_dirty \/ hpc = "write"
    BY <1>10 DEF NoLostUpdate, CarriedFresh, PutField
  <2> QED
    BY <1>10, <1>0, <2>1, <2>2, <2>3, <2>4, <2>5 DEF PutField
<1>11. CASE Tick
  BY <1>11, <1>0 DEF Tick, flagVars, handlerVars, loopVars
<1>12. CASE PowerLoss
  BY <1>12 DEF PowerLoss
<1>13. CASE UNCHANGED vars
  BY <1>13, <1>0 DEF vars, flagVars, handlerVars, loopVars
<1> QED
  BY <1>1, <1>2, <1>3, <1>4, <1>5, <1>6, <1>7, <1>8, <1>9, <1>10, <1>11,
     <1>12, <1>13 DEF Next, Handler, Loop

\* No lost update: whatever the interleaving of requests, saves and power
\* losses, a setting a reboot would not bring back is still owed to NVS.
THEOREM NoUpdateIsLost == Spec => []NoLostUpdate
<1>1. Init => NoLostUpdate
  BY InitNoLostUpdate
<1>2. TypeOK /\ NoLostUpdate /\ [Next]_vars => NoLostUpdate'
  BY StepCarriedFresh, StepSavedOrOwed DEF NoLostUpdate
<1> QED
  BY <1>1, <1>2, TypeCorrect, PTL DEF Spec

-----------------------------------------------------------------------------
(***************************************************************************)
(* The store implements WriteBehind, step by step.                         *)
(***************************************************************************)

\* A first boot is an initial state of WriteBehind.
LEMMA InitMaps == Init => Store!Init
<1> SUFFICES ASSUME Init PROVE Store!Init
  OBVIOUS
<1>1. settings \in [Keys -> Values]
  BY LoadType DEF Init
<1> QED
  BY <1>1 DEF Init, Store!Init, Owed

\* Every step is one of WriteBehind, or leaves its variables alone.
LEMMA StepMaps ==
  TypeOK /\ TypeOK' /\ NoLostUpdate /\ NoLostUpdate' /\ [Next]_vars
    => [Store!Next]_(Store!vars)
<1> SUFFICES ASSUME TypeOK, TypeOK', NoLostUpdate, NoLostUpdate', [Next]_vars
             PROVE  Store!Next \/ UNCHANGED Store!vars
  OBVIOUS
<1> DEFINE carried == [k \in Keys |-> IF lpc = "put" /\ key = k THEN {arg} ELSE {}]
           owed == {k \in Keys : Owed(k)}
<1>a. settings \in [Keys -> Values] /\ Load(nvs) \in [Keys -> Values]
  BY LoadType DEF TypeOK
<1>b. settings' \in [Keys -> Values] /\ Load(nvs') \in [Keys -> Values]
  BY LoadType DEF TypeOK
<1>c. /\ carried \in [Keys -> SUBSET Values]
      /\ carried' \in [Keys -> SUBSET Values]
  BY DEF TypeOK
<1>d. lpc # "put" /\ lpc' # "put" => carried' = carried
  OBVIOUS
<1>e. ASSUME UNCHANGED <<settings, nvs>>, carried' = carried, owed' = owed
      PROVE  UNCHANGED Store!vars
  BY <1>e DEF Store!vars
<1>1. ASSUME NEW e \in Edits, BeginEdit(e) PROVE Store!Owe
  BY <1>1 DEF BeginEdit, loopVars, Store!Owe, Owed
<1>2. CASE WriteField
  <2>1. owed = Keys /\ owed' = Keys
    BY <1>2 DEF WriteField, Owed
  <2> QED
    BY <1>2, <2>1, <1>b DEF WriteField, loopVars, Store!Next, Store!Write
<1>3. CASE MarkDirty
  BY <1>3, <1>e DEF MarkDirty, loopVars, Owed
<1>4. CASE StampDirty
  BY <1>4, <1>e DEF StampDirty, loopVars, Owed
<1>5. CASE PollFlag
  BY <1>5, <1>d, <1>e DEF PollFlag, flagVars, handlerVars, Owed
<1>6. CASE ReadClock
  BY <1>6, <1>d, <1>e DEF ReadClock, flagVars, handlerVars, Owed
<1>7. CASE CompareStamp
  BY <1>7, <1>d, <1>e DEF CompareStamp, flagVars, handlerVars, Owed
<1>8. CASE ClearFlag
  <2>1. owed' = Keys
    BY <1>8 DEF ClearFlag, Owed, Keys
  <2> QED
    BY <1>8, <1>d, <2>1 DEF ClearFlag, handlerVars, Store!Next, Store!Owe
<1>9. CASE ReadField
  <2>1. owed' = owed
    BY <1>9 DEF ReadField, flagVars, handlerVars, Owed, TypeOK, Keys
  <2>2. \A k \in Keys : carried'[k] \in {carried[k], {settings[k]}, {}}
    BY <1>9 DEF ReadField
  <2> QED
    BY <1>9, <1>c, <2>1, <2>2 DEF ReadField, Store!Next, Store!Carry
<1>10. CASE PutField
  <2>1. carried' = [k \in Keys |-> {}]
    BY <1>10 DEF PutField
  <2>2. \A k \in Keys : Load(nvs')[k] \in carried[k] \cup {Load(nvs)[k]}
    BY <1>10, ValuesAssumption DEF PutField, Load, TypeOK
  <2>3. owed' \in SUBSET owed
    BY <1>10 DEF PutField, flagVars, handlerVars, Owed, TypeOK, Keys
  <2>4. ASSUME NEW k \in Keys \ owed' PROVE Load(nvs')[k] = settings[k]
    <3>1. settings'[k] = Load(nvs')[k]
      BY <2>4 DEF NoLostUpdate, SavedOrOwed
    <3> QED
      BY <1>10, <3>1 DEF PutField
  <2> QED
    BY <1>10, <1>b, <1>c, <2>1, <2>2, <2>3, <2>4
    DEF PutField, Store!Next, Store!Persist
<1>11. CASE Tick
  BY <1>11, <1>e DEF Tick, flagVars, handlerVars, loopVars, Owed
<1>12. CASE PowerLoss
  <2>1. carried' = [k \in Keys |-> {}] /\ owed' = {}
    BY <1>12 DEF PowerLoss, Owed
  <2> QED
    BY <1>12, <2>1 DEF PowerLoss, Store!Next, Store!PowerLoss
<1>13. CASE UNCHANGED vars
  BY <1>13, <1>e DEF vars, flagVars, handlerVars, loopVars, Owed
<1> QED
  BY <1>1, <1>2, <1>3, <1>4, <1>5, <1>6, <1>7, <1>8, <1>9, <1>10, <1>11,
     <1>12, <1>13 DEF Next, Handler, Loop, Store!Next

\* The settings struct, its flag and the loop's save implement a write-behind
\* store: RAM changes only while owed, NVS receives only what RAM held, and a
\* key stops being owed only when NVS has it.
THEOREM ImplementationIsCorrect == Spec => ImplementsWriteBehind
<1> QED
  BY InitMaps, StepMaps, TypeCorrect, NoUpdateIsLost, PTL
  DEF Spec, ImplementsWriteBehind, Store!Spec

\* A setting that is no longer owed survives a power loss: it follows from the
\* promise of a write-behind store alone, which is what the promise is for.
THEOREM SettledSurvives == Spec => []Store!SettledIsDurable
<1>1. Store!Init => Store!SettledIsDurable
  BY DEF Store!Init, Store!SettledIsDurable
<1>2. Store!SettledIsDurable /\ [Store!Next]_(Store!vars) => Store!SettledIsDurable'
  <2> SUFFICES ASSUME Store!SettledIsDurable, [Store!Next]_(Store!vars) PROVE Store!SettledIsDurable'
    OBVIOUS
  <2> USE DEF Store!SettledIsDurable
  <2>1. CASE Store!Owe
    BY <2>1 DEF Store!Owe
  <2>2. CASE Store!Write
    BY <2>2 DEF Store!Write
  <2>3. CASE Store!Carry
    BY <2>3 DEF Store!Carry
  <2>4. CASE Store!Persist
    BY <2>4 DEF Store!Persist
  <2>5. CASE Store!PowerLoss
    BY <2>5 DEF Store!PowerLoss
  <2>6. CASE UNCHANGED Store!vars
    BY <2>6 DEF Store!vars
  <2> QED
    BY <2>1, <2>2, <2>3, <2>4, <2>5, <2>6 DEF Store!Next
<1> QED
  BY <1>1, <1>2, ImplementationIsCorrect, PTL DEF ImplementsWriteBehind, Store!Spec

=============================================================================
