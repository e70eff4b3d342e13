--------------------------- MODULE SettingsStore ---------------------------
(***************************************************************************)
(* The operator's settings: a global struct that the async_tcp task writes *)
(* field by field (set_settings, calibration solve and clear) and that the *)
(* Arduino loop task copies to NVS, key by key, once it has been left      *)
(* alone for SETTINGS_SAVE_DELAY_MS.  The tasks share no lock: each step   *)
(* below is one access to a shared variable.                               *)
(*                                                                         *)
(* Keys are numbered in the order of settingsSave, which is also the order *)
(* in which every writer assigns them.                                     *)
(***************************************************************************)
EXTENDS Millis

CONSTANTS
  NKeys,            \* number of NVS keys settingsSave writes
  OperatorKeys,     \* the keys set_settings may carry, any subset of them
  CalibrationKeys,  \* one set of keys per thermistor channel
  Values,
  Factory,          \* the struct's default member initialisers
  Unset,            \* a key that NVS does not hold yet
  SaveDelay,        \* SETTINGS_SAVE_DELAY_MS
  MaxLag            \* bound: ticks between two polls of the loop

Keys == 1..NKeys

ASSUME KeysAssumption ==
  /\ NKeys \in Nat \ {0}
  /\ OperatorKeys \subseteq Keys
  /\ CalibrationKeys \subseteq SUBSET Keys
ASSUME ValuesAssumption ==
  /\ Factory \in [Keys -> Values]
  /\ Unset \notin Values
ASSUME TimingAssumption == SaveDelay \in Nat /\ MaxLag \in Nat

VARIABLES
  settings,              \* Settings settings
  settings_dirty,
  settings_dirty_since,
  nvs,                   \* the "bootbox" namespace
  now,                   \* millis()
  lag,                   \* ticks since the loop last read the clock
  hpc, edit,             \* handler: where it is, fields still to assign
  lpc, seen, key, arg    \* loop: where it is, its clock, its key, its value

handlerVars == <<hpc, edit>>
loopVars == <<lpc, seen, key, arg>>
flagVars == <<settings_dirty, settings_dirty_since>>
clockVars == <<now, lag>>
vars == <<settings, flagVars, nvs, clockVars, handlerVars, loopVars>>

NoEdit == [k \in {} |-> Unset]

\* Every assignment a request can carry: set_settings tests each key for
\* presence, a calibration always writes the three fields of its channel.
Edits ==
  UNION {[S -> Values] : S \in (SUBSET OperatorKeys) \cup CalibrationKeys}

\* What settingsLoad makes of NVS.
Load(store) == [k \in Keys |-> IF store[k] = Unset THEN Factory[k] ELSE store[k]]

Init ==
  /\ nvs = [k \in Keys |-> Unset]
  /\ settings = Load(nvs)
  /\ settings_dirty = FALSE
  /\ settings_dirty_since = 0
  /\ now = 0
  /\ lag = 0
  /\ hpc = "idle"
  /\ edit = NoEdit
  /\ lpc = "poll"
  /\ seen = 0
  /\ key = 1
  /\ arg = Unset

-----------------------------------------------------------------------------
(* The async_tcp task *)

\* A request arrives.  Nothing checks its values.
BeginEdit(e) ==
  /\ hpc = "idle"
  /\ hpc' = "write"
  /\ edit' = e
  /\ UNCHANGED <<settings, flagVars, nvs, clockVars, loopVars>>

\* The handler assigns the next field the request carries.
WriteField ==
  /\ hpc = "write"
  /\ \E k \in DOMAIN edit :
       /\ \A j \in DOMAIN edit : k <= j
       /\ settings' = [settings EXCEPT ![k] = edit[k]]
       /\ edit' = [j \in DOMAIN edit \ {k} |-> edit[j]]
  /\ UNCHANGED <<flagVars, nvs, clockVars, hpc, loopVars>>

\* markSettingsDirty, its first half ...
MarkDirty ==
  /\ hpc = "write"
  /\ DOMAIN edit = {}
  /\ settings_dirty' = TRUE
  /\ hpc' = "stamp"
  /\ UNCHANGED <<settings, settings_dirty_since, nvs, clockVars, edit, loopVars>>

\* ... and its second: the loop can look between the two.
StampDirty ==
  /\ hpc = "stamp"
  /\ settings_dirty_since' = now
  /\ hpc' = "idle"
  /\ UNCHANGED <<settings, settings_dirty, nvs, clockVars, edit, loopVars>>

Handler == WriteField \/ MarkDirty \/ StampDirty

-----------------------------------------------------------------------------
(* The loop task *)

\* settings_dirty && millis() - ... : the flag, then the clock.
PollFlag ==
  /\ lpc = "poll"
  /\ lpc' = IF settings_dirty THEN "clock" ELSE "poll"
  /\ lag' = IF settings_dirty THEN lag ELSE 0
  /\ UNCHANGED <<settings, flagVars, nvs, now, handlerVars, seen, key, arg>>

ReadClock ==
  /\ lpc = "clock"
  /\ seen' = now
  /\ lag' = 0
  /\ lpc' = "compare"
  /\ UNCHANGED <<settings, flagVars, nvs, now, handlerVars, key, arg>>

\* The stamp is read after the clock: a stamp that is newer than the clock
\* reading wraps the unsigned difference.
CompareStamp ==
  /\ lpc = "compare"
  /\ lpc' = IF Elapsed(seen, settings_dirty_since) > SaveDelay
            THEN "clear" ELSE "poll"
  /\ UNCHANGED <<settings, flagVars, nvs, clockVars, handlerVars, seen, key, arg>>

\* The flag goes down BEFORE settingsSave reads the struct.
ClearFlag ==
  /\ lpc = "clear"
  /\ settings_dirty' = FALSE
  /\ key' = 1
  /\ lpc' = "arg"
  /\ UNCHANGED <<settings, settings_dirty_since, nvs, clockVars, handlerVars,
                 seen, arg>>

\* settingsSave reads a field as the argument of its put ...
ReadField ==
  /\ lpc = "arg"
  /\ arg' = settings[key]
  /\ lpc' = "put"
  /\ UNCHANGED <<settings, flagVars, nvs, clockVars, handlerVars, seen, key>>

\* Mutant: the flag goes down after the save, as saveDspValuesNow has it.
PutFieldThenClear ==
  /\ lpc = "put"
  /\ nvs' = [nvs EXCEPT ![key] = arg]
  /\ arg' = Unset
  /\ IF key = NKeys
     THEN lpc' = "poll" /\ settings_dirty' = FALSE /\ UNCHANGED key
     ELSE lpc' = "arg" /\ key' = key + 1 /\ UNCHANGED settings_dirty
  /\ UNCHANGED <<settings, settings_dirty_since, clockVars, handlerVars, seen>>

\* ... and NVS takes it, one key at a time.
PutField ==
  /\ lpc = "put"
  /\ nvs' = [nvs EXCEPT ![key] = arg]
  /\ arg' = Unset
  /\ IF key = NKeys
     THEN lpc' = "poll" /\ UNCHANGED key
     ELSE lpc' = "arg" /\ key' = key + 1
  /\ UNCHANGED <<settings, flagVars, clockVars, handlerVars, seen>>

Loop == PollFlag \/ ReadClock \/ CompareStamp \/ ClearFlag \/ ReadField \/ PutField

-----------------------------------------------------------------------------
(* Time and power *)

Tick ==
  /\ lag < MaxLag
  /\ lag' = lag + 1
  /\ now' = NextTick(now)
  /\ UNCHANGED <<settings, flagVars, nvs, handlerVars, loopVars>>

\* Mutant: the boot does not load the settings.
PowerLossNoLoad ==
  /\ settings' = Factory
  /\ settings_dirty' = FALSE
  /\ settings_dirty_since' = 0
  /\ now' = 0
  /\ lag' = 0
  /\ hpc' = "idle"
  /\ edit' = NoEdit
  /\ lpc' = "poll"
  /\ seen' = 0
  /\ key' = 1
  /\ arg' = Unset
  /\ UNCHANGED nvs

\* Power is lost anywhere; setup() loads NVS before either task runs.
PowerLoss ==
  /\ settings' = Load(nvs)
  /\ settings_dirty' = FALSE
  /\ settings_dirty_since' = 0
  /\ now' = 0
  /\ lag' = 0
  /\ hpc' = "idle"
  /\ edit' = NoEdit
  /\ lpc' = "poll"
  /\ seen' = 0
  /\ key' = 1
  /\ arg' = Unset
  /\ UNCHANGED nvs

Next == (\E e \in Edits : BeginEdit(e)) \/ Handler \/ Loop \/ Tick \/ PowerLoss

\* Both tasks are scheduled for ever and time passes.  Requests and power
\* losses owe nobody anything.
Fairness == WF_vars(Handler) /\ WF_vars(Loop) /\ WF_vars(Tick)

Spec == Init /\ [][Next]_vars
FairSpec == Spec /\ Fairness

-----------------------------------------------------------------------------
(* Properties *)

\* Type invariant: every variable of the two tasks and of the store has its
\* type, the loop's key is one that settingsSave writes, and what it is about
\* to put is a value.
TypeOK ==
  /\ settings \in [Keys -> Values]
  /\ nvs \in [Keys -> Values \cup {Unset}]
  /\ settings_dirty \in BOOLEAN
  /\ settings_dirty_since \in Clock
  /\ now \in Clock
  /\ lag \in 0..MaxLag
  /\ hpc \in {"idle", "write", "stamp"}
  /\ edit \in UNION {[S -> Values] : S \in SUBSET Keys}
  /\ lpc \in {"poll", "clock", "compare", "clear", "arg", "put"}
  /\ seen \in Clock
  /\ key \in Keys
  /\ arg \in IF lpc = "put" THEN Values ELSE {Unset}

\* Somebody is still going to bring key k to NVS: the flag is up, a handler
\* that will raise it is running, or the save under way has k ahead of it.
Owed(k) ==
  \/ settings_dirty
  \/ hpc = "write"
  \/ lpc = "arg" /\ key <= k
  \/ lpc = "put" /\ key < k
  \/ lpc = "put" /\ key = k /\ arg = settings[k]

\* No lost update: whatever the interleaving of a request with the save, a
\* field whose RAM value a reboot would not bring back is still owed to NVS,
\* and a save puts a stale value only if another save is due.
\* It rests on the loop lowering settings_dirty before it reads the struct
\* and on handlers raising it after their last assignment.
SavedOrOwed == \A k \in Keys : settings[k] = Load(nvs)[k] \/ Owed(k)
CarriedFresh ==
  lpc = "put" => arg = settings[key] \/ settings_dirty \/ hpc = "write"
NoLostUpdate == SavedOrOwed /\ CarriedFresh

\* Once requests stop, the settings in RAM are what a reboot loads, for good:
\* no stamp, clock wrap or half-finished save leaves them behind.
EventuallyDurable ==
  <>[](hpc = "idle") => <>[](settings = Load(nvs))

\* The settings are a write-behind store: see WriteBehind.
Store == INSTANCE WriteBehind WITH
  mem <- settings,
  durable <- Load(nvs),
  carried <- [k \in Keys |-> IF lpc = "put" /\ key = k THEN {arg} ELSE {}],
  owed <- {k \in Keys : Owed(k)}
ImplementsWriteBehind == Store!Spec
=============================================================================
