------------------------------ MODULE DspStore ------------------------------
(***************************************************************************)
(* How the DSP control values of one loaded bundle reach NVS.  The         *)
(* async_tcp task changes entries of dsp_values (set_dsp, load_preset) and *)
(* marks them dirty; the loop task copies them, entry by entry, into a     *)
(* JSON text, puts the text under "dspVals" and lowers the flag LAST.      *)
(*                                                                         *)
(* The ids are numbered in the order of the vector.  Which bundle is       *)
(* loaded, and the hardware writes, which the loop takes no part in, are   *)
(* the matter of DspManager.                                               *)
(***************************************************************************)
EXTENDS Millis

CONSTANTS
  NIds,        \* number of controls of the bundle
  Values,      \* values within every control's range
  Default,     \* what syncDspValuesWithControls gives an id NVS does not have
  Unset,       \* an id that the stored map does not hold
  SaveDelay,   \* DSP_SAVE_DELAY_MS
  MaxLag       \* bound: ticks between two polls of the loop

Ids == 1..NIds

ASSUME IdsAssumption == NIds \in Nat \ {0}
ASSUME DspValuesAssumption == Default \in [Ids -> Values] /\ Unset \notin Values
ASSUME TimingAssumption == SaveDelay \in Nat /\ MaxLag \in Nat

VARIABLES
  dsp_values, dsp_values_dirty, dsp_values_dirty_since,
  nvs,                   \* the map stored under "dspVals"
  now, lag,              \* millis(); ticks since the loop last read it
  hpc, edit, changed,    \* handler: where it is, values to go, applyPreset's flag
  lpc, seen, next, doc,  \* loop: where it is, its clock, its entry, its JSON
  overlapped             \* history: an entry changed during the latest save

handlerVars == <<hpc, edit, changed>>
loopVars == <<lpc, seen, next, doc>>
flagVars == <<dsp_values_dirty, dsp_values_dirty_since>>
clockVars == <<now, lag>>
vars == <<dsp_values, flagVars, nvs, clockVars, handlerVars, loopVars, overlapped>>

NoValues == [i \in {} |-> Unset]

\* set_dsp carries one id, a preset any of them.
Edits == UNION {[S -> Values] : S \in (SUBSET Ids) \ {{}}}

\* What the boot makes of the stored map: loadDspValuesFromPrefs, and a
\* default for every id it does not hold.
Load(store) == [i \in Ids |-> IF store[i] = Unset THEN Default[i] ELSE store[i]]

Init ==
  /\ nvs = [i \in Ids |-> Unset]
  /\ dsp_values = Load(nvs)
  /\ dsp_values_dirty = FALSE
  /\ dsp_values_dirty_since = 0
  /\ now = 0
  /\ lag = 0
  /\ hpc = "idle"
  /\ edit = NoValues
  /\ changed = FALSE
  /\ lpc = "poll"
  /\ seen = 0
  /\ next = 1
  /\ doc = NoValues
  /\ overlapped = FALSE

-----------------------------------------------------------------------------
(* The async_tcp task *)

BeginEdit(e) ==
  /\ hpc = "idle"
  /\ hpc' = "write"
  /\ edit' = e
  /\ changed' = FALSE
  /\ UNCHANGED <<dsp_values, flagVars, nvs, clockVars, loopVars, overlapped>>

Saving == lpc \in {"copy", "put", "clear"}

\* The next value of the request, if it differs from the one in place.
WriteValue ==
  /\ hpc = "write"
  /\ \E i \in DOMAIN edit :
       /\ \A j \in DOMAIN edit : i <= j
       /\ dsp_values' = [dsp_values EXCEPT ![i] = edit[i]]
       /\ changed' = (changed \/ edit[i] # dsp_values[i])
       /\ overlapped' = (overlapped \/ (Saving /\ edit[i] # dsp_values[i]))
       /\ edit' = [j \in DOMAIN edit \ {i} |-> edit[j]]
  /\ UNCHANGED <<flagVars, nvs, clockVars, hpc, loopVars>>

\* Mutant: a request that changed values forgets to mark them.
MarkDirtyNever ==
  /\ hpc = "write"
  /\ DOMAIN edit = {}
  /\ hpc' = "idle"
  /\ UNCHANGED <<dsp_values, flagVars, nvs, clockVars, edit, changed, loopVars,
                 overlapped>>

\* markDspValuesDirty, its first half, when anything changed ...
MarkDirty ==
  /\ hpc = "write"
  /\ DOMAIN edit = {}
  /\ IF changed
     THEN dsp_values_dirty' = TRUE /\ hpc' = "stamp"
     ELSE hpc' = "idle" /\ UNCHANGED dsp_values_dirty
  /\ UNCHANGED <<dsp_values, dsp_values_dirty_since, nvs, clockVars, edit, changed,
                 loopVars, overlapped>>

\* ... and its second.
StampDirty ==
  /\ hpc = "stamp"
  /\ dsp_values_dirty_since' = now
  /\ hpc' = "idle"
  /\ UNCHANGED <<dsp_values, dsp_values_dirty, nvs, clockVars, edit, changed,
                 loopVars, overlapped>>

Handler == WriteValue \/ MarkDirty \/ StampDirty

-----------------------------------------------------------------------------
(* The loop task: flushPendingDspSaves *)

PollFlag ==
  /\ lpc = "poll"
  /\ lpc' = IF dsp_values_dirty THEN "clock" ELSE "poll"
  /\ lag' = IF dsp_values_dirty THEN lag ELSE 0
  /\ UNCHANGED <<dsp_values, flagVars, nvs, now, handlerVars, seen, next, doc,
                 overlapped>>

ReadClock ==
  /\ lpc = "clock"
  /\ seen' = now
  /\ lag' = 0
  /\ lpc' = "compare"
  /\ UNCHANGED <<dsp_values, flagVars, nvs, now, handlerVars, next, doc, overlapped>>

\* The save starts with an empty document.
CompareStamp ==
  /\ lpc = "compare"
  /\ IF Elapsed(seen, dsp_values_dirty_since) < SaveDelay
     THEN lpc' = "poll" /\ UNCHANGED <<next, doc, overlapped>>
     ELSE /\ lpc' = "copy"
          /\ next' = 1
          /\ doc' = NoValues
          /\ overlapped' = FALSE
  /\ UNCHANGED <<dsp_values, flagVars, nvs, clockVars, handlerVars, seen>>

\* doc[entry.id] = entry.value
CopyEntry ==
  /\ lpc = "copy"
  /\ doc' = [i \in DOMAIN doc \cup {next} |->
               IF i = next THEN dsp_values[i] ELSE doc[i]]
  /\ IF next = NIds THEN lpc' = "put" /\ UNCHANGED next
                    ELSE lpc' = "copy" /\ next' = next + 1
  /\ UNCHANGED <<dsp_values, flagVars, nvs, clockVars, handlerVars, seen, overlapped>>

\* The whole map goes to NVS in one put.
PutMap ==
  /\ lpc = "put"
  /\ nvs' = doc
  /\ lpc' = "clear"
  /\ UNCHANGED <<dsp_values, flagVars, clockVars, handlerVars, seen, next, doc,
                 overlapped>>

\* The flag goes down AFTER the put, whatever was marked since.
ClearFlag ==
  /\ lpc = "clear"
  /\ dsp_values_dirty' = FALSE
  /\ doc' = NoValues
  /\ next' = 1
  /\ lpc' = "poll"
  /\ UNCHANGED <<dsp_values, dsp_values_dirty_since, nvs, clockVars, handlerVars,
                 seen, overlapped>>

Loop == PollFlag \/ ReadClock \/ CompareStamp \/ CopyEntry \/ PutMap \/ ClearFlag

-----------------------------------------------------------------------------
(* Time and power *)

Tick ==
  /\ lag < MaxLag
  /\ lag' = lag + 1
  /\ now' = NextTick(now)
  /\ UNCHANGED <<dsp_values, flagVars, nvs, handlerVars, loopVars, overlapped>>

\* Mutant: the boot gives every control its default.
PowerLossNoLoad ==
  /\ dsp_values' = Default
  /\ dsp_values_dirty' = FALSE
  /\ dsp_values_dirty_since' = 0
  /\ now' = 0
  /\ lag' = 0
  /\ hpc' = "idle"
  /\ edit' = NoValues
  /\ changed' = FALSE
  /\ lpc' = "poll"
  /\ seen' = 0
  /\ next' = 1
  /\ doc' = NoValues
  /\ overlapped' = FALSE
  /\ UNCHANGED nvs

\* Power is lost anywhere; dspInit loads NVS before either task runs.
PowerLoss ==
  /\ dsp_values' = Load(nvs)
  /\ dsp_values_dirty' = FALSE
  /\ dsp_values_dirty_since' = 0
  /\ now' = 0
  /\ lag' = 0
  /\ hpc' = "idle"
  /\ edit' = NoValues
  /\ changed' = FALSE
  /\ lpc' = "poll"
  /\ seen' = 0
  /\ next' = 1
  /\ doc' = NoValues
  /\ overlapped' = FALSE
  /\ UNCHANGED nvs

Next == (\E e \in Edits : BeginEdit(e)) \/ Handler \/ Loop \/ Tick \/ PowerLoss

\* Both tasks are scheduled for ever and time passes.
Fairness == WF_vars(Handler) /\ WF_vars(Loop) /\ WF_vars(Tick)

Spec == Init /\ [][Next]_vars
FairSpec == Spec /\ Fairness

-----------------------------------------------------------------------------
(* Properties *)

\* The entries the document holds: none before the copy, all after it.
Copied == IF lpc \in {"put", "clear"} THEN Ids
          ELSE IF lpc = "copy" THEN 1..(next - 1) ELSE {}

\* Type invariant: the variables of both tasks have their types, and the
\* document holds the entries the copy has passed.
TypeOK ==
  /\ dsp_values \in [Ids -> Values]
  /\ dsp_values_dirty \in BOOLEAN
  /\ dsp_values_dirty_since \in Clock
  /\ nvs \in [Ids -> Values \cup {Unset}]
  /\ now \in Clock
  /\ lag \in 0..MaxLag
  /\ hpc \in {"idle", "write", "stamp"}
  /\ edit \in UNION {[S -> Values] : S \in SUBSET Ids}
  /\ changed \in BOOLEAN
  /\ lpc \in {"poll", "clock", "compare", "copy", "put", "clear"}
  /\ seen \in Clock
  /\ next \in Ids
  /\ overlapped \in BOOLEAN
  /\ doc \in [Copied -> Values]

\* Somebody is still going to start a save.
Pending ==
  \/ dsp_values_dirty
  \/ hpc = "write" /\ changed

\* No lost update: once nobody is going to save any more, NVS has what RAM has.
NoLostUpdate == Pending \/ dsp_values = Load(nvs)

\* The loss has one cause: an entry that changed while a save was under way,
\* between the copy of the first entry and the lowering of the flag.  The
\* next save that no change overlaps makes up for it.
LostOnlyByOverlap == overlapped \/ NoLostUpdate

\* Once requests stop, NVS has the values for good, unless the latest save was
\* overlapped: no stamp, clock wrap or half-made document leaves them behind.
EventuallySaved ==
  <>[](hpc = "idle") => <>[](overlapped \/ dsp_values = Load(nvs))

\* NVS receives only what RAM held, and a boot finds what NVS holds: a
\* write-behind store that never promises when (every id is always owed).
Store == INSTANCE WriteBehind WITH
  Keys <- Ids,
  mem <- dsp_values,
  durable <- Load(nvs),
  carried <- [i \in Ids |-> IF i \in DOMAIN doc THEN {doc[i]} ELSE {}],
  owed <- Ids
SavesOnlyRam == Store!Spec
=============================================================================
