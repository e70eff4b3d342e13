--------------------------- MODULE DspStoreProofs ---------------------------
(***************************************************************************)
(* For every number of controls, every value set, clock width and delay:   *)
(* the types hold, a DSP value is lost only by a change that overlaps a    *)
(* save, and the store implements WriteBehind.                             *)
(***************************************************************************)
EXTENDS DspStore, TLAPS

\* A boot gives every control a value, whatever the stored map holds.
LEMMA LoadType ==
  ASSUME NEW store \in [Ids -> Values \cup {Unset}]
  PROVE  Load(store) \in [Ids -> Values]
BY DspValuesAssumption DEF Load

\* The first and the last entry of the vector, and the constants of a reset.
LEMMA Zeroes == 0 \in Clock /\ 0 \in 0..MaxLag /\ 1 \in Ids /\ NIds \in Ids
BY ClockAssumption, TimingAssumption, IdsAssumption DEF Clock, Ids

\* An empty request and an empty document.
LEMMA NoValuesType ==
  /\ NoValues \in UNION {[S -> Values] : S \in SUBSET Ids}
  /\ NoValues \in [{} -> Values]
<1>1. NoValues \in [{} -> Values]
  BY DEF NoValues
<1> QED
  BY <1>1

\* Every variable keeps its type, and the document holds the entries the copy
\* has passed.
THEOREM TypeCorrect == Spec => []TypeOK
<1>1. Init => TypeOK
  <2> SUFFICES ASSUME Init PROVE TypeOK
    OBVIOUS
  <2>1. nvs \in [Ids -> Values \cup {Unset}]
    BY DEF Init
  <2>2. dsp_values \in [Ids -> Values]
    BY <2>1, LoadType DEF Init
  <2>3. doc \in [Copied -> Values]
    BY NoValuesType DEF Init, Copied
  <2> QED
    BY <2>1, <2>2, <2>3, Zeroes, NoValuesType DEF Init, TypeOK
<1>2. TypeOK /\ [Next]_vars => TypeOK'
  <2> SUFFICES ASSUME TypeOK, [Next]_vars PROVE TypeOK'
    OBVIOUS
  <2> USE DEF TypeOK
  <2>a. ASSUME UNCHANGED <<dsp_values, nvs>>, doc' = doc, Copied' = Copied
        PROVE  /\ dsp_values' \in [Ids -> Values]
               /\ nvs' \in [Ids -> Values \cup {Unset}]
               /\ doc' \in [Copied' -> Values]
    BY <2>a
  <2>1. ASSUME NEW e \in Edits, BeginEdit(e) PROVE TypeOK'
    <3>1. e \in UNION {[S -> Values] : S \in SUBSET Ids}
      BY DEF Edits
    <3>2. Copied' = Copied
      BY <2>1 DEF BeginEdit, loopVars, Copied
    <3> QED
      BY <2>1, <3>1, <3>2 DEF BeginEdit, flagVars, clockVars, loopVars
  <2>2. CASE WriteValue
    <3>1. PICK i \in DOMAIN edit :
             /\ dsp_values' = [dsp_values EXCEPT ![i] = edit[i]]
             /\ edit' = [j \in DOMAIN edit \ {i} |-> edit[j]]
      BY <2>2 DEF WriteValue
    <3>2. PICK S \in SUBSET Ids : edit \in [S -> Values]
      OBVIOUS
    <3>3. dsp_values' \in [Ids -> Values]
      BY <3>1, <3>2
    <3>4. S \ {i} \in SUBSET Ids /\ edit' \in [S \ {i} -> Values]
      BY <3>1, <3>2
    <3>5. edit' \in UNION {[R -> Values] : R \in SUBSET Ids}
      BY <3>4
    <3>6. changed' \in BOOLEAN /\ overlapped' \in BOOLEAN
      BY <2>2 DEF WriteValue
    <3>7. Copied' = Copied
      BY <2>2 DEF WriteValue, loopVars, Copied
    <3> QED
      BY <2>2, <3>3, <3>5, <3>6, <3>7 DEF WriteValue, flagVars, clockVars, loopVars
  <2>3. CASE MarkDirty
    <3>1. Copied' = Copied
      BY <2>3 DEF MarkDirty, loopVars, Copied
    <3> QED
      BY <2>3, <3>1 DEF MarkDirty, clockVars, loopVars
  <2>4. CASE StampDirty
    <3>1. Copied' = Copied
      BY <2>4 DEF StampDirty, loopVars, Copied
    <3> QED
      BY <2>4, <3>1 DEF StampDirty, clockVars, loopVars
  <2>5. CASE PollFlag
    <3>1. Copied' = Copied
      BY <2>5 DEF PollFlag, Copied
    <3> QED
      BY <2>5, <3>1, Zeroes DEF PollFlag, flagVars, handlerVars
  <2>6. CASE ReadClock
    <3>1. Copied' = Copied
      BY <2>6 DEF ReadClock, Copied
    <3> QED
      BY <2>6, <3>1, Zeroes DEF ReadClock, flagVars, handlerVars
  <2>7. CASE CompareStamp
    <3>1. Copied = {} /\ (lpc' = "poll" => Copied' = {})
      BY <2>7 DEF CompareStamp, Copied
    <3>2. lpc' = "copy" => Copied' = {}
      BY <2>7 DEF CompareStamp, Copied
    <3>3. doc' \in [Copied' -> Values]
      BY <2>7, <3>1, <3>2, NoValuesType DEF CompareStamp
    <3> QED
      BY <2>7, <3>3, Zeroes DEF CompareStamp, flagVars, clockVars, handlerVars
  <2>8. CASE CopyEntry
    <3>1. Copied = 1..(next - 1) /\ next \in Ids
      BY <2>8 DEF CopyEntry, Copied
    <3>2. Copied' = 1..next
      <4>1. CASE next = NIds
        BY <2>8, <4>1 DEF CopyEntry, Copied, Ids
      <4>2. CASE next # NIds
        <5>1. lpc' = "copy" /\ next' = next + 1
          BY <2>8, <4>2 DEF CopyEntry
        <5>2. (next + 1) - 1 = next
          BY <3>1 DEF Ids
        <5> QED
          BY <5>1, <5>2 DEF Copied
      <4> QED
        BY <4>1, <4>2
    <3>3. DOMAIN doc \cup {next} = Copied'
      BY <3>1, <3>2 DEF Ids
    <3>4. doc' \in [Copied' -> Values]
      <4>1. \A i \in DOMAIN doc : doc[i] \in Values
        OBVIOUS
      <4>2. dsp_values[next] \in Values
        BY <3>1
      <4> QED
        BY <2>8, <3>3, <4>1, <4>2 DEF CopyEntry
    <3>5. next' \in Ids
      BY <2>8, <3>1, IdsAssumption DEF CopyEntry, Ids
    <3> QED
      BY <2>8, <3>4, <3>5 DEF CopyEntry, flagVars, clockVars, handlerVars
  <2>9. CASE PutMap
    <3>1. Copied = Ids /\ Copied' = Ids
      BY <2>9 DEF PutMap, Copied
    <3>2. nvs' \in [Ids -> Values \cup {Unset}] /\ doc' \in [Copied' -> Values]
      BY <2>9, <3>1 DEF PutMap
    <3> QED
      BY <2>9, <3>2 DEF PutMap, flagVars, clockVars, handlerVars
  <2>10. CASE ClearFlag
    <3>1. Copied' = {}
      BY <2>10 DEF ClearFlag, Copied
    <3>2. doc' \in [Copied' -> Values]
      BY <2>10, <3>1, NoValuesType DEF ClearFlag
    <3> QED
      BY <2>10, <3>2, Zeroes DEF ClearFlag, clockVars, handlerVars
  <2>11. CASE Tick
    <3>1. Copied' = Copied
      BY <2>11 DEF Tick, loopVars, Copied
    <3>2. now' \in Clock /\ lag' \in 0..MaxLag
      BY <2>11, ClockAssumption, TimingAssumption DEF Tick, NextTick, Clock
    <3> QED
      BY <2>11, <3>1, <3>2 DEF Tick, flagVars, handlerVars, loopVars
  <2>12. CASE PowerLoss
    <3>1. dsp_values' \in [Ids -> Values]
      BY <2>12, LoadType DEF PowerLoss
    <3>2. doc' \in [Copied' -> Values]
      BY <2>12, NoValuesType DEF PowerLoss, Copied
    <3> QED
      BY <2>12, <3>1, <3>2, Zeroes, NoValuesType DEF PowerLoss
  <2>13. CASE UNCHANGED vars
    <3>1. Copied' = Copied
      BY <2>13 DEF vars, loopVars, Copied
    <3> QED
      BY <2>13, <3>1 DEF vars, flagVars, clockVars, handlerVars, loopVars
  <2> QED
    BY <2>1, <2>2, <2>3, <2>4, <2>5, <2>6, <2>7, <2>8, <2>9, <2>10, <2>11,
       <2>12, <2>13 DEF Next, Handler, Loop
<1> QED
  BY <1>1, <1>2, PTL DEF Spec

-----------------------------------------------------------------------------
(***************************************************************************)
(* What is lost.  LostOnlyByOverlap alone is not inductive: lowering the   *)
(* flag is harmless only because the document that went to NVS still is    *)
(* what RAM has.  The three parts below follow the save and say so.        *)
(***************************************************************************)

\* A save is under way only while the flag is up: only the loop lowers it.
DirtyWhileSaving == lpc \in {"clock", "compare"} \/ Saving => dsp_values_dirty

\* Unless a change overlapped the save, what it has copied is what RAM has.
DocFresh == Saving /\ ~overlapped => \A i \in Copied : doc[i] = dsp_values[i]

\* Before the flag goes down NVS has the document.
DocStored == lpc = "clear" => nvs = doc

LossInv == DirtyWhileSaving /\ DocFresh /\ DocStored /\ LostOnlyByOverlap

\* No handler lowers the flag.
LEMMA StepDirtyWhileSaving ==
  DirtyWhileSaving /\ [Next]_vars => DirtyWhileSaving'
<1> SUFFICES ASSUME DirtyWhileSaving, [Next]_vars PROVE DirtyWhileSaving'
  OBVIOUS
<1> USE DEF DirtyWhileSaving, Saving
<1>1. ASSUME NEW e \in Edits, BeginEdit(e) PROVE DirtyWhileSaving'
  BY <1>1 DEF BeginEdit, flagVars, loopVars
<1>2. CASE WriteValue
  BY <1>2 DEF WriteValue, flagVars, loopVars
<1>3. CASE MarkDirty
  BY <1>3 DEF MarkDirty, loopVars
<1>4. CASE StampDirty
  BY <1>4 DEF StampDirty, loopVars
<1>5. CASE PollFlag
  BY <1>5 DEF PollFlag, flagVars
<1>6. CASE ReadClock
  BY <1>6 DEF ReadClock, flagVars
<1>7. CASE CompareStamp
  BY <1>7 DEF CompareStamp, flagVars
<1>8. CASE CopyEntry
  BY <1>8 DEF CopyEntry, flagVars
<1>9. CASE PutMap
  BY <1>9 DEF PutMap, flagVars
<1>10. CASE ClearFlag
  BY <1>10 DEF ClearFlag
<1>11. CASE Tick
  BY <1>11 DEF Tick, flagVars, loopVars
<1>12. CASE PowerLoss
  BY <1>12 DEF PowerLoss
<1>13. CASE UNCHANGED vars
  BY <1>13 DEF vars, flagVars, loopVars
<1> QED
  BY <1>1, <1>2, <1>3, <1>4, <1>5, <1>6, <1>7, <1>8, <1>9, <1>10, <1>11,
     <1>12, <1>13 DEF Next, Handler, Loop

\* A change to an entry the document holds is an overlap.
LEMMA StepDocFresh ==
  TypeOK /\ DocFresh /\ [Next]_vars => DocFresh'
<1> SUFFICES ASSUME TypeOK, DocFresh, [Next]_vars,
                    Saving', ~overlapped', NEW k \in Copied'
             PROVE  doc'[k] = dsp_values'[k]
  BY DEF DocFresh
<1>0. ASSUME UNCHANGED <<dsp_values, lpc, next, doc, overlapped>>
      PROVE  doc'[k] = dsp_values'[k]
  BY <1>0 DEF DocFresh, Saving, Copied
<1>1. ASSUME NEW e \in Edits, BeginEdit(e) PROVE doc'[k] = dsp_values'[k]
  BY <1>0, <1>1 DEF BeginEdit, loopVars
<1>2. CASE WriteValue
  <2>1. PICK i \in DOMAIN edit :
          /\ dsp_values' = [dsp_values EXCEPT ![i] = edit[i]]
          /\ overlapped' = (overlapped \/ (Saving /\ edit[i] # dsp_values[i]))
    BY <1>2 DEF WriteValue
  <2>2. Saving /\ Copied' = Copied /\ doc' = doc
    BY <1>2 DEF WriteValue, loopVars, Saving, Copied
  <2>3. dsp_values' = dsp_values
    BY <2>1, <2>2 DEF TypeOK
  <2> QED
    BY <2>1, <2>2, <2>3 DEF DocFresh
<1>3. CASE MarkDirty
  BY <1>0, <1>3 DEF MarkDirty, loopVars
<1>4. CASE StampDirty
  BY <1>0, <1>4 DEF StampDirty, loopVars
<1>5. CASE PollFlag
  BY <1>5 DEF PollFlag, Saving
<1>6. CASE ReadClock
  BY <1>6 DEF ReadClock, Saving
<1>7. CASE CompareStamp
  <2>1. lpc' = "copy" => Copied' = {}
    BY <1>7 DEF CompareStamp, Copied
  <2> QED
    BY <1>7, <2>1 DEF CompareStamp, Saving
<1>8. CASE CopyEntry
  <2>1. Copied = 1..(next - 1) /\ Copied' \subseteq Copied \cup {next}
    BY <1>8 DEF CopyEntry, Copied, TypeOK, Ids
  <2>2. k \in Copied \cup {next} /\ DOMAIN doc = Copied
    BY <2>1 DEF TypeOK
  <2>3. doc'[k] = IF k = next THEN dsp_values[k] ELSE doc[k]
    BY <1>8, <2>2 DEF CopyEntry
  <2>4. k # next => doc[k] = dsp_values[k]
    BY <1>8, <2>2 DEF CopyEntry, DocFresh, Saving
  <2> QED
    BY <1>8, <2>3, <2>4 DEF CopyEntry
<1>9. CASE PutMap
  BY <1>9 DEF PutMap, DocFresh, Saving, Copied
<1>10. CASE ClearFlag
  BY <1>10 DEF ClearFlag, Saving
<1>11. CASE Tick
  BY <1>0, <1>11 DEF Tick, loopVars
<1>12. CASE PowerLoss
  BY <1>12 DEF PowerLoss, Saving
<1>13. CASE UNCHANGED vars
  BY <1>0, <1>13 DEF vars, loopVars
<1> QED
  BY <1>1, <1>2, <1>3, <1>4, <1>5, <1>6, <1>7, <1>8, <1>9, <1>10, <1>11,
     <1>12, <1>13 DEF Next, Handler, Loop

\* Nothing touches NVS or the document between the put and the flag.
LEMMA StepDocStored ==
  DocStored /\ [Next]_vars => DocStored'
BY DEF DocStored, Next, Handler, Loop, BeginEdit, WriteValue, MarkDirty, StampDirty,
   PollFlag, ReadClock, CompareStamp, CopyEntry, PutMap, ClearFlag, Tick, PowerLoss,
   vars, loopVars

\* No step loses a value without an overlap.
LEMMA StepLostOnlyByOverlap ==
  TypeOK /\ LossInv /\ [Next]_vars => LostOnlyByOverlap'
<1> SUFFICES ASSUME TypeOK, LossInv, [Next]_vars, ~overlapped' PROVE NoLostUpdate'
  BY DEF LostOnlyByOverlap
<1>0. ASSUME ~overlapped, UNCHANGED <<dsp_values, nvs>>, Pending => Pending'
      PROVE  NoLostUpdate'
  BY <1>0 DEF LossInv, LostOnlyByOverlap, NoLostUpdate, Load
<1> USE DEF Pending
<1>1. ASSUME NEW e \in Edits, BeginEdit(e) PROVE NoLostUpdate'
  BY <1>0, <1>1 DEF BeginEdit, flagVars
<1>2. CASE WriteValue
  <2>1. PICK i \in DOMAIN edit :
          /\ dsp_values' = [dsp_values EXCEPT ![i] = edit[i]]
          /\ changed' = (changed \/ edit[i] # dsp_values[i])
          /\ overlapped' = (overlapped \/ (Saving /\ edit[i] # dsp_values[i]))
    BY <1>2 DEF WriteValue
  <2>2. CASE edit[i] # dsp_values[i]
    BY <1>2, <2>1, <2>2 DEF WriteValue, NoLostUpdate
  <2>3. CASE edit[i] = dsp_values[i]
    <3>1. dsp_values' = dsp_values /\ ~overlapped
      BY <2>1, <2>3 DEF TypeOK
    <3> QED
      BY <1>0, <1>2, <2>1, <3>1 DEF WriteValue, flagVars
  <2> QED
    BY <2>2, <2>3
<1>3. CASE MarkDirty
  BY <1>0, <1>3 DEF MarkDirty
<1>4. CASE StampDirty
  BY <1>0, <1>4 DEF StampDirty
<1>5. CASE PollFlag
  BY <1>0, <1>5 DEF PollFlag, flagVars, handlerVars
<1>6. CASE ReadClock
  BY <1>0, <1>6 DEF ReadClock, flagVars, handlerVars
<1>7. CASE CompareStamp
  \* Forgetting the overlap of the save before is safe: the flag is up.
  BY <1>7 DEF CompareStamp, flagVars, LossInv, DirtyWhileSaving, NoLostUpdate
<1>8. CASE CopyEntry
  BY <1>0, <1>8 DEF CopyEntry, flagVars, handlerVars
<1>9. CASE PutMap
  BY <1>9 DEF PutMap, flagVars, LossInv, DirtyWhileSaving, Saving, NoLostUpdate
<1>10. CASE ClearFlag
  <2>1. Copied = Ids /\ doc \in [Ids -> Values]
    BY <1>10 DEF ClearFlag, Copied, TypeOK
  <2>2. \A i \in Ids : doc[i] = dsp_values[i]
    BY <1>10, <2>1 DEF ClearFlag, LossInv, DocFresh, Saving
  <2>3. nvs = dsp_values
    BY <1>10, <2>1, <2>2 DEF ClearFlag, LossInv, DocStored, TypeOK
  <2>4. Load(dsp_values) = dsp_values
    BY DspValuesAssumption DEF TypeOK, Load
  <2> QED
    BY <1>10, <2>3, <2>4 DEF ClearFlag, NoLostUpdate
<1>11. CASE Tick
  BY <1>0, <1>11 DEF Tick, flagVars, handlerVars
<1>12. CASE PowerLoss
  BY <1>12 DEF PowerLoss, NoLostUpdate
<1>13. CASE UNCHANGED vars
  BY <1>0, <1>13 DEF vars, flagVars, handlerVars
<1> QED
  BY <1>1, <1>2, <1>3, <1>4, <1>5, <1>6, <1>7, <1>8, <1>9, <1>10, <1>11,
     <1>12, <1>13 DEF Next, Handler, Loop

\* A DSP value that nobody is going to save and that a reboot would not bring
\* back changed while a save was under way: there is no other way to lose it.
THEOREM OnlyOverlapLoses == Spec => []LostOnlyByOverlap
<1>1. Init => LossInv
  BY DEF Init, LossInv, DirtyWhileSaving, DocFresh, DocStored, Saving,
     LostOnlyByOverlap, NoLostUpdate
<1>2. TypeOK /\ LossInv /\ [Next]_vars => LossInv'
  BY StepDirtyWhileSaving, StepDocFresh, StepDocStored, StepLostOnlyByOverlap DEF LossInv
<1>3. LossInv => LostOnlyByOverlap
  BY DEF LossInv
<1> QED
  BY <1>1, <1>2, <1>3, TypeCorrect, PTL DEF Spec

-----------------------------------------------------------------------------
(***************************************************************************)
(* The store implements WriteBehind with every id always owed.             *)
(***************************************************************************)

\* A first boot is an initial state of WriteBehind.
LEMMA InitMaps == Init => Store!Init
<1> SUFFICES ASSUME Init PROVE Store!Init
  OBVIOUS
<1>1. dsp_values \in [Ids -> Values]
  BY LoadType DEF Init
<1>2. DOMAIN doc = {}
  BY DEF Init, NoValues
<1> QED
  BY <1>1, <1>2 DEF Init, Store!Init

\* Every step is one of WriteBehind, or leaves its variables alone.
LEMMA StepMaps ==
  TypeOK /\ TypeOK' /\ [Next]_vars => [Store!Next]_(Store!vars)
<1> SUFFICES ASSUME TypeOK, TypeOK', [Next]_vars
             PROVE  Store!Next \/ UNCHANGED Store!vars
  OBVIOUS
<1> DEFINE carried == [i \in Ids |-> IF i \in DOMAIN doc THEN {doc[i]} ELSE {}]
<1>a. /\ dsp_values' \in [Ids -> Values]
      /\ Load(nvs) \in [Ids -> Values] /\ Load(nvs') \in [Ids -> Values]
  BY LoadType DEF TypeOK
<1>b. DOMAIN doc = Copied /\ DOMAIN doc' = Copied'
  BY DEF TypeOK
<1>c. carried \in [Ids -> SUBSET Values] /\ carried' \in [Ids -> SUBSET Values]
  BY DEF TypeOK
<1>d. ASSUME UNCHANGED <<dsp_values, nvs, doc>> PROVE UNCHANGED Store!vars
  BY <1>d DEF Store!vars
<1>e. ASSUME UNCHANGED <<dsp_values, nvs>>, DOMAIN doc' = {} PROVE Store!Next
  BY <1>c, <1>e DEF Store!Next, Store!Carry
<1>1. ASSUME NEW e \in Edits, BeginEdit(e) PROVE UNCHANGED Store!vars
  BY <1>1, <1>d DEF BeginEdit, loopVars
<1>2. CASE WriteValue
  BY <1>2, <1>a DEF WriteValue, loopVars, Store!Next, Store!Write
<1>3. CASE MarkDirty
  BY <1>3, <1>d DEF MarkDirty, loopVars
<1>4. CASE StampDirty
  BY <1>4, <1>d DEF StampDirty, loopVars
<1>5. CASE PollFlag
  BY <1>5, <1>d DEF PollFlag
<1>6. CASE ReadClock
  BY <1>6, <1>d DEF ReadClock
<1>7. CASE CompareStamp
  <2>1. doc' = doc \/ DOMAIN doc' = {}
    BY <1>7 DEF CompareStamp, NoValues
  <2> QED
    BY <1>7, <1>d, <1>e, <2>1 DEF CompareStamp
<1>8. CASE CopyEntry
  <2>1. \A i \in Ids : carried'[i] \in {carried[i], {dsp_values[i]}, {}}
    BY <1>8 DEF CopyEntry
  <2> QED
    BY <1>8, <1>c, <2>1 DEF CopyEntry, Store!Next, Store!Carry
<1>9. CASE PutMap
  <2>1. carried' = carried
    BY <1>9 DEF PutMap
  <2>2. Copied = Ids
    BY <1>9 DEF PutMap, Copied
  <2>3. \A i \in Ids : Load(nvs')[i] \in carried[i]
    BY <1>9, <1>b, <2>2, DspValuesAssumption DEF PutMap, Load, TypeOK
  <2> QED
    BY <1>9, <1>a, <1>c, <2>1, <2>3 DEF PutMap, Store!Next, Store!Persist
<1>10. CASE ClearFlag
  BY <1>10, <1>e DEF ClearFlag, NoValues
<1>11. CASE Tick
  BY <1>11, <1>d DEF Tick, loopVars
<1>12. CASE PowerLoss
  <2>1. DOMAIN doc' = {}
    BY <1>12 DEF PowerLoss, NoValues
  <2> QED
    BY <1>12, <2>1 DEF PowerLoss, Store!Next, Store!PowerLoss
<1>13. CASE UNCHANGED vars
  BY <1>13, <1>d DEF vars, loopVars
<1> QED
  BY <1>1, <1>2, <1>3, <1>4, <1>5, <1>6, <1>7, <1>8, <1>9, <1>10, <1>11,
     <1>12, <1>13 DEF Next, Handler, Loop, Store!Next

\* NVS receives only values RAM held, and a boot finds what NVS holds.
THEOREM ImplementationIsCorrect == Spec => SavesOnlyRam
<1> QED
  BY InitMaps, StepMaps, TypeCorrect, PTL DEF Spec, SavesOnlyRam, Store!Spec
=============================================================================
