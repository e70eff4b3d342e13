----------------------------- MODULE DspManager -----------------------------
(***************************************************************************)
(* The DSP manager: bundles and presets on LittleFS, the loaded schema and *)
(* the control values in RAM, the active bundle and the values in NVS, and *)
(* the ADAU1701 behind I2C with its EEPROM, the program it runs and its    *)
(* parameter registers.                                                    *)
(*                                                                         *)
(* Every request handler runs to completion on the async_tcp task, so one  *)
(* action is one request.  The loop task only flushes the values; that     *)
(* race is the matter of DspStore, here the flush is one step.             *)
(***************************************************************************)
EXTENDS Integers, FiniteSets

CONSTANTS
  Bundles, PresetNames, Ids,
  Interfaces,       \* interface.xml texts by what parseDspInterface makes of
                    \* them: a function from control ids to their max (min is 0)
  Programs,         \* what an upload may leave in program.bin: SigmaStudio
                    \* images, and Torn when it is cut off
  Oversize,         \* those that do not fit the EEPROM
  UiOnly,           \* the ids whose address is 0
  MaxValue,         \* values are 0..MaxValue
  ResetPin,         \* PIN_ADAU_RESET >= 0
  EntryNameIsPath,  \* File::name() gives the full path, not the base name
  FlashFull,        \* LittleFS may refuse to open or to extend a file
  None, Torn, Unknown

Values == 0..MaxValue
ValueMaps == UNION {[S -> Values] : S \in SUBSET Ids}

ASSUME InterfacesAssumption ==
  Interfaces \subseteq UNION {[S -> Values \ {0}] : S \in SUBSET Ids}
ASSUME HardwareAssumption ==
  /\ MaxValue \in Nat
  /\ Oversize \subseteq Programs
  /\ UiOnly \subseteq Ids
  /\ {ResetPin, EntryNameIsPath, FlashFull} \subseteq BOOLEAN
ASSUME MarkersAssumption ==
  /\ None \notin Bundles \cup Programs \cup Interfaces \cup ValueMaps
  /\ Torn \notin ValueMaps
  /\ Torn # None
  /\ Unknown \notin Values

VARIABLES
  dirs,          \* the directories under /dsp
  program,       \* program.bin of every bundle
  iface,         \* interface.xml of every bundle
  presets,       \* the preset files of every bundle
  dsp,           \* dsp_controls, dsp_values, dsp_active_bundle, dsp_schema_ready
  dirty,         \* dsp_values_dirty
  nvs,           \* "dspBundle" and "dspVals"
  adau_ready,
  adau_last_error,   \* empty, or what went wrong last
  eeprom, running, registers,
  reply          \* how the latest request was answered; "ok" also if it was not

fsVars == <<dirs, program, iface, presets>>
ramVars == <<dsp, dirty>>
linkVars == <<adau_ready, adau_last_error>>
chipVars == <<eeprom, running, registers>>
vars == <<fsVars, ramVars, nvs, linkVars, chipVars, reply>>

NoControls == [i \in {} |-> 0]
Blank == [i \in Ids |-> Unknown]
Clamp(v, hi) == IF v > hi THEN hi ELSE v

\* parseDspInterface succeeds when it finds a control.
Parses(doc) == doc # None /\ DOMAIN doc # {}

\* Mutant: the values of the previous schema are kept.
SyncKeepsStale(values, controls) ==
  [i \in DOMAIN values \cup DOMAIN controls |->
     IF i \in DOMAIN values THEN values[i] ELSE controls[i] \div 2]

\* Mutant: the middle of the range is not halved, nor clamped.
SyncUnscaled(values, controls) ==
  [i \in DOMAIN controls |->
     IF i \in DOMAIN values THEN values[i] ELSE controls[i] * 2]

\* syncDspValuesWithControls: stale ids go, new ones get the middle of their
\* range, and an id both schemas know keeps its value whatever its new range.
Sync(values, controls) ==
  [i \in DOMAIN controls |->
     IF i \in DOMAIN values THEN values[i] ELSE controls[i] \div 2]

\* applyAllDspValuesToHardware: acks are the ids whose register write the chip
\* acknowledges.
Acks == SUBSET (Ids \ UiOnly)
Mapped(d) == DOMAIN d.controls \ UiOnly
Replay(regs, d, acks) ==
  [i \in Ids |-> IF i \in Mapped(d) \cap acks THEN d.values[i] ELSE regs[i]]

\* The error of the latest failed write stays until the next boot.
ErrorAfter(d, acks, err) ==
  IF Mapped(d) \subseteq acks THEN err ELSE "fault"

Loaded(d, name, doc) ==
  [controls |-> doc, values |-> Sync(d.values, doc), active |-> name, ready |-> TRUE]

\* Mutant: the name is stored before the schema is found to parse.
LoadDspBundleStoresFirst(name, doc, persist, acks) ==
  /\ nvs' = IF persist THEN [nvs EXCEPT !.bundle = name] ELSE nvs
  /\ IF ~Parses(doc)
     THEN UNCHANGED <<dsp, registers, adau_last_error>>
     ELSE LET d == Loaded(dsp, name, doc)
          IN  /\ dsp' = d
              /\ registers' = IF adau_ready THEN Replay(registers, d, acks) ELSE registers
              /\ adau_last_error' = IF adau_ready THEN ErrorAfter(d, acks, adau_last_error)
                                    ELSE adau_last_error

\* loadDspBundle with a name: nothing happens unless the schema parses, and
\* the values it drops or invents are not marked dirty.
LoadDspBundle(name, doc, persist, acks) ==
  IF ~Parses(doc)
  THEN UNCHANGED <<dsp, nvs, registers, adau_last_error>>
  ELSE LET d == Loaded(dsp, name, doc)
       IN  /\ dsp' = d
           /\ nvs' = IF persist THEN [nvs EXCEPT !.bundle = name] ELSE nvs
           /\ registers' = IF adau_ready THEN Replay(registers, d, acks) ELSE registers
           /\ adau_last_error' = IF adau_ready THEN ErrorAfter(d, acks, adau_last_error)
                                 ELSE adau_last_error

\* Mutant: the controls of the bundle that is gone stay.
UnloadDspBundleKeepsControls ==
  /\ dsp' = [dsp EXCEPT !.active = None, !.ready = FALSE]
  /\ nvs' = [nvs EXCEPT !.bundle = None]
  /\ UNCHANGED <<registers, adau_last_error>>

\* loadDspBundle without a name and no bundle to pick.
UnloadDspBundle ==
  /\ dsp' = [dsp EXCEPT !.controls = NoControls, !.active = None, !.ready = FALSE]
  /\ nvs' = [nvs EXCEPT !.bundle = None]
  /\ UNCHANGED <<registers, adau_last_error>>

Init ==
  /\ dirs = {}
  /\ program = [b \in Bundles |-> None]
  /\ iface = [b \in Bundles |-> None]
  /\ presets = [b \in Bundles |-> [p \in PresetNames |-> None]]
  /\ dsp = [controls |-> NoControls, values |-> NoControls, active |-> None,
            ready |-> FALSE]
  /\ dirty = FALSE
  /\ nvs = [bundle |-> None, values |-> NoControls]
  /\ adau_ready \in BOOLEAN
  /\ adau_last_error = IF adau_ready THEN "" ELSE "fault"
  /\ eeprom = None
  /\ running = None
  /\ registers = Blank
  /\ reply = "ok"

-----------------------------------------------------------------------------
(* POST /api/upload/adau *)

\* The program: replaced whole, or cut off by a lost connection or a full
\* flash.  The answer is ok either way.
UploadProgram(b, image) ==
  /\ dirs' = dirs \cup {b}
  /\ program' = [program EXCEPT ![b] = image]
  /\ reply' = "ok"
  /\ UNCHANGED <<iface, presets, ramVars, nvs, linkVars, chipVars>>

\* The interface, to its last chunk: the active bundle is reloaded from it.
UploadInterface(b, doc, acks) ==
  /\ dirs' = dirs \cup {b}
  /\ iface' = [iface EXCEPT ![b] = doc]
  /\ reply' = "ok"
  /\ IF b = dsp.active
     THEN LoadDspBundle(b, doc, FALSE, acks)
     ELSE UNCHANGED <<dsp, nvs, registers, adau_last_error>>
  /\ UNCHANGED <<program, presets, dirty, adau_ready, eeprom, running>>

\* The connection is lost before the last chunk: whatever prefix has arrived
\* has replaced the file, and nothing is reloaded.
UploadCut(b, doc) ==
  /\ dirs' = dirs \cup {b}
  /\ iface' = [iface EXCEPT ![b] = doc]
  /\ reply' = "ok"
  /\ UNCHANGED <<program, presets, ramVars, nvs, linkVars, chipVars>>

-----------------------------------------------------------------------------
(* POST /api/dsp/action: bundles *)

SelectBundle(b, acks) ==
  /\ LoadDspBundle(b, iface[b], TRUE, acks)
  /\ reply' = IF Parses(iface[b]) THEN "ok" ELSE "failed"
  /\ UNCHANGED <<fsVars, dirty, adau_ready, eeprom, running>>

\* The files of a directory are removed by entry.name(), which names a file
\* only if it is a path; rmdir takes an empty directory.
RemoveBundle(b) ==
  IF EntryNameIsPath
  THEN /\ dirs' = dirs \ {b}
       /\ program' = [program EXCEPT ![b] = None]
       /\ iface' = [iface EXCEPT ![b] = None]
       /\ presets' = [presets EXCEPT ![b] = [p \in PresetNames |-> None]]
  ELSE /\ dirs' = IF program[b] = None /\ iface[b] = None THEN dirs \ {b} ELSE dirs
       /\ UNCHANGED <<program, iface, presets>>

\* When the active bundle goes, the first directory LittleFS lists is loaded;
\* if that one has no schema, the deleted bundle stays the active one.
DeleteBundle(b, acks) ==
  /\ b \in dirs
  /\ RemoveBundle(b)
  /\ IF b # dsp.active THEN UNCHANGED <<dsp, nvs, registers, adau_last_error>>
     ELSE \/ dirs' = {} /\ UnloadDspBundle
          \/ \E first \in dirs' : LoadDspBundle(first, iface'[first], TRUE, acks)
  /\ reply' = "bundle_deleted"
  /\ UNCHANGED <<dirty, adau_ready, eeprom, running>>

\* No name, no such directory, or a rename to a name that is taken.
RefuseBundle ==
  /\ reply' = "failed"
  /\ UNCHANGED <<fsVars, ramVars, nvs, linkVars, chipVars>>

\* The files are copied and the originals removed, one after the other; a
\* short write goes unnoticed.
Copies(content) == IF FlashFull /\ content # None THEN {content, Torn} ELSE {content}
DocCopies(doc) == IF FlashFull /\ doc # None THEN Interfaces \cup {doc} ELSE {doc}
TornSets == IF FlashFull THEN SUBSET PresetNames ELSE {{}}
Moved(from, to, names, torn) ==
  [presets EXCEPT
     ![to] = [p \in PresetNames |->
                IF p \notin names \/ presets[from][p] = None THEN @[p]
                ELSE IF p \in torn THEN Torn ELSE presets[from][p]],
     ![from] = [p \in PresetNames |-> IF p \in names THEN None ELSE @[p]]]

RenameBundle(b, new, acks) ==
  /\ b \in dirs /\ new \notin dirs
  /\ dirs' = (dirs \ {b}) \cup {new}
  /\ \E image \in Copies(program[b]) :
       program' = [program EXCEPT ![new] = image, ![b] = None]
  /\ \E doc \in DocCopies(iface[b]) :
       iface' = [iface EXCEPT ![new] = doc, ![b] = None]
  /\ \E torn \in TornSets : presets' = Moved(b, new, PresetNames, torn)
  /\ IF b = dsp.active THEN LoadDspBundle(new, iface'[new], TRUE, acks)
     ELSE UNCHANGED <<dsp, nvs, registers, adau_last_error>>
  /\ reply' = "ok"
  /\ UNCHANGED <<dirty, adau_ready, eeprom, running>>

\* The copy of the interface or of a preset cannot be opened: what was moved
\* stays moved, and the manager still believes in the old name.
RenameFails(b, new) ==
  /\ FlashFull
  /\ b \in dirs /\ new \notin dirs
  /\ \/ /\ program[b] # None /\ iface[b] # None
        /\ dirs' = dirs \cup {new}
        /\ program' = [program EXCEPT ![new] = program[b], ![b] = None]
        /\ UNCHANGED <<iface, presets>>
     \/ /\ \E names \in SUBSET PresetNames, torn \in TornSets :
             /\ \E p \in PresetNames \ names : presets[b][p] # None
             /\ presets' = Moved(b, new, names, torn)
        /\ dirs' = (dirs \ {b}) \cup {new}
        /\ program' = [program EXCEPT ![new] = program[b], ![b] = None]
        /\ iface' = [iface EXCEPT ![new] = iface[b], ![b] = None]
  /\ reply' = "failed"
  /\ UNCHANGED <<ramVars, nvs, linkVars, chipVars>>

-----------------------------------------------------------------------------
(* POST /api/dsp/action: push_bundle *)

\* Nothing is written: no program, or no link.
PushRefused(b) ==
  /\ program[b] = None \/ ~adau_ready
  /\ adau_last_error' = "fault"
  /\ reply' = "failed"
  /\ UNCHANGED <<fsVars, ramVars, nvs, adau_ready, chipVars>>

\* A page is not acknowledged, or the image turns out not to fit when its
\* first 32 KiB are in the EEPROM.
PushTears(b) ==
  /\ program[b] # None /\ adau_ready
  /\ eeprom' \in IF program[b] \in Oversize THEN {Torn} ELSE {eeprom, Torn}
  /\ adau_last_error' = "fault"
  /\ reply' = "failed"
  /\ UNCHANGED <<fsVars, ramVars, nvs, adau_ready, running, registers>>

\* The image is in the EEPROM, but nothing can reset the chip.
PushWithoutReset(b) ==
  /\ program[b] \notin {None} \cup Oversize /\ adau_ready /\ ~ResetPin
  /\ eeprom' = program[b]
  /\ adau_last_error' = "fault"
  /\ reply' = "failed"
  /\ UNCHANGED <<fsVars, ramVars, nvs, adau_ready, running, registers>>

\* The chip selfboots the image with its own parameters; then the schema is
\* loaded, if it parses, and the values are written, twice if it does.
PushBundle(b, acks, acks2) ==
  /\ program[b] \notin {None} \cup Oversize /\ adau_ready /\ ResetPin
  /\ eeprom' = program[b]
  /\ running' = program[b]
  /\ IF Parses(iface[b])
     THEN LET d == Loaded(dsp, b, iface[b])
          IN  /\ dsp' = d
              /\ nvs' = [nvs EXCEPT !.bundle = b]
              /\ registers' = Replay(Replay(Blank, d, acks), d, acks2)
              /\ adau_last_error' = ErrorAfter(d, acks \cap acks2, adau_last_error)
     ELSE /\ registers' = Replay(Blank, dsp, acks2)
          /\ adau_last_error' = ErrorAfter(dsp, acks2, adau_last_error)
          /\ UNCHANGED <<dsp, nvs>>
  /\ reply' = "bundle_pushed"
  /\ UNCHANGED <<fsVars, dirty, adau_ready>>

-----------------------------------------------------------------------------
(* Presets *)

\* The values in RAM are written under any bundle name the request gives.
SavePreset(b, p) ==
  /\ presets' = [presets EXCEPT ![b][p] = dsp.values]
  /\ reply' = "ok"
  /\ UNCHANGED <<dirs, program, iface, ramVars, nvs, linkVars, chipVars>>

\* The flash fills up: the file cannot be opened, is removed again because
\* nothing was written, or is cut off unnoticed.
SavePresetFails(b, p) ==
  /\ FlashFull
  /\ \/ reply' = "failed" /\ UNCHANGED presets
     \/ reply' = "failed" /\ presets' = [presets EXCEPT ![b][p] = None]
     \/ reply' = "ok" /\ presets' = [presets EXCEPT ![b][p] = Torn]
  /\ UNCHANGED <<dirs, program, iface, ramVars, nvs, linkVars, chipVars>>

DeletePreset(b, p) ==
  /\ reply' = IF presets[b][p] = None THEN "failed" ELSE "ok"
  /\ presets' = [presets EXCEPT ![b][p] = None]
  /\ UNCHANGED <<dirs, program, iface, ramVars, nvs, linkVars, chipVars>>

\* What a preset asks of the controls of the loaded schema.
Asked(preset) ==
  [i \in DOMAIN preset \cap DOMAIN dsp.controls |-> Clamp(preset[i], dsp.controls[i])]

\* Mutant: a value whose write fails is not taken over.
ChangesAcknowledged(preset, acks) ==
  {i \in DOMAIN Asked(preset) : dsp.values[i] # Asked(preset)[i] /\ i \in acks \cup UiOnly}

\* The ids a preset changes: those whose value differs from the one in RAM,
\* whatever the chip has.
Changes(preset, acks) ==
  {i \in DOMAIN Asked(preset) : dsp.values[i] # Asked(preset)[i]}

\* Every change goes to RAM, and to the chip if the link is up and the write
\* is acknowledged; a failed write makes the answer a 502.
LoadPreset(b, p, acks) ==
  /\ presets[b][p] \notin {None, Torn}
  /\ LET asked == Asked(presets[b][p])
         changes == Changes(presets[b][p], acks)
         written == IF adau_ready THEN (changes \ UiOnly) \cap acks ELSE {}
         missed == (changes \ UiOnly) \ written
     IN  /\ dsp' = [dsp EXCEPT !.values =
                      [i \in DOMAIN @ |-> IF i \in changes THEN asked[i] ELSE @[i]]]
         /\ dirty' = (dirty \/ changes # {})
         /\ registers' = [i \in Ids |-> IF i \in written THEN asked[i] ELSE registers[i]]
         /\ IF missed = {}
            THEN reply' = "preset_loaded" /\ UNCHANGED adau_last_error
            ELSE reply' = "preset_502" /\ adau_last_error' = "fault"
  /\ UNCHANGED <<fsVars, nvs, adau_ready, eeprom, running>>

\* No such file, or one that is not JSON to its end.
RefusePreset(b, p) ==
  /\ presets[b][p] \in {None, Torn}
  /\ reply' = "failed"
  /\ UNCHANGED <<fsVars, ramVars, nvs, linkVars, chipVars>>

-----------------------------------------------------------------------------
(* WebSocket set_dsp, the loop's flush, and the boot *)

\* Mutant: a failed write leaves no trace in adau_last_error.
SetDspSilent(i, v, acks) ==
  /\ i \in DOMAIN dsp.controls
  /\ LET value == Clamp(v, dsp.controls[i])
         sent == i \notin UiOnly /\ adau_ready /\ i \in acks
     IN  /\ dsp.values[i] # value
         /\ dsp' = [dsp EXCEPT !.values[i] = value]
         /\ registers' = IF sent THEN [registers EXCEPT ![i] = value] ELSE registers
  /\ dirty' = TRUE
  /\ reply' = "ok"
  /\ UNCHANGED <<fsVars, nvs, linkVars, eeprom, running>>

\* A value that is already in RAM is dropped, whatever the chip has.
SetDsp(i, v, acks) ==
  /\ i \in DOMAIN dsp.controls
  /\ LET value == Clamp(v, dsp.controls[i])
         sent == i \notin UiOnly /\ adau_ready /\ i \in acks
     IN  /\ dsp.values[i] # value
         /\ dsp' = [dsp EXCEPT !.values[i] = value]
         /\ registers' = IF sent THEN [registers EXCEPT ![i] = value] ELSE registers
         /\ adau_last_error' = IF sent \/ i \in UiOnly THEN adau_last_error
                               ELSE "fault"
  /\ dirty' = TRUE
  /\ reply' = "ok"
  /\ UNCHANGED <<fsVars, nvs, adau_ready, eeprom, running>>

\* saveDspValuesNow, DSP_SAVE_DELAY_MS after the latest change.
Flush ==
  /\ dirty
  /\ nvs' = [nvs EXCEPT !.values = dsp.values]
  /\ dirty' = FALSE
  /\ reply' = "ok"
  /\ UNCHANGED <<fsVars, dsp, linkVars, chipVars>>

\* What dspInit loads: the stored bundle, or the first directory if none is.
BootCandidates ==
  IF nvs.bundle # None THEN {nvs.bundle} ELSE dirs

\* The values and the schema after a boot that loads bundle b.
Booted(b) ==
  LET blank == [controls |-> NoControls, values |-> nvs.values, active |-> None,
                ready |-> FALSE]
  IN  IF b = None THEN blank
      ELSE IF Parses(iface[b]) THEN Loaded(blank, b, iface[b]) ELSE blank

\* setup(): I2C first, then dspInit, which writes the values when it loads a
\* schema.  With powerCycle the chip restarts as well and selfboots.
Boot(b, link, acks, powerCycle) ==
  LET d == Booted(b)
      regs == IF powerCycle THEN Blank ELSE registers
  IN  /\ b \in IF BootCandidates = {} THEN {None} ELSE BootCandidates
      /\ dsp' = d
      /\ dirty' = FALSE
      /\ adau_ready' = link
      /\ registers' = IF link THEN Replay(regs, d, acks) ELSE regs
      /\ adau_last_error' = IF link THEN ErrorAfter(d, acks, "") ELSE "fault"
      /\ running' = IF powerCycle THEN eeprom ELSE running
      /\ reply' = "ok"
      /\ UNCHANGED <<fsVars, nvs, eeprom>>

Upload ==
  \E b \in Bundles :
    \/ \E image \in Programs : UploadProgram(b, image)
    \/ \E doc \in Interfaces, acks \in Acks : UploadInterface(b, doc, acks)
    \/ \E doc \in Interfaces : UploadCut(b, doc)

BundleAction ==
  \E b \in Bundles :
    \/ RefuseBundle
    \/ \E new \in Bundles : RenameFails(b, new)
    \/ \E acks \in Acks :
         \/ SelectBundle(b, acks)
         \/ DeleteBundle(b, acks)
         \/ \E new \in Bundles : RenameBundle(b, new, acks)

Push ==
  \E b \in Bundles :
    \/ PushRefused(b) \/ PushTears(b) \/ PushWithoutReset(b)
    \/ \E acks, acks2 \in Acks : PushBundle(b, acks, acks2)

PresetAction ==
  \E b \in Bundles, p \in PresetNames :
    \/ SavePreset(b, p) \/ SavePresetFails(b, p) \/ DeletePreset(b, p) \/ RefusePreset(b, p)
    \/ \E acks \in Acks : LoadPreset(b, p, acks)

Controls == \E i \in Ids, v \in Values, acks \in Acks : SetDsp(i, v, acks)

Restart ==
  \E b \in Bundles \cup {None}, link, powerCycle \in BOOLEAN, acks \in Acks :
    Boot(b, link, acks, powerCycle)

Next == Upload \/ BundleAction \/ Push \/ PresetAction \/ Controls \/ Flush \/ Restart

Spec == Init /\ [][Next]_vars

-----------------------------------------------------------------------------
(* Properties *)

\* Type invariant: files, RAM, NVS and chip hold values of their types.
TypeOK ==
  /\ dirs \in SUBSET Bundles
  /\ program \in [Bundles -> Programs \cup {None, Torn}]
  /\ iface \in [Bundles -> Interfaces \cup {None}]
  /\ presets \in [Bundles -> [PresetNames -> ValueMaps \cup {None, Torn}]]
  /\ dsp \in [controls : Interfaces \cup {NoControls}, values : ValueMaps,
              active : Bundles \cup {None}, ready : BOOLEAN]
  /\ dirty \in BOOLEAN
  /\ nvs \in [bundle : Bundles \cup {None}, values : ValueMaps]
  /\ adau_ready \in BOOLEAN
  /\ adau_last_error \in {"", "fault"}
  /\ {eeprom, running} \subseteq Programs \cup {None, Torn}
  /\ registers \in [Ids -> Values \cup {Unknown}]
  /\ reply \in {"ok", "failed", "bundle_deleted", "bundle_pushed",
               "preset_loaded", "preset_502"}

\* The schema is all there or not at all: when it is ready a bundle is active
\* and there is exactly one value per control, when it is not there are no
\* controls.  Handlers index values by the ids of controls without a check.
SchemaIsCoherent ==
  IF dsp.ready
  THEN /\ dsp.active # None
       /\ Parses(dsp.controls)
       /\ DOMAIN dsp.values = DOMAIN dsp.controls
  ELSE dsp.controls = NoControls

\* The operator is told: whenever a register of the chip does not have the
\* value its control shows, hw_error is not empty, through bundle switches,
\* pushes, presets, failed writes and restarts of either side.
DivergenceReported ==
  \A i \in Mapped(dsp) : registers[i] = dsp.values[i] \/ adau_last_error # ""

\* A boot comes back to the bundle the operator sees as active, or, when none
\* was ever selected, to the first one: no path changes one and not the other.
BootFindsActive ==
  dsp.active = None \/ nvs.bundle \in {None, dsp.active}

\* A preset is taken over whole: whatever happens to the writes, the values in
\* RAM become what it asks, clamped to the schema (502 included).
PresetIsKept ==
  [][reply' \in {"preset_loaded", "preset_502"} =>
       \A b \in Bundles, p \in PresetNames :
         (\E acks \in Acks : LoadPreset(b, p, acks)) =>
           \A i \in DOMAIN Asked(presets[b][p]) :
             dsp'.values[i] = Asked(presets[b][p])[i]]_vars

(* What a document says and the code does not do *)

\* Values persist: once they are flushed, a reboot shows the same ones.
RebootKeepsValues ==
  ~dirty /\ dsp.ready /\ nvs.bundle = dsp.active /\ Parses(iface[dsp.active])
    /\ iface[dsp.active] = dsp.controls
    => Booted(dsp.active).values = dsp.values
=============================================================================
