-------------------------- MODULE DspManagerProofs --------------------------
(***************************************************************************)
(* For every number of bundles, presets and controls, every set of files   *)
(* and every build: the types hold, the schema is coherent, a boot finds   *)
(* the active bundle, a chip that differs is reported, and a preset is     *)
(* taken over whole.                                                       *)
(***************************************************************************)
EXTENDS DspManager, TLAPS

(* The types of the parts of the state *)

FilesType ==
  /\ dirs \in SUBSET Bundles
  /\ program \in [Bundles -> Programs \cup {None, Torn}]
  /\ iface \in [Bundles -> Interfaces \cup {None}]
  /\ presets \in [Bundles -> [PresetNames -> ValueMaps \cup {None, Torn}]]

DspType == [controls : Interfaces \cup {NoControls}, values : ValueMaps,
            active : Bundles \cup {None}, ready : BOOLEAN]
NvsType == [bundle : Bundles \cup {None}, values : ValueMaps]
RegistersType == [Ids -> Values \cup {Unknown}]
LinkType == adau_ready \in BOOLEAN /\ adau_last_error \in {"", "fault"}
RestType ==
  /\ dirty \in BOOLEAN
  /\ {eeprom, running} \subseteq Programs \cup {None, Torn}
  /\ reply \in {"ok", "failed", "bundle_deleted", "bundle_pushed",
               "preset_loaded", "preset_502"}

\* Without a link there is an error to show: setup() reports the missing chip,
\* and nothing but setup() clears adau_last_error.
NoLinkIsAnError == adau_ready \/ adau_last_error = "fault"

\* What every handler that touches the schema, the values or the chip keeps.
Coherent ==
  /\ dsp \in DspType /\ nvs \in NvsType /\ registers \in RegistersType /\ LinkType
  /\ SchemaIsCoherent /\ BootFindsActive /\ DivergenceReported /\ NoLinkIsAnError

IInv == FilesType /\ RestType /\ Coherent

LEMMA InvariantHasTypes == IInv => TypeOK
BY DEF IInv, Coherent, FilesType, RestType, LinkType, DspType, NvsType, RegistersType,
  TypeOK

-----------------------------------------------------------------------------
(* Values and schemas *)

\* Every interface maps some of the ids to maxima.
LEMMA InterfaceType ==
  ASSUME NEW c \in Interfaces \cup {NoControls}
  PROVE  /\ DOMAIN c \in SUBSET Ids
         /\ \A i \in DOMAIN c : c[i] \in Values /\ c[i] \in Nat
<1>1. CASE c \in Interfaces
  <2>1. PICK S \in SUBSET Ids : c \in [S -> Values \ {0}]
    BY <1>1, InterfacesAssumption
  <2> QED
    BY <2>1, HardwareAssumption DEF Values
<1>2. CASE c = NoControls
  BY <1>2 DEF NoControls
<1> QED
  BY <1>1, <1>2

\* A map of values over some of the ids.
LEMMA ValueMapType ==
  ASSUME NEW m \in ValueMaps
  PROVE  /\ m \in [DOMAIN m -> Values] /\ DOMAIN m \in SUBSET Ids
         /\ \A i \in DOMAIN m : m[i] \in Values /\ m[i] \in Nat
<1>1. PICK S \in SUBSET Ids : m \in [S -> Values]
  BY DEF ValueMaps
<1> QED
  BY <1>1, HardwareAssumption DEF Values

LEMMA IntoValueMaps ==
  ASSUME NEW S \in SUBSET Ids, NEW m \in [S -> Values]
  PROVE  m \in ValueMaps
BY DEF ValueMaps

\* A synchronised map has exactly the ids of the schema.
LEMMA SyncType ==
  ASSUME NEW m \in ValueMaps, NEW c \in Interfaces \cup {NoControls}
  PROVE  /\ Sync(m, c) \in ValueMaps
         /\ DOMAIN Sync(m, c) = DOMAIN c
<1>1. \A i \in DOMAIN c : (IF i \in DOMAIN m THEN m[i] ELSE c[i] \div 2) \in Values
  <2> SUFFICES ASSUME NEW i \in DOMAIN c
               PROVE  (IF i \in DOMAIN m THEN m[i] ELSE c[i] \div 2) \in Values
    OBVIOUS
  <2>1. i \in DOMAIN m => m[i] \in Values
    BY ValueMapType
  <2>2. c[i] \in Values /\ c[i] \in Nat
    BY InterfaceType
  <2>3. c[i] \div 2 \in Values
    BY <2>2, HardwareAssumption DEF Values
  <2> QED
    BY <2>1, <2>3
<1>2. Sync(m, c) \in [DOMAIN c -> Values]
  BY <1>1 DEF Sync
<1> QED
  BY <1>2, InterfaceType, IntoValueMaps

\* A file that parses is an interface.
LEMMA LoadedType ==
  ASSUME NEW d \in DspType, NEW name \in Bundles,
         NEW doc \in Interfaces \cup {None}, Parses(doc)
  PROVE  Loaded(d, name, doc) \in DspType
<1>1. doc \in Interfaces /\ d.values \in ValueMaps
  BY DEF Parses, DspType
<1>2. Sync(d.values, doc) \in ValueMaps
  BY <1>1, SyncType
<1> QED
  BY <1>1, <1>2 DEF Loaded, DspType

\* Registers keep their type when values are written to them.
LEMMA ReplayType ==
  ASSUME NEW r \in RegistersType, NEW acks \in Acks,
         NEW d \in DspType, DOMAIN d.controls \subseteq DOMAIN d.values
  PROVE  Replay(r, d, acks) \in RegistersType
<1>1. d.values \in ValueMaps
  BY DEF DspType
<1>2. \A i \in DOMAIN d.values : d.values[i] \in Values
  BY <1>1, ValueMapType
<1>3. \A i \in Mapped(d) : i \in DOMAIN d.values
  BY DEF Mapped
<1> QED
  BY <1>2, <1>3 DEF Replay, RegistersType
\* After a replay that every mapped register acknowledged, the chip has what
\* the controls show; after any other one there is an error.
LEMMA ReplayReports ==
  ASSUME NEW r \in RegistersType, NEW d \in DspType, NEW acks \in Acks, NEW err
  PROVE  \A i \in Mapped(d) : Replay(r, d, acks)[i] = d.values[i]
                              \/ ErrorAfter(d, acks, err) = "fault"
<1>1. DOMAIN d.controls \in SUBSET Ids
  BY InterfaceType DEF DspType
<1> QED
  BY <1>1 DEF Mapped, Replay, ErrorAfter

\* Handlers that leave the schema, the values, NVS and the chip alone, and at
\* most set the error.
LEMMA IdleKeeps ==
  ASSUME Coherent, UNCHANGED <<dsp, nvs, registers, adau_ready>>,
         adau_last_error' \in {adau_last_error, "fault"}
  PROVE  Coherent'
BY DEF Coherent, LinkType, SchemaIsCoherent, BootFindsActive, DivergenceReported,
  NoLinkIsAnError, Mapped, Parses

\* The handlers' common part: loading a bundle, whatever its file holds.
LEMMA LoadKeeps ==
  ASSUME Coherent, adau_ready' = adau_ready,
         NEW name \in Bundles, NEW doc \in Interfaces \cup {None},
         NEW persist \in BOOLEAN, NEW acks \in Acks,
         persist \/ name = dsp.active,
         LoadDspBundle(name, doc, persist, acks)
  PROVE  Coherent'
<1>1. CASE ~Parses(doc)
  <2>1. UNCHANGED <<dsp, nvs, registers, adau_last_error, adau_ready>>
    BY <1>1 DEF LoadDspBundle
  <2> QED
    BY <2>1, IdleKeeps
<1>2. CASE Parses(doc)
  <2> DEFINE d == Loaded(dsp, name, doc)
  <2>1. /\ dsp' = d
        /\ nvs' = IF persist THEN [nvs EXCEPT !.bundle = name] ELSE nvs
        /\ registers' = IF adau_ready THEN Replay(registers, d, acks) ELSE registers
        /\ adau_last_error' = IF adau_ready THEN ErrorAfter(d, acks, adau_last_error)
                              ELSE adau_last_error
    BY <1>2 DEF LoadDspBundle
  <2>2. d \in DspType
    BY <1>2, LoadedType DEF Coherent
  <2>3. doc \in Interfaces /\ DOMAIN doc # {} /\ DOMAIN d.values = DOMAIN doc
    BY <1>2, SyncType DEF Parses, Loaded, Coherent, DspType
  <2>4. d.controls = doc /\ d.active = name /\ d.ready
    BY DEF Loaded
  <2> HIDE DEF d
  <2>5. Replay(registers, d, acks) \in RegistersType
    BY <2>2, <2>3, <2>4, ReplayType DEF Coherent
  <2>6. dsp' \in DspType /\ nvs' \in NvsType /\ registers' \in RegistersType
    BY <2>1, <2>2, <2>5 DEF Coherent, NvsType
  <2>7. LinkType' /\ NoLinkIsAnError'
    BY <2>1 DEF Coherent, LinkType, NoLinkIsAnError, ErrorAfter
  <2>8. SchemaIsCoherent'
    <3>1. name # None
      BY MarkersAssumption
    <3> QED
      BY <3>1, <2>1, <2>3, <2>4, <1>2 DEF SchemaIsCoherent, Parses
  <2>9. BootFindsActive'
    <3>1. CASE persist
      BY <3>1, <2>1, <2>4 DEF BootFindsActive, Coherent, NvsType
    <3>2. CASE ~persist
      BY <3>2, <2>1, <2>4 DEF BootFindsActive, Coherent
    <3> QED
      BY <3>1, <3>2
  <2>10. DivergenceReported'
    <3>1. CASE adau_ready
      BY <3>1, <2>1, <2>2, ReplayReports DEF DivergenceReported, Coherent
    <3>2. CASE ~adau_ready
      BY <3>2, <2>1 DEF DivergenceReported, Coherent, NoLinkIsAnError
    <3> QED
      BY <3>1, <3>2
  <2> QED
    BY <2>6, <2>7, <2>8, <2>9, <2>10 DEF Coherent
<1> QED
  BY <1>1, <1>2


-----------------------------------------------------------------------------
(* One lemma per group of actions *)

LEMMA UploadKeeps == IInv /\ Upload => IInv'
<1> SUFFICES ASSUME IInv, NEW b \in Bundles,
                    \/ \E image \in Programs : UploadProgram(b, image)
                    \/ \E doc \in Interfaces, acks \in Acks :
                         UploadInterface(b, doc, acks)
                    \/ \E doc \in Interfaces : UploadCut(b, doc)
             PROVE  IInv'
  BY DEF Upload
<1>1. ASSUME NEW image \in Programs, UploadProgram(b, image) PROVE IInv'
  <2>1. FilesType' /\ RestType'
    BY <1>1 DEF UploadProgram, IInv, FilesType, RestType, ramVars, chipVars
  <2>2. Coherent'
    BY <1>1, IdleKeeps DEF UploadProgram, IInv, ramVars, linkVars, chipVars
  <2> QED
    BY <2>1, <2>2 DEF IInv
<1>2. ASSUME NEW doc \in Interfaces, NEW acks \in Acks, UploadInterface(b, doc, acks)
      PROVE IInv'
  <2>1. FilesType' /\ RestType'
    BY <1>2 DEF UploadInterface, IInv, FilesType, RestType
  <2>2. Coherent'
    <3>1. CASE b = dsp.active
      BY <1>2, <3>1, LoadKeeps DEF UploadInterface, IInv
    <3>2. CASE b # dsp.active
      BY <1>2, <3>2, IdleKeeps DEF UploadInterface, IInv
    <3> QED
      BY <3>1, <3>2
  <2> QED
    BY <2>1, <2>2 DEF IInv
<1>3. ASSUME NEW doc \in Interfaces, UploadCut(b, doc) PROVE IInv'
  <2>1. FilesType' /\ RestType'
    BY <1>3 DEF UploadCut, IInv, FilesType, RestType, ramVars, chipVars
  <2>2. Coherent'
    BY <1>3, IdleKeeps DEF UploadCut, IInv, ramVars, linkVars, chipVars
  <2> QED
    BY <2>1, <2>2 DEF IInv
<1> QED
  BY <1>1, <1>2, <1>3

\* Removing a bundle's files and moving its presets give files again.
LEMMA RemoveKeepsFiles ==
  ASSUME FilesType, NEW b \in Bundles, RemoveBundle(b)
  PROVE  FilesType'
<1>1. CASE EntryNameIsPath
  BY <1>1 DEF RemoveBundle, FilesType
<1>2. CASE ~EntryNameIsPath
  BY <1>2 DEF RemoveBundle, FilesType
<1> QED
  BY <1>1, <1>2

LEMMA MovedType ==
  ASSUME FilesType, NEW from \in Bundles, NEW to \in Bundles,
         NEW names, NEW torn
  PROVE  Moved(from, to, names, torn)
           \in [Bundles -> [PresetNames -> ValueMaps \cup {None, Torn}]]
<1> DEFINE T == [PresetNames -> ValueMaps \cup {None, Torn}]
           arrived == [p \in PresetNames |->
                         IF p \notin names \/ presets[from][p] = None THEN presets[to][p]
                         ELSE IF p \in torn THEN Torn ELSE presets[from][p]]
<1>1. presets \in [Bundles -> T]
  BY DEF FilesType
<1>2. arrived \in T
  BY <1>1
<1>3. \A f \in T : [p \in PresetNames |-> IF p \in names THEN None ELSE f[p]] \in T
  OBVIOUS
<1>4. [presets EXCEPT ![to] = arrived] \in [Bundles -> T]
  BY <1>1, <1>2
<1>5. Moved(from, to, names, torn) =
        [[presets EXCEPT ![to] = arrived] EXCEPT
           ![from] = [p \in PresetNames |-> IF p \in names THEN None ELSE @[p]]]
  BY <1>1 DEF Moved
<1> HIDE DEF arrived
<1> QED
  BY <1>3, <1>4, <1>5

LEMMA UnloadKeeps ==
  ASSUME Coherent, adau_ready' = adau_ready, UnloadDspBundle
  PROVE  Coherent'
<1>1. NoControls \in Interfaces \cup {NoControls} /\ DOMAIN NoControls = {}
  BY DEF NoControls
<1>2. dsp' \in DspType /\ nvs' \in NvsType /\ registers' \in RegistersType
  BY DEF UnloadDspBundle, Coherent, DspType, NvsType
<1>3. dsp'.controls = NoControls /\ ~dsp'.ready /\ dsp'.active = None
  BY DEF UnloadDspBundle, Coherent, DspType
<1>4. LinkType' /\ NoLinkIsAnError'
  BY DEF UnloadDspBundle, Coherent, LinkType, NoLinkIsAnError
<1>5. SchemaIsCoherent' /\ BootFindsActive'
  BY <1>3 DEF SchemaIsCoherent, BootFindsActive
<1>6. DivergenceReported'
  BY <1>1, <1>3 DEF DivergenceReported, Mapped
<1> QED
  BY <1>2, <1>4, <1>5, <1>6 DEF Coherent

LEMMA SelectKeeps ==
  ASSUME IInv, NEW b \in Bundles, NEW acks \in Acks, SelectBundle(b, acks)
  PROVE  IInv'
<1>1. FilesType' /\ RestType'
  BY DEF SelectBundle, IInv, FilesType, RestType, fsVars
<1>2. iface[b] \in Interfaces \cup {None}
  BY DEF IInv, FilesType
<1>3. LoadDspBundle(b, iface[b], TRUE, acks) /\ adau_ready' = adau_ready
  BY DEF SelectBundle
<1>4. Coherent'
  BY <1>2, <1>3, LoadKeeps DEF IInv
<1> QED
  BY <1>1, <1>4 DEF IInv

LEMMA DeleteKeeps ==
  ASSUME IInv, NEW b \in Bundles, NEW acks \in Acks, DeleteBundle(b, acks)
  PROVE  IInv'
<1>1. FilesType'
  BY RemoveKeepsFiles DEF DeleteBundle, IInv
<1>2. RestType'
  BY DEF DeleteBundle, IInv, RestType
<1>3. adau_ready' = adau_ready
  BY DEF DeleteBundle
<1>4. CASE b # dsp.active
  <2>1. UNCHANGED <<dsp, nvs, registers, adau_last_error>>
    BY <1>4 DEF DeleteBundle
  <2> QED
    BY <1>1, <1>2, <1>3, <2>1, IdleKeeps DEF IInv
<1>5. CASE dirs' = {} /\ UnloadDspBundle
  BY <1>1, <1>2, <1>3, <1>5, UnloadKeeps DEF IInv
<1>6. ASSUME NEW first \in dirs', LoadDspBundle(first, iface'[first], TRUE, acks)
      PROVE  IInv'
  <2>1. first \in Bundles /\ iface'[first] \in Interfaces \cup {None}
    BY <1>1 DEF FilesType
  <2>2. Coherent'
    BY <1>3, <1>6, <2>1, LoadKeeps DEF IInv
  <2> QED
    BY <1>1, <1>2, <2>2 DEF IInv
<1> QED
  BY <1>4, <1>5, <1>6 DEF DeleteBundle

LEMMA RenameKeeps ==
  ASSUME IInv, NEW b \in Bundles, NEW new \in Bundles, NEW acks \in Acks,
         RenameBundle(b, new, acks)
  PROVE  IInv'
<1>1. dirs' \in SUBSET Bundles
  BY DEF RenameBundle, IInv, FilesType
<1>2. program' \in [Bundles -> Programs \cup {None, Torn}]
  <2>1. PICK image \in Copies(program[b]) :
          program' = [program EXCEPT ![new] = image, ![b] = None]
    BY DEF RenameBundle
  <2>2. image \in Programs \cup {None, Torn}
    BY <2>1 DEF Copies, IInv, FilesType
  <2> QED
    BY <2>1, <2>2 DEF IInv, FilesType
<1>3. iface' \in [Bundles -> Interfaces \cup {None}]
  <2>1. PICK doc \in DocCopies(iface[b]) :
          iface' = [iface EXCEPT ![new] = doc, ![b] = None]
    BY DEF RenameBundle
  <2>2. doc \in Interfaces \cup {None}
    BY <2>1 DEF DocCopies, IInv, FilesType
  <2> QED
    BY <2>1, <2>2 DEF IInv, FilesType
<1>4. presets' \in [Bundles -> [PresetNames -> ValueMaps \cup {None, Torn}]]
  BY MovedType DEF RenameBundle, IInv
<1>5. RestType'
  BY DEF RenameBundle, IInv, RestType
<1>6. Coherent'
  <2>1. iface'[new] \in Interfaces \cup {None} /\ adau_ready' = adau_ready
    BY <1>3 DEF RenameBundle
  <2>2. CASE b = dsp.active
    BY <2>1, <2>2, LoadKeeps DEF RenameBundle, IInv
  <2>3. CASE b # dsp.active
    BY <2>1, <2>3, IdleKeeps DEF RenameBundle, IInv
  <2> QED
    BY <2>2, <2>3
<1> QED
  BY <1>1, <1>2, <1>3, <1>4, <1>5, <1>6 DEF IInv, FilesType

LEMMA RenameFailsKeeps ==
  ASSUME IInv, NEW b \in Bundles, NEW new \in Bundles, RenameFails(b, new)
  PROVE  IInv'
<1>1. Coherent' /\ RestType'
  BY IdleKeeps DEF RenameFails, IInv, RestType, ramVars, linkVars, chipVars
<1>2. presets' \in [Bundles -> [PresetNames -> ValueMaps \cup {None, Torn}]]
  BY MovedType DEF RenameFails, IInv, FilesType
<1>3. /\ dirs' \in SUBSET Bundles
      /\ program' \in [Bundles -> Programs \cup {None, Torn}]
      /\ iface' \in [Bundles -> Interfaces \cup {None}]
  BY DEF RenameFails, IInv, FilesType
<1> QED
  BY <1>1, <1>2, <1>3 DEF IInv, FilesType

LEMMA BundleKeeps == IInv /\ BundleAction => IInv'
<1>1. ASSUME IInv, RefuseBundle PROVE IInv'
  BY <1>1, IdleKeeps DEF RefuseBundle, IInv, FilesType, RestType, fsVars, ramVars,
    linkVars, chipVars
<1> QED
  BY <1>1, SelectKeeps, DeleteKeeps, RenameKeeps, RenameFailsKeeps DEF BundleAction

\* The chip's reset forgets the registers; the replay that follows reports
\* what it could not restore.
LEMMA PushBundleKeeps ==
  ASSUME IInv, NEW b \in Bundles, NEW acks \in Acks, NEW acks2 \in Acks,
         PushBundle(b, acks, acks2)
  PROVE  IInv'
<1>1. FilesType' /\ RestType'
  BY DEF PushBundle, IInv, FilesType, RestType, fsVars
<1>2. Blank \in RegistersType
  BY DEF Blank, RegistersType
<1>3. adau_ready /\ adau_ready'
  BY DEF PushBundle
<1>4. CASE Parses(iface[b])
  <2> DEFINE d == Loaded(dsp, b, iface[b])
  <2>1. /\ dsp' = d
        /\ nvs' = [nvs EXCEPT !.bundle = b]
        /\ registers' = Replay(Replay(Blank, d, acks), d, acks2)
        /\ adau_last_error' = ErrorAfter(d, acks \cap acks2, adau_last_error)
    BY <1>4 DEF PushBundle
  <2>2. d \in DspType
    BY <1>4, LoadedType DEF IInv, Coherent, FilesType
  <2>3. DOMAIN d.values = DOMAIN d.controls /\ d.controls = iface[b]
        /\ d.active = b /\ d.ready
    <3>1. iface[b] \in Interfaces /\ dsp.values \in ValueMaps
      BY <1>4 DEF Parses, IInv, Coherent, FilesType, DspType
    <3> QED
      BY <3>1, SyncType DEF Loaded
  <2> HIDE DEF d
  <2>4. Replay(Blank, d, acks) \in RegistersType
    BY <1>2, <2>2, <2>3, ReplayType
  <2>5. registers' \in RegistersType
    BY <2>1, <2>2, <2>3, <2>4, ReplayType
  <2>6. dsp' \in DspType /\ nvs' \in NvsType
    BY <2>1, <2>2 DEF IInv, Coherent, NvsType
  <2>7. LinkType' /\ NoLinkIsAnError'
    BY <1>3, <2>1 DEF IInv, Coherent, LinkType, NoLinkIsAnError, ErrorAfter
  <2>8. SchemaIsCoherent' /\ BootFindsActive'
    BY <1>4, <2>1, <2>3, MarkersAssumption DEF SchemaIsCoherent, BootFindsActive,
      Parses, IInv, Coherent, NvsType
  <2>9. DivergenceReported'
    <3>1. ErrorAfter(d, acks2, adau_last_error) = "fault" => adau_last_error' = "fault"
      BY <2>1 DEF ErrorAfter
    <3> QED
      BY <3>1, <2>1, <2>2, <2>4, ReplayReports DEF DivergenceReported
  <2> QED
    BY <1>1, <2>5, <2>6, <2>7, <2>8, <2>9 DEF IInv, Coherent
<1>5. CASE ~Parses(iface[b])
  <2>1. /\ registers' = Replay(Blank, dsp, acks2)
        /\ adau_last_error' = ErrorAfter(dsp, acks2, adau_last_error)
        /\ UNCHANGED <<dsp, nvs>>
    BY <1>5 DEF PushBundle
  <2>2. DOMAIN dsp.controls \subseteq DOMAIN dsp.values
    BY DEF IInv, Coherent, SchemaIsCoherent, NoControls
  <2>3. registers' \in RegistersType
    BY <1>2, <2>1, <2>2, ReplayType DEF IInv, Coherent
  <2>4. LinkType' /\ NoLinkIsAnError'
    BY <1>3, <2>1 DEF IInv, Coherent, LinkType, NoLinkIsAnError, ErrorAfter
  <2>5. SchemaIsCoherent' /\ BootFindsActive'
    BY <2>1 DEF IInv, Coherent, SchemaIsCoherent, BootFindsActive, Parses
  <2>6. DivergenceReported'
    BY <1>2, <2>1, ReplayReports DEF DivergenceReported, IInv, Coherent
  <2> QED
    BY <1>1, <2>1, <2>3, <2>4, <2>5, <2>6 DEF IInv, Coherent
<1> QED
  BY <1>4, <1>5

LEMMA PushKeeps == IInv /\ Push => IInv'
<1> SUFFICES ASSUME IInv, NEW b \in Bundles,
                    PushRefused(b) \/ PushTears(b) \/ PushWithoutReset(b)
             PROVE  IInv'
  BY PushBundleKeeps DEF Push
<1>1. UNCHANGED <<dsp, nvs, registers, adau_ready>> /\ adau_last_error' = "fault"
  BY DEF PushRefused, PushTears, PushWithoutReset, ramVars, chipVars
<1>2. FilesType'
  BY DEF PushRefused, PushTears, PushWithoutReset, IInv, FilesType, fsVars
<1>3. RestType'
  <2>1. program[b] \in Programs \cup {None, Torn}
    BY DEF IInv, FilesType
  <2> QED
    BY <2>1 DEF PushRefused, PushTears, PushWithoutReset, IInv, RestType, ramVars,
      chipVars
<1> QED
  BY <1>1, <1>2, <1>3, IdleKeeps DEF IInv

\* A preset asks for values the schema allows.
LEMMA AskedType ==
  ASSUME dsp \in DspType, NEW m \in ValueMaps
  PROVE  /\ DOMAIN Asked(m) \subseteq DOMAIN dsp.controls
         /\ \A i \in DOMAIN Asked(m) : Asked(m)[i] \in Values
<1>1. \A i \in DOMAIN m : m[i] \in Values
  BY ValueMapType
<1>2. \A i \in DOMAIN dsp.controls : dsp.controls[i] \in Values
  BY InterfaceType DEF DspType
<1> QED
  BY <1>1, <1>2 DEF Asked, Clamp

\* New values for some controls keep the type, the schema and the boot's
\* bundle.
LEMMA ValuesChange ==
  ASSUME Coherent, NEW new, dsp' = [dsp EXCEPT !.values = new],
         new \in [DOMAIN dsp.values -> Values], nvs' = nvs
  PROVE  /\ dsp' \in DspType /\ SchemaIsCoherent' /\ BootFindsActive'
         /\ dsp'.controls = dsp.controls /\ dsp'.values = new
<1>1. DOMAIN dsp.values \in SUBSET Ids
  BY ValueMapType DEF Coherent, DspType
<1>2. new \in ValueMaps
  BY <1>1, IntoValueMaps
<1>3. dsp' \in DspType
  BY <1>2 DEF Coherent, DspType
<1>4. /\ dsp'.controls = dsp.controls /\ dsp'.values = new
      /\ dsp'.active = dsp.active /\ dsp'.ready = dsp.ready
  BY DEF Coherent, DspType
<1>5. SchemaIsCoherent'
  BY <1>4 DEF Coherent, SchemaIsCoherent, Parses
<1>6. BootFindsActive'
  BY <1>4 DEF Coherent, BootFindsActive
<1> QED
  BY <1>3, <1>4, <1>5, <1>6

LEMMA LoadPresetKeeps ==
  ASSUME IInv, NEW b \in Bundles, NEW p \in PresetNames, NEW acks \in Acks,
         LoadPreset(b, p, acks)
  PROVE  IInv'
<1> DEFINE asked == Asked(presets[b][p])
           changes == Changes(presets[b][p], acks)
           written == IF adau_ready THEN (changes \ UiOnly) \cap acks ELSE {}
           missed == (changes \ UiOnly) \ written
           new == [i \in DOMAIN dsp.values |->
                     IF i \in changes THEN asked[i] ELSE dsp.values[i]]
<1>1. FilesType'
  BY DEF LoadPreset, IInv, FilesType, fsVars
<1>2. RestType'
  BY DEF LoadPreset, IInv, RestType
<1>3. presets[b][p] \in ValueMaps
  BY DEF LoadPreset, IInv, FilesType
<1>4. /\ DOMAIN asked \subseteq DOMAIN dsp.controls
      /\ \A i \in DOMAIN asked : asked[i] \in Values
  BY <1>3, AskedType DEF IInv, Coherent
<1>5. changes \subseteq DOMAIN asked
  BY DEF Changes
<1>6. \A i \in DOMAIN dsp.values : dsp.values[i] \in Values
  BY ValueMapType DEF IInv, Coherent, DspType
<1>7. new \in [DOMAIN dsp.values -> Values]
  BY <1>4, <1>5, <1>6
<1>8. /\ dsp' = [dsp EXCEPT !.values = new] /\ nvs' = nvs /\ adau_ready' = adau_ready
      /\ registers' = [i \in Ids |-> IF i \in written THEN asked[i] ELSE registers[i]]
      /\ IF missed = {} THEN adau_last_error' = adau_last_error
         ELSE adau_last_error' = "fault"
  BY DEF LoadPreset, IInv, Coherent, DspType
<1>9. written \subseteq changes
  OBVIOUS
<1> HIDE DEF asked, new
<1>10. registers' \in RegistersType
  BY <1>4, <1>5, <1>8, <1>9 DEF IInv, Coherent, RegistersType
<1>11. LinkType' /\ NoLinkIsAnError'
  BY <1>8 DEF IInv, Coherent, LinkType, NoLinkIsAnError
<1>12. /\ dsp' \in DspType /\ SchemaIsCoherent' /\ BootFindsActive'
       /\ dsp'.controls = dsp.controls /\ dsp'.values = new
  BY <1>7, <1>8, ValuesChange DEF IInv
<1>13. DivergenceReported'
  <2>1. SUFFICES ASSUME adau_last_error' = "", NEW i \in Mapped(dsp)
                 PROVE  registers'[i] = new[i]
    BY <1>12 DEF DivergenceReported, Mapped
  <2>2. missed = {} /\ adau_last_error = ""
    BY <1>8, <2>1
  <2>3. registers[i] = dsp.values[i]
    BY <2>1, <2>2 DEF IInv, Coherent, DivergenceReported
  <2>4. i \in DOMAIN dsp.values /\ i \in Ids /\ i \notin UiOnly
    <3>1. DOMAIN dsp.controls \in SUBSET Ids
      BY InterfaceType DEF IInv, Coherent, DspType
    <3>2. DOMAIN dsp.controls \subseteq DOMAIN dsp.values
      BY DEF IInv, Coherent, SchemaIsCoherent, NoControls
    <3> QED
      BY <3>1, <3>2 DEF Mapped
  <2>5. CASE i \in changes
    <3>1. i \in written
      BY <2>2, <2>4, <2>5
    <3> QED
      BY <1>8, <2>4, <2>5, <3>1 DEF new
  <2>6. CASE i \notin changes
    <3>1. i \notin written
      BY <1>9, <2>6
    <3> QED
      BY <1>8, <2>3, <2>4, <2>6, <3>1 DEF new
  <2> QED
    BY <2>5, <2>6
<1>14. nvs' \in NvsType
  BY <1>8 DEF IInv, Coherent
<1> QED
  BY <1>1, <1>2, <1>10, <1>11, <1>12, <1>13, <1>14 DEF IInv, Coherent

LEMMA PresetKeeps == IInv /\ PresetAction => IInv'
<1> SUFFICES ASSUME IInv, NEW b \in Bundles, NEW p \in PresetNames,
                    \/ SavePreset(b, p) \/ SavePresetFails(b, p)
                    \/ DeletePreset(b, p) \/ RefusePreset(b, p)
             PROVE  IInv'
  BY LoadPresetKeeps DEF PresetAction
<1>1. Coherent' /\ RestType'
  BY IdleKeeps DEF SavePreset, SavePresetFails, DeletePreset, RefusePreset, IInv,
    RestType, fsVars, ramVars, linkVars, chipVars
<1>2. dsp.values \in ValueMaps
  BY DEF IInv, Coherent, DspType
<1>3. FilesType'
  BY <1>2 DEF SavePreset, SavePresetFails, DeletePreset, RefusePreset, IInv,
    FilesType, fsVars
<1> QED
  BY <1>1, <1>3 DEF IInv

LEMMA ControlKeeps ==
  ASSUME IInv, NEW i \in Ids, NEW v \in Values, NEW acks \in Acks, SetDsp(i, v, acks)
  PROVE  IInv'
<1> DEFINE value == Clamp(v, dsp.controls[i])
           sent == i \notin UiOnly /\ adau_ready /\ i \in acks
           new == [dsp.values EXCEPT ![i] = value]
<1>1. FilesType' /\ RestType'
  BY DEF SetDsp, IInv, FilesType, RestType, fsVars
<1>2. value \in Values
  <2>1. i \in DOMAIN dsp.controls
    BY DEF SetDsp
  <2>2. dsp.controls[i] \in Values
    BY <2>1, InterfaceType DEF IInv, Coherent, DspType
  <2> QED
    BY <2>2 DEF Clamp
<1>3. /\ dsp' = [dsp EXCEPT !.values = new] /\ nvs' = nvs /\ adau_ready' = adau_ready
      /\ registers' = IF sent THEN [registers EXCEPT ![i] = value] ELSE registers
      /\ adau_last_error' = IF sent \/ i \in UiOnly THEN adau_last_error ELSE "fault"
  BY DEF SetDsp, IInv, Coherent, DspType
<1>4. new \in [DOMAIN dsp.values -> Values]
  BY <1>2, ValueMapType DEF IInv, Coherent, DspType
<1> HIDE DEF value
<1>5. registers' \in RegistersType
  BY <1>2, <1>3 DEF IInv, Coherent, RegistersType
<1>6. LinkType' /\ NoLinkIsAnError'
  BY <1>3 DEF IInv, Coherent, LinkType, NoLinkIsAnError
<1>7. /\ dsp' \in DspType /\ SchemaIsCoherent' /\ BootFindsActive'
      /\ dsp'.controls = dsp.controls /\ dsp'.values = new
  BY <1>3, <1>4, ValuesChange DEF IInv
<1>8. DivergenceReported'
  <2>1. SUFFICES ASSUME adau_last_error' = "", NEW j \in Mapped(dsp)
                 PROVE  registers'[j] = new[j]
    BY <1>7 DEF DivergenceReported, Mapped
  <2>2. adau_last_error = "" /\ (sent \/ i \in UiOnly)
    BY <1>3, <2>1
  <2>3. registers[j] = dsp.values[j]
    BY <2>1, <2>2 DEF IInv, Coherent, DivergenceReported
  <2>4. j \in DOMAIN dsp.values /\ j \in Ids /\ j \notin UiOnly
    <3>1. DOMAIN dsp.controls \in SUBSET Ids
      BY InterfaceType DEF IInv, Coherent, DspType
    <3>2. DOMAIN dsp.controls \subseteq DOMAIN dsp.values
      BY DEF IInv, Coherent, SchemaIsCoherent, NoControls
    <3> QED
      BY <3>1, <3>2 DEF Mapped
  <2>5. /\ dsp.values \in [DOMAIN dsp.values -> Values]
        /\ registers \in [Ids -> Values \cup {Unknown}]
    BY ValueMapType DEF IInv, Coherent, DspType, RegistersType
  <2> QED
    BY <1>3, <2>2, <2>3, <2>4, <2>5
<1>9. nvs' \in NvsType
  BY <1>3 DEF IInv, Coherent
<1> QED
  BY <1>1, <1>5, <1>6, <1>7, <1>8, <1>9 DEF IInv, Coherent

LEMMA FlushKeeps == IInv /\ Flush => IInv'
<1> SUFFICES ASSUME IInv, Flush PROVE IInv'
  OBVIOUS
<1>1. FilesType' /\ RestType'
  BY DEF Flush, IInv, FilesType, RestType, fsVars, chipVars
<1>2. nvs' \in NvsType /\ nvs'.bundle = nvs.bundle
  BY DEF Flush, IInv, Coherent, NvsType, DspType
<1>3. UNCHANGED <<dsp, registers, adau_ready, adau_last_error>>
  BY DEF Flush, linkVars, chipVars
<1>4. Coherent'
  BY <1>2, <1>3 DEF IInv, Coherent, LinkType, SchemaIsCoherent, BootFindsActive,
    DivergenceReported, NoLinkIsAnError, Mapped, Parses
<1> QED
  BY <1>1, <1>4 DEF IInv

\* A boot starts from NVS and the files alone.
LEMMA BootKeeps ==
  ASSUME IInv, NEW b \in Bundles \cup {None}, NEW link \in BOOLEAN,
         NEW powerCycle \in BOOLEAN, NEW acks \in Acks, Boot(b, link, acks, powerCycle)
  PROVE  IInv'
<1> DEFINE blank == [controls |-> NoControls, values |-> nvs.values, active |-> None,
                     ready |-> FALSE]
           d == Booted(b)
           regs == IF powerCycle THEN Blank ELSE registers
<1>1. FilesType' /\ RestType'
  BY DEF Boot, IInv, FilesType, RestType, fsVars
<1>2. blank \in DspType
  BY DEF IInv, Coherent, NvsType, DspType
<1>3. /\ d \in DspType /\ d.active \in {None, b}
      /\ IF d.ready THEN /\ d.active # None /\ Parses(d.controls)
                         /\ DOMAIN d.values = DOMAIN d.controls
         ELSE d.controls = NoControls
  <2>1. CASE b # None /\ Parses(iface[b])
    <3>1. d = Loaded(blank, b, iface[b]) /\ b \in Bundles
      BY <2>1 DEF Booted
    <3>2. iface[b] \in Interfaces
      BY <2>1, <3>1 DEF Parses, IInv, FilesType
    <3>3. d \in DspType
      BY <1>2, <2>1, <3>1, <3>2, LoadedType
    <3>4. DOMAIN Sync(blank.values, iface[b]) = DOMAIN iface[b]
      BY <1>2, <3>2, SyncType DEF DspType
    <3> QED
      BY <2>1, <3>1, <3>3, <3>4 DEF Loaded
  <2>2. CASE ~(b # None /\ Parses(iface[b]))
    <3>1. d = blank
      BY <2>2 DEF Booted
    <3> QED
      BY <1>2, <3>1
  <2> QED
    BY <2>1, <2>2
<1>4. /\ dsp' = d /\ nvs' = nvs /\ adau_ready' = link
      /\ registers' = IF link THEN Replay(regs, d, acks) ELSE regs
      /\ adau_last_error' = IF link THEN ErrorAfter(d, acks, "") ELSE "fault"
      /\ b \in IF BootCandidates = {} THEN {None} ELSE BootCandidates
  BY DEF Boot
<1>5. regs \in RegistersType
  BY DEF Blank, RegistersType, IInv, Coherent
<1> HIDE DEF d, regs, blank
<1>6. registers' \in RegistersType
  <2>1. DOMAIN d.controls \subseteq DOMAIN d.values
    BY <1>3 DEF NoControls
  <2> QED
    BY <1>3, <1>4, <1>5, <2>1, ReplayType
<1>7. LinkType' /\ NoLinkIsAnError'
  BY <1>4 DEF LinkType, NoLinkIsAnError, ErrorAfter
<1>8. SchemaIsCoherent'
  BY <1>3, <1>4 DEF SchemaIsCoherent, Parses
<1>9. BootFindsActive'
  BY <1>3, <1>4 DEF BootFindsActive, BootCandidates
<1>10. DivergenceReported'
  BY <1>3, <1>4, <1>5, ReplayReports DEF DivergenceReported
<1> QED
  BY <1>1, <1>3, <1>4, <1>6, <1>7, <1>8, <1>9, <1>10 DEF IInv, Coherent

-----------------------------------------------------------------------------
(* The theorems *)

LEMMA InvariantHolds == Spec => []IInv
<1>1. Init => IInv
  <2> SUFFICES ASSUME Init PROVE IInv
    OBVIOUS
  <2>1. NoControls \in ValueMaps /\ DOMAIN NoControls = {}
    <3>1. {} \in SUBSET Ids /\ NoControls \in [{} -> Values]
      BY DEF NoControls
    <3>2. NoControls \in ValueMaps
      BY <3>1, IntoValueMaps
    <3> QED
      BY <3>2 DEF NoControls
  <2>2. FilesType /\ RestType
    BY DEF Init, FilesType, RestType
  <2>3. dsp \in DspType /\ nvs \in NvsType /\ registers \in RegistersType /\ LinkType
    BY <2>1 DEF Init, DspType, NvsType, RegistersType, LinkType, Blank
  <2>4. SchemaIsCoherent /\ BootFindsActive /\ DivergenceReported /\ NoLinkIsAnError
    BY <2>1 DEF Init, SchemaIsCoherent, BootFindsActive, DivergenceReported,
      NoLinkIsAnError, Mapped
  <2> QED
    BY <2>2, <2>3, <2>4 DEF IInv, Coherent
<1>2. IInv /\ [Next]_vars => IInv'
  <2> SUFFICES ASSUME IInv, [Next]_vars PROVE IInv'
    OBVIOUS
  <2>1. CASE Upload
    BY <2>1, UploadKeeps
  <2>2. CASE BundleAction
    BY <2>2, BundleKeeps
  <2>3. CASE Push
    BY <2>3, PushKeeps
  <2>4. CASE PresetAction
    BY <2>4, PresetKeeps
  <2>5. CASE Controls
    BY <2>5, ControlKeeps DEF Controls
  <2>6. CASE Flush
    BY <2>6, FlushKeeps
  <2>7. CASE Restart
    BY <2>7, BootKeeps DEF Restart
  <2>8. CASE UNCHANGED vars
    BY <2>8, IdleKeeps DEF vars, fsVars, ramVars, linkVars, chipVars, IInv, FilesType,
      RestType
  <2> QED
    BY <2>1, <2>2, <2>3, <2>4, <2>5, <2>6, <2>7, <2>8 DEF Next
<1> QED
  BY <1>1, <1>2, PTL DEF Spec

\* Files, RAM, NVS and chip hold values of their types, for every number of
\* bundles, presets and controls and every build.
THEOREM TypeCorrect == Spec => []TypeOK
BY InvariantHolds, InvariantHasTypes, PTL

\* The schema is all there or not at all, whatever was uploaded, cut off,
\* renamed, deleted or rebooted: handlers may index values by control.
THEOREM SchemaStaysCoherent == Spec => []SchemaIsCoherent
<1>1. IInv => SchemaIsCoherent
  BY DEF IInv, Coherent
<1> QED
  BY <1>1, InvariantHolds, PTL

\* The active bundle in RAM and the one in NVS never part.
THEOREM BootComesBack == Spec => []BootFindsActive
<1>1. IInv => BootFindsActive
  BY DEF IInv, Coherent
<1> QED
  BY <1>1, InvariantHolds, PTL

\* A chip that does not have what its controls show is an error the operator
\* sees, whatever writes and resets fail.
THEOREM DivergenceIsReported == Spec => []DivergenceReported
<1>1. IInv => DivergenceReported
  BY DEF IInv, Coherent
<1> QED
  BY <1>1, InvariantHolds, PTL

\* A preset that is answered with success or with a 502 is taken over whole:
\* no failed write leaves a part of it out of RAM.
THEOREM PresetIsTakenWhole == Spec => PresetIsKept
<1>1. IInv /\ [Next]_vars =>
        [reply' \in {"preset_loaded", "preset_502"} =>
           \A b \in Bundles, p \in PresetNames :
             (\E acks \in Acks : LoadPreset(b, p, acks)) =>
               \A i \in DOMAIN Asked(presets[b][p]) :
                 dsp'.values[i] = Asked(presets[b][p])[i]]_vars
  <2> SUFFICES ASSUME IInv, NEW b \in Bundles, NEW p \in PresetNames,
                      NEW acks \in Acks, LoadPreset(b, p, acks),
                      NEW i \in DOMAIN Asked(presets[b][p])
               PROVE  dsp'.values[i] = Asked(presets[b][p])[i]
    OBVIOUS
  <2> DEFINE changes == Changes(presets[b][p], acks)
             new == [j \in DOMAIN dsp.values |->
                       IF j \in changes THEN Asked(presets[b][p])[j] ELSE dsp.values[j]]
  <2>1. dsp' = [dsp EXCEPT !.values = new]
    BY DEF LoadPreset, IInv, Coherent, DspType
  <2>2. dsp'.values = new
    BY <2>1 DEF IInv, Coherent, DspType
  <2>3. i \in DOMAIN dsp.values
    BY DEF Asked, IInv, Coherent, SchemaIsCoherent, NoControls
  <2>4. i \notin changes => dsp.values[i] = Asked(presets[b][p])[i]
    BY DEF Changes
  <2> QED
    BY <2>2, <2>3, <2>4
<1> QED
  BY <1>1, InvariantHolds, PTL DEF Spec, PresetIsKept
=============================================================================
