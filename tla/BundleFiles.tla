----------------------------- MODULE BundleFiles -----------------------------
(* The files of the bundles on LittleFS, step by step.  All handlers run on  *)
(* async_tcp, so that a rename or a delete is cut short by a loss of power   *)
(* only; an upload comes chunk by chunk, with other requests in between.     *)
EXTENDS Naturals, FiniteSets

CONSTANTS
  Bundles,
  Requests,    \* uploads that may be under way at once
  Contents,    \* what is uploaded or saved, each once
  Absent,      \* no such file
  Empty,       \* a file opened for writing and not closed yet
  None,        \* no bundle, no upload
  MaxOpen,     \* files that LittleFS keeps open at once
  EntryNameIsPath,  \* File::name() gives the full path, not the base name
  MaxLosses    \* bound: losses of power

Kinds == {"program", "interface", "preset"}
Paths == Bundles \X Kinds
Folders == Bundles \X {"dsp", "presets"}
FolderOf(p) == <<p[1], IF p[2] = "preset" THEN "presets" ELSE "dsp">>
Upload == [path : Paths, content : Contents, open : BOOLEAN]

ASSUME FilesAssumption ==
  /\ MaxOpen \in Nat /\ MaxLosses \in Nat /\ EntryNameIsPath \in BOOLEAN
  /\ IsFiniteSet(Requests)
  /\ None \notin Bundles \cup Contents /\ {Absent, Empty} \cap Contents = {} /\ Absent # Empty
  /\ None \notin Upload

VARIABLES
  files,      \* per path: its content
  folders,    \* the directories that exist
  uploads,    \* per request: None, or the context of its upload
  active,     \* dsp_active_bundle
  saved,      \* dspBundle in NVS
  schema,     \* content the schema was parsed from, None if not ready
  step,       \* what renameBundle or deleteBundle does next, "idle" if neither runs
  from, to,   \* its bundle, and the new name; None for a delete
  kind,       \* the kind of file it has come to
  fresh,      \* contents nobody has uploaded yet
  losses,
  whole,      \* history: contents stored to their end, neither replaced nor deleted since
  cut,        \* history: a rename or delete was cut short, met an open file, or left the bundle
              \* that was deleted active
  upon        \* history: a rename began to a name that still had files

fs == <<files, folders>>
ram == <<active, schema>>
job == <<step, from, to, kind>>
history == <<whole, cut, upon>>
vars == <<fs, uploads, ram, saved, job, fresh, losses, history>>

IsOpen(p) == \E r \in Requests : uploads[r] # None /\ uploads[r].open /\ uploads[r].path = p
Handles == Cardinality({r \in Requests : uploads[r] # None /\ uploads[r].open})

Init ==
  /\ files = [p \in Paths |-> Absent] /\ folders = {}
  /\ uploads = [r \in Requests |-> None]
  /\ active = None /\ saved = None /\ schema = None
  /\ step = "idle" /\ from = None /\ to = None /\ kind = "program"
  /\ fresh = Contents /\ losses = 0 /\ whole = {}
  /\ cut = FALSE /\ upon = FALSE

----------------------------------------------------------------------------
(* LittleFS (external): opening for writing empties a file, closing stores   *)
(* what was written; a file that is open, or a directory that is not empty,  *)
(* is not removed.                                                           *)

Write(p, content) == files' = [files EXCEPT ![p] = content]
MakeFolder(d) == folders' = folders \cup {d}
RemoveFile(p) == files' = IF IsOpen(p) THEN files ELSE [files EXCEPT ![p] = Absent]
RemoveFolder(d) ==
  folders' = IF \E p \in Paths : FolderOf(p) = d /\ files[p] # Absent THEN folders ELSE folders \ {d}

----------------------------------------------------------------------------
(* loadDspBundle: any directory will do if none is named, but it must have a *)
(* schema that parses.                                                       *)

Loadable(fls, b) == fls[b, "interface"] \notin {Absent, Empty}

Load(fls, b, persist) ==
  IF b = None
  THEN active' = None /\ schema' = None /\ saved' = IF persist THEN None ELSE saved
  ELSE IF Loadable(fls, b)
  THEN active' = b /\ schema' = fls[b, "interface"] /\ saved' = IF persist THEN b ELSE saved
  ELSE UNCHANGED <<ram, saved>>

AnyBundle == LET d == {b \in Bundles : <<b, "dsp">> \in folders} IN IF d = {} THEN {None} ELSE d

(* A boot starts from RAM cleared.                                           *)
Booted ==
  \E b \in IF saved = None THEN AnyBundle ELSE {saved} :
    IF b # None /\ Loadable(files, b) THEN active' = b /\ schema' = files[b, "interface"]
                                      ELSE active' = None /\ schema' = None

----------------------------------------------------------------------------
(* Uploads *)

Replaced(p, c) == whole' = (whole \ {files[p]}) \cup {c}

(* Mutant: the directory is expected to be there.                            *)
UploadStartsBare(r, p, c) ==
  /\ step = "idle" /\ uploads[r] = None /\ c \in fresh /\ Handles < MaxOpen
  /\ fresh' = fresh \ {c}
  /\ uploads' = [uploads EXCEPT ![r] = [path |-> p, content |-> c, open |-> TRUE]]
  /\ Write(p, Empty) /\ whole' = whole \ {files[p]}
  /\ UNCHANGED <<folders, ram, saved, job, losses, cut, upon>>

(* The first chunk makes the directory and opens the file, if it can be      *)
(* opened; the content that was there is gone.                               *)
UploadStarts(r, p, c) ==
  /\ step = "idle" /\ uploads[r] = None /\ c \in fresh
  /\ fresh' = fresh \ {c}
  /\ uploads' = [uploads EXCEPT ![r] = [path |-> p, content |-> c, open |-> Handles < MaxOpen]]
  /\ MakeFolder(FolderOf(p))
  /\ IF Handles < MaxOpen THEN Write(p, Empty) /\ whole' = whole \ {files[p]}
                          ELSE UNCHANGED <<files, whole>>
  /\ UNCHANGED <<ram, saved, job, losses, cut, upon>>

Stored(u) == IF u.open THEN Write(u.path, u.content) /\ Replaced(u.path, u.content)
                       ELSE UNCHANGED <<files, whole>>

(* Mutant: the schema in RAM is left as it is.                               *)
UploadEndsSilently(r) ==
  /\ step = "idle" /\ uploads[r] # None
  /\ Stored(uploads[r])
  /\ uploads' = [uploads EXCEPT ![r] = None]
  /\ UNCHANGED <<folders, ram, saved, job, fresh, losses, cut, upon>>

(* The last chunk closes it; the schema of the bundle that is active now is  *)
(* read again.                                                               *)
UploadEnds(r) ==
  /\ step = "idle" /\ uploads[r] # None
  /\ Stored(uploads[r])
  /\ IF uploads[r].path = <<active, "interface">> THEN Load(files', active, FALSE)
                                                  ELSE UNCHANGED <<ram, saved>>
  /\ uploads' = [uploads EXCEPT ![r] = None]
  /\ UNCHANGED <<folders, job, fresh, losses, cut, upon>>

(* A connection that is lost in between leaves the context, and the file     *)
(* open, for ever: the request of the model stays taken.                     *)

(* Presets are saved and deleted in one handler, for the bundle that a page  *)
(* takes for the active one, whether or not there is one of that name.       *)
SavePreset(b, c) ==
  /\ step = "idle" /\ c \in fresh /\ MakeFolder(<<b, "presets">>)
  /\ IF Handles < MaxOpen
     THEN Write(<<b, "preset">>, c) /\ Replaced(<<b, "preset">>, c) /\ fresh' = fresh \ {c}
     ELSE UNCHANGED <<files, whole, fresh>>
  /\ UNCHANGED <<uploads, ram, saved, job, losses, cut, upon>>

DeletePreset(b) ==
  /\ step = "idle" /\ RemoveFile(<<b, "preset">>) /\ whole' = whole \ {files[b, "preset"]}
  /\ UNCHANGED <<folders, uploads, ram, saved, job, fresh, losses, cut, upon>>

----------------------------------------------------------------------------
(* Bundles as wholes *)

Select(b) ==
  /\ step = "idle" /\ Loadable(files, b) /\ Load(files, b, TRUE)
  /\ UNCHANGED <<fs, uploads, job, fresh, losses, history>>

CanRename(old, new) == <<old, "dsp">> \in folders /\ <<new, "dsp">> \notin folders
OpenIn(b) == \E k \in Kinds : IsOpen(<<b, k>>)

(* renameBundle looks for the directory of the new name, not for presets.    *)
Rename(old, new) ==
  /\ step = "idle" /\ CanRename(old, new)
  /\ MakeFolder(<<new, "dsp">>)
  /\ step' = "copy" /\ from' = old /\ to' = new /\ kind' = "program"
  /\ cut' = (cut \/ OpenIn(old)) /\ upon' = (upon \/ \E k \in Kinds : files[new, k] # Absent)
  /\ UNCHANGED <<files, uploads, ram, saved, fresh, losses, whole>>

Delete(b) ==
  /\ step = "idle" /\ <<b, "dsp">> \in folders
  /\ step' = "remove" /\ from' = b /\ to' = None /\ kind' = "program"
  /\ whole' = whole \ {files[b, k] : k \in Kinds} /\ cut' = (cut \/ OpenIn(b))
  /\ UNCHANGED <<fs, uploads, ram, saved, fresh, losses, upon>>

Rest == <<uploads, fresh, losses>>
Source == <<from, kind>>
Target == <<to, kind>>

(* The next kind of file, or the directory once its files are done.          *)
Continue ==
  /\ step' = IF kind # "program" THEN "rmdir" ELSE IF to = None THEN "remove" ELSE "copy"
  /\ kind' = IF kind = "program" THEN "interface" ELSE kind
  /\ UNCHANGED <<from, to>>

Goto(label) == step' = label /\ UNCHANGED <<from, to, kind>>
Return == step' = "idle" /\ from' = None /\ to' = None /\ kind' = "program"

(* copyFile: both files are open at once; one that cannot be opened ends the *)
(* rename.                                                                   *)
Copy ==
  /\ step = "copy"
  /\ IF files[Source] = Absent THEN Continue /\ UNCHANGED <<fs, cut>>
     ELSE IF Handles + 2 <= MaxOpen THEN Write(Target, Empty) /\ Goto("store") /\ UNCHANGED <<folders, cut>>
     ELSE /\ IF kind = "preset" THEN UNCHANGED folders ELSE RemoveFolder(<<to, "dsp">>)
          /\ Return /\ cut' = TRUE /\ UNCHANGED files
  /\ UNCHANGED <<Rest, ram, saved, whole, upon>>

(* Mutant: the flash is full, what is written is short.                      *)
StoreShort ==
  /\ step = "store" /\ Goto("remove") /\ UNCHANGED files
  /\ UNCHANGED <<Rest, folders, ram, saved, history>>

Store ==
  /\ step = "store" /\ Write(Target, files[Source]) /\ Goto("remove")
  /\ UNCHANGED <<Rest, folders, ram, saved, history>>

(* A copied file goes; deleteBundle removes by entry.name(), which names a   *)
(* file only if it is a path.                                                *)
Remove ==
  /\ step = "remove" /\ Continue
  /\ IF to = None /\ ~EntryNameIsPath THEN UNCHANGED files ELSE RemoveFile(Source)
  /\ UNCHANGED <<Rest, folders, ram, saved, history>>

(* The presets come last, if there are any.                                  *)
FolderDone ==
  /\ step = "rmdir" /\ RemoveFolder(FolderOf(Source))
  /\ step' = IF kind = "preset" \/ <<from, "presets">> \notin folders THEN "end"
             ELSE IF to = None THEN "remove" ELSE "mkdir"
  /\ kind' = "preset" /\ UNCHANGED <<from, to>>
  /\ UNCHANGED <<Rest, files, ram, saved, history>>

Presets ==
  /\ step = "mkdir" /\ MakeFolder(<<to, "presets">>) /\ Goto("copy")
  /\ UNCHANGED <<Rest, files, ram, saved, history>>

(* The handler of the request: the active bundle is loaded by its new name,  *)
(* or another in the place of a deleted one.                                 *)
Finish ==
  /\ step = "end" /\ Return
  /\ IF from # active THEN UNCHANGED <<ram, saved, cut>>
     ELSE IF to # None THEN Load(files, to, TRUE) /\ UNCHANGED cut
     ELSE (\E next \in AnyBundle : Load(files, next, TRUE)) /\ cut' = (cut \/ active' = from)
  /\ UNCHANGED <<Rest, fs, whole, upon>>

----------------------------------------------------------------------------
(* What is open is closed by nobody; what was stored stays.                  *)
PowerLoss ==
  /\ losses < MaxLosses /\ losses' = losses + 1
  /\ Booted /\ Return /\ cut' = (cut \/ step # "idle")
  /\ uploads' = [r \in Requests |-> None]
  /\ UNCHANGED <<fs, saved, fresh, whole, upon>>

Running == Copy \/ Store \/ Remove \/ FolderDone \/ Presets \/ Finish

Next ==
  \/ \E r \in Requests, b \in Bundles, k \in Kinds \ {"preset"}, c \in Contents :
       UploadStarts(r, <<b, k>>, c)
  \/ \E r \in Requests : UploadEnds(r)
  \/ \E b \in Bundles, c \in Contents : SavePreset(b, c)
  \/ \E b \in Bundles : DeletePreset(b) \/ Select(b) \/ Delete(b)
  \/ \E old, new \in Bundles : Rename(old, new)
  \/ Running \/ PowerLoss

Spec == Init /\ [][Next]_vars

----------------------------------------------------------------------------
(* Properties *)

(* Types; no more files are open than LittleFS allows; a file is in a        *)
(* directory that exists.                                                    *)
TypeOK ==
  /\ files \in [Paths -> Contents \cup {Absent, Empty}] /\ folders \subseteq Folders
  /\ uploads \in [Requests -> Upload \cup {None}]
  /\ Handles <= MaxOpen
  /\ active \in Bundles \cup {None} /\ saved \in Bundles \cup {None}
  /\ step \in {"idle", "copy", "store", "remove", "rmdir", "mkdir", "end"} /\ kind \in Kinds
  /\ from \in Bundles \cup {None} /\ to \in Bundles \cup {None}
  /\ schema \in Contents \cup {None} /\ fresh \subseteq Contents
  /\ whole \subseteq Contents \ fresh /\ losses \in 0..MaxLosses
  /\ cut \in BOOLEAN /\ upon \in BOOLEAN
  /\ \A p \in Paths : files[p] # Absent => FolderOf(p) \in folders

(* What was stored to its end is on the flash until it is replaced or        *)
(* deleted, at whatever step of whatever rename the power is lost, and       *)
(* whatever uploads overlap it.  (But a rename writes over the files that    *)
(* its new name still has: presets, which it does not look for.)             *)
NothingIsLost == ~upon => \A c \in whole : \E p \in Paths : files[p] = c

(* The schema in RAM is never another than the one that the active bundle    *)
(* has on flash, if it has one, whatever was uploaded, renamed and deleted   *)
(* around it.  (Not so after a rename or delete that met an open file, was   *)
(* cut, or left the deleted bundle active.)                                  *)
SchemaIsOnFlash ==
  schema # None /\ ~cut => files[active, "interface"] \in {schema, Absent, Empty}
=============================================================================
