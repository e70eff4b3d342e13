-------------------------- MODULE BundleFilesProofs --------------------------
(***************************************************************************)
(* For every number of bundles, uploads, contents and handles, however     *)
(* often the power is lost, and whatever File::name() gives: the types     *)
(* hold, nothing that was stored is lost, and the schema in RAM is the one *)
(* on flash.                                                               *)
(***************************************************************************)
EXTENDS BundleFiles, FiniteSetTheorems, TLAPS

----------------------------------------------------------------------------
(* LittleFS and the handles *)

Open == {r \in Requests : uploads[r] # None /\ uploads[r].open}

\* Handles counts the open uploads.
LEMMA OpenIsFinite == IsFiniteSet(Open) /\ Handles = Cardinality(Open) /\ Handles \in Nat
<1>1. IsFiniteSet(Open)
  BY FS_Subset, FilesAssumption DEF Open
<1> QED
  BY <1>1, FS_CardinalityType DEF Open, Handles

\* Uploads that end, or find no handle, leave as many handles or more.
LEMMA HandlesStay ==
  ASSUME Handles <= MaxOpen, Open' \subseteq Open
  PROVE  Handles' <= MaxOpen
<1>1. Cardinality(Open') <= Cardinality(Open)
  BY OpenIsFinite, FS_Subset
<1>2. Handles' = Cardinality(Open')
  BY DEF Open, Handles
<1>3. IsFiniteSet(Open') /\ Cardinality(Open') \in Nat
  BY OpenIsFinite, FS_Subset, FS_CardinalityType
<1> QED
  BY <1>1, <1>2, <1>3, OpenIsFinite, FilesAssumption

\* One more upload takes one more handle.
LEMMA HandleTaken ==
  ASSUME Handles < MaxOpen, NEW r, Open' \subseteq Open \cup {r}
  PROVE  Handles' <= MaxOpen
<1>1. IsFiniteSet(Open \cup {r}) /\ Cardinality(Open \cup {r}) <= Cardinality(Open) + 1
  <2>1. IsFiniteSet(Open) /\ Cardinality(Open) \in Nat
    BY OpenIsFinite
  <2>2. /\ IsFiniteSet(Open \cup {r})
        /\ \/ Cardinality(Open \cup {r}) = Cardinality(Open)
           \/ Cardinality(Open \cup {r}) = Cardinality(Open) + 1
    BY <2>1, FS_AddElement
  <2> QED
    BY <2>1, <2>2
<1>2. Cardinality(Open') <= Cardinality(Open \cup {r}) /\ IsFiniteSet(Open')
  BY <1>1, FS_Subset
<1>3. Handles' = Cardinality(Open')
  BY DEF Open, Handles
<1>4. Cardinality(Open') \in Nat /\ Cardinality(Open \cup {r}) \in Nat
  BY <1>1, <1>2, FS_CardinalityType
<1> QED
  BY <1>1, <1>2, <1>3, <1>4, OpenIsFinite, FilesAssumption

\* A path is a bundle and a kind, in one of the bundle's two directories.
LEMMA PathType ==
  ASSUME NEW b \in Bundles, NEW k \in Kinds
  PROVE  /\ <<b, k>> \in Paths /\ FolderOf(<<b, k>>) \in Folders
         /\ FolderOf(<<b, k>>) = <<b, IF k = "preset" THEN "presets" ELSE "dsp">>
BY DEF Paths, Folders, FolderOf

\* What LittleFS has after a call is of its types.
LEMMA WrittenType ==
  ASSUME TypeOK, NEW p \in Paths, NEW c \in Contents \cup {Absent, Empty}, Write(p, c)
  PROVE  /\ files' \in [Paths -> Contents \cup {Absent, Empty}] /\ files'[p] = c
         /\ \A q \in Paths \ {p} : files'[q] = files[q]
BY DEF TypeOK, Write

LEMMA RemovedType ==
  ASSUME TypeOK, NEW p \in Paths, RemoveFile(p)
  PROVE  /\ files' \in [Paths -> Contents \cup {Absent, Empty}]
         /\ files'[p] = Absent \/ (IsOpen(p) /\ files'[p] = files[p])
         /\ \A q \in Paths \ {p} : files'[q] = files[q]
BY DEF TypeOK, RemoveFile

\* A directory that is removed is one and is empty.
LEMMA FolderRemoved ==
  ASSUME TypeOK, NEW d, RemoveFolder(d)
  PROVE  /\ folders' \subseteq folders /\ folders \subseteq folders' \cup {d}
         /\ \A p \in Paths : files[p] # Absent => FolderOf(p) \in folders'
BY DEF TypeOK, RemoveFolder

----------------------------------------------------------------------------
(* Types *)

\* What is uploaded is used once, and a file that an upload has open is there.
UploadsRight ==
  \A r \in Requests : uploads[r] # None =>
    /\ uploads[r].content \notin fresh
    /\ uploads[r].open => files[uploads[r].path] # Absent

\* Where a rename or delete can be, and the directories it has made by then.
JobRight ==
  /\ step # "idle" => from \in Bundles
  /\ step \in {"copy", "store", "mkdir"} => to # None
  /\ step = "store" => files[Source] # Absent
  /\ step \in {"rmdir", "mkdir", "end"} => kind # "program"
  /\ step \in {"mkdir", "end"} => kind = "preset"
  /\ step # "idle" /\ to # None => from # to /\ <<to, "dsp">> \in folders
  /\ to # None /\ kind = "preset" /\ step \in {"copy", "store", "remove"} => <<to, "presets">> \in folders

Placed == TypeOK /\ UploadsRight /\ JobRight

\* LittleFS opens a file for an upload, or lacks the handle.
LEMMA UploadPlaced ==
  ASSUME Placed, NEW r \in Requests, NEW b \in Bundles, NEW k \in Kinds \ {"preset"}, NEW c \in Contents,
         UploadStarts(r, <<b, k>>, c)
  PROVE  Placed'
<1> DEFINE p == <<b, k>>
           u == [path |-> p, content |-> c, open |-> Handles < MaxOpen]
<1>1. p \in Paths /\ FolderOf(p) \in Folders
  BY PathType
<1> HIDE DEF p
<1>2. /\ step = "idle" /\ uploads[r] = None /\ fresh' = fresh \ {c} /\ c \in fresh
      /\ uploads' = [uploads EXCEPT ![r] = u] /\ folders' = folders \cup {FolderOf(p)}
      /\ IF Handles < MaxOpen THEN Write(p, Empty) /\ whole' = whole \ {files[p]}
                              ELSE UNCHANGED <<files, whole>>
      /\ UNCHANGED <<ram, saved, job, losses, cut, upon>>
  BY DEF UploadStarts, MakeFolder, p
<1>3. /\ u \in Upload
      /\ u.path = p /\ u.content = c /\ u.open = (Handles < MaxOpen)
  BY <1>1 DEF Upload
<1> HIDE DEF u
<1>4. /\ files' \in [Paths -> Contents \cup {Absent, Empty}] /\ whole' \subseteq whole
      /\ \A q \in Paths : files[q] # Absent => files'[q] # Absent
      /\ \A q \in Paths : files'[q] # files[q] => q = p
      /\ u.open => files'[p] = Empty
  BY <1>1, <1>2, <1>3, WrittenType, FilesAssumption DEF Placed, TypeOK, Upload
<1>5. Handles' <= MaxOpen
  <2>1. \A s \in Requests \ {r} : uploads'[s] = uploads[s]
    BY <1>2 DEF Placed, TypeOK
  <2>2. uploads'[r] = u
    BY <1>2 DEF Placed, TypeOK
  <2>3. CASE u.open
    <3>1. Open' \subseteq Open \cup {r}
      BY <2>1 DEF Open
    <3> QED
      BY <1>3, <2>3, <3>1, HandleTaken
  <2>4. CASE ~u.open
    <3>1. Open' \subseteq Open
      BY <2>1, <2>2, <2>4 DEF Open
    <3> QED
      BY <3>1, HandlesStay DEF Placed, TypeOK
  <2> QED
    BY <2>3, <2>4
<1>6. TypeOK'
  <2>1. uploads' \in [Requests -> Upload \cup {None}]
    BY <1>2, <1>3 DEF Placed, TypeOK
  <2>2. \A q \in Paths : files'[q] # Absent => FolderOf(q) \in folders'
    BY <1>2, <1>4 DEF Placed, TypeOK
  <2>3. whole' \subseteq Contents \ fresh' /\ folders' \subseteq Folders /\ fresh' \subseteq Contents
    BY <1>1, <1>2, <1>4 DEF Placed, TypeOK
  <2> QED
    BY <1>2, <1>4, <1>5, <2>1, <2>2, <2>3 DEF Placed, TypeOK, ram, job
<1>7. UploadsRight'
  <2> SUFFICES ASSUME NEW s \in Requests, uploads'[s] # None
               PROVE  /\ uploads'[s].content \notin fresh'
                      /\ uploads'[s].open => files'[uploads'[s].path] # Absent
    BY DEF UploadsRight
  <2>1. CASE s = r
    BY <1>2, <1>3, <1>4, <2>1, FilesAssumption DEF Placed, TypeOK
  <2>2. CASE s # r
    <3>1. uploads'[s] = uploads[s] /\ uploads[s].path \in Paths
      BY <1>2, <2>2 DEF Placed, TypeOK, Upload
    <3> QED
      BY <1>2, <1>4, <3>1 DEF Placed, UploadsRight
  <2> QED
    BY <2>1, <2>2
<1>8. JobRight'
  BY <1>2 DEF Placed, JobRight, job
<1> QED
  BY <1>6, <1>7, <1>8 DEF Placed

\* What is loaded, from whatever the files are, is a bundle or none.
LEMMA LoadType ==
  ASSUME TypeOK, NEW fls \in [Paths -> Contents \cup {Absent, Empty}], NEW b \in Bundles \cup {None},
         NEW persist \in BOOLEAN, Load(fls, b, persist)
  PROVE  active' \in Bundles \cup {None} /\ saved' \in Bundles \cup {None} /\ schema' \in Contents \cup {None}
<1>1. CASE b = None \/ ~Loadable(fls, b)
  BY <1>1 DEF Load, TypeOK, ram
<1>2. CASE b # None /\ Loadable(fls, b)
  <2>1. <<b, "interface">> \in Paths
    BY <1>2, PathType DEF Kinds
  <2>2. fls[b, "interface"] \in Contents
    BY <1>2, <2>1 DEF Loadable
  <2> QED
    BY <1>2, <2>2 DEF Load, TypeOK
<1> QED
  BY <1>1, <1>2

LEMMA BootType ==
  ASSUME TypeOK, Booted
  PROVE  active' \in Bundles \cup {None} /\ schema' \in Contents \cup {None}
<1>1. PICK b \in IF saved = None THEN AnyBundle ELSE {saved} :
         IF b # None /\ Loadable(files, b) THEN active' = b /\ schema' = files[b, "interface"]
                                           ELSE active' = None /\ schema' = None
  BY DEF Booted
<1>2. b \in Bundles \cup {None}
  BY <1>1 DEF AnyBundle, TypeOK
<1>3. CASE b # None /\ Loadable(files, b)
  <2>1. <<b, "interface">> \in Paths
    BY <1>2, <1>3, PathType DEF Kinds
  <2> QED
    BY <1>1, <1>2, <1>3, <2>1 DEF Loadable, TypeOK
<1>4. CASE ~(b # None /\ Loadable(files, b))
  BY <1>1, <1>4
<1> QED
  BY <1>3, <1>4

\* An upload that ends closes its file, which is in its directory.
LEMMA EndPlaced ==
  ASSUME Placed, NEW r \in Requests, UploadEnds(r)
  PROVE  Placed'
<1> DEFINE u == uploads[r]
<1>1. u \in Upload /\ u # None
  BY DEF UploadEnds, Placed, TypeOK
<1>2. u.path \in Paths /\ u.content \in Contents /\ u.open \in BOOLEAN
  BY <1>1 DEF Upload
<1>3. /\ uploads' = [uploads EXCEPT ![r] = None] /\ UNCHANGED <<folders, job, fresh, losses, cut, upon>>
      /\ Stored(u) /\ step = "idle"
      /\ Load(files', active, FALSE) \/ UNCHANGED <<ram, saved>>
  BY DEF UploadEnds
<1>4. u.content \notin fresh /\ (u.open => files[u.path] # Absent)
  BY <1>1 DEF Placed, UploadsRight
<1> HIDE DEF u
<1>5. /\ files' \in [Paths -> Contents \cup {Absent, Empty}]
      /\ \A q \in Paths : files[q] # Absent <=> files'[q] # Absent
  <2>1. CASE u.open
    BY <1>2, <1>3, <1>4, <2>1, WrittenType, FilesAssumption DEF Stored, Placed
  <2>2. CASE ~u.open
    BY <1>3, <2>2 DEF Stored, Placed, TypeOK
  <2> QED
    BY <2>1, <2>2
<1>6. active' \in Bundles \cup {None} /\ saved' \in Bundles \cup {None} /\ schema' \in Contents \cup {None}
  <2>1. CASE Load(files', active, FALSE)
    BY <1>5, <2>1, LoadType DEF Placed, TypeOK
  <2>2. CASE UNCHANGED <<ram, saved>>
    BY <2>2 DEF Placed, TypeOK, ram
  <2> QED
    BY <1>3, <2>1, <2>2
<1>7. uploads' \in [Requests -> Upload \cup {None}]
      /\ \A s \in Requests : uploads'[s] # None => uploads'[s] = uploads[s]
  BY <1>3 DEF Placed, TypeOK
<1>8. Handles' <= MaxOpen
  <2>1. Open' \subseteq Open
    BY <1>7 DEF Open
  <2> QED
    BY <2>1, HandlesStay DEF Placed, TypeOK
<1>9. whole' \subseteq Contents \ fresh'
  BY <1>2, <1>3, <1>4 DEF Stored, Replaced, Placed, TypeOK
<1>10. TypeOK'
  BY <1>3, <1>5, <1>6, <1>7, <1>8, <1>9 DEF Placed, TypeOK, job
<1>11. UploadsRight'
  BY <1>3, <1>5, <1>7 DEF Placed, UploadsRight, TypeOK, Upload
<1> QED
  BY <1>3, <1>10, <1>11 DEF Placed, JobRight, job

\* A preset is saved or deleted: presets are not open and have their directory.
LEMMA PresetPlaced ==
  ASSUME Placed, NEW b \in Bundles, DeletePreset(b) \/ \E c \in Contents : SavePreset(b, c)
  PROVE  Placed'
<1> DEFINE p == <<b, "preset">>
<1>1. p \in Paths /\ FolderOf(p) \in Folders /\ FolderOf(p) = <<b, "presets">>
  BY PathType DEF Kinds
<1> HIDE DEF p
<1>2. /\ step = "idle" /\ UNCHANGED <<uploads, ram, saved, job, losses, cut, upon>>
      /\ folders' \in {folders, folders \cup {FolderOf(p)}}
      /\ \/ UNCHANGED <<files, whole, fresh>>
         \/ RemoveFile(p) /\ whole' = whole \ {files[p]} /\ UNCHANGED fresh
         \/ /\ folders' = folders \cup {FolderOf(p)}
            /\ \E c \in fresh : Write(p, c) /\ Replaced(p, c) /\ fresh' = fresh \ {c}
  BY <1>1 DEF DeletePreset, SavePreset, MakeFolder, p
<1>3. /\ files' \in [Paths -> Contents \cup {Absent, Empty}]
      /\ \A q \in Paths : files'[q] # Absent => FolderOf(q) \in folders'
      /\ \A q \in Paths : files[q] # Absent => files'[q] # Absent \/ (q = p /\ ~IsOpen(p))
      /\ whole' \subseteq Contents \ fresh' /\ fresh' \subseteq fresh
  <2>1. CASE UNCHANGED <<files, whole, fresh>>
    BY <1>2, <2>1 DEF Placed, TypeOK
  <2>2. CASE RemoveFile(p) /\ whole' = whole \ {files[p]} /\ UNCHANGED fresh
    BY <1>1, <1>2, <2>2 DEF RemoveFile, Placed, TypeOK
  <2>3. ASSUME NEW c \in fresh, folders' = folders \cup {FolderOf(p)},
               Write(p, c), Replaced(p, c), fresh' = fresh \ {c}
        PROVE  <1>3!:
    BY <1>1, <2>3, WrittenType, FilesAssumption DEF Replaced, Placed, TypeOK
  <2> QED
    BY <1>2, <2>1, <2>2, <2>3
<1>4. Handles' <= MaxOpen
  BY <1>2 DEF Handles, Placed, TypeOK
<1>5. TypeOK'
  BY <1>1, <1>2, <1>3, <1>4 DEF Placed, TypeOK, ram, job
<1>6. UploadsRight'
  <2> SUFFICES ASSUME NEW s \in Requests, uploads[s] # None
               PROVE  /\ uploads[s].content \notin fresh'
                      /\ uploads[s].open => files'[uploads[s].path] # Absent
    BY <1>2 DEF UploadsRight
  <2>1. uploads[s].path \in Paths
    BY DEF Placed, TypeOK, Upload
  <2>2. uploads[s].open => IsOpen(uploads[s].path)
    BY DEF IsOpen
  <2> QED
    BY <1>3, <2>1, <2>2 DEF Placed, UploadsRight
<1> QED
  BY <1>2, <1>5, <1>6 DEF Placed, JobRight, job

\* A bundle is selected, or its rename or deletion begins.
LEMMA BeginPlaced ==
  ASSUME Placed,
         \/ \E b \in Bundles : Select(b) \/ Delete(b)
         \/ \E old, new \in Bundles : Rename(old, new)
  PROVE  Placed'
<1>1. UNCHANGED <<files, uploads, fresh, losses>> /\ Handles' = Handles /\ whole' \subseteq whole
  BY DEF Select, Delete, Rename, fs, history, Handles
<1>2. UploadsRight'
  BY <1>1 DEF Placed, UploadsRight
<1>3. ASSUME NEW b \in Bundles, Select(b) PROVE TypeOK' /\ JobRight'
  <2>1. active' \in Bundles \cup {None} /\ saved' \in Bundles \cup {None} /\ schema' \in Contents \cup {None}
    BY <1>3, LoadType DEF Select, Placed, TypeOK
  <2> QED
    BY <1>1, <1>3, <2>1 DEF Select, Placed, TypeOK, JobRight, fs, job, history
<1>4. ASSUME NEW b \in Bundles, Delete(b) PROVE TypeOK' /\ JobRight'
  BY <1>1, <1>4, FilesAssumption DEF Delete, OpenIn, Placed, TypeOK, JobRight, fs, ram, Kinds
<1>5. ASSUME NEW old \in Bundles, NEW new \in Bundles, Rename(old, new) PROVE TypeOK' /\ JobRight'
  <2>1. folders' = folders \cup {<<new, "dsp">>} /\ <<new, "dsp">> \in Folders /\ old # new
    BY <1>5 DEF Rename, CanRename, MakeFolder, Folders
  <2>2. TypeOK'
    BY <1>1, <1>5, <2>1, FilesAssumption DEF Rename, OpenIn, Placed, TypeOK, ram, Kinds
  <2>3. JobRight'
    BY <1>5, <2>1, FilesAssumption DEF Rename, JobRight
  <2> QED
    BY <2>2, <2>3
<1> QED
  BY <1>2, <1>3, <1>4, <1>5 DEF Placed

\* The steps of a rename or delete: what they write and remove is the job's own.
LEMMA RunPlaced ==
  ASSUME Placed, Running
  PROVE  Placed'
<1>1. /\ UNCHANGED <<uploads, fresh, losses, upon, whole>> /\ Handles' = Handles /\ step # "idle"
  BY DEF Running, Copy, Store, Remove, FolderDone, Presets, Finish, Rest, history, Handles
<1>2. from \in Bundles /\ Source \in Paths /\ (to # None => Target \in Paths)
  BY <1>1, PathType DEF Placed, TypeOK, JobRight, Source, Target
<1>3. FolderOf(Source) = <<from, IF kind = "preset" THEN "presets" ELSE "dsp">>
      /\ (to # None => FolderOf(Target) = <<to, IF kind = "preset" THEN "presets" ELSE "dsp">>)
  BY DEF FolderOf, Source, Target
<1>4. to # None => from # to /\ <<to, "dsp">> \in folders /\ <<to, "dsp">> \in Folders
                   /\ <<to, "presets">> \in Folders
  BY <1>1 DEF Placed, TypeOK, JobRight, Folders
<1>5. cut \in BOOLEAN /\ active \in Bundles \cup {None}
  BY DEF Placed, TypeOK
<1>6. CASE Copy
  <2>1. step = "copy" /\ to # None /\ UNCHANGED <<ram, saved>>
    BY <1>6 DEF Copy, Placed, JobRight
  <2>2. CASE files[Source] = Absent
    <3>1. Continue /\ UNCHANGED <<fs, cut>>
      BY <1>6, <2>2 DEF Copy
    <3>2. TypeOK' /\ UploadsRight'
      BY <1>1, <2>1, <3>1 DEF Continue, fs, ram, Placed, TypeOK, UploadsRight, Kinds
    <3>3. JobRight'
      BY <1>4, <2>1, <3>1 DEF Continue, fs, Placed, JobRight, TypeOK, Kinds
    <3> QED
      BY <3>2, <3>3 DEF Placed
  <2>3. CASE files[Source] # Absent /\ Handles + 2 <= MaxOpen
    <3>1. Write(Target, Empty) /\ Goto("store") /\ UNCHANGED <<folders, cut>>
      BY <1>6, <2>3 DEF Copy
    <3>2. FolderOf(Target) \in folders
      BY <1>3, <1>4, <2>1 DEF Placed, JobRight
    <3>3. /\ files' \in [Paths -> Contents \cup {Absent, Empty}]
          /\ \A p \in Paths : files'[p] # Absent => FolderOf(p) \in folders
          /\ \A p \in Paths : files[p] # Absent => files'[p] # Absent
      BY <1>2, <2>1, <3>1, <3>2, WrittenType, FilesAssumption DEF Placed, TypeOK
    <3>4. TypeOK'
      BY <1>1, <2>1, <3>1, <3>3 DEF Goto, ram, Placed, TypeOK
    <3>5. UploadsRight'
      BY <1>1, <3>3 DEF Placed, TypeOK, UploadsRight, Upload
    <3>6. JobRight'
      <4>1. files'[Source] # Absent /\ Source' = Source
        BY <1>2, <2>3, <3>1, <3>3 DEF Goto, Source
      <4> QED
        BY <2>1, <3>1, <4>1 DEF Goto, Placed, JobRight
    <3> QED
      BY <3>4, <3>5, <3>6 DEF Placed
  <2>4. CASE files[Source] # Absent /\ ~(Handles + 2 <= MaxOpen)
    <3>1. /\ Return /\ cut' = TRUE /\ UNCHANGED files
          /\ UNCHANGED folders \/ RemoveFolder(<<to, "dsp">>)
      BY <1>6, <2>4 DEF Copy
    <3>2. folders' \subseteq Folders /\ \A p \in Paths : files[p] # Absent => FolderOf(p) \in folders'
      BY <3>1, FolderRemoved DEF Placed, TypeOK
    <3>3. TypeOK'
      BY <1>1, <2>1, <3>1, <3>2 DEF Return, ram, Placed, TypeOK, Kinds
    <3>4. UploadsRight' /\ JobRight'
      BY <1>1, <3>1 DEF Return, Placed, UploadsRight, JobRight
    <3> QED
      BY <3>3, <3>4 DEF Placed
  <2> QED
    BY <2>2, <2>3, <2>4
<1>7. CASE Store
  <2>1. /\ step = "store" /\ Write(Target, files[Source]) /\ Goto("remove") /\ to # None
        /\ UNCHANGED <<folders, ram, saved, cut>>
    BY <1>7 DEF Store, history, Placed, JobRight
  <2>2. FolderOf(Target) \in folders
    BY <1>3, <1>4, <2>1 DEF Placed, JobRight
  <2>3. /\ files' \in [Paths -> Contents \cup {Absent, Empty}] /\ files'[Target] = files[Source]
        /\ \A p \in Paths \ {Target} : files'[p] = files[p]
    BY <1>2, <2>1, WrittenType DEF Placed, TypeOK
  <2>4. files[Source] # Absent
    BY <2>1 DEF Placed, JobRight
  <2>5. TypeOK'
    BY <1>1, <2>1, <2>2, <2>3 DEF Goto, ram, Placed, TypeOK
  <2>6. UploadsRight'
    BY <1>1, <2>3, <2>4 DEF Placed, TypeOK, UploadsRight, Upload
  <2>7. JobRight'
    BY <2>1, <2>3, <2>4 DEF Goto, Placed, JobRight
  <2> QED
    BY <2>5, <2>6, <2>7 DEF Placed
<1>8. CASE Remove
  <2>1. /\ step = "remove" /\ Continue /\ UNCHANGED <<folders, ram, saved, cut>>
        /\ UNCHANGED files \/ RemoveFile(Source)
    BY <1>8 DEF Remove, history
  <2>2. /\ files' \in [Paths -> Contents \cup {Absent, Empty}]
        /\ \A p \in Paths : files'[p] # Absent => files[p] # Absent
        /\ \A p \in Paths : files'[p] = files[p] \/ ~IsOpen(p)
    BY <1>2, <2>1 DEF RemoveFile, Placed, TypeOK
  <2>3. TypeOK'
    BY <1>1, <2>1, <2>2 DEF Continue, ram, Placed, TypeOK, Kinds
  <2>4. UploadsRight'
    <3> SUFFICES ASSUME NEW r \in Requests, uploads[r] # None
                 PROVE  /\ uploads[r].content \notin fresh
                        /\ uploads[r].open => files'[uploads[r].path] # Absent
      BY <1>1 DEF UploadsRight
    <3>1. uploads[r].path \in Paths
      BY DEF Placed, TypeOK, Upload
    <3>2. uploads[r].open => IsOpen(uploads[r].path)
      BY DEF IsOpen
    <3> QED
      BY <2>2, <3>1, <3>2 DEF Placed, UploadsRight
  <2>5. JobRight'
    BY <1>1, <1>2, <1>4, <2>1 DEF Continue, Placed, JobRight, TypeOK, Kinds
  <2> QED
    BY <2>3, <2>4, <2>5 DEF Placed
<1>9. CASE FolderDone
  <2>1. /\ step = "rmdir" /\ RemoveFolder(FolderOf(Source)) /\ kind' = "preset" /\ UNCHANGED <<from, to>>
        /\ step' \in {"end", "remove", "mkdir"} /\ UNCHANGED <<files, ram, saved, cut>>
        /\ (step' = "remove" => to = None) /\ (step' = "mkdir" => to # None)
    BY <1>9 DEF FolderDone, history
  <2>2. /\ folders' \subseteq folders /\ folders \subseteq folders' \cup {FolderOf(Source)}
        /\ \A p \in Paths : files[p] # Absent => FolderOf(p) \in folders'
    BY <2>1, FolderRemoved DEF Placed
  <2>3. TypeOK' /\ UploadsRight'
    BY <1>1, <2>1, <2>2 DEF ram, Placed, TypeOK, UploadsRight, Kinds
  <2>4. to # None => <<to, "dsp">> \in folders'
    BY <1>3, <1>4, <2>2
  <2>5. JobRight'
    BY <1>2, <1>4, <2>1, <2>4 DEF JobRight
  <2> QED
    BY <2>3, <2>5 DEF Placed
<1>10. CASE Presets
  <2>1. /\ step = "mkdir" /\ Goto("copy") /\ to # None /\ kind = "preset"
        /\ folders' = folders \cup {<<to, "presets">>} /\ UNCHANGED <<files, ram, saved, cut>>
    BY <1>10 DEF Presets, MakeFolder, history, Placed, JobRight
  <2>2. TypeOK' /\ UploadsRight'
    BY <1>1, <1>4, <2>1 DEF Goto, ram, Placed, TypeOK, UploadsRight
  <2>3. JobRight'
    BY <1>2, <1>4, <2>1 DEF Goto, JobRight
  <2> QED
    BY <2>2, <2>3 DEF Placed
<1>11. CASE Finish
  <2>1. UNCHANGED fs /\ Return
    BY <1>11 DEF Finish
  <2>2. active' \in Bundles \cup {None} /\ saved' \in Bundles \cup {None} /\ schema' \in Contents \cup {None}
    <3>1. CASE UNCHANGED <<ram, saved>>
      BY <3>1 DEF Placed, TypeOK, ram
    <3>2. ASSUME NEW b \in Bundles \cup {None}, Load(files, b, TRUE) PROVE <2>2!:
      BY <3>2, LoadType DEF Placed, TypeOK
    <3>3. AnyBundle \subseteq Bundles \cup {None} /\ to \in Bundles \cup {None}
      BY DEF AnyBundle, Placed, TypeOK
    <3> QED
      BY <1>11, <3>1, <3>2, <3>3 DEF Finish
  <2>3. cut' \in BOOLEAN
    BY <1>5, <1>11 DEF Finish
  <2>4. TypeOK' /\ UploadsRight' /\ JobRight'
    BY <1>1, <2>1, <2>2, <2>3 DEF Return, fs, Placed, TypeOK, UploadsRight, JobRight, Kinds
  <2> QED
    BY <2>4 DEF Placed
<1> QED
  BY <1>6, <1>7, <1>8, <1>9, <1>10, <1>11 DEF Running

LEMMA LossPlaced ==
  ASSUME Placed, PowerLoss
  PROVE  Placed'
<1>1. /\ losses < MaxLosses /\ losses' = losses + 1 /\ Booted /\ Return /\ cut' = (cut \/ step # "idle")
      /\ uploads' = [r \in Requests |-> None] /\ UNCHANGED <<fs, saved, fresh, whole, upon>>
  BY DEF PowerLoss
<1>2. active' \in Bundles \cup {None} /\ schema' \in Contents \cup {None}
  BY <1>1, BootType DEF Placed
<1>3. losses' \in 0..MaxLosses
  BY <1>1, FilesAssumption DEF Placed, TypeOK
<1>4. Handles' <= MaxOpen
  <2>1. Open' \subseteq Open
    BY <1>1 DEF Open
  <2> QED
    BY <2>1, HandlesStay DEF Placed, TypeOK
<1>5. TypeOK'
  BY <1>1, <1>2, <1>3, <1>4 DEF Return, fs, Placed, TypeOK, Kinds
<1>6. UploadsRight' /\ JobRight'
  BY <1>1 DEF Return, UploadsRight, JobRight
<1> QED
  BY <1>5, <1>6 DEF Placed

LEMMA AlwaysPlaced == Spec => []Placed
<1>1. Init => Placed
  <2> SUFFICES ASSUME Init PROVE Placed
    OBVIOUS
  <2>1. Open = {} /\ Handles = 0
    BY OpenIsFinite, FS_EmptySet DEF Init, Open
  <2>2. TypeOK
    <3>1. Handles <= MaxOpen /\ losses \in 0..MaxLosses
      BY <2>1, FilesAssumption DEF Init
    <3>2. uploads \in [Requests -> Upload \cup {None}]
      BY DEF Init
    <3>3. files \in [Paths -> Contents \cup {Absent, Empty}] /\ \A p \in Paths : files[p] = Absent
      BY DEF Init
    <3> QED
      BY <3>1, <3>2, <3>3 DEF Init, TypeOK, Kinds
  <2>3. UploadsRight
    BY DEF Init, UploadsRight
  <2>4. JobRight
    BY DEF Init, JobRight
  <2> QED
    BY <2>2, <2>3, <2>4 DEF Placed
<1>2. Placed /\ [Next]_vars => Placed'
  <2> SUFFICES ASSUME Placed, [Next]_vars PROVE Placed'
    OBVIOUS
  <2>1. CASE UNCHANGED vars
    <3>1. UNCHANGED <<fs, uploads, ram, saved, job, fresh, losses, history>>
      BY <2>1 DEF vars
    <3>2. Handles' = Handles
      BY <3>1 DEF Handles
    <3> QED
      BY <3>1, <3>2 DEF fs, ram, job, history, Placed, TypeOK, UploadsRight, JobRight, Source
  <2> QED
    BY <2>1, UploadPlaced, EndPlaced, PresetPlaced, BeginPlaced, RunPlaced, LossPlaced DEF Next
<1> QED
  BY <1>1, <1>2, PTL DEF Spec

\* Every variable keeps its type, no more files are open than LittleFS allows,
\* and a file is in a directory that exists.
THEOREM TypeCorrect == Spec => []TypeOK
<1>1. Placed => TypeOK
  BY DEF Placed
<1> QED
  BY <1>1, AlwaysPlaced, PTL

----------------------------------------------------------------------------
(* What was stored *)

\* The kinds of file that a rename has still to copy.
Left ==
  (IF kind = "program" THEN {"interface", "preset"} ELSE IF kind = "interface" THEN {"preset"} ELSE {})
    \cup IF step \in {"copy", "mkdir"} THEN {kind} ELSE {}

\* What a rename removes is at the new name, what a delete removes is given up,
\* and what a rename writes over was not there when it began.
NothingInTheWay ==
  /\ step # "idle" /\ to = None => \A k \in Kinds : files[from, k] \notin whole
  /\ step = "remove" /\ to # None => files[Target] = files[Source]
  /\ step = "store" => files[Target] = Empty
  /\ ~upon /\ step # "idle" /\ to # None => \A k \in Left : files[to, k] = Absent

\* A content that is replaced or given up is the only one that goes.
LEMMA OneGone ==
  ASSUME TypeOK, NothingIsLost, NEW p \in Paths, \A q \in Paths \ {p} : files'[q] = files[q],
         UNCHANGED upon, \A c \in whole' : c \in whole \ {files[p]} \/ c = files'[p]
  PROVE  NothingIsLost'
<1> SUFFICES ASSUME ~upon', NEW c \in whole' PROVE \E q \in Paths : files'[q] = c
  BY DEF NothingIsLost
<1>1. CASE c = files'[p]
  BY <1>1
<1>2. CASE c \in whole \ {files[p]}
  <2>1. PICK q \in Paths : files[q] = c
    BY <1>2 DEF NothingIsLost
  <2> QED
    BY <1>2, <2>1
<1> QED
  BY <1>1, <1>2

\* Requests while neither a rename nor a delete runs.
LEMMA IdleKeeps ==
  ASSUME Placed, NothingIsLost, [Next]_vars, ~Running, step = "idle", step' = "idle"
  PROVE  NothingIsLost'
<1>0. TypeOK
  BY DEF Placed
<1>1. ASSUME NEW r \in Requests, NEW b \in Bundles, NEW k \in Kinds \ {"preset"}, NEW c \in Contents,
             UploadStarts(r, <<b, k>>, c)
      PROVE  NothingIsLost'
  <2> DEFINE p == <<b, k>>
  <2>1. p \in Paths
    BY PathType
  <2> HIDE DEF p
  <2>2. /\ UNCHANGED upon
        /\ \/ Write(p, Empty) /\ whole' = whole \ {files[p]}
           \/ UNCHANGED <<files, whole>>
    BY <1>1 DEF UploadStarts, p
  <2>3. CASE Write(p, Empty) /\ whole' = whole \ {files[p]}
    BY <1>0, <2>1, <2>2, <2>3, WrittenType, OneGone
  <2> QED
    BY <2>2, <2>3 DEF NothingIsLost
<1>2. ASSUME NEW r \in Requests, UploadEnds(r) PROVE NothingIsLost'
  <2> DEFINE u == uploads[r]
  <2>1. u.path \in Paths /\ u.content \in Contents /\ Stored(u) /\ UNCHANGED upon
    BY <1>2 DEF UploadEnds, Placed, TypeOK, Upload
  <2> HIDE DEF u
  <2>2. CASE Write(u.path, u.content) /\ Replaced(u.path, u.content)
    BY <1>0, <2>1, <2>2, WrittenType, OneGone DEF Replaced
  <2> QED
    BY <2>1, <2>2 DEF NothingIsLost, Stored
<1>3. ASSUME NEW b \in Bundles, DeletePreset(b) \/ \E c \in Contents : SavePreset(b, c) PROVE NothingIsLost'
  <2> DEFINE p == <<b, "preset">>
  <2>1. p \in Paths
    BY PathType DEF Kinds
  <2> HIDE DEF p
  <2>2. /\ UNCHANGED upon
        /\ \/ UNCHANGED <<files, whole>>
           \/ RemoveFile(p) /\ whole' = whole \ {files[p]}
           \/ \E c \in Contents : Write(p, c) /\ Replaced(p, c)
    BY <1>3 DEF DeletePreset, SavePreset, p
  <2>3. CASE RemoveFile(p) /\ whole' = whole \ {files[p]}
    BY <1>0, <2>1, <2>2, <2>3, RemovedType, OneGone
  <2>4. ASSUME NEW c \in Contents, Write(p, c), Replaced(p, c) PROVE NothingIsLost'
    BY <1>0, <2>1, <2>2, <2>4, WrittenType, OneGone DEF Replaced
  <2> QED
    BY <2>2, <2>3, <2>4 DEF NothingIsLost
<1>4. CASE (\E b \in Bundles : Select(b)) \/ PowerLoss \/ UNCHANGED vars
  BY <1>4 DEF Select, PowerLoss, vars, fs, history, NothingIsLost
<1>5. ASSUME (\E b \in Bundles : Delete(b)) \/ (\E old, new \in Bundles : Rename(old, new)) PROVE FALSE
  BY <1>5 DEF Delete, Rename
<1> QED
  BY <1>1, <1>2, <1>3, <1>4, <1>5 DEF Next

\* A rename begins to a name that has no files, or says that it has some; what
\* a delete will remove is given up at once.
LEMMA BeginKeeps ==
  ASSUME Placed, NothingIsLost,
         (\E b \in Bundles : Delete(b)) \/ (\E old, new \in Bundles : Rename(old, new))
  PROVE  NothingIsLost' /\ NothingInTheWay'
<1>1. ASSUME NEW b \in Bundles, Delete(b) PROVE NothingIsLost' /\ NothingInTheWay'
  <2>1. UNCHANGED <<files, upon>> /\ whole' = whole \ {files[b, k] : k \in Kinds}
        /\ step' = "remove" /\ from' = b /\ to' = None
    BY <1>1 DEF Delete, fs
  <2>2. NothingIsLost'
    BY <2>1 DEF NothingIsLost
  <2>3. \A k \in Kinds : files'[from', k] \notin whole'
    BY <2>1
  <2> QED
    BY <2>1, <2>2, <2>3 DEF NothingInTheWay
<1>2. ASSUME NEW old \in Bundles, NEW new \in Bundles, Rename(old, new)
      PROVE  NothingIsLost' /\ NothingInTheWay'
  <2>1. /\ UNCHANGED <<files, whole>> /\ step' = "copy" /\ to' = new /\ new # None
        /\ upon' = (upon \/ \E k \in Kinds : files[new, k] # Absent) /\ kind' = "program"
    BY <1>2, FilesAssumption DEF Rename
  <2>2. NothingIsLost'
    BY <2>1 DEF NothingIsLost
  <2>3. Left' \subseteq Kinds
    BY <2>1 DEF Left, Kinds
  <2>4. ~upon' => \A k \in Left' : files'[to', k] = Absent
    BY <2>1, <2>3
  <2> QED
    BY <2>1, <2>2, <2>4 DEF NothingInTheWay
<1> QED
  BY <1>1, <1>2

\* Each step of a rename or delete leaves what was stored where it was, or at
\* its new name.
LEMMA RunKeeps ==
  ASSUME Placed, NothingIsLost, NothingInTheWay, Running
  PROVE  NothingIsLost' /\ NothingInTheWay'
<1>0. /\ TypeOK /\ UNCHANGED <<upon, whole>> /\ step # "idle" /\ from \in Bundles
      /\ kind \in Kinds /\ to \in Bundles \cup {None} /\ cut \in BOOLEAN /\ upon \in BOOLEAN
  BY DEF Running, Copy, Store, Remove, FolderDone, Presets, Finish, history, Placed, TypeOK, JobRight
<1>1. Source \in Paths /\ (to # None => Target \in Paths /\ Target # Source /\ from # to)
  BY <1>0, PathType DEF Placed, JobRight, Source, Target
<1>2. Left \subseteq Kinds
  BY <1>0 DEF Left, Kinds
<1>3. Empty \notin whole /\ Absent \notin whole
  BY <1>0, FilesAssumption DEF TypeOK
<1>4. CASE Copy
  <2>1. step = "copy" /\ to # None
    BY <1>4 DEF Copy, Placed, JobRight
  <2>2. kind \in Left
    BY <2>1 DEF Left
  <2>3. CASE files[Source] = Absent
    <3>1. UNCHANGED <<files, from, to>> /\ Continue
      BY <1>4, <2>3 DEF Copy, fs, Continue
    <3>2. Left' \subseteq Left /\ step' # "store" /\ step' # "remove"
      BY <1>0, <2>1, <3>1 DEF Continue, Left, Kinds
    <3> QED
      BY <1>0, <2>1, <3>1, <3>2 DEF NothingIsLost, NothingInTheWay
  <2>4. CASE files[Source] # Absent /\ Handles + 2 <= MaxOpen
    <3>1. Write(Target, Empty) /\ Goto("store")
      BY <1>4, <2>4 DEF Copy
    <3>2. files'[Target] = Empty /\ \A q \in Paths \ {Target} : files'[q] = files[q]
      BY <1>0, <1>1, <2>1, <3>1, WrittenType
    <3>3. ~upon => files[Target] = Absent
      BY <1>0, <2>1, <2>2 DEF NothingInTheWay, Target
    <3>4. NothingIsLost'
      <4>1. CASE upon
        BY <1>0, <4>1 DEF NothingIsLost
      <4>2. CASE ~upon
        BY <1>0, <1>1, <1>3, <2>1, <3>2, <3>3, <4>2, OneGone
      <4> QED
        BY <4>1, <4>2
    <3>5. Left' = Left \ {kind} /\ Target' = Target /\ step' = "store" /\ to' = to
      BY <1>0, <2>1, <3>1 DEF Goto, Left, Target, Kinds
    <3>6. \A k \in Left' : <<to, k>> \in Paths \ {Target}
      BY <1>0, <1>2, <2>1, <3>5, PathType DEF Target
    <3>7. ~upon => \A k \in Left' : files'[to, k] = Absent
      BY <1>0, <2>1, <3>2, <3>5, <3>6 DEF NothingInTheWay
    <3> QED
      BY <1>0, <2>1, <3>2, <3>4, <3>5, <3>7 DEF NothingInTheWay
  <2>5. CASE files[Source] # Absent /\ ~(Handles + 2 <= MaxOpen)
    <3>1. Return /\ UNCHANGED files
      BY <1>4, <2>5 DEF Copy
    <3> QED
      BY <1>0, <3>1 DEF Return, NothingIsLost, NothingInTheWay
  <2> QED
    BY <2>3, <2>4, <2>5
<1>5. CASE Store
  <2>1. step = "store" /\ to # None /\ Write(Target, files[Source]) /\ Goto("remove") /\ files[Target] = Empty
    BY <1>5 DEF Store, Placed, JobRight, NothingInTheWay
  <2>2. files[Source] \in Contents \cup {Absent, Empty}
    BY <1>0, <1>1 DEF TypeOK
  <2>3. files'[Target] = files[Source] /\ \A q \in Paths \ {Target} : files'[q] = files[q]
    BY <1>0, <1>1, <2>1, <2>2, WrittenType
  <2>4. NothingIsLost'
    BY <1>0, <1>1, <1>3, <2>1, <2>3, OneGone
  <2>5. Left' = Left /\ kind \notin Left /\ Target' = Target /\ Source' = Source /\ step' = "remove" /\ to' = to
    BY <1>0, <2>1 DEF Goto, Left, Target, Source, Kinds
  <2>6. \A k \in Left' : <<to, k>> \in Paths \ {Target}
    BY <1>0, <1>2, <2>1, <2>5, PathType DEF Target
  <2>7. ~upon => \A k \in Left' : files'[to, k] = Absent
    BY <1>0, <2>1, <2>3, <2>5, <2>6 DEF NothingInTheWay
  <2> QED
    BY <1>0, <1>1, <2>1, <2>3, <2>4, <2>5, <2>7 DEF NothingInTheWay
<1>6. CASE Remove
  <2>1. step = "remove" /\ Continue /\ (UNCHANGED files \/ RemoveFile(Source))
    BY <1>6 DEF Remove
  <2>2. /\ \A q \in Paths \ {Source} : files'[q] = files[q]
        /\ files'[Source] \in {files[Source], Absent}
    BY <1>0, <1>1, <2>1, RemovedType
  <2>3. NothingIsLost'
    <3>1. CASE files'[Source] = files[Source]
      BY <1>0, <1>1, <2>2, <3>1 DEF NothingIsLost
    <3>2. CASE to = None
      <4>1. files[Source] \notin whole
        BY <1>0, <3>2 DEF NothingInTheWay, Source
      <4> QED
        BY <1>0, <1>1, <2>2, <4>1, OneGone
    <3>3. CASE to # None
      <4>1. files[Target] = files[Source] /\ files'[Target] = files[Source]
        BY <1>1, <2>1, <2>2, <3>3 DEF NothingInTheWay
      <4> QED
        BY <1>0, <1>1, <2>2, <3>3, <4>1 DEF NothingIsLost
    <3> QED
      BY <3>2, <3>3
  <2>4. UNCHANGED <<from, to>> /\ step' # "store" /\ (step' = "remove" => to = None)
    BY <2>1 DEF Continue
  <2>5. CASE to = None
    <3>1. \A k \in Kinds : <<from, k>> \in Paths
      BY <1>0, PathType
    <3>2. \A k \in Kinds : files'[from, k] \in {files[from, k], Absent}
      BY <2>2, <3>1
    <3>3. \A k \in Kinds : files'[from, k] \notin whole
      BY <1>0, <1>3, <2>5, <3>2 DEF NothingInTheWay
    <3> QED
      BY <1>0, <2>3, <2>4, <2>5, <3>3 DEF NothingInTheWay
  <2>6. CASE to # None
    <3>1. Left' \subseteq Left
      BY <1>0, <2>1, <2>6 DEF Continue, Left, Kinds
    <3>2. \A k \in Left' : <<to, k>> \in Paths \ {Source}
      BY <1>0, <1>1, <1>2, <2>6, <3>1, PathType DEF Source
    <3>3. ~upon => \A k \in Left' : files'[to, k] = Absent
      BY <1>0, <2>2, <2>6, <3>1, <3>2 DEF NothingInTheWay
    <3> QED
      BY <1>0, <2>3, <2>4, <2>6, <3>3 DEF NothingInTheWay
  <2> QED
    BY <2>5, <2>6
<1>7. CASE FolderDone \/ Presets
  <2>1. /\ UNCHANGED <<files, from, to>> /\ step' # "store" /\ (step' = "remove" => to = None)
        /\ Left' \subseteq Left
    BY <1>0, <1>7 DEF FolderDone, Presets, Goto, Left, Kinds, Placed, JobRight
  <2> QED
    BY <1>0, <2>1 DEF NothingIsLost, NothingInTheWay
<1>8. CASE Finish
  <2>1. step' = "idle" /\ UNCHANGED files
    BY <1>8 DEF Finish, Return, fs
  <2> QED
    BY <1>0, <2>1 DEF NothingIsLost, NothingInTheWay
<1> QED
  BY <1>4, <1>5, <1>6, <1>7, <1>8 DEF Running

LEMMA AlwaysClear == Spec => [](NothingIsLost /\ NothingInTheWay)
<1>1. Init => NothingIsLost /\ NothingInTheWay
  BY DEF Init, NothingIsLost, NothingInTheWay
<1>2. Placed /\ NothingIsLost /\ NothingInTheWay /\ [Next]_vars => NothingIsLost' /\ NothingInTheWay'
  <2> SUFFICES ASSUME Placed, NothingIsLost, NothingInTheWay, [Next]_vars
               PROVE  NothingIsLost' /\ NothingInTheWay'
    OBVIOUS
  <2>1. CASE Running
    BY <2>1, RunKeeps
  <2>2. CASE (\E b \in Bundles : Delete(b)) \/ (\E old, new \in Bundles : Rename(old, new))
    BY <2>2, BeginKeeps
  <2>3. CASE PowerLoss
    BY <2>3 DEF PowerLoss, Return, fs, NothingIsLost, NothingInTheWay
  <2>4. CASE UNCHANGED vars
    BY <2>4 DEF vars, fs, job, history, NothingIsLost, NothingInTheWay, Source, Target, Left
  <2>5. ASSUME ~Running, ~UNCHANGED vars, ~PowerLoss,
               ~((\E b \in Bundles : Delete(b)) \/ (\E old, new \in Bundles : Rename(old, new)))
        PROVE  step = "idle" /\ step' = "idle"
    BY <2>5 DEF Next, UploadStarts, UploadEnds, SavePreset, DeletePreset, Select, job
  <2>6. CASE step = "idle" /\ step' = "idle" /\ ~Running
    BY <2>6, IdleKeeps DEF NothingInTheWay
  <2> QED
    BY <2>1, <2>2, <2>3, <2>4, <2>5, <2>6
<1> QED
  BY <1>1, <1>2, AlwaysPlaced, PTL DEF Spec

\* Nothing that was stored is lost, at whatever step of a rename the power is
\* (renameBundle), but for what a rename writes over at its new name.
THEOREM NothingIsEverLost == Spec => []NothingIsLost
BY AlwaysClear, PTL

----------------------------------------------------------------------------
(* The schema *)

\* The schema is still the content of the interface, or a new one is uploaded.
Intact(b) ==
  files[b, "interface"] = schema \/ (files[b, "interface"] = Empty /\ IsOpen(<<b, "interface">>))

\* A rename has moved the interface.
Moved == kind # "program" /\ ~(kind = "interface" /\ step \in {"copy", "store", "remove"})

\* Where the interface of the active bundle is.
ActiveIntact ==
  ~cut /\ active # None =>
    IF step = "idle" \/ active # from THEN Intact(active) /\ (step # "idle" => active # to)
    ELSE IF to = None THEN files[from, "interface"] \in {schema, Absent}
    ELSE IF Moved THEN files[to, "interface"] = schema /\ files[from, "interface"] = Absent
    ELSE files[from, "interface"] = schema

SchemaRight ==
  /\ active = None <=> schema = None
  /\ ~cut /\ step # "idle" => ~OpenIn(from)
  /\ ActiveIntact

\* What is loaded from a file is its content.
LEMMA LoadedIsIntact ==
  ASSUME TypeOK, NEW b \in Bundles, files'[b, "interface"] \notin {Absent, Empty},
         NEW persist \in BOOLEAN, Load(files', b, persist)
  PROVE  active' = b /\ schema' = files'[b, "interface"]
BY FilesAssumption DEF Load, Loadable

\* A request changes another file, or the schema with it.
LEMMA UploadStaysRight ==
  ASSUME Placed, Placed', SchemaRight, NEW r \in Requests, NEW b \in Bundles, NEW k \in Kinds \ {"preset"},
         NEW c \in Contents, UploadStarts(r, <<b, k>>, c)
  PROVE  SchemaRight'
<1> DEFINE p == <<b, k>>
<1>1. /\ step = "idle" /\ step' = "idle" /\ UNCHANGED <<active, schema, cut>> /\ uploads[r] = None
      /\ uploads' = [uploads EXCEPT ![r] = [path |-> p, content |-> c, open |-> Handles < MaxOpen]]
      /\ IF Handles < MaxOpen THEN Write(p, Empty) ELSE UNCHANGED files
  BY DEF UploadStarts, ram, job
<1>2. p \in Paths /\ TypeOK
  BY PathType DEF Placed
<1> SUFFICES ASSUME ~cut, active # None PROVE Intact(active)'
  BY <1>1 DEF SchemaRight, ActiveIntact
<1>3. Intact(active) /\ active \in Bundles /\ <<active, "interface">> \in Paths
  BY <1>1, <1>2, PathType DEF SchemaRight, ActiveIntact, TypeOK, Kinds
<1> DEFINE u == [path |-> p, content |-> c, open |-> Handles < MaxOpen]
<1>4. u \in Upload /\ u.path = p /\ u.open = (Handles < MaxOpen)
  BY <1>2 DEF Upload
<1> HIDE DEF p, u
<1>5. uploads'[r] = u /\ \A s \in Requests \ {r} : uploads'[s] = uploads[s]
  BY <1>1, <1>2 DEF TypeOK, u
<1>6. IsOpen(<<active, "interface">>) => IsOpen(<<active, "interface">>)'
  BY <1>1, <1>5 DEF IsOpen
<1>7. CASE p = <<active, "interface">> /\ Handles < MaxOpen
  <2>1. files'[active, "interface"] = Empty
    BY <1>1, <1>2, <1>7, WrittenType
  <2>2. u # None
    BY <1>4, FilesAssumption
  <2>3. IsOpen(<<active, "interface">>)'
    BY <1>1, <1>4, <1>5, <1>7, <2>2 DEF IsOpen
  <2> QED
    BY <1>1, <2>1, <2>3 DEF Intact
<1>8. CASE ~(p = <<active, "interface">> /\ Handles < MaxOpen)
  <2>1. files'[active, "interface"] = files[active, "interface"]
    BY <1>1, <1>2, <1>3, <1>8, WrittenType
  <2> QED
    BY <1>1, <1>3, <1>6, <2>1 DEF Intact
<1> QED
  BY <1>7, <1>8

LEMMA EndStaysRight ==
  ASSUME Placed, Placed', SchemaRight, NEW r \in Requests, UploadEnds(r)
  PROVE  SchemaRight'
<1> DEFINE u == uploads[r]
           p == <<active, "interface">>
<1>1. /\ step = "idle" /\ step' = "idle" /\ UNCHANGED cut /\ u # None /\ u \in Upload
      /\ uploads' = [uploads EXCEPT ![r] = None] /\ Stored(u)
      /\ IF u.path = p THEN Load(files', active, FALSE) ELSE UNCHANGED <<ram, saved>>
  BY DEF UploadEnds, job, Placed, TypeOK
<1>2. TypeOK /\ u.path \in Paths /\ u.content \in Contents /\ u.open \in BOOLEAN
      /\ files' \in [Paths -> Contents \cup {Absent, Empty}]
  BY <1>1 DEF Placed, Upload, TypeOK
<1>3. CASE active = None
  <2>1. active' = None /\ schema' = None
    BY <1>1, <1>2, <1>3 DEF Load, ram, SchemaRight
  <2> QED
    BY <1>1, <2>1 DEF SchemaRight, ActiveIntact
<1>4. CASE active # None
  <2>1. active \in Bundles /\ p \in Paths /\ active' = active /\ schema # None
    BY <1>1, <1>2, <1>4, PathType DEF TypeOK, Kinds, Load, ram, SchemaRight
  <2>2. \A s \in Requests \ {r} : uploads'[s] = uploads[s]
    BY <1>1, <1>2 DEF TypeOK
  <2>3. schema' # None
    BY <1>1, <1>2, <2>1, FilesAssumption DEF Load, Loadable, ram
  <2>4. ASSUME ~cut PROVE Intact(active)'
    <3>1. Intact(active)
      BY <1>1, <1>4, <2>4 DEF SchemaRight, ActiveIntact
    <3>2. CASE u.path # p
      <4>1. IsOpen(p) => IsOpen(p)'
        BY <2>1, <2>2, <3>2 DEF IsOpen
      <4>2. files'[p] = files[p] /\ schema' = schema
        BY <1>1, <1>2, <2>1, <3>2, WrittenType DEF Stored, ram
      <4> QED
        BY <2>1, <3>1, <4>1, <4>2 DEF Intact
    <3>3. CASE u.path = p /\ u.open
      <4>1. files'[p] = u.content
        BY <1>1, <1>2, <3>3, WrittenType DEF Stored
      <4>2. schema' = files'[p]
        BY <1>1, <1>2, <2>1, <3>3, <4>1, FilesAssumption, LoadedIsIntact
      <4> QED
        BY <2>1, <4>2 DEF Intact
    <3>4. CASE u.path = p /\ ~u.open
      <4>1. IsOpen(p) => IsOpen(p)'
        BY <2>1, <2>2, <3>4 DEF IsOpen
      <4>2. files' = files /\ Load(files, active, FALSE)
        BY <1>1, <3>4 DEF Stored
      <4>3. schema' = schema \/ schema' = files[p]
        BY <4>2, <1>4 DEF Load, ram
      <4> QED
        BY <2>1, <3>1, <4>1, <4>2, <4>3, FilesAssumption DEF Intact, Load, Loadable, ram
    <3> QED
      BY <1>2, <3>2, <3>3, <3>4
  <2> QED
    BY <1>1, <1>4, <2>1, <2>3, <2>4 DEF SchemaRight, ActiveIntact
<1> QED
  BY <1>3, <1>4

LEMMA PresetStaysRight ==
  ASSUME Placed, SchemaRight, NEW b \in Bundles, DeletePreset(b) \/ \E c \in Contents : SavePreset(b, c)
  PROVE  SchemaRight'
<1>1. /\ step = "idle" /\ step' = "idle" /\ UNCHANGED <<active, schema, cut, uploads>>
      /\ UNCHANGED files \/ RemoveFile(<<b, "preset">>) \/ \E c \in Contents : Write(<<b, "preset">>, c)
  BY DEF DeletePreset, SavePreset, ram, job
<1>2. <<b, "preset">> \in Paths /\ \A a \in Bundles : <<a, "interface">> \in Paths \ {<<b, "preset">>}
  BY PathType DEF Kinds
<1>3. \A a \in Bundles : files'[a, "interface"] = files[a, "interface"]
  BY <1>1, <1>2, RemovedType, WrittenType DEF Placed
<1>4. active \in Bundles \cup {None}
  BY DEF Placed, TypeOK
<1>5. active # None /\ Intact(active) => Intact(active)'
  BY <1>1, <1>3, <1>4 DEF Intact, IsOpen
<1> QED
  BY <1>1, <1>5 DEF SchemaRight, ActiveIntact

LEMMA BeginStaysRight ==
  ASSUME Placed, SchemaRight,
         \/ \E b \in Bundles : Select(b) \/ Delete(b)
         \/ \E old, new \in Bundles : Rename(old, new)
  PROVE  SchemaRight'
<1>1. step = "idle" /\ UNCHANGED <<files, uploads>> /\ TypeOK
  BY DEF Select, Delete, Rename, fs, Placed
<1>2. ASSUME NEW b \in Bundles, Select(b) PROVE SchemaRight'
  <2>1. active' = b /\ schema' = files[b, "interface"] /\ b # None /\ step' = "idle"
    BY <1>1, <1>2, FilesAssumption DEF Select, Load, job
  <2>2. schema' # None
    <3>1. <<b, "interface">> \in Paths
      BY PathType DEF Kinds
    <3> QED
      BY <1>1, <1>2, <2>1, <3>1, FilesAssumption DEF Select, Loadable, TypeOK
  <2>3. Intact(active)'
    BY <1>1, <2>1 DEF Intact
  <2> QED
    BY <2>1, <2>2, <2>3 DEF SchemaRight, ActiveIntact
<1>3. ASSUME NEW b \in Bundles, b # None, UNCHANGED <<active, schema>>, from' = b, step' # "idle",
             cut' = (cut \/ OpenIn(b)),
             ~cut /\ active # None => active # to',
             kind' = "program"
      PROVE  SchemaRight'
  <2>1. ~cut' => ~cut /\ ~OpenIn(b) /\ ~OpenIn(b)'
    BY <1>1, <1>3 DEF OpenIn, IsOpen
  <2>2. ~cut /\ active # None => Intact(active)
    BY <1>1 DEF SchemaRight, ActiveIntact
  <2>3. Intact(active) => Intact(active)'
    BY <1>1, <1>3 DEF Intact, IsOpen
  <2>4. ASSUME ~cut', active # None, active = b PROVE files'[b, "interface"] = schema
    <3>1. ~IsOpen(<<b, "interface">>)
      BY <2>1, <2>4 DEF OpenIn, Kinds
    <3> QED
      BY <1>1, <2>1, <2>2, <2>4, <3>1 DEF Intact
  <2>5. ~Moved'
    BY <1>3 DEF Moved
  <2>6. ActiveIntact'
    BY <1>3, <2>1, <2>2, <2>3, <2>4, <2>5 DEF ActiveIntact
  <2> QED
    BY <1>3, <2>1, <2>6 DEF SchemaRight
<1>4. ASSUME NEW b \in Bundles, Delete(b) PROVE SchemaRight'
  BY <1>3, <1>4, FilesAssumption DEF Delete, ram
<1>5. ASSUME NEW old \in Bundles, NEW new \in Bundles, Rename(old, new) PROVE SchemaRight'
  <2>1. files[new, "interface"] = Absent
    <3>1. <<new, "interface">> \in Paths /\ FolderOf(<<new, "interface">>) = <<new, "dsp">>
      BY PathType DEF Kinds
    <3> QED
      BY <1>1, <1>5, <3>1 DEF Rename, CanRename, TypeOK
  <2>2. ~cut /\ active # None => active # new
    <3>1. schema \in Contents \cup {None} /\ (active = None <=> schema = None)
      BY <1>1 DEF TypeOK, SchemaRight
    <3> QED
      BY <1>1, <2>1, <3>1, FilesAssumption DEF SchemaRight, ActiveIntact, Intact
  <2> QED
    BY <1>3, <1>5, <2>2, FilesAssumption DEF Rename, ram
<1> QED
  BY <1>2, <1>4, <1>5

\* The files of other bundles than a rename's or delete's own stay.
LEMMA OthersStay ==
  ASSUME Placed, Running, NEW b \in Bundles, b # from, b # to, NEW k \in Kinds
  PROVE  files'[b, k] = files[b, k]
<1>1. TypeOK /\ from \in Bundles /\ kind \in Kinds /\ to \in Bundles \cup {None} /\ (step \in {"copy", "store"} => to # None)
  BY DEF Running, Copy, Store, Remove, FolderDone, Presets, Finish, Placed, TypeOK, JobRight
<1>2. <<b, k>> \in Paths \ {Source, Target} /\ Source \in Paths /\ (to # None => Target \in Paths)
  BY <1>1, PathType DEF Source, Target
<1>3. CASE Write(Target, Empty) /\ to # None
  BY <1>1, <1>2, <1>3, WrittenType
<1>4. CASE Write(Target, files[Source]) /\ to # None
  <2>1. files[Source] \in Contents \cup {Absent, Empty}
    BY <1>1, <1>2 DEF TypeOK
  <2> QED
    BY <1>1, <1>2, <1>4, <2>1, WrittenType
<1>5. CASE RemoveFile(Source)
  BY <1>1, <1>2, <1>5, RemovedType
<1>6. CASE UNCHANGED files
  BY <1>6
<1> QED
  BY <1>1, <1>3, <1>4, <1>5, <1>6 DEF Running, Copy, Store, Remove, FolderDone, Presets, Finish, fs

\* A rename of the active bundle moves its interface.
LEMMA MoveStaysRight ==
  ASSUME Placed, NothingInTheWay, SchemaRight, Running, step' # "idle",
         ~cut', active # None, active = from, to # None
  PROVE  IF Moved' THEN files'[to, "interface"] = schema /\ files'[from, "interface"] = Absent
                   ELSE files'[from, "interface"] = schema
<1>0. /\ TypeOK /\ from \in Bundles /\ kind \in Kinds /\ to \in Bundles /\ from # to /\ step # "idle" /\ ~cut
      /\ step \in {"rmdir", "mkdir", "end"} => kind # "program"
      /\ step \in {"mkdir", "end"} => kind = "preset"
  BY DEF Running, Copy, Store, Remove, FolderDone, Presets, Finish, Return, history, Placed, TypeOK, JobRight
<1>1. /\ IF Moved THEN files[to, "interface"] = schema /\ files[from, "interface"] = Absent
                  ELSE files[from, "interface"] = schema
      /\ ~OpenIn(from)
  BY <1>0 DEF SchemaRight, ActiveIntact
<1> DEFINE p == <<from, "interface">>
           q == <<to, "interface">>
<1>2. /\ {Source, Target, p, q} \subseteq Paths /\ Source # q /\ Target # p /\ p # q
      /\ (Source = p <=> kind = "interface") /\ (Target = q <=> kind = "interface")
  BY <1>0, PathType DEF Source, Target, Kinds
<1>3. schema \in Contents
  BY <1>0 DEF SchemaRight, TypeOK
<1> HIDE DEF p, q
<1>4. CASE Copy
  <2>1. step = "copy"
    BY <1>4 DEF Copy
  <2>2. CASE files[Source] = Absent
    <3>1. Continue /\ UNCHANGED files
      BY <1>4, <2>2 DEF Copy, fs
    <3>2. kind # "interface"
      <4>1. kind = "interface" => ~Moved
        BY <2>1 DEF Moved
      <4> QED
        BY <1>1, <1>2, <1>3, <2>2, <4>1, FilesAssumption DEF p
    <3>3. Moved' <=> Moved
      BY <1>0, <2>1, <3>1, <3>2 DEF Continue, Moved, Kinds
    <3> QED
      BY <1>1, <3>1, <3>3
  <2>3. CASE Write(Target, Empty) /\ Goto("store")
    <3>1. \A x \in Paths \ {Target} : files'[x] = files[x]
      BY <1>0, <1>2, <2>3, WrittenType
    <3>2. (Moved' <=> Moved) /\ (Moved => kind # "interface")
      BY <2>1, <2>3 DEF Goto, Moved
    <3> QED
      BY <1>1, <1>2, <3>1, <3>2 DEF p, q
  <2> QED
    BY <1>4, <2>2, <2>3 DEF Copy, Return
<1>5. CASE Store
  <2>1. step = "store" /\ Write(Target, files[Source]) /\ Goto("remove")
    BY <1>5 DEF Store
  <2>2. \A x \in Paths \ {Target} : files'[x] = files[x]
    <3>1. files[Source] \in Contents \cup {Absent, Empty}
      BY <1>0, <1>2 DEF TypeOK
    <3> QED
      BY <1>0, <1>2, <2>1, <3>1, WrittenType
  <2>3. (Moved' <=> Moved) /\ (Moved => kind # "interface")
    BY <2>1 DEF Goto, Moved
  <2> QED
    BY <1>1, <1>2, <2>2, <2>3 DEF p, q
<1>6. CASE Remove
  <2>1. step = "remove" /\ Continue /\ RemoveFile(Source) /\ files[Target] = files[Source]
    BY <1>0, <1>6, FilesAssumption DEF Remove, NothingInTheWay
  <2>2. ~IsOpen(Source)
    BY <1>0, <1>1 DEF OpenIn, Source
  <2>3. files'[Source] = Absent /\ \A x \in Paths \ {Source} : files'[x] = files[x]
    BY <1>0, <1>2, <2>1, <2>2, RemovedType
  <2>4. CASE kind = "interface"
    <3>1. ~Moved /\ Moved'
      BY <2>1, <2>4 DEF Continue, Moved
    <3> QED
      BY <1>1, <1>2, <2>1, <2>3, <2>4, <3>1 DEF p, q
  <2>5. CASE kind # "interface"
    <3>1. Moved' <=> Moved
      BY <1>0, <2>1, <2>5 DEF Continue, Moved, Kinds
    <3> QED
      BY <1>1, <1>2, <2>3, <2>5, <3>1 DEF p, q
  <2> QED
    BY <2>4, <2>5
<1>7. CASE FolderDone \/ Presets
  <2>1. UNCHANGED files /\ Moved /\ Moved'
    BY <1>0, <1>7 DEF FolderDone, Presets, Goto, Moved
  <2> QED
    BY <1>1, <2>1
<1>8. CASE Finish
  BY <1>8 DEF Finish, Return
<1> QED
  BY <1>4, <1>5, <1>6, <1>7, <1>8 DEF Running

\* The steps of a rename or delete but the last.
LEMMA RunStaysRight ==
  ASSUME Placed, NothingInTheWay, SchemaRight, Running, step' # "idle"
  PROVE  SchemaRight'
<1>1. /\ UNCHANGED <<active, schema, uploads, from, to>> /\ step # "idle" /\ (~cut' => ~cut)
      /\ from \in Bundles /\ active \in Bundles \cup {None} /\ TypeOK
  BY DEF Running, Copy, Store, Remove, FolderDone, Presets, Finish, Return, Goto, Continue, ram, Rest, history,
         Placed, TypeOK, JobRight
<1>2. ~cut' => ~OpenIn(from)'
  BY <1>1 DEF SchemaRight, OpenIn, IsOpen
<1> SUFFICES ASSUME ~cut', active # None PROVE ActiveIntact'
  BY <1>1, <1>2 DEF SchemaRight, ActiveIntact
<1>3. CASE active # from
  <2>1. Intact(active) /\ active # to
    BY <1>1, <1>3 DEF SchemaRight, ActiveIntact
  <2>2. files'[active, "interface"] = files[active, "interface"]
    BY <1>1, <1>3, <2>1, OthersStay DEF Kinds
  <2>3. Intact(active)'
    BY <1>1, <2>1, <2>2 DEF Intact, IsOpen
  <2> QED
    BY <1>1, <1>3, <2>1, <2>3 DEF ActiveIntact
<1>4. CASE active = from /\ to # None
  <2>1. IF Moved' THEN files'[to, "interface"] = schema /\ files'[from, "interface"] = Absent
                  ELSE files'[from, "interface"] = schema
    BY <1>4, MoveStaysRight
  <2> QED
    BY <1>1, <1>4, <2>1 DEF ActiveIntact
<1>5. CASE active = from /\ to = None
  <2>1. files[from, "interface"] \in {schema, Absent}
    BY <1>1, <1>5 DEF SchemaRight, ActiveIntact
  <2>2. UNCHANGED files \/ RemoveFile(Source)
    BY <1>5 DEF Running, Copy, Store, Remove, FolderDone, Presets, Finish, fs, Placed, JobRight
  <2>3. <<from, "interface">> \in Paths /\ Source \in Paths
    BY <1>1, PathType DEF Source, Kinds, TypeOK
  <2>4. files'[from, "interface"] \in {schema, Absent}
    BY <1>1, <2>1, <2>2, <2>3, RemovedType
  <2> QED
    BY <1>1, <1>5, <2>4 DEF ActiveIntact
<1> QED
  BY <1>3, <1>4, <1>5

\* The last step, and a boot, load a schema that is there.
LEMMA EndOfRunIsRight ==
  ASSUME Placed, SchemaRight, step' = "idle", Running \/ PowerLoss
  PROVE  SchemaRight'
<1>1. UNCHANGED files /\ TypeOK /\ (active = None <=> schema = None)
  BY DEF Running, Copy, Store, Remove, FolderDone, Presets, Finish, Goto, Continue, PowerLoss, fs, Placed, SchemaRight
<1>2. ASSUME NEW b \in Bundles, Loadable(files, b) PROVE b # None /\ files[b, "interface"] \in Contents
  <2>1. <<b, "interface">> \in Paths
    BY PathType DEF Kinds
  <2> QED
    BY <1>1, <1>2, <2>1, FilesAssumption DEF Loadable, TypeOK
<1>3. ASSUME active' = None, schema' = None PROVE SchemaRight'
  BY <1>3 DEF SchemaRight, ActiveIntact
<1>4. ASSUME NEW b \in Bundles, Loadable(files, b), active' = b, schema' = files[b, "interface"]
      PROVE  SchemaRight'
  <2>1. Intact(active)' /\ schema' # None
    BY <1>1, <1>2, <1>4, FilesAssumption DEF Intact
  <2> QED
    BY <1>2, <1>4, <2>1 DEF SchemaRight, ActiveIntact
<1>5. ASSUME cut', UNCHANGED <<active, schema>> PROVE SchemaRight'
  BY <1>1, <1>5 DEF SchemaRight, ActiveIntact
<1>6. CASE PowerLoss
  <2>1. PICK b \in IF saved = None THEN AnyBundle ELSE {saved} :
           IF b # None /\ Loadable(files, b) THEN active' = b /\ schema' = files[b, "interface"]
                                             ELSE active' = None /\ schema' = None
    BY <1>6 DEF PowerLoss, Booted
  <2>2. b \in Bundles \cup {None}
    BY <1>1, <2>1 DEF AnyBundle, TypeOK
  <2> QED
    BY <1>3, <1>4, <2>1, <2>2
<1>7. CASE Copy
  <2>1. cut' /\ UNCHANGED <<active, schema>>
    BY <1>7 DEF Copy, Continue, Goto, ram
  <2> QED
    BY <1>5, <2>1
<1>8. CASE Finish
  <2>1. from \in Bundles /\ kind = "preset" /\ step = "end" /\ active \in Bundles \cup {None}
    BY <1>8 DEF Finish, Placed, JobRight, TypeOK
  <2>2. CASE from # active
    <3>1. UNCHANGED <<active, schema, cut, uploads>>
      BY <1>8, <2>2 DEF Finish, ram, Rest
    <3>2. ~cut /\ active # None => Intact(active)
      BY <2>1, <2>2 DEF SchemaRight, ActiveIntact
    <3>3. Intact(active) => Intact(active)'
      BY <1>1, <3>1 DEF Intact, IsOpen
    <3> QED
      BY <1>1, <3>1, <3>2, <3>3 DEF SchemaRight, ActiveIntact
  <2>3. CASE from = active /\ to # None
    <3>1. Load(files, to, TRUE) /\ UNCHANGED cut /\ to \in Bundles
      BY <1>1, <1>8, <2>3 DEF Finish, TypeOK
    <3>2. CASE Loadable(files, to)
      BY <1>2, <1>4, <3>1, <3>2 DEF Load
    <3>3. CASE ~Loadable(files, to)
      <4>1. UNCHANGED <<active, schema>>
        BY <2>3, <3>1, <3>3 DEF Load, ram
      <4>2. cut
        <5> SUFFICES ASSUME ~cut PROVE FALSE
          BY <1>1 DEF TypeOK
        <5>1. Moved
          BY <2>1 DEF Moved
        <5>2. files[to, "interface"] = schema /\ schema \in Contents
          BY <1>1, <2>1, <2>3, <5>1, FilesAssumption DEF SchemaRight, ActiveIntact, TypeOK
        <5> QED
          BY <3>3, <5>2, FilesAssumption DEF Loadable
      <4> QED
        BY <1>5, <3>1, <4>1, <4>2
    <3> QED
      BY <3>2, <3>3
  <2>4. CASE from = active /\ to = None
    <3>1. PICK b \in AnyBundle : Load(files, b, TRUE)
      BY <1>8, <2>4 DEF Finish
    <3>2. cut' = (cut \/ active' = from)
      BY <1>8, <2>4 DEF Finish
    <3>3. b \in Bundles \cup {None}
      BY <3>1 DEF AnyBundle
    <3>4. CASE b = None
      BY <1>3, <3>1, <3>4 DEF Load
    <3>5. CASE b # None /\ Loadable(files, b)
      BY <1>4, <3>1, <3>3, <3>5 DEF Load
    <3>6. CASE b # None /\ ~Loadable(files, b)
      BY <1>5, <2>4, <3>1, <3>2, <3>6 DEF Load, ram
    <3> QED
      BY <3>4, <3>5, <3>6
  <2> QED
    BY <2>2, <2>3, <2>4
<1> QED
  BY <1>6, <1>7, <1>8 DEF Running, Store, Remove, FolderDone, Presets, Goto, Continue

\* The schema in RAM is the one that the active bundle has on flash, but for
\* what a rename or delete that was cut or met an open file leaves.
THEOREM SchemaIsAlwaysOnFlash == Spec => []SchemaIsOnFlash
<1>1. Init => SchemaRight
  BY DEF Init, SchemaRight, ActiveIntact
<1>2. Placed /\ Placed' /\ NothingInTheWay /\ SchemaRight /\ [Next]_vars => SchemaRight'
  <2> SUFFICES ASSUME Placed, Placed', NothingInTheWay, SchemaRight, [Next]_vars PROVE SchemaRight'
    OBVIOUS
  <2>1. CASE Running
    BY <2>1, RunStaysRight, EndOfRunIsRight
  <2>2. CASE PowerLoss
    BY <2>2, EndOfRunIsRight DEF PowerLoss, Return
  <2>3. CASE UNCHANGED vars
    BY <2>3 DEF vars, fs, ram, job, history, SchemaRight, ActiveIntact, Intact, OpenIn, IsOpen, Moved
  <2> QED
    BY <2>1, <2>2, <2>3, UploadStaysRight, EndStaysRight, PresetStaysRight, BeginStaysRight DEF Next
<1>3. Placed /\ SchemaRight => SchemaIsOnFlash
  <2> SUFFICES ASSUME Placed, SchemaRight, schema # None, ~cut
               PROVE  files[active, "interface"] \in {schema, Absent, Empty}
    BY DEF SchemaIsOnFlash
  <2> QED
    BY DEF SchemaRight, ActiveIntact, Intact
<1> QED
  BY <1>1, <1>2, <1>3, AlwaysPlaced, AlwaysClear, PTL DEF Spec

=============================================================================
