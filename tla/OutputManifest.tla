--------------------------- MODULE OutputManifest ---------------------------
(***************************************************************************)
(* OutputManifest.h: WriteOutputManifest, which scans an output directory, *)
(* validates the catalog, describes every VTK file in a temporary file and *)
(* renames that to output_manifest.json.                                   *)
(*                                                                         *)
(* Any number of calls run at once, in threads of one process or in        *)
(* several processes.  The files of the directory change under them, and   *)
(* between the two looks that a call takes at a file to describe it, one   *)
(* at its path and one at what it holds.  What a .pvd refers to is looked  *)
(* at together with what it holds.  A process dies between any two steps.  *)
(***************************************************************************)
EXTENDS Integers, FiniteSets

CONSTANTS
    Callers,        \* the threads that may call WriteOutputManifest
    Processes,
    Process,        \* Process[w]: the process, by its id, of caller w
    Files,          \* the names of files in the output directory
    Family,         \* those that IsVtkFamilyFile takes
    Hdf,            \* those of Family that end in .vtkhdf
    Pvds,           \* those of Family that end in .pvd
    References,     \* References[f]: the files that f of Pvds refers to
    Targets,        \* the paths of the catalog's variants
    Ticks,          \* readings of the clock, in microseconds
    MaxSequence,    \* bound: run identities one process makes
    MaxActive,      \* bound: calls that overlap
    MaxChanges,     \* bound: changes of the directory's files
    NoFile, Torn    \* no file, and a prefix of a manifest

\* A name is not there, is a regular file in the directory, or a link to one
\* outside of it.
Wheres == {"absent", "inside", "outside"}

\* One element of vtk_files: a file, and what was there when it was read; steady
\* (history) while it has not changed since the first of the two looks at it.
Entries == [file : Files, where : Wheres, steady : BOOLEAN]
Documents == [by : Callers, entries : SUBSET Entries]

\* MakeVisualizationRunId's three numbers.
Ids == [ticks : Ticks, process : Processes, sequence : 0 .. MaxSequence - 1]

ASSUME OutputAssumption ==
    /\ Process \in [Callers -> Processes]
    /\ Hdf \cup Pvds \subseteq Family /\ Family \subseteq Files
    /\ Hdf \cap Pvds = {}
    /\ Targets \subseteq Files
    /\ References \in [Pvds -> SUBSET Files]
    /\ {MaxSequence, MaxActive, MaxChanges} \subseteq Nat
    /\ {NoFile, Torn} \cap Documents = {}
    /\ NoFile # Torn
    /\ NoFile \notin Ids \cup Entries

VARIABLES
    disk,       \* disk[f]: the state of file f
    changes,    \* how often disk changed
    manifest,   \* output_manifest.json
    temps,      \* temps[id]: output_manifest.json.tmp-id
    sequence,   \* sequence[p]: the static counter of MakeVisualizationRunId
    dead,       \* the processes that died
    pc,         \* pc[w]: the next step of w's call, "idle" outside of one
    todo,       \* todo[w]: the files left to visit, or left to describe
    files,      \* files[w]: those found so far
    looked,     \* looked[w]: the entry of the file between the two looks at it
    entries,    \* entries[w]: those described so far
    temp,       \* temp[w]: the id of temporaryPath
    kept        \* kept[w] (history): the files of Family that were in the
                \* directory when the call began and have not changed since

locals == <<pc, todo, files, looked, entries, temp, kept>>
vars == <<disk, changes, manifest, temps, sequence, dead, locals>>

-----------------------------------------------------------------------------

At(w, step) == Process[w] \notin dead /\ pc[w] = step

Goto(w, step) == pc' = [pc EXCEPT ![w] = step]

\* The call is left, and nothing it held in variables remains.
Leave(w) ==
    /\ Goto(w, "idle")
    /\ todo' = [todo EXCEPT ![w] = {}]
    /\ files' = [files EXCEPT ![w] = {}]
    /\ looked' = [looked EXCEPT ![w] = NoFile]
    /\ entries' = [entries EXCEPT ![w] = {}]
    /\ temp' = [temp EXCEPT ![w] = NoFile]
    /\ kept' = [kept EXCEPT ![w] = {}]

\* Mutated form: the exception leaves the temporary file behind.
ThrowKeepingTemp(w) == Leave(w) /\ UNCHANGED temps

\* An exception leaves the call; TemporaryOutputManifestFile's destructor
\* removes the temporary file, after the stream's has closed it.
Throw(w) ==
    /\ Leave(w)
    /\ temps' = IF temp[w] = NoFile THEN temps
                ELSE [temps EXCEPT ![temp[w]] = NoFile]

-----------------------------------------------------------------------------
(* The scan *)

\* The arguments are at hand and the directory exists, or is created.
Call(w) ==
    /\ At(w, "idle")
    /\ Cardinality({v \in Callers : pc[v] # "idle"}) < MaxActive
    /\ Goto(w, "scan")
    /\ todo' = [todo EXCEPT ![w] = Files]
    /\ kept' = [kept EXCEPT ![w] = {f \in Family : disk[f] = "inside"}]
    /\ UNCHANGED <<disk, changes, manifest, temps, sequence, dead, files, looked,
                   entries, temp>>

\* Mutated form: IsVtkFamilyFile forgets ".vtkhdf".
TakesWithoutHdf(f) == f \in Family \ Hdf /\ disk[f] = "inside"

\* Mutated form: every regular file is taken.
TakesAny(f) == disk[f] = "inside"

\* A regular file that IsVtkFamilyFile accepts, in the output directory.
Takes(f) == f \in Family /\ disk[f] = "inside"

\* The iterator comes to one more name: it takes it, passes it over, or throws
\* for one that leads out of the directory or is gone by now.
Visit(w) ==
    /\ At(w, "scan")
    /\ \E f \in todo[w] :
        \/ /\ ~(f \in Family /\ disk[f] = "outside")
           /\ todo' = [todo EXCEPT ![w] = @ \ {f}]
           /\ files' = [files EXCEPT ![w] = IF Takes(f) THEN @ \cup {f} ELSE @]
           /\ UNCHANGED <<pc, looked, entries, temp, kept, temps>>
        \/ f \in Family /\ disk[f] # "inside" /\ Throw(w)
    /\ UNCHANGED <<disk, changes, manifest, sequence, dead>>

-----------------------------------------------------------------------------
(* Run identities, the catalog and the temporary file *)

\* Mutated form: time and process only.
MakeIdUnnumbered(p, ticks) == [ticks |-> ticks, process |-> p, sequence |-> 0]

MakeId(p, ticks) == [ticks |-> ticks, process |-> p, sequence |-> sequence[p]]

\* fetch_add on the counter.
CountId(p) ==
    /\ sequence[p] < MaxSequence
    /\ sequence' = [sequence EXCEPT ![p] = @ + 1]

\* A catalog without a run identity is given one, and is validated; its
\* targets are regular files within the directory, or the call throws.
Validate(w) ==
    /\ At(w, "scan") /\ todo[w] = {}
    /\ CountId(Process[w]) \/ UNCHANGED sequence
    /\ \/ /\ \A f \in Targets : disk[f] = "inside"
          /\ Goto(w, "name")
          /\ UNCHANGED <<todo, files, looked, entries, temp, kept, temps>>
       \/ Throw(w)
    /\ UNCHANGED <<disk, changes, manifest, dead>>

NameTemp(w) ==
    /\ At(w, "name")
    /\ CountId(Process[w])
    /\ \E ticks \in Ticks :
          temp' = [temp EXCEPT ![w] = MakeId(Process[w], ticks)]
    /\ Goto(w, "open")
    /\ UNCHANGED <<disk, changes, manifest, temps, dead, todo, files, looked, entries,
                   kept>>

OpenTemp(w) ==
    /\ At(w, "open")
    /\ \/ /\ temps' = [temps EXCEPT ![temp[w]] = Torn]
          /\ Goto(w, "describe")
          /\ todo' = [todo EXCEPT ![w] = files[w]]
          /\ UNCHANGED <<files, looked, entries, temp, kept>>
       \/ Throw(w)
    /\ UNCHANGED <<disk, changes, manifest, sequence, dead>>

-----------------------------------------------------------------------------
(* WriteVtkDataFile, WriteVtkHdfDataFile and WritePvdFile *)

\* Mutated form: the path is taken relative to the directory lexically.
RelativePathLexical(f) == TRUE

\* RelativePath resolves links before it compares, and throws outside.
RelativePath(f) == disk[f] # "outside"

\* VTK must be able to read the file; of a .vtkhdf only the size is asked,
\* and without error.
Readable(f) == f \in Hdf \/ disk[f] # "absent"

\* ResolvePvdDataSetManifestPath for every DataSet element.
ResolvesReferences(f) == \A g \in References[f] : disk[g] = "inside"

\* The first look at a file: the path of a .pvd, what another one holds.
Look(w) ==
    /\ At(w, "describe") /\ looked[w] = NoFile
    /\ \E f \in todo[w] :
        \/ /\ IF f \in Pvds THEN RelativePath(f) ELSE Readable(f)
           /\ looked' = [looked EXCEPT ![w] =
                  [file |-> f, where |-> disk[f], steady |-> TRUE]]
           /\ UNCHANGED <<pc, todo, files, entries, temp, kept, temps>>
        \/ f \notin Hdf /\ Throw(w)
    /\ UNCHANGED <<disk, changes, manifest, sequence, dead>>

\* The second look, which makes the entry: what a .pvd holds, and what it refers
\* to; the path of another one.
Describe(w) ==
    /\ At(w, "describe") /\ looked[w] # NoFile
    /\ LET f == looked[w].file
           where == IF f \in Pvds THEN disk[f] ELSE looked[w].where
       IN  \/ /\ IF f \in Pvds THEN Readable(f) /\ ResolvesReferences(f)
                  ELSE RelativePath(f)
              /\ todo' = [todo EXCEPT ![w] = @ \ {f}]
              /\ looked' = [looked EXCEPT ![w] = NoFile]
              /\ entries' = [entries EXCEPT ![w] = @ \cup
                     {[file |-> f, where |-> where, steady |-> looked[w].steady]}]
              /\ UNCHANGED <<pc, files, temp, kept, temps>>
           \/ (f \notin Hdf \/ ~RelativePath(f)) /\ Throw(w)
    /\ UNCHANGED <<disk, changes, manifest, sequence, dead>>

\* The catalog is the last part; then the stream is flushed and closed.
EndDescribe(w) ==
    /\ At(w, "describe") /\ todo[w] = {}
    /\ Goto(w, "close")
    /\ UNCHANGED <<disk, changes, manifest, temps, sequence, dead, todo, files,
                   looked, entries, temp, kept>>

-----------------------------------------------------------------------------
(* Publication *)

Document(w) == [by |-> w, entries |-> entries[w]]

\* flush and close, each followed by a test of the stream.
CloseTemp(w) ==
    /\ At(w, "close")
    /\ \/ /\ temps' = [temps EXCEPT ![temp[w]] = Document(w)]
          /\ Goto(w, "replace")
          /\ UNCHANGED <<todo, files, looked, entries, temp, kept>>
       \/ Throw(w)
    /\ UNCHANGED <<disk, changes, manifest, sequence, dead>>

\* ReplaceOutputManifestFile: rename, or remove the temporary and throw; rename
\* fails for one that is gone.
Replace(w) ==
    /\ At(w, "replace")
    /\ \/ /\ temps[temp[w]] # NoFile
          /\ manifest' = temps[temp[w]]
          /\ temps' = [temps EXCEPT ![temp[w]] = NoFile]
          /\ Leave(w)
       \/ Throw(w) /\ UNCHANGED manifest
    /\ UNCHANGED <<disk, changes, sequence, dead>>

-----------------------------------------------------------------------------
(* Around the calls *)

Change(f, where) ==
    /\ changes < MaxChanges
    /\ where # disk[f]
    /\ disk' = [disk EXCEPT ![f] = where]
    /\ changes' = changes + 1
    /\ kept' = [w \in Callers |-> kept[w] \ {f}]
    /\ looked' = [w \in Callers |->
           IF looked[w] # NoFile /\ looked[w].file = f
           THEN [looked[w] EXCEPT !.steady = FALSE] ELSE looked[w]]
    /\ UNCHANGED <<manifest, temps, sequence, dead, pc, todo, files, entries, temp>>

\* Every call of the process ends where it is.
Die(p) ==
    LET gone(w) == Process[w] = p
    IN  /\ p \notin dead
        /\ dead' = dead \cup {p}
        /\ pc' = [w \in Callers |-> IF gone(w) THEN "idle" ELSE pc[w]]
        /\ todo' = [w \in Callers |-> IF gone(w) THEN {} ELSE todo[w]]
        /\ files' = [w \in Callers |-> IF gone(w) THEN {} ELSE files[w]]
        /\ looked' = [w \in Callers |-> IF gone(w) THEN NoFile ELSE looked[w]]
        /\ entries' = [w \in Callers |-> IF gone(w) THEN {} ELSE entries[w]]
        /\ temp' = [w \in Callers |-> IF gone(w) THEN NoFile ELSE temp[w]]
        /\ kept' = [w \in Callers |-> IF gone(w) THEN {} ELSE kept[w]]
        /\ UNCHANGED <<disk, changes, manifest, temps, sequence>>

Init ==
    /\ disk \in [Files -> {"absent", "inside"}]
    /\ changes = 0
    /\ manifest = NoFile
    /\ temps = [id \in Ids |-> NoFile]
    /\ sequence = [p \in Processes |-> 0]
    /\ dead = {}
    /\ pc = [w \in Callers |-> "idle"]
    /\ todo = [w \in Callers |-> {}]
    /\ files = [w \in Callers |-> {}]
    /\ looked = [w \in Callers |-> NoFile]
    /\ entries = [w \in Callers |-> {}]
    /\ temp = [w \in Callers |-> NoFile]
    /\ kept = [w \in Callers |-> {}]

Step(w) ==
    \/ Call(w) \/ Visit(w) \/ Validate(w) \/ NameTemp(w) \/ OpenTemp(w)
    \/ Look(w) \/ Describe(w) \/ EndDescribe(w) \/ CloseTemp(w) \/ Replace(w)

Next ==
    \/ \E w \in Callers : Step(w)
    \/ \E f \in Files, where \in Wheres : Change(f, where)
    \/ \E p \in Processes : Die(p)

Spec == Init /\ [][Next]_vars

-----------------------------------------------------------------------------
(* Properties *)

Steps == {"idle", "scan", "name", "open", "describe", "close", "replace"}

\* Every variable has its type, and no call describes a file it did not find.
TypeOK ==
    /\ disk \in [Files -> Wheres]
    /\ changes \in 0 .. MaxChanges
    /\ manifest \in Documents \cup {NoFile, Torn}
    /\ temps \in [Ids -> Documents \cup {NoFile, Torn}]
    /\ sequence \in [Processes -> 0 .. MaxSequence]
    /\ dead \in SUBSET Processes
    /\ pc \in [Callers -> Steps]
    /\ todo \in [Callers -> SUBSET Files]
    /\ files \in [Callers -> SUBSET Family]
    /\ looked \in [Callers -> Entries \cup {NoFile}]
    /\ entries \in [Callers -> SUBSET Entries]
    /\ temp \in [Callers -> Ids \cup {NoFile}]
    /\ kept \in [Callers -> SUBSET Family]

\* README.md:34-36, "the completed manifest is published by atomic replacement,
\* so a failed solve cannot expose a partially written catalog": with any
\* number of calls at once, readers find no manifest or a whole one that one
\* of the calls was about to publish.
InFlight(w) ==
    IF pc[w] \in {"close", "replace"}
    THEN [place |-> "output_manifest.json", doc |-> Document(w)]
    ELSE [place |-> NoFile, doc |-> NoFile]

Publication == INSTANCE AtomicPublication WITH
    Writers <- Callers,
    Places <- {"output_manifest.json"},
    Nothing <- NoFile,
    published <- [place \in {"output_manifest.json"} |-> manifest],
    offer <- [w \in Callers |-> InFlight(w)]

ManifestIsAtomic == Publication!Spec

\* A temporary file outlives its call only when its process died: whatever
\* throws, in whatever order calls overlap, it is removed.
TempsBelongToCalls ==
    \A id \in Ids : temps[id] # NoFile =>
        id.process \in dead \/ \E w \in Callers : temp[w] = id

\* A file that was exchanged for a link after the scan saw it does not bring
\* something outside of the output directory into a published manifest, unless it
\* changed between the two looks at it: RelativePath has asked about what is read.
PublishedIsInside ==
    manifest \in Documents =>
        \A e \in manifest.entries : e.where = "outside" => ~e.steady

\* A manifest about to be published describes every VTK file that was in the
\* directory when its call began and has not been touched since.
DescribesWhatStayed ==
    \A w \in Callers : pc[w] = "replace" =>
        \A f \in kept[w] : \E e \in entries[w] : e.file = f

=============================================================================
