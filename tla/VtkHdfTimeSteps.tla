-------------------------- MODULE VtkHdfTimeSteps --------------------------
(***************************************************************************)
(* VtkHdfIO.h: a time step of a .vtkhdf file is handed around as a path,   *)
(* the file's own followed by "|vtkhdf_step=" and the step.  A caller      *)
(* expands a path into the tokens of its steps and reads them one at a     *)
(* time, or reads any path, while files come and go and are rewritten,     *)
(* also files whose names look like tokens, and also in the middle of a    *)
(* call: it looks at the file system when it takes the path apart, again   *)
(* for the number of steps, and once more for the data.  This is the POSIX *)
(* build.                                                                  *)
(*                                                                         *)
(* A path is a name and the texts that follow the markers in it: the       *)
(* sequence of "a.vtkhdf" and "x" stands for a.vtkhdf|vtkhdf_step=x.       *)
(***************************************************************************)
EXTENDS Integers, Sequences

CONSTANTS
    Names,          \* what stands before the first marker; may be ""
    Texts,          \* what stands after a marker
    Paths,          \* the paths at which there may be a file, or that are read
    HdfEndings,     \* the names and texts that end in .vtkhdf
    MaxSteps,       \* bound: the number of steps of a file
    Digits,         \* Digits[step]: the text of a step, in twelve digits
    Value,          \* Value[t]: the number stoull reads in text t; NoStep when t
                    \* is empty, not all digits, or beyond unsigned long long
    MaxVtkId,       \* the largest vtkIdType
    MaxChanges      \* bound: changes of the files

NoStep == -1

ASSUME TokenAssumption ==
    /\ \A p \in Paths :
           /\ p \in Seq(Names \cup Texts) /\ Len(p) > 0
           /\ p[1] \in Names /\ \A i \in 2 .. Len(p) : p[i] \in Texts
    /\ MaxSteps \in Nat \ {0} /\ MaxChanges \in Nat
    /\ MaxVtkId \in Nat /\ MaxSteps <= MaxVtkId
    /\ Value \in [Texts -> {NoStep} \cup 0 .. 2 * MaxVtkId + 1]
    /\ Digits \in [0 .. MaxSteps -> Texts]
    /\ \A step \in 0 .. MaxSteps : Value[Digits[step]] = step
    /\ \A t \in HdfEndings \cap Texts : Value[t] = NoStep

VARIABLES
    steps,      \* steps[p]: number of steps of the file at path p, 0 for a file
                \* (or a link) that VTK cannot read, NoStep for none
    changes,    \* how often steps changed
    source,     \* the path whose frames were asked for last, and how many ...
    frames,     \* ... and those that were not read yet
    pc,         \* where the running call is, or "idle"
    frame,      \* the path that the last call was given
    parsed,     \* what that call took it for, or Error
    stayed,     \* since that call began there has been a file at frame
    result      \* the path and the step that the call read, or Error

call == <<pc, frame, parsed, stayed, result>>
vars == <<steps, changes, source, frames, call>>

Error == [path |-> <<>>, step |-> NoStep]
NoFrames == [path |-> <<>>, count |-> 0]

-----------------------------------------------------------------------------
(* ParseStepToken and MakeStepToken *)

Exists(p) == p \in Paths /\ steps[p] # NoStep
Last(p) == p[Len(p)]
Base(p) == SubSeq(p, 1, Len(p) - 1)

IsHdf(p) == Last(p) \in HdfEndings

\* Mutated form: the name of an existing file is taken apart, too.
ParseStepTokenAlways(p, inspected) ==
    IF Len(p) = 1 THEN [path |-> p, step |-> NoStep]
    ELSE IF Value[Last(p)] \notin 0 .. MaxVtkId \/ Base(p) = <<"">> THEN Error
    ELSE [path |-> Base(p), step |-> Value[Last(p)]]

\* Mutated form: the number is cast to vtkIdType without a test.
ParseStepTokenCast(p, inspected) ==
    LET v == Value[Last(p)]
    IN  IF Len(p) = 1 \/ Exists(p) THEN [path |-> p, step |-> NoStep]
        ELSE IF ~inspected \/ v = NoStep \/ Base(p) = <<"">> THEN Error
        ELSE [path |-> Base(p),
              step |-> IF v > MaxVtkId THEN v - 2 * (MaxVtkId + 1) ELSE v]

\* The last marker counts, unless the whole path names an entry of the file
\* system.  What cannot be a step throws, and so does a path with a marker for
\* which the file system gives no answer.
ParseStepToken(p, inspected) ==
    IF Len(p) = 1 \/ (inspected /\ Exists(p)) THEN [path |-> p, step |-> NoStep]
    ELSE IF \/ ~inspected
            \/ Value[Last(p)] \notin 0 .. MaxVtkId
            \/ Base(p) = <<"">>
         THEN Error
    ELSE [path |-> Base(p), step |-> Value[Last(p)]]

\* Mutated form: the steps are counted from one.
MakeStepTokenFromOne(p, step) == Append(p, Digits[step + 1])

MakeStepToken(p, step) == Append(p, Digits[step])

-----------------------------------------------------------------------------
(* A call, and how it ends *)

Readable(p) == Exists(p) /\ steps[p] > 0

\* The call is given p and takes it apart; when that throws, the call is over.
Begin(p, next) ==
    /\ pc = "idle"
    /\ frame' = p
    /\ stayed' = Exists(p)
    /\ \E inspected \in BOOLEAN : parsed' = ParseStepToken(p, inspected)
    /\ pc' = IF parsed' = Error THEN "idle" ELSE next
    /\ result' = Error
    /\ UNCHANGED <<steps, changes>>

Throw ==
    /\ pc' = "idle"
    /\ UNCHANGED <<steps, changes, source, frames, frame, parsed, stayed, result>>

-----------------------------------------------------------------------------
(* ExpandTimeSteps *)

Expand(p) ==
    /\ frames = <<>>
    /\ Begin(p, "expand")
    /\ source' = NoFrames
    /\ UNCHANGED frames

\* A path that is not .vtkhdf is its own only frame, and a token stands for all
\* steps of its file.
FramesOf(file) ==
    IF ~IsHdf(file) THEN <<frame>>
    ELSE IF steps[file] = 1 THEN <<file>>
    ELSE [i \in 1 .. steps[file] |-> MakeStepToken(file, i - 1)]

\* VTK counts the steps, or throws: on a file it cannot read, always.
CountSteps ==
    /\ pc = "expand"
    /\ \/ /\ ~IsHdf(parsed.path) \/ Readable(parsed.path)
          /\ frames' = FramesOf(parsed.path)
          /\ source' = [path |-> parsed.path, count |-> Len(frames')]
          /\ pc' = "idle"
          /\ UNCHANGED <<steps, changes, frame, parsed, stayed, result>>
       \/ IsHdf(parsed.path) /\ Throw

-----------------------------------------------------------------------------
(* ReadDataObject *)

ReadFrame ==
    /\ frames # <<>>
    /\ Begin(Head(frames), "open")
    /\ frames' = Tail(frames)
    /\ UNCHANGED source

\* A path that the caller did not get from ExpandTimeSteps.
ReadPath(p) ==
    /\ frames = <<>>
    /\ Begin(p, "open")
    /\ source' = NoFrames
    /\ UNCHANGED frames

\* The ending is right, VTK can read the file, and it has the step, or it throws.
Open ==
    /\ pc = "open"
    /\ \/ /\ IsHdf(parsed.path)
          /\ Readable(parsed.path)
          /\ parsed.step < steps[parsed.path]
          /\ pc' = "update"
          /\ UNCHANGED <<steps, changes, source, frames, frame, parsed, stayed,
                         result>>
       \/ Throw

\* VTK reads the step that was set, or throws.
Update ==
    /\ pc = "update"
    /\ \/ /\ result' = parsed
          /\ pc' = "idle"
          /\ UNCHANGED <<steps, changes, source, frames, frame, parsed, stayed>>
       \/ Throw

-----------------------------------------------------------------------------
(* The files *)

\* A file is written, rewritten with other steps, or removed.
Change(p, n) ==
    /\ changes < MaxChanges
    /\ steps[p] # n
    /\ steps' = [steps EXCEPT ![p] = n]
    /\ changes' = changes + 1
    /\ stayed' = (stayed /\ ~(p = frame /\ n = NoStep))
    /\ UNCHANGED <<source, frames, pc, frame, parsed, result>>

Init ==
    /\ steps = [p \in Paths |-> NoStep]
    /\ changes = 0
    /\ source = NoFrames /\ frames = <<>>
    /\ pc = "idle" /\ frame = <<>> /\ stayed = FALSE
    /\ parsed = Error /\ result = Error

Next ==
    \/ \E p \in Paths : Expand(p) \/ ReadPath(p)
    \/ CountSteps
    \/ ReadFrame \/ Open \/ Update
    \/ \E p \in Paths, n \in NoStep .. MaxSteps : Change(p, n)

Spec == Init /\ [][Next]_vars

-----------------------------------------------------------------------------
(* Properties *)

\* Every variable has its type: above all, a step that was read is a vtkIdType
\* that is not negative, or none was asked for.
TypeOK ==
    /\ steps \in [Paths -> NoStep .. MaxSteps]
    /\ changes \in 0 .. MaxChanges
    /\ source.path \in Paths \cup {Base(p) : p \in Paths} \cup {<<>>}
    /\ source.count \in 0 .. MaxSteps
    /\ Len(frames) <= source.count
    /\ pc \in {"idle", "expand", "open", "update"}
    /\ stayed \in BOOLEAN
    /\ {parsed.path, result.path}
           \subseteq Paths \cup {Base(p) : p \in Paths} \cup {<<>>}
    /\ {parsed.step, result.step} \subseteq {NoStep} \cup 0 .. MaxVtkId

\* However files change between the expansion and the reading, and within each,
\* the n-th frame of a .vtkhdf file gives this file's n-th step or throws: never
\* another step, nor a file that has taken the token's name meanwhile.
FrameReadsItsStep ==
    LET n == source.count - Len(frames) - 1
    IN  (result # Error /\ source.count > 0 /\ IsHdf(source.path)) =>
            /\ result.path = source.path
            /\ result.step = n \/ (result.step = NoStep /\ source.count = 1)

\* README.md:44-46, "On POSIX, an existing path with that literal suffix takes
\* precedence as an ordinary file path": a read of a path at which there has been
\* a file all the time gives that file, whatever happens to the one it would be a
\* token of.
LiteralPathTakesPrecedence ==
    (result # Error /\ stayed) => result = [path |-> frame, step |-> NoStep]

=============================================================================
