-------------------------- MODULE EnSightTimePolicy --------------------------
(***************************************************************************)
(* EnSightTimePolicy.h and EnSightHdfTimeMetadata.h: times that a solver   *)
(* printed with few digits are taken for a uniform axis if the file says   *)
(* how they were rounded, and a selection of frames gets its time step     *)
(* from the axis, never from its own rounded ends.                         *)
(*                                                                         *)
(* Times are integers, in ticks finer than any rounding, and an interval   *)
(* is a quotient of integers: the code's doubles without their roundoff,   *)
(* and so without the tolerances for it (TimeRoundoff, 1e-10).  A file is  *)
(* loaded, replaced while frames are read from it, and loaded again.       *)
(***************************************************************************)
EXTENDS Integers, Sequences, FiniteSetsExt

CONSTANTS
    Sources,    \* what may be in the file
    Quantum,    \* ticks in the smallest quantum a token may have
    Digits,     \* ... which is 10^-Digits
    MaxWrites,  \* bound: contents the file has
    MaxPicked,  \* bound: frames in a selection
    NotFinite,  \* a time or a quantum that is infinite, or no number
    None, Error \* std::nullopt, an exception

ASSUME PolicyAssumption ==
    /\ Quantum \in Nat \ {0}
    /\ {Digits, MaxWrites, MaxPicked} \subseteq Nat
    /\ NotFinite \notin Int /\ {None, Error} \cap Int = {}

VARIABLES
    file,       \* the source that is in the file
    writes,     \* which of its contents that is
    axis,       \* the axis of a load, or None; and the write it was loaded from
    picked      \* the frames selected: time and provenance of each, and the
                \* write the time was read from

vars == <<file, writes, axis, picked>>

Abs(n) == IF n < 0 THEN -n ELSE n

-----------------------------------------------------------------------------
(* AssessTimeAxis *)

\* Interval is span / (Len(times) - 1).
Invalid == [valid |-> FALSE, approximate |-> FALSE, span |-> 0]
Valid(approximate, span) == [valid |-> TRUE, approximate |-> approximate, span |-> span]

\* quantum <= kMaximumTimeQuantumFraction * span / steps
FineEnough(quantum, span, steps) == 1000 * quantum * steps <= 11 * span

\* Mutated form: a token is off by half a quantum at most, and so is a frame.
IsRoundedToNearest(times, quantum) ==
    LET steps == Len(times) - 1
        span == times[Len(times)] - times[1]
    IN  \A i \in 1 .. Len(times) :
            2 * Abs((times[i] - times[1]) * steps - (i - 1) * span) <= quantum * steps

\* Every frame lies within a quantum of the line from the first to the last,
\* and every step within two of the interval.
IsRounded(times, quantum) ==
    LET steps == Len(times) - 1
        span == times[Len(times)] - times[1]
    IN  \A i \in 1 .. Len(times) :
            /\ Abs((times[i] - times[1]) * steps - (i - 1) * span) <= quantum * steps
            /\ i > 1 => LET step == times[i] - times[i - 1]
                        IN  step > 0 /\ Abs(step * steps - span) <= 2 * quantum * steps

AssessTimeAxis(times, declaredQuantum) ==
    LET steps == Len(times) - 1
        first == times[2] - times[1]
        span == times[Len(times)] - times[1]
    IN  IF \E i \in 1 .. Len(times) : times[i] = NotFinite THEN Invalid
        ELSE IF steps < 1 THEN Valid(FALSE, 1)
        ELSE IF first <= 0 THEN Invalid
        ELSE IF \A i \in 3 .. Len(times) : times[i] = times[1] + (i - 1) * first
             THEN Valid(FALSE, first * steps)
        ELSE IF /\ declaredQuantum > 0
                /\ span > 0 /\ FineEnough(declaredQuantum, span, steps)
                /\ IsRounded(times, declaredQuantum)
             THEN Valid(TRUE, span)
        ELSE Invalid

-----------------------------------------------------------------------------
(* The quantum: of printed times, and as files declare it *)

TokenQuantum(token) == Quantum * 10^(Digits + token.exponent - token.fraction)

\* A token is a decimal number, with fractional digits and an exponent, or not.
DecimalTimeQuantum(tokens) ==
    IF tokens = <<>> \/ \E i \in 1 .. Len(tokens) : ~tokens[i].decimal
    THEN 0
    ELSE Min({TokenQuantum(tokens[i]) : i \in 1 .. Len(tokens)})

IsQuantum(value) == value # NotFinite /\ value > 0

\* The attributes of the root: those that name the quantum have a value.
RootTimeQuantum(root) ==
    LET declared == {i \in 1 .. Len(root.attributes) : root.attributes[i].quantum}
    IN  IF \/ ~root.closed
           \/ \E i \in 1 .. Len(root.attributes) : ~root.attributes[i].wellFormed
           \/ Cardinality(declared) > 1
           \/ \E i \in declared : ~IsQuantum(root.attributes[i].value)
        THEN Error
        ELSE IF declared = {} THEN None
        ELSE root.attributes[CHOOSE i \in declared : TRUE].value

\* Mutated form: the last element that is a VTKFile, wherever, is the root.
PvdTimeQuantumAnywhere(xml) ==
    LET roots == {i \in 1 .. Len(xml) : xml[i].vtkfile}
    IN  IF roots = {} THEN None ELSE RootTimeQuantum(xml[Max(roots)])

\* A document is the sequence of its comments, instructions and elements; a
\* comment may hold what looks like an element.
PvdTimeQuantum(xml) ==
    LET stops == {i \in 1 .. Len(xml) : xml[i].kind = "element" \/ ~xml[i].closed}
    IN  IF stops = {} THEN None
        ELSE LET item == xml[Min(stops)]
             IN  IF item.kind # "element" THEN Error
                 ELSE IF item.vtkfile THEN RootTimeQuantum(item) ELSE None

\* The attribute of the group /VTKHDF: absent, or a scalar of 64 bits or not.
EnSightTimeQuantum(group) ==
    IF ~group.readable THEN Error
    ELSE IF ~group.present THEN None
    ELSE IF ~group.scalarDouble \/ ~IsQuantum(group.value) THEN Error
    ELSE group.value

Times(source) == [i \in 1 .. Len(source.tokens) |-> source.tokens[i].time]

\* What may be in a file: printed times with the physical ones, and a document or
\* a group.  Whatever way a solver rounds, a token is off by no more than its
\* quantum, and the errors of two tokens differ by no more than the quantum of one
\* of them.
Numbers == Int \cup {NotFinite}
Tokens == [time : Numbers, decimal : BOOLEAN, fraction : Int, exponent : Int]
Attributes == [quantum : BOOLEAN, wellFormed : BOOLEAN, value : Numbers]
Markup == [kind : {"comment", "instruction", "element"}, closed : BOOLEAN,
           vtkfile : BOOLEAN, attributes : Seq(Attributes)]
Groups == [readable : BOOLEAN, present : BOOLEAN, scalarDouble : BOOLEAN, value : Numbers]

ASSUME SourceAssumption ==
    \A source \in Sources :
        LET tokens == source.tokens
            error(i) == tokens[i].time - source.truth[i]
        IN  /\ tokens \in Seq(Tokens)
            /\ source.truth \in Seq(Int) /\ Len(source.truth) = Len(tokens)
            /\ source.pvd \in BOOLEAN
            /\ IF source.pvd THEN source.xml \in Seq(Markup) ELSE source.group \in Groups
            /\ \A i \in 1 .. Len(tokens) :
                   /\ TokenQuantum(tokens[i]) \in Nat \ {0}
                   /\ tokens[i].time # NotFinite => Abs(error(i)) <= TokenQuantum(tokens[i])
            /\ \A i, j \in 1 .. Len(tokens) :
                   tokens[i].time # NotFinite /\ tokens[j].time # NotFinite =>
                       \/ Abs(error(i) - error(j)) <= TokenQuantum(tokens[i])
                       \/ Abs(error(i) - error(j)) <= TokenQuantum(tokens[j])

DeclaredQuantum(source) ==
    IF source.pvd THEN PvdTimeQuantum(source.xml) ELSE EnSightTimeQuantum(source.group)

-----------------------------------------------------------------------------
(* TimeFrameProvenance and ValidatedTimeStep *)

\* interval is span / (frameCount - 1).
Provenance(i) ==
    [quantum |-> axis.quantum, span |-> axis.span, origin |-> axis.origin,
     frameCount |-> axis.frameCount, frameIndex |-> i - 1]

SameAxis(f, g) ==
    /\ f.quantum = g.quantum /\ f.span = g.span
    /\ f.origin = g.origin /\ f.frameCount = g.frameCount

Stride(frames) ==
    IF Len(frames) > 1 /\ frames[2].frameIndex > frames[1].frameIndex
    THEN frames[2].frameIndex - frames[1].frameIndex ELSE 1

\* Mutated form: the frames come in order, at any distances.
EvenlyInOrder(times, frames) ==
    \A i \in 2 .. Len(frames) :
        frames[i].frameIndex > frames[i - 1].frameIndex /\ times[i] > times[i - 1]

Evenly(times, frames) ==
    \A i \in 2 .. Len(frames) :
        /\ frames[i].frameIndex - frames[i - 1].frameIndex = Stride(frames)
        /\ times[i] > times[i - 1]

\* Mutated form: where a frame says it is, is believed.
OnTheAxisUnlooked(time, frame) == frame.frameIndex < frame.frameCount

OnTheAxis(time, frame) ==
    LET steps == frame.frameCount - 1
    IN  /\ frame.frameIndex < frame.frameCount
        /\ time # NotFinite
        /\ Abs((time - frame.origin) * steps - frame.frameIndex * frame.span)
               <= frame.quantum * steps

\* Mutated form: the step of the selection's own rounded ends.
SelectedSpanOfEnds(times, frames) ==
    IF Len(times) = 1 THEN frames[1].span
    ELSE ((times[Len(times)] - times[1]) * (frames[1].frameCount - 1)) \div (Len(times) - 1)

SelectedSpan(times, frames) == frames[1].span * Stride(frames)

\* The step, times frameCount - 1, or None.
ValidatedTimeStep(times, frames) ==
    IF /\ times # <<>> /\ Len(times) = Len(frames)
       /\ frames[1].quantum > 0 /\ frames[1].span > 0 /\ frames[1].frameCount >= 3
       /\ FineEnough(frames[1].quantum, frames[1].span, frames[1].frameCount - 1)
       /\ \A i \in 1 .. Len(times) :
              SameAxis(frames[i], frames[1]) /\ OnTheAxis(times[i], frames[i])
       /\ Evenly(times, frames)
    THEN SelectedSpan(times, frames)
    ELSE None

-----------------------------------------------------------------------------
(* A reader, and the programs that write the file *)

Write(source) ==
    /\ writes < MaxWrites
    /\ file' = source
    /\ writes' = writes + 1
    /\ UNCHANGED <<axis, picked>>

\* "Created only after validating a complete, approximate EnSight source axis":
\* any other outcome leaves the reader without an axis.
Load ==
    LET declared == DeclaredQuantum(file)
        quantum == IF declared \in {None, Error} THEN 0 ELSE declared
        times == Times(file)
        assessed == AssessTimeAxis(times, quantum)
    IN  /\ axis' = IF declared # Error /\ assessed.approximate
                   THEN [write |-> writes, quantum |-> quantum, span |-> assessed.span,
                         origin |-> times[1], frameCount |-> Len(times)]
                   ELSE None
        /\ UNCHANGED <<file, writes, picked>>

\* A frame is read from the file that is there now.
Pick(i) ==
    /\ axis # None
    /\ Len(picked) < MaxPicked
    /\ i <= axis.frameCount
    /\ picked' = Append(picked, [time |-> Times(file)[i], frame |-> Provenance(i),
                                 read |-> writes, loaded |-> axis.write])
    /\ UNCHANGED <<file, writes, axis>>

Deselect ==
    /\ picked # <<>>
    /\ picked' = <<>>
    /\ UNCHANGED <<file, writes, axis>>

Init ==
    /\ file \in Sources
    /\ writes = 1
    /\ axis = None
    /\ picked = <<>>

Next ==
    \/ \E source \in Sources : Write(source)
    \/ Load
    \/ \E i \in 1 .. Len(file.tokens) : Pick(i)
    \/ Deselect

Spec == Init /\ [][Next]_vars

-----------------------------------------------------------------------------
(* Properties.  truth[i] of a source is the physical time of its frame i.    *)

PickedTimes == [i \in 1 .. Len(picked) |-> picked[i].time]
PickedFrames == [i \in 1 .. Len(picked) |-> picked[i].frame]
TimeStep == ValidatedTimeStep(PickedTimes, PickedFrames)

\* The step of a run whose steps are equal.
IsUniform(source) ==
    Len(source.truth) > 1 /\ \A i \in 3 .. Len(source.truth) :
        source.truth[i] - source.truth[i - 1] = source.truth[2] - source.truth[1]
UniformStep(source) == source.truth[2] - source.truth[1]

Rounding(source) == {TokenQuantum(source.tokens[i]) : i \in 1 .. Len(source.tokens)}

\* A file says which quantum its times have: its first element, or its group, has
\* the one attribute for it.
RootDeclares(root, quantum) ==
    /\ root.kind = "element" /\ root.vtkfile /\ root.closed
    /\ \A i \in 1 .. Len(root.attributes) : root.attributes[i].wellFormed
    /\ \E i \in 1 .. Len(root.attributes) :
          /\ root.attributes[i].value = quantum
          /\ \A j \in 1 .. Len(root.attributes) : root.attributes[j].quantum <=> j = i

Declares(source, quantum) ==
    /\ IsQuantum(quantum)
    /\ IF source.pvd
       THEN \E r \in 1 .. Len(source.xml) :
               /\ RootDeclares(source.xml[r], quantum)
               /\ \A i \in 1 .. r - 1 : source.xml[i].kind # "element" /\ source.xml[i].closed
       ELSE /\ source.group.readable /\ source.group.present /\ source.group.scalarDouble
            /\ source.group.value = quantum

\* Frame index, counted from 0, of the line of steps + 1 frames through origin.
Distance(time, index, origin, span, steps) == Abs((time - origin) * steps - index * span)

\* "Its rounded endpoints must not silently redefine the solver's physical dt"
\* (EnSightTimePolicy.h:217): while the file is the one that was loaded, the step
\* of a selection is the solver's own, up to the rounding of the ends of the
\* whole axis, however few frames are selected and wherever.
StepIsTheSolvers ==
    (/\ TimeStep # None /\ IsUniform(file)
     /\ \A i \in 1 .. Len(picked) : picked[i].read = writes /\ picked[i].loaded = writes)
    => LET stride == Stride(PickedFrames)
       IN  Abs(TimeStep - stride * UniformStep(file) * (Len(file.tokens) - 1))
               <= stride * Max(Rounding(file))

\* Between any two frames of a selection that got a step as much time passed as
\* the step says, within two quanta, even if the file was replaced and loaded
\* again between the reads of the frames.
SelectionFitsItsStep ==
    TimeStep # None =>
        LET steps == picked[1].frame.frameCount - 1
        IN  \A i, j \in 1 .. Len(picked) : i < j =>
                Distance(picked[j].time, j - i, picked[i].time, TimeStep, steps)
                    <= 2 * picked[1].frame.quantum * steps

\* A reader takes an axis for a rounded one, and by how much, only because the
\* root of the file says so ("a commented or nested tag cannot introduce EnSight
\* provenance", EnSightTimePolicy.h:124-125), and then no frame's physical time is
\* farther from its place on the axis than the quantum and the frame's own rounding.
AxisIsTheRuns ==
    axis # None /\ axis.write = writes =>
        /\ Declares(file, axis.quantum)
        /\ \A i \in 1 .. Len(file.tokens) :
               Distance(file.truth[i], i - 1, axis.origin, axis.span, axis.frameCount - 1)
                   <= (axis.quantum + TokenQuantum(file.tokens[i])) * (axis.frameCount - 1)

\* Nothing sound is refused.  The times of a uniform run, printed with a fixed
\* number of digits that amounts to no more than a hundredth of the step, and
\* declared, make an axis; and frames at equal distances, from a file that
\* stayed as it was loaded, get a step.
NothingSoundIsRefused ==
    /\ (/\ IsUniform(file)
        /\ \A i \in 1 .. Len(file.tokens) :
              file.tokens[i].decimal /\ file.tokens[i].time # NotFinite
        /\ \E quantum \in Rounding(file) :
              /\ Rounding(file) = {quantum} /\ Declares(file, quantum)
              /\ 100 * quantum <= UniformStep(file))
       => AssessTimeAxis(Times(file), DeclaredQuantum(file)).valid
    /\ (/\ picked # <<>>
        /\ \A i \in 1 .. Len(picked) :
              {picked[i].read, picked[i].loaded} = {picked[1].read}
        /\ \E stride \in 1 .. Len(file.tokens) : \A i \in 2 .. Len(picked) :
              picked[i].frame.frameIndex - picked[i - 1].frame.frameIndex = stride)
       => TimeStep # None

=============================================================================
