----------------------- MODULE VtkHdfTimeStepsProofs -----------------------
(***************************************************************************)
(* Proofs about VtkHdfTimeSteps, for any paths, any numbers of steps that  *)
(* a vtkIdType holds and any changes of the files.                         *)
(***************************************************************************)
EXTENDS VtkHdfTimeSteps, SequenceTheorems, TLAPS

-----------------------------------------------------------------------------
(* The inductive invariant *)

Parts == Names \cup Texts

\* A path starts with a name, and only texts follow its markers.
Path == {p \in Seq(Parts) : Len(p) > 0 /\ \A i \in 2 .. Len(p) : p[i] \in Texts}

\* What a call is given: a path of a file, or a token of one.
Frame == {p \in Path : p \in Paths \/ (Len(p) # 1 /\ Base(p) \in Paths)}

\* The frames are those that a .vtkhdf file was expanded to.
OfHdf == source.count > 0 /\ IsHdf(source.path)

\* The frames that a .vtkhdf file was expanded to and that were not read yet are
\* the tokens of its last steps in order, or the file itself when it had one.
FramesSound ==
    LET done == source.count - Len(frames)
    IN  OfHdf =>
            /\ source.path \in Path
            /\ \A i \in 1 .. Len(frames) :
                   frames[i] = IF source.count = 1 THEN source.path
                               ELSE MakeStepToken(source.path, done + i - 1)

\* What a call has taken its path for stays right however the files change: the
\* path itself when there has been a file there all the time, and, if it ends in
\* .vtkhdf, the step of the file whose frame it was given.
CallSound ==
    LET n == source.count - Len(frames) - 1
    IN  /\ result \in {Error, parsed}
        /\ parsed # Error => parsed.path \in Path
        /\ pc # "idle" => parsed # Error /\ result = Error
        /\ pc = "expand" => frame \in Paths /\ frames = <<>>
        /\ (stayed /\ parsed # Error) => parsed = [path |-> frame, step |-> NoStep]
        /\ (pc = "update" \/ result # Error) => IsHdf(parsed.path)
        /\ ((pc \in {"open", "update"} \/ result # Error)
                /\ OfHdf /\ IsHdf(parsed.path)) =>
               /\ parsed.path = source.path
               /\ parsed.step = n \/ (parsed.step = NoStep /\ source.count = 1)

IInv == TypeOK /\ frames \in Seq(Frame) /\ FramesSound /\ CallSound

-----------------------------------------------------------------------------
(* Lemmas about paths and tokens *)

\* The paths at which there may be a file are paths.
LEMMA PathsAreParts == Paths \subseteq Path
BY TokenAssumption DEF Path, Parts

\* What a path is made of.
LEMMA PathFacts ==
    ASSUME NEW p \in Path
    PROVE  /\ p \in Seq(Parts) /\ Len(p) \in Nat /\ Len(p) > 0
           /\ \A i \in 2 .. Len(p) : p[i] \in Texts
<1>1. p \in Seq(Parts) /\ Len(p) > 0 /\ \A i \in 2 .. Len(p) : p[i] \in Texts
  BY DEF Path
<1> QED BY <1>1

\* Taking the last marker from a path that has one leaves a path.
LEMMA BaseIsPath ==
    ASSUME NEW p \in Path, Len(p) # 1
    PROVE  Base(p) \in Path /\ Last(p) \in Texts
<1>1. p \in Seq(Parts) /\ Len(p) \in Nat /\ Len(p) >= 2
  <2>1. p \in Seq(Parts) /\ Len(p) \in Nat /\ Len(p) > 0
    BY PathFacts
  <2>2. \A n \in Nat : n > 0 /\ n # 1 => n >= 2
    OBVIOUS
  <2> QED BY <2>1, <2>2
<1>2. /\ Base(p) \in Seq(Parts) /\ Len(Base(p)) = Len(p) - 1
      /\ \A i \in 1 .. Len(p) - 1 : Base(p)[i] = p[i]
  <2>1. \A i \in 1 .. Len(p) - 1 : p[i] \in Parts
    BY <1>1
  <2>2. /\ SubSeq(p, 1, Len(p) - 1) \in Seq(Parts)
        /\ Len(SubSeq(p, 1, Len(p) - 1)) = Len(p) - 1
        /\ \A i \in 1 .. Len(p) - 1 : SubSeq(p, 1, Len(p) - 1)[i] = p[1 + i - 1]
    BY <1>1, <2>1, SubSeqProperties
  <2>3. \A i \in 1 .. Len(p) - 1 : 1 + i - 1 = i
    BY <1>1
  <2> QED BY <2>2, <2>3 DEF Base
<1>3. ASSUME NEW i \in 2 .. Len(Base(p)) PROVE Base(p)[i] \in Texts
  BY <1>1, <1>2, PathFacts
<1>4. Last(p) \in Texts
  BY <1>1, PathFacts DEF Last
<1> QED BY <1>1, <1>2, <1>3, <1>4 DEF Path

\* A token is a path whose last marker is that of its step.
LEMMA TokenIsPath ==
    ASSUME NEW p \in Path, NEW step \in 0 .. MaxSteps
    PROVE  /\ MakeStepToken(p, step) \in Path
           /\ Len(MakeStepToken(p, step)) # 1
           /\ Last(MakeStepToken(p, step)) = Digits[step]
           /\ Base(MakeStepToken(p, step)) = p
<1>1. Digits[step] \in Texts
  BY TokenAssumption
<1>2. p \in Seq(Parts) /\ Len(p) \in Nat /\ Len(p) > 0
  BY PathFacts
<1>3. /\ Append(p, Digits[step]) \in Seq(Parts)
      /\ Len(Append(p, Digits[step])) = Len(p) + 1
      /\ \A i \in 1 .. Len(p) : Append(p, Digits[step])[i] = p[i]
      /\ Append(p, Digits[step])[Len(p) + 1] = Digits[step]
  BY <1>1, <1>2 DEF Parts
<1>4. SubSeq(Append(p, Digits[step]), 1, Len(p)) = p
  <2> DEFINE back == SubSeq(Append(p, Digits[step]), 1, Len(p))
  <2>1. /\ back \in Seq(Parts) /\ Len(back) = Len(p)
        /\ \A i \in 1 .. Len(p) : back[i] = p[i]
    <3>1. \A i \in 1 .. Len(p) : Append(p, Digits[step])[i] \in Parts
      BY <1>2, <1>3
    <3>2. /\ back \in Seq(Parts) /\ Len(back) = Len(p)
          /\ \A i \in 1 .. Len(p) : back[i] = Append(p, Digits[step])[1 + i - 1]
      BY <1>2, <3>1, SubSeqProperties
    <3> HIDE DEF back
    <3>3. \A i \in 1 .. Len(p) : 1 + i - 1 = i
      BY <1>2
    <3> QED BY <1>3, <3>2, <3>3
  <2> HIDE DEF back
  <2>2. back = p
    BY <1>2, <2>1, SeqEqual
  <2> QED BY <2>2 DEF back
<1>5. Append(p, Digits[step]) \in Path
  <2>1. ASSUME NEW i \in 2 .. Len(p) + 1 PROVE Append(p, Digits[step])[i] \in Texts
    <3>1. CASE i = Len(p) + 1
      BY <3>1, <1>1, <1>3
    <3>2. CASE i # Len(p) + 1
      BY <3>2, <1>2, <1>3, PathFacts
    <3> QED BY <3>1, <3>2
  <2> DEFINE q == Append(p, Digits[step])
  <2>2. q \in Seq(Parts) /\ Len(q) > 0 /\ \A i \in 2 .. Len(q) : q[i] \in Texts
    BY <1>2, <1>3, <2>1
  <2> HIDE DEF q
  <2>3. q \in Path
    BY <2>2, Zenon DEF Path
  <2> QED BY <2>3 DEF q
<1> QED BY <1>2, <1>3, <1>4, <1>5 DEF MakeStepToken, Last, Base
\* A path that a call is given parses to one at which there may be a file, and to
\* itself when there is one; or it is an error.
LEMMA ParseSound ==
    ASSUME NEW p \in Frame, NEW inspected \in BOOLEAN,
           ParseStepToken(p, inspected) # Error
    PROVE  LET r == ParseStepToken(p, inspected)
           IN  /\ r.path \in Path /\ r.path \in Paths \cup {Base(q) : q \in Paths}
               /\ r.step \in {NoStep} \cup 0 .. MaxVtkId
               /\ Exists(p) => r = [path |-> p, step |-> NoStep]
<1>1. p \in Path /\ (p \in Paths \/ (Len(p) # 1 /\ Base(p) \in Paths))
  BY DEF Frame
<1>2. CASE Len(p) = 1 \/ (inspected /\ Exists(p))
  <2>1. ParseStepToken(p, inspected) = [path |-> p, step |-> NoStep]
    BY <1>2 DEF ParseStepToken
  <2> QED BY <1>1, <1>2, <2>1 DEF Exists
<1>3. CASE ~(Len(p) = 1 \/ (inspected /\ Exists(p)))
  <2>1. /\ ParseStepToken(p, inspected) = [path |-> Base(p), step |-> Value[Last(p)]]
        /\ Value[Last(p)] \in 0 .. MaxVtkId /\ ~Exists(p)
    BY <1>3 DEF ParseStepToken
  <2>2. Base(p) \in Path /\ Base(p) \in Paths \cup {Base(q) : q \in Paths}
    BY <1>1, <1>3, BaseIsPath
  <2> QED BY <2>1, <2>2
<1> QED BY <1>2, <1>3

\* A token of a .vtkhdf file parses to that file's step, to something that is no
\* .vtkhdf file, or to an error.
LEMMA TokenReadsItsStep ==
    ASSUME NEW p \in Path, NEW step \in 0 .. MaxSteps, NEW inspected \in BOOLEAN,
           ParseStepToken(MakeStepToken(p, step), inspected) # Error,
           IsHdf(ParseStepToken(MakeStepToken(p, step), inspected).path)
    PROVE  ParseStepToken(MakeStepToken(p, step), inspected)
               = [path |-> p, step |-> step]
<1> DEFINE token == MakeStepToken(p, step)
           r == ParseStepToken(token, inspected)
<1>1. /\ Len(token) # 1 /\ Last(token) = Digits[step] /\ Base(token) = p
      /\ Digits[step] \in Texts /\ Value[Digits[step]] = step
  BY TokenIsPath, TokenAssumption
<1>2. step \in 0 .. MaxVtkId /\ step # NoStep
  BY TokenAssumption DEF NoStep
<1>3. ~IsHdf(token)
  BY <1>1, <1>2, TokenAssumption DEF IsHdf
<1>4. r # Error /\ IsHdf(r.path)
  OBVIOUS
<1> HIDE DEF token
<1>5. ~(inspected /\ Exists(token))
  BY <1>3, <1>4 DEF ParseStepToken
<1>6. r = [path |-> p, step |-> step]
  BY <1>1, <1>2, <1>4, <1>5 DEF ParseStepToken
<1> QED BY <1>6 DEF token

\* A .vtkhdf file parses to itself, or to an error.
LEMMA FileReadsItself ==
    ASSUME NEW p \in Path, IsHdf(p), NEW inspected \in BOOLEAN,
           ParseStepToken(p, inspected) # Error
    PROVE  ParseStepToken(p, inspected) = [path |-> p, step |-> NoStep]
<1>1. Len(p) # 1 => Last(p) \in Texts /\ Value[Last(p)] = NoStep
  BY BaseIsPath, TokenAssumption DEF IsHdf
<1>2. NoStep \notin 0 .. MaxVtkId
  BY DEF NoStep
<1> QED BY <1>1, <1>2 DEF ParseStepToken

-----------------------------------------------------------------------------
(* The invariant holds in the initial state and is kept by every step *)

\* Before any file is written nothing was read.
LEMMA InitSound == Init => IInv
<1> SUFFICES ASSUME Init PROVE IInv
  OBVIOUS
<1>1. /\ MaxSteps \in Nat /\ MaxChanges \in Nat
      /\ source.path = <<>> /\ source.count = 0
      /\ parsed = Error /\ result = Error /\ frames = <<>> /\ Len(frames) = 0
      /\ Error.path = <<>> /\ Error.step = NoStep
  BY TokenAssumption DEF Init, NoFrames, Error
<1>2. \A m \in Nat : 0 \in 0 .. m /\ NoStep \in NoStep .. m
  BY DEF NoStep
<1>3. steps \in [Paths -> NoStep .. MaxSteps]
  BY <1>1, <1>2 DEF Init
<1>4. TypeOK
  <2>1. changes \in 0 .. MaxChanges /\ source.count \in 0 .. MaxSteps
    BY <1>1, <1>2 DEF Init
  <2>2. Len(frames) <= source.count
    BY <1>1
  <2>3. pc \in {"idle", "expand", "open", "update"} /\ stayed \in BOOLEAN
    BY DEF Init
  <2>4. /\ {parsed.path, result.path} \subseteq {<<>>} /\ source.path \in {<<>>}
        /\ {parsed.step, result.step} \subseteq {NoStep}
    BY <1>1
  <2> QED BY <1>3, <2>1, <2>2, <2>3, <2>4 DEF TypeOK
<1>5. FramesSound /\ CallSound
  BY <1>1 DEF Init, FramesSound, CallSound, OfHdf
<1> QED BY <1>1, <1>4, <1>5 DEF IInv

\* A call that begins knows its path, or has thrown.
LEMMA BeginSound ==
    ASSUME TypeOK, NEW p \in Frame, NEW next \in {"expand", "open"}, Begin(p, next)
    PROVE  /\ UNCHANGED <<steps, changes>> /\ frame' = p /\ stayed' = Exists(p)
           /\ result' = Error
           /\ \E inspected \in BOOLEAN : parsed' = ParseStepToken(p, inspected)
           /\ \/ pc' = "idle" /\ parsed' = Error
              \/ /\ pc' = next /\ parsed' # Error
                 /\ parsed'.path \in Path
                 /\ parsed'.path \in Paths \cup {Base(q) : q \in Paths}
                 /\ parsed'.step \in {NoStep} \cup 0 .. MaxVtkId
                 /\ Exists(p) => parsed' = [path |-> p, step |-> NoStep]
<1>1. /\ UNCHANGED <<steps, changes>> /\ frame' = p /\ stayed' = Exists(p)
      /\ result' = Error
      /\ \E inspected \in BOOLEAN : parsed' = ParseStepToken(p, inspected)
      /\ pc' = IF parsed' = Error THEN "idle" ELSE next
  BY DEF Begin
<1>2. PICK inspected \in BOOLEAN : parsed' = ParseStepToken(p, inspected)
  BY <1>1
<1>3. CASE parsed' = Error
  BY <1>1, <1>3
<1>4. CASE parsed' # Error
  BY <1>1, <1>2, <1>4, ParseSound
<1> QED BY <1>3, <1>4

\* Its type follows.
LEMMA BeginType ==
    ASSUME TypeOK, NEW p \in Frame, NEW next \in {"expand", "open"}, Begin(p, next)
    PROVE  /\ pc' \in {"idle", "expand", "open", "update"} /\ stayed' \in BOOLEAN
           /\ {parsed'.path, result'.path}
                  \subseteq Paths \cup {Base(q) : q \in Paths} \cup {<<>>}
           /\ {parsed'.step, result'.step} \subseteq {NoStep} \cup 0 .. MaxVtkId
<1>1. Error.path = <<>> /\ Error.step = NoStep
  BY DEF Error
<1>2. stayed' \in BOOLEAN
  BY BeginSound DEF Exists
<1> QED BY <1>1, <1>2, BeginSound

\* A caller that asks for frames has none, until they are counted.
LEMMA ExpandSound ==
    ASSUME IInv, NEW p \in Paths, Expand(p)
    PROVE  IInv'
<1>1. /\ TypeOK /\ Begin(p, "expand") /\ frames = <<>> /\ frames' = <<>>
      /\ source' = NoFrames
  BY DEF IInv, Expand
<1>2. p \in Frame
  BY PathsAreParts DEF Frame
<1>3. source'.count = 0 /\ source'.path = <<>> /\ Len(frames') = 0
  BY <1>1 DEF NoFrames
<1>4. UNCHANGED <<steps, changes>>
  BY <1>1, <1>2, BeginSound
<1>5. TypeOK'
  <2>1. source'.count \in 0 .. MaxSteps /\ Len(frames') <= source'.count
    BY <1>3, TokenAssumption
  <2> QED BY <1>1, <1>2, <1>3, <1>4, <2>1, BeginType DEF TypeOK
<1>6. FramesSound' /\ ~OfHdf'
  BY <1>3 DEF FramesSound, OfHdf
<1>7. CallSound'
  BY <1>1, <1>2, <1>6, BeginSound DEF CallSound
<1> QED BY <1>1, <1>5, <1>6, <1>7 DEF IInv

\* A path that is read on its own is no frame of a file.
LEMMA ReadPathSound ==
    ASSUME IInv, NEW p \in Paths, ReadPath(p)
    PROVE  IInv'
<1>1. /\ TypeOK /\ Begin(p, "open") /\ frames = <<>> /\ frames' = <<>>
      /\ source' = NoFrames
  BY DEF IInv, ReadPath
<1>2. p \in Frame
  BY PathsAreParts DEF Frame
<1>3. source'.count = 0 /\ source'.path = <<>> /\ Len(frames') = 0
  BY <1>1 DEF NoFrames
<1>4. UNCHANGED <<steps, changes>>
  BY <1>1, <1>2, BeginSound
<1>5. TypeOK'
  <2>1. source'.count \in 0 .. MaxSteps /\ Len(frames') <= source'.count
    BY <1>3, TokenAssumption
  <2> QED BY <1>1, <1>2, <1>3, <1>4, <2>1, BeginType DEF TypeOK
<1>6. FramesSound' /\ ~OfHdf'
  BY <1>3 DEF FramesSound, OfHdf
<1>7. CallSound'
  BY <1>1, <1>2, <1>6, BeginSound DEF CallSound
<1> QED BY <1>1, <1>5, <1>6, <1>7 DEF IInv

\* A file is expanded to its frames, from the first one on.
LEMMA FramesOfFile ==
    ASSUME IInv, pc = "expand", ~IsHdf(parsed.path) \/ Readable(parsed.path)
    PROVE  LET found == FramesOf(parsed.path)
           IN  /\ found \in Seq(Frame) /\ Len(found) \in 0 .. MaxSteps
               /\ IsHdf(parsed.path) =>
                      \A i \in 1 .. Len(found) :
                          found[i] = IF Len(found) = 1 THEN parsed.path
                                     ELSE MakeStepToken(parsed.path, i - 1)
<1> DEFINE file == parsed.path
           found == FramesOf(file)
<1>1. /\ file \in Path /\ frame \in Frame
      /\ steps \in [Paths -> NoStep .. MaxSteps]
  BY PathsAreParts DEF IInv, CallSound, TypeOK, Frame
<1>2. MaxSteps \in Nat /\ MaxSteps >= 1
  BY TokenAssumption
<1>3. found = IF ~IsHdf(file) THEN <<frame>>
              ELSE IF steps[file] = 1 THEN <<file>>
              ELSE [i \in 1 .. steps[file] |-> MakeStepToken(file, i - 1)]
  BY DEF FramesOf
<1>4. ~IsHdf(file) \/ Readable(file)
  OBVIOUS
<1> HIDE DEF file, found
<1>5. CASE ~IsHdf(file)
  <2>1. found = <<frame>>
    BY <1>3, <1>5
  <2>2. found \in Seq(Frame) /\ Len(found) = 1
    BY <1>1, <2>1
  <2> QED BY <1>2, <1>5, <2>2 DEF file, found
<1>6. CASE IsHdf(file) /\ steps[file] = 1
  <2>1. found = <<file>> /\ file \in Frame
    BY <1>1, <1>3, <1>4, <1>6 DEF Readable, Exists, Frame
  <2>2. found \in Seq(Frame) /\ Len(found) = 1 /\ found[1] = file
    BY <2>1
  <2>3. \A i \in 1 .. Len(found) : found[i] = file
    BY <2>2
  <2> QED BY <1>2, <2>2, <2>3 DEF file, found
<1>7. CASE IsHdf(file) /\ steps[file] # 1
  <2>1. found = [i \in 1 .. steps[file] |-> MakeStepToken(file, i - 1)]
    BY <1>3, <1>7
  <2>2. file \in Paths /\ steps[file] \in 2 .. MaxSteps
    <3>1. file \in Paths /\ steps[file] > 0
      BY <1>4, <1>7 DEF Readable, Exists
    <3>2. steps[file] \in NoStep .. MaxSteps
      BY <1>1, <3>1
    <3>3. \A n \in NoStep .. MaxSteps : n > 0 /\ n # 1 => n \in 2 .. MaxSteps
      BY <1>2 DEF NoStep
    <3> QED BY <1>7, <3>1, <3>2, <3>3
  <2>3. \A i \in 1 .. steps[file] : MakeStepToken(file, i - 1) \in Frame
    <3>1. ASSUME NEW i \in 1 .. steps[file] PROVE MakeStepToken(file, i - 1) \in Frame
      <4>1. i - 1 \in 0 .. MaxSteps
        BY <1>2, <2>2
      <4> HIDE DEF Frame
      <4>2. /\ MakeStepToken(file, i - 1) \in Path
            /\ Len(MakeStepToken(file, i - 1)) # 1
            /\ Base(MakeStepToken(file, i - 1)) = file
        BY <1>1, <4>1, TokenIsPath
      <4> QED BY <2>2, <4>2 DEF Frame
    <3> QED BY <3>1
  <2>4. /\ found \in Seq(Frame) /\ Len(found) = steps[file]
        /\ \A i \in 1 .. Len(found) : found[i] = MakeStepToken(file, i - 1)
    BY <2>1, <2>2, <2>3
  <2>5. Len(found) # 1 /\ Len(found) \in 0 .. MaxSteps
    BY <1>2, <2>2, <2>4
  <2> QED BY <2>4, <2>5 DEF file, found
<1> QED BY <1>5, <1>6, <1>7

\* Counting the steps gives the caller its frames; none of them was read.
LEMMA CountStepsSound ==
    ASSUME IInv, CountSteps
    PROVE  IInv'
<1>1. CASE Throw
  BY <1>1 DEF Throw, IInv, TypeOK, FramesSound, CallSound, OfHdf, IsHdf, Last,
              MakeStepToken
<1>2. CASE ~Throw
  <2>1. /\ pc = "expand" /\ (~IsHdf(parsed.path) \/ Readable(parsed.path))
        /\ frames' = FramesOf(parsed.path)
        /\ source' = [path |-> parsed.path, count |-> Len(frames')]
        /\ pc' = "idle"
        /\ UNCHANGED <<steps, changes, frame, parsed, stayed, result>>
    BY <1>2 DEF CountSteps
  <2>2. /\ frames' \in Seq(Frame) /\ Len(frames') \in 0 .. MaxSteps
        /\ IsHdf(parsed.path) =>
               \A i \in 1 .. Len(frames') :
                   frames'[i] = IF Len(frames') = 1 THEN parsed.path
                                ELSE MakeStepToken(parsed.path, i - 1)
    BY <2>1, FramesOfFile
  <2>3. /\ source'.count = Len(frames') /\ source'.path = parsed.path
        /\ TypeOK /\ CallSound /\ parsed.path \in Path /\ result = Error
    BY <2>1 DEF IInv, CallSound
  <2>4. Len(frames') \in Nat
    BY <2>2
  <2>5. TypeOK'
    BY <2>1, <2>2, <2>3, <2>4 DEF TypeOK
  <2>6. FramesSound'
    <3>1. Len(frames') - Len(frames') = 0 /\ \A i \in Nat : 0 + i - 1 = i - 1
      BY <2>4
    <3>2. \A i \in 1 .. Len(frames') : i \in Nat
      BY <2>4
    <3> QED BY <2>2, <2>3, <3>1, <3>2 DEF FramesSound, OfHdf, IsHdf, Last, MakeStepToken
  <2>7. CallSound'
    BY <2>1, <2>3 DEF CallSound
  <2> QED BY <2>2, <2>5, <2>6, <2>7 DEF IInv
<1> QED BY <1>1, <1>2

\* The first frame that is left is the next one of its source, and the rest are
\* those after it.
LEMMA ReadFrameSound ==
    ASSUME IInv, ReadFrame
    PROVE  IInv'
<1>1. /\ TypeOK /\ FramesSound /\ frames \in Seq(Frame) /\ frames # <<>>
      /\ source.count \in 0 .. MaxSteps /\ Len(frames) <= source.count
      /\ Begin(Head(frames), "open")
      /\ frames' = Tail(frames) /\ source' = source
  BY DEF IInv, ReadFrame, TypeOK
<1>2. /\ Head(frames) \in Frame /\ Head(frames) = frames[1]
      /\ Tail(frames) \in Seq(Frame)
      /\ Len(frames) \in Nat /\ Len(frames) >= 1
      /\ Len(Tail(frames)) = Len(frames) - 1
      /\ \A i \in 1 .. Len(frames) - 1 : Tail(frames)[i] = frames[i + 1]
  <2>1. Len(frames) \in Nat /\ Len(frames) # 0
    BY <1>1, EmptySeq
  <2>2. \A n \in Nat : n # 0 => n >= 1
    OBVIOUS
  <2>3. Len(frames) >= 1
    BY <2>1, <2>2
  <2>4. /\ Head(frames) \in Frame /\ Tail(frames) \in Seq(Frame)
        /\ Len(Tail(frames)) = Len(frames) - 1
        /\ \A i \in 1 .. Len(Tail(frames)) : Tail(frames)[i] = frames[i + 1]
    BY <1>1, HeadTailProperties
  <2> QED BY <1>1, <2>1, <2>3, <2>4
<1>3. source.count \in Nat /\ MaxSteps \in Nat /\ source.count <= MaxSteps
  BY <1>1, TokenAssumption
<1>4. /\ UNCHANGED <<steps, changes>> /\ frame' = Head(frames) /\ result' = Error
      /\ stayed' = Exists(Head(frames))
      /\ \E inspected \in BOOLEAN : parsed' = ParseStepToken(Head(frames), inspected)
      /\ \/ pc' = "idle" /\ parsed' = Error
         \/ /\ pc' = "open" /\ parsed' # Error
            /\ parsed'.path \in Path
            /\ Exists(Head(frames)) => parsed' = [path |-> Head(frames), step |-> NoStep]
  BY <1>1, <1>2, BeginSound
<1>5. TypeOK'
  <2>1. Len(frames') <= source'.count
    BY <1>1, <1>2, <1>3
  <2> QED BY <1>1, <1>2, <1>4, <2>1, BeginType DEF TypeOK
<1>6. FramesSound'
  <2> SUFFICES ASSUME OfHdf
               PROVE  /\ source.path \in Path
                      /\ \A i \in 1 .. Len(frames) - 1 :
                             Tail(frames)[i] =
                                 IF source.count = 1 THEN source.path
                                 ELSE MakeStepToken(source.path,
                                         source.count - (Len(frames) - 1) + i - 1)
    BY <1>1, <1>2 DEF FramesSound, OfHdf, IsHdf, Last
  <2>1. source.path \in Path
    BY <1>1 DEF FramesSound
  <2>2. ASSUME NEW i \in 1 .. Len(frames) - 1
        PROVE  Tail(frames)[i] =
                   IF source.count = 1 THEN source.path
                   ELSE MakeStepToken(source.path,
                            source.count - (Len(frames) - 1) + i - 1)
    <3>1. /\ i + 1 \in 1 .. Len(frames)
          /\ source.count - (Len(frames) - 1) + i - 1
                 = source.count - Len(frames) + (i + 1) - 1
      BY <1>2, <1>3
    <3>2. frames[i + 1] =
              IF source.count = 1 THEN source.path
              ELSE MakeStepToken(source.path, source.count - Len(frames) + (i + 1) - 1)
      BY <1>1, <3>1 DEF FramesSound
    <3> QED BY <1>2, <3>1, <3>2
  <2> QED BY <2>1, <2>2
<1>7. ASSUME OfHdf, parsed' # Error, IsHdf(parsed'.path)
      PROVE  /\ parsed'.path = source.path
             /\ \/ parsed'.step = source.count - (Len(frames) - 1) - 1
                \/ parsed'.step = NoStep /\ source.count = 1
  <2>1. /\ source.path \in Path /\ IsHdf(source.path)
        /\ frames[1] = IF source.count = 1 THEN source.path
                       ELSE MakeStepToken(source.path, source.count - Len(frames) + 1 - 1)
    BY <1>1, <1>2, <1>7 DEF FramesSound, OfHdf
  <2>2. PICK inspected \in BOOLEAN : parsed' = ParseStepToken(frames[1], inspected)
    BY <1>2, <1>4
  <2>3. CASE source.count = 1
    <3>1. parsed' = [path |-> source.path, step |-> NoStep]
      BY <1>7, <2>1, <2>2, <2>3, FileReadsItself
    <3> QED BY <2>3, <3>1
  <2>4. CASE source.count # 1
    <3>1. /\ source.count - Len(frames) + 1 - 1 = source.count - Len(frames)
          /\ source.count - (Len(frames) - 1) - 1 = source.count - Len(frames)
          /\ source.count - Len(frames) \in 0 .. MaxSteps
      BY <1>1, <1>2, <1>3
    <3>2. frames[1] = MakeStepToken(source.path, source.count - Len(frames))
      BY <2>1, <2>4, <3>1
    <3>3. parsed' = [path |-> source.path, step |-> source.count - Len(frames)]
      BY <1>7, <2>1, <2>2, <3>1, <3>2, TokenReadsItsStep
    <3> QED BY <3>1, <3>3
  <2> QED BY <2>3, <2>4
<1>8. CallSound'
  <2>1. OfHdf' = OfHdf /\ Len(frames') = Len(frames) - 1
    BY <1>1, <1>2 DEF OfHdf, IsHdf, Last
  <2> QED BY <1>1, <1>4, <1>7, <2>1 DEF CallSound, IsHdf, Last
<1> QED BY <1>1, <1>2, <1>5, <1>6, <1>8 DEF IInv

\* Every step keeps the invariant.
LEMMA NextSound == IInv /\ [Next]_vars => IInv'
<1> SUFFICES ASSUME IInv, [Next]_vars PROVE IInv'
  OBVIOUS
<1>1. ASSUME NEW p \in Paths, Expand(p) PROVE IInv'
  BY <1>1, ExpandSound
<1>2. ASSUME NEW p \in Paths, ReadPath(p) PROVE IInv'
  BY <1>2, ReadPathSound
<1>3. CASE CountSteps
  BY <1>3, CountStepsSound
<1>4. CASE ReadFrame
  BY <1>4, ReadFrameSound
<1>5. CASE Throw
  BY <1>5 DEF Throw, IInv, TypeOK, FramesSound, CallSound, OfHdf, IsHdf, Last,
              MakeStepToken
<1>6. CASE Open /\ ~Throw
  <2>1. /\ pc = "open" /\ IsHdf(parsed.path) /\ pc' = "update"
        /\ UNCHANGED <<steps, changes, source, frames, frame, parsed, stayed, result>>
    BY <1>6 DEF Open
  <2> QED BY <2>1 DEF IInv, TypeOK, FramesSound, CallSound, OfHdf, IsHdf, Last,
                     MakeStepToken
<1>7. CASE Update /\ ~Throw
  <2>1. /\ pc = "update" /\ pc' = "idle" /\ result' = parsed
        /\ UNCHANGED <<steps, changes, source, frames, frame, parsed, stayed>>
    BY <1>7 DEF Update
  <2> QED BY <2>1 DEF IInv, TypeOK, FramesSound, CallSound, OfHdf, IsHdf, Last,
                     MakeStepToken
<1>8. ASSUME NEW p \in Paths, NEW n \in NoStep .. MaxSteps, Change(p, n) PROVE IInv'
  <2>1. /\ steps' = [steps EXCEPT ![p] = n] /\ changes < MaxChanges
        /\ changes' = changes + 1
        /\ stayed' = (stayed /\ ~(p = frame /\ n = NoStep))
        /\ UNCHANGED <<source, frames, pc, frame, parsed, result>>
    BY <1>8 DEF Change
  <2>2. steps' \in [Paths -> NoStep .. MaxSteps] /\ changes' \in 0 .. MaxChanges
    BY <2>1, TokenAssumption DEF IInv, TypeOK
  <2>3. stayed' \in BOOLEAN /\ (stayed' => stayed)
    BY <2>1 DEF IInv, TypeOK
  <2>4. TypeOK'
    BY <2>1, <2>2, <2>3 DEF IInv, TypeOK
  <2>5. CallSound'
    BY <2>1, <2>3 DEF IInv, CallSound, OfHdf, IsHdf, Last
  <2> QED BY <2>1, <2>4, <2>5 DEF IInv, FramesSound, OfHdf, IsHdf, Last, MakeStepToken
<1>9. CASE UNCHANGED vars
  BY <1>9 DEF vars, call, IInv, TypeOK, FramesSound, CallSound, OfHdf, IsHdf, Last,
              MakeStepToken
<1> QED BY <1>1, <1>2, <1>3, <1>4, <1>5, <1>6, <1>7, <1>8, <1>9 DEF Next, Open, Update

-----------------------------------------------------------------------------
(* The theorems *)

\* In every behaviour the frames left are those of the file they were asked for,
\* and a running call knows its path.
THEOREM Invariance == Spec => []IInv
<1> QED BY InitSound, NextSound, PTL DEF Spec

\* Every variable keeps its type; a step that was read is a vtkIdType.
THEOREM TypeCorrect == Spec => []TypeOK
<1>1. IInv => TypeOK
  BY DEF IInv
<1> QED BY <1>1, Invariance, PTL

\* However files change between ExpandTimeSteps and ReadDataObject and within
\* both, the n-th frame gives the n-th step of its file or throws.
THEOREM FramesCorrect == Spec => []FrameReadsItsStep
<1>1. IInv => FrameReadsItsStep
  BY DEF IInv, CallSound, OfHdf, FrameReadsItsStep
<1> QED BY <1>1, Invariance, PTL

\* A path at which there is a file from the start of the call to its end is read
\* as that file, although it looks like a token.
THEOREM LiteralPathCorrect == Spec => []LiteralPathTakesPrecedence
<1>1. IInv => LiteralPathTakesPrecedence
  BY DEF IInv, CallSound, LiteralPathTakesPrecedence
<1> QED BY <1>1, Invariance, PTL

=============================================================================
