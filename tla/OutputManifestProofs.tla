------------------------ MODULE OutputManifestProofs ------------------------
(***************************************************************************)
(* Proofs about OutputManifest, for any callers, processes, files and      *)
(* catalogs, and any number of calls at once.                              *)
(***************************************************************************)
EXTENDS OutputManifest, TLAPS

-----------------------------------------------------------------------------
(* The inductive invariant: what a call relies on at each step. *)

\* While a temporary file is named.
Named == {"open", "describe", "close", "replace"}

Described(w) == {e.file : e \in entries[w]}

\* A file between its two looks is still to be described; if it has not changed,
\* its path was right, or what was read of it is what is there.
LookSound(w) ==
    looked[w] # NoFile =>
        LET f == looked[w].file
        IN  /\ pc[w] = "describe" /\ f \in todo[w]
            /\ looked[w].steady =>
                   IF f \in Pvds THEN RelativePath(f) ELSE looked[w].where = disk[f]

\* A file that stayed is there to be visited, was found, or is described.
ScanSound(w) ==
    /\ \A f \in kept[w] : Takes(f)
    /\ pc[w] = "scan" => kept[w] \subseteq todo[w] \cup files[w]
    /\ pc[w] \in {"name", "open"} => kept[w] \subseteq files[w]
    /\ pc[w] = "describe" => kept[w] \subseteq todo[w] \cup Described(w)
    /\ pc[w] \in {"close", "replace"} => kept[w] \subseteq Described(w)
    /\ \A e \in entries[w] : e.where = "outside" => ~e.steady

\* The temporary file has a number that the process has counted; from its close
\* to the rename it holds what the call wrote.
CallSound(w) ==
    /\ temp[w] # NoFile <=> pc[w] \in Named
    /\ temp[w] # NoFile => /\ temp[w].process = Process[w]
                           /\ temp[w].sequence < sequence[Process[w]]
    /\ pc[w] = "replace" => temps[temp[w]] = Document(w)
    /\ ScanSound(w)
    /\ LookSound(w)

\* No two calls have the same temporary file.
TempsApart ==
    \A v, w \in Callers : temp[w] = temp[v] /\ temp[w] # NoFile => v = w

IInv ==
    /\ TypeOK
    /\ \A w \in Callers : CallSound(w)
    /\ TempsApart
    /\ TempsBelongToCalls
    /\ PublishedIsInside

-----------------------------------------------------------------------------
(* Types *)

\* What a call is about to publish is a document.
LEMMA DocumentType ==
    ASSUME TypeOK, NEW w \in Callers
    PROVE  Document(w) \in Documents
BY DEF TypeOK, Document, Documents

\* A call that is left keeps the types.
LEMMA LeaveType ==
    ASSUME TypeOK, NEW w \in Callers, Leave(w)
    PROVE  /\ (pc \in [Callers -> Steps])'
           /\ (todo \in [Callers -> SUBSET Files])'
           /\ (files \in [Callers -> SUBSET Family])'
           /\ (looked \in [Callers -> Entries \cup {NoFile}])'
           /\ (entries \in [Callers -> SUBSET Entries])'
           /\ (temp \in [Callers -> Ids \cup {NoFile}])'
           /\ (kept \in [Callers -> SUBSET Family])'
BY DEF TypeOK, Leave, Goto, Steps

\* A number is counted.
LEMMA CountType ==
    ASSUME TypeOK, NEW p \in Processes, CountId(p)
    PROVE  (sequence \in [Processes -> 0 .. MaxSequence])'
BY OutputAssumption DEF TypeOK, CountId

\* What the counter has not reached is a number of an identity.
LEMMA IdType ==
    ASSUME TypeOK, NEW p \in Processes, NEW ticks \in Ticks, CountId(p)
    PROVE  MakeId(p, ticks) \in Ids
<1>1. sequence[p] \in 0 .. MaxSequence - 1
  BY OutputAssumption DEF CountId, TypeOK
<1> QED BY <1>1 DEF MakeId, Ids

\* Each step keeps the types.
LEMMA TypeKeeps ==
    ASSUME TypeOK, \A w \in Callers : CallSound(w), [Next]_vars
    PROVE  TypeOK'
<1>1. ASSUME NEW w \in Callers, Step(w) PROVE TypeOK'
  <2>p. Process[w] \in Processes
    BY OutputAssumption
  <2>1. CASE Call(w)
    BY <2>1 DEF Call, Goto, TypeOK, Steps
  <2>2. CASE Visit(w)
    <3>1. CASE Throw(w)
      BY <2>2, <3>1, LeaveType DEF Visit, Throw, TypeOK
    <3>2. CASE ~Throw(w)
      BY <2>2, <3>2 DEF Visit, Takes, TypeOK
    <3> QED BY <3>1, <3>2
  <2>3. CASE Validate(w)
    <3>1. (sequence \in [Processes -> 0 .. MaxSequence])'
      BY <2>p, <2>3, CountType DEF Validate, TypeOK
    <3>2. CASE Throw(w)
      BY <2>3, <3>1, <3>2, LeaveType DEF Validate, Throw, TypeOK
    <3>3. CASE ~Throw(w)
      BY <2>3, <3>1, <3>3 DEF Validate, Goto, TypeOK, Steps
    <3> QED BY <3>2, <3>3
  <2>4. CASE NameTemp(w)
    <3>1. (sequence \in [Processes -> 0 .. MaxSequence])'
      BY <2>p, <2>4, CountType DEF NameTemp
    <3>2. \A ticks \in Ticks : MakeId(Process[w], ticks) \in Ids
      BY <2>p, <2>4, IdType DEF NameTemp
    <3> QED BY <2>4, <3>1, <3>2 DEF NameTemp, Goto, TypeOK, Steps
  <2>5. CASE OpenTemp(w)
    <3>1. CASE Throw(w)
      BY <2>5, <3>1, LeaveType DEF OpenTemp, Throw, TypeOK
    <3>2. CASE ~Throw(w)
      BY <2>5, <3>2, OutputAssumption DEF OpenTemp, Goto, TypeOK, Steps
    <3> QED BY <3>1, <3>2
  <2>6. CASE Look(w) \/ Describe(w)
    <3>1. CASE Throw(w)
      BY <2>6, <3>1, LeaveType DEF Look, Describe, Throw, TypeOK
    <3>2. CASE ~Throw(w) /\ Look(w)
      <4>1. PICK f \in todo[w] :
               /\ looked' = [looked EXCEPT ![w] =
                      [file |-> f, where |-> disk[f], steady |-> TRUE]]
               /\ UNCHANGED <<pc, todo, files, entries, temp, kept, temps>>
        BY <3>2 DEF Look
      <4>2. [file |-> f, where |-> disk[f], steady |-> TRUE] \in Entries
        BY DEF TypeOK, Entries
      <4> QED BY <3>2, <4>1, <4>2 DEF Look, TypeOK
    <3>3. CASE ~Throw(w) /\ Describe(w)
      <4> DEFINE f == looked[w].file
                 where == IF f \in Pvds THEN disk[f] ELSE looked[w].where
                 entry == [file |-> f, where |-> where, steady |-> looked[w].steady]
      <4>1. /\ looked[w] # NoFile
            /\ todo' = [todo EXCEPT ![w] = @ \ {f}]
            /\ looked' = [looked EXCEPT ![w] = NoFile]
            /\ entries' = [entries EXCEPT ![w] = @ \cup {entry}]
            /\ UNCHANGED <<pc, files, temp, kept, temps, disk, changes, manifest,
                           sequence, dead>>
        BY <3>3 DEF Describe
      <4>2. looked[w] \in Entries
        BY <4>1 DEF TypeOK
      <4>3. entry \in Entries
        BY <4>2 DEF TypeOK, Entries
      <4> HIDE DEF entry
      <4> QED BY <4>1, <4>3 DEF TypeOK
    <3> QED BY <2>6, <3>1, <3>2, <3>3
  <2>7. CASE EndDescribe(w)
    BY <2>7 DEF EndDescribe, Goto, TypeOK, Steps
  <2>8. CASE CloseTemp(w)
    <3>1. CASE Throw(w)
      BY <2>8, <3>1, LeaveType DEF CloseTemp, Throw, TypeOK
    <3>2. CASE ~Throw(w)
      BY <2>8, <3>2, DocumentType DEF CloseTemp, Goto, TypeOK, Steps
    <3> QED BY <3>1, <3>2
  <2>9. CASE Replace(w)
    <3>1. temp[w] \in Ids
      BY <2>9 DEF Replace, At, TypeOK, CallSound, Named
    <3>2. (manifest \in Documents \cup {NoFile, Torn})'
      BY <2>9, <3>1 DEF Replace, TypeOK
    <3>3. Leave(w) /\ (temps \in [Ids -> Documents \cup {NoFile, Torn}])'
      BY <2>9 DEF Replace, Throw, TypeOK
    <3> QED BY <2>9, <3>2, <3>3, LeaveType DEF Replace, TypeOK
  <2> QED BY <1>1, <2>1, <2>2, <2>3, <2>4, <2>5, <2>6, <2>7, <2>8, <2>9 DEF Step
<1>2. ASSUME NEW f \in Files, NEW where \in Wheres, Change(f, where) PROVE TypeOK'
  <2>1. changes' \in 0 .. MaxChanges
    BY <1>2, OutputAssumption DEF Change, TypeOK
  <2>2. (looked \in [Callers -> Entries \cup {NoFile}])'
    <3>1. \A entry \in Entries : [entry EXCEPT !.steady = FALSE] \in Entries
      BY DEF Entries
    <3> QED BY <1>2, <3>1 DEF Change, TypeOK
  <2> QED BY <1>2, <2>1, <2>2 DEF Change, TypeOK
<1>3. ASSUME NEW p \in Processes, Die(p) PROVE TypeOK'
  BY <1>3 DEF Die, TypeOK, Steps
<1>4. CASE UNCHANGED vars
  BY <1>4 DEF vars, locals, TypeOK
<1> QED BY <1>1, <1>2, <1>3, <1>4 DEF Next


-----------------------------------------------------------------------------
(* Other calls *)

\* What the invariant says of a call is about its own variables, its own
\* temporary file, and the files that it keeps or has looked at.
Same(w) ==
    /\ pc'[w] = pc[w] /\ todo'[w] = todo[w] /\ files'[w] = files[w]
    /\ entries'[w] = entries[w] /\ temp'[w] = temp[w]
    /\ \/ /\ looked'[w] = looked[w]
          /\ looked[w] # NoFile => disk'[looked[w].file] = disk[looked[w].file]
       \/ looked[w] # NoFile /\ looked'[w] = [looked[w] EXCEPT !.steady = FALSE]
    /\ kept'[w] \subseteq kept[w]
    /\ \A f \in kept'[w] : disk'[f] = disk[f]
    /\ sequence'[Process[w]] >= sequence[Process[w]]
    /\ temp[w] # NoFile => temps'[temp[w]] = temps[temp[w]]

\* A call that does nothing stays sound.
LEMMA SameKeeps ==
    ASSUME TypeOK, TypeOK', NEW w \in Callers, CallSound(w), Same(w)
    PROVE  CallSound(w)'
<1>1. ScanSound(w)'
  BY DEF Same, CallSound, ScanSound, Takes, Described
<1>2. ASSUME temp'[w] # NoFile
      PROVE  /\ temp'[w].process = Process[w]
             /\ temp'[w].sequence < sequence'[Process[w]]
  <2>1. Process[w] \in Processes /\ temp[w] \in Ids
    BY <1>2, OutputAssumption DEF Same, TypeOK
  <2>2. /\ temp[w].sequence \in Int
        /\ sequence[Process[w]] \in Int /\ sequence'[Process[w]] \in Int
    BY <2>1 DEF TypeOK, Ids
  <2> QED BY <1>2, <2>2 DEF Same, CallSound
<1>3. pc'[w] = "replace" => temps'[temp'[w]] = Document(w)'
  BY DEF Same, CallSound, Document, Named
<1>4. LookSound(w)'
  <2>1. CASE /\ looked'[w] = looked[w]
             /\ looked[w] # NoFile => disk'[looked[w].file] = disk[looked[w].file]
    BY <2>1 DEF Same, CallSound, LookSound, RelativePath
  <2>2. CASE looked[w] # NoFile /\ looked'[w] = [looked[w] EXCEPT !.steady = FALSE]
    <3>1. looked[w] \in Entries
      BY <2>2 DEF TypeOK
    <3>2. looked'[w].file = looked[w].file /\ ~looked'[w].steady
      BY <2>2, <3>1 DEF Entries
    <3> QED BY <2>2, <3>2 DEF Same, CallSound, LookSound
  <2> QED BY <2>1, <2>2 DEF Same
<1> QED BY <1>1, <1>2, <1>3, <1>4 DEF Same, CallSound

\* The step of a call leaves the others alone, whose files are not its own.
Alone(w) ==
    /\ \A v \in Callers \ {w} :
          /\ pc'[v] = pc[v] /\ todo'[v] = todo[v] /\ files'[v] = files[v]
          /\ looked'[v] = looked[v] /\ entries'[v] = entries[v]
          /\ temp'[v] = temp[v] /\ kept'[v] = kept[v]
    /\ UNCHANGED <<disk, dead>>
    /\ \A p \in Processes : sequence'[p] >= sequence[p]
    /\ \A id \in Ids : temps'[id] # temps[id] => temp[w] = id

\* A step that touches no temporary file but its caller's own leaves the other calls
\* as sound as they were.
LEMMA OthersKeep ==
    ASSUME IInv, TypeOK', NEW w \in Callers, Alone(w)
    PROVE  \A v \in Callers \ {w} : CallSound(v)'
<1> SUFFICES ASSUME NEW v \in Callers \ {w} PROVE CallSound(v)'
  OBVIOUS
<1>1. Process[v] \in Processes /\ (temp[v] # NoFile => temp[v] \in Ids)
  BY OutputAssumption DEF IInv, TypeOK
<1>2. temp[v] # NoFile => temps'[temp[v]] = temps[temp[v]]
  BY <1>1 DEF Alone, IInv, TempsApart
<1>3. Same(v)
  BY <1>1, <1>2 DEF Alone, Same
<1> QED BY <1>3, SameKeeps DEF IInv

\* The counter only grows.
LEMMA CountGrows ==
    ASSUME TypeOK, NEW p \in Processes, CountId(p) \/ UNCHANGED sequence
    PROVE  \A q \in Processes : sequence'[q] >= sequence[q]
BY DEF TypeOK, CountId

\* Every step of a call is of that kind, and no counter goes back.
LEMMA StepIsAlone ==
    ASSUME TypeOK, NEW w \in Callers, Step(w)
    PROVE  Alone(w)
<1>p. Process[w] \in Processes
  BY OutputAssumption
<1>1. \A p \in Processes : sequence'[p] >= sequence[p]
  <2>1. CountId(Process[w]) \/ UNCHANGED sequence
    BY
       DEF Step, Call, Visit, Validate, NameTemp, OpenTemp, Look, Describe,
           EndDescribe, CloseTemp, Replace
  <2> QED BY <1>p, <2>1, CountGrows
<1>2. CASE Call(w) \/ NameTemp(w) \/ EndDescribe(w)
  BY <1>1, <1>2 DEF Call, NameTemp, EndDescribe, Goto, Alone, TypeOK
<1>3. CASE Visit(w) \/ Validate(w)
  BY <1>1, <1>3 DEF Visit, Validate, Throw, Leave, Goto, Alone, TypeOK
<1>4. CASE OpenTemp(w) \/ Look(w) \/ Describe(w)
  BY <1>1, <1>4 DEF OpenTemp, Look, Describe, Throw, Leave, Goto, Alone, TypeOK
<1>5. CASE CloseTemp(w) \/ Replace(w)
  BY <1>1, <1>5 DEF CloseTemp, Replace, Throw, Leave, Goto, Alone, TypeOK
<1> QED BY <1>2, <1>3, <1>4, <1>5 DEF Step

\* A step of a call that goes on with the temporary file it has, or none.
LEMMA StepKeeps ==
    ASSUME IInv, TypeOK', NEW w \in Callers, Alone(w), UNCHANGED <<temp, manifest>>,
           CallSound(w)'
    PROVE  IInv'
<1>1. TempsApart'
  BY DEF IInv, TempsApart
<1>2. TempsBelongToCalls'
  BY DEF Alone, IInv, TempsBelongToCalls
<1>3. PublishedIsInside'
  BY DEF IInv, PublishedIsInside
<1> QED BY <1>1, <1>2, <1>3, OthersKeep DEF IInv

\* A call that is left has nothing any more, and takes its temporary file along.
LEMMA LeaveKeeps ==
    ASSUME IInv, TypeOK', NEW w \in Callers, Leave(w), UNCHANGED <<disk, dead>>,
           \A p \in Processes : sequence'[p] >= sequence[p],
           temps' = IF temp[w] = NoFile THEN temps
                    ELSE [temps EXCEPT ![temp[w]] = NoFile],
           PublishedIsInside'
    PROVE  IInv'
<1>1. Alone(w)
  BY DEF Alone, Leave, Goto, IInv, TypeOK
<1>2. /\ pc'[w] = "idle" /\ temp'[w] = NoFile /\ kept'[w] = {} /\ entries'[w] = {}
      /\ looked'[w] = NoFile
      /\ \A v \in Callers \ {w} : temp'[v] = temp[v]
  BY DEF Leave, Goto, IInv, TypeOK
<1>3. CallSound(w)'
  BY <1>2 DEF CallSound, ScanSound, LookSound, Named
<1>4. TempsApart'
  BY <1>2 DEF IInv, TempsApart
<1>5. TempsBelongToCalls'
  <2> SUFFICES ASSUME NEW id \in Ids, temps'[id] # NoFile
               PROVE  id.process \in dead \/ \E v \in Callers : temp'[v] = id
    BY DEF TempsBelongToCalls
  <2>1. temps[id] # NoFile /\ temp[w] # id
    BY OutputAssumption DEF IInv, TypeOK
  <2>2. id.process \in dead \/ \E v \in Callers : temp[v] = id
    BY <2>1 DEF IInv, TempsBelongToCalls
  <2> QED BY <1>2, <2>1, <2>2
<1> QED BY <1>1, <1>3, <1>4, <1>5, OthersKeep DEF IInv

-----------------------------------------------------------------------------
(* The steps *)

\* What throws leaves.
LEMMA ThrowKeeps ==
    ASSUME IInv, TypeOK', NEW w \in Callers, Throw(w), UNCHANGED <<disk, dead, manifest>>,
           \A p \in Processes : sequence'[p] >= sequence[p]
    PROVE  IInv'
<1>1. PublishedIsInside'
  BY DEF IInv, PublishedIsInside
<1> QED BY <1>1, LeaveKeeps DEF Throw

\* The steps of a call before it has a temporary file.
LEMMA ScanKeeps ==
    ASSUME IInv, TypeOK', NEW w \in Callers
    PROVE  Call(w) \/ Visit(w) \/ Validate(w) \/ NameTemp(w) => IInv'
<1>a. Call(w) \/ Visit(w) \/ Validate(w) \/ NameTemp(w) => Alone(w)
  BY StepIsAlone DEF Step, IInv
<1>p. Process[w] \in Processes
  BY OutputAssumption
<1>0. UNCHANGED sequence => \A p \in Processes : sequence'[p] >= sequence[p]
  BY DEF IInv, TypeOK
<1>1. ASSUME Call(w) PROVE IInv'
  <2>1. Alone(w) /\ UNCHANGED <<temp, manifest>>
    BY <1>a, <1>1 DEF Call
  <2>2. /\ pc'[w] = "scan" /\ pc[w] = "idle" /\ entries'[w] = entries[w]
        /\ kept'[w] = {f \in Family : disk[f] = "inside"} /\ todo'[w] = Files
    BY <1>1 DEF Call, At, Goto, IInv, TypeOK
  <2>3. CallSound(w)'
    BY <2>1, <2>2, <1>1, OutputAssumption
       DEF Call, IInv, CallSound, ScanSound, LookSound, Takes, Named
  <2> QED BY <2>1, <2>3, StepKeeps
<1>2. ASSUME Visit(w) PROVE IInv'
  <2>1. CASE Throw(w)
    BY <1>0, <1>2, <2>1, ThrowKeeps DEF Visit
  <2>2. CASE ~Throw(w)
    <3>1. PICK f \in todo[w] :
             /\ todo' = [todo EXCEPT ![w] = @ \ {f}]
             /\ files' = [files EXCEPT ![w] = IF Takes(f) THEN @ \cup {f} ELSE @]
             /\ UNCHANGED <<pc, looked, entries, temp, kept, temps>>
      BY <1>2, <2>2 DEF Visit
    <3>2. Alone(w) /\ UNCHANGED <<temp, manifest>>
      BY <1>a, <1>2, <3>1 DEF Visit
    <3>3. CallSound(w)'
      BY <1>2, <3>1
         DEF Visit, At, IInv, TypeOK, CallSound, ScanSound, LookSound, Takes, Named,
             Described
    <3> QED BY <3>2, <3>3, StepKeeps
  <2> QED BY <2>1, <2>2
<1>3. ASSUME Validate(w) PROVE IInv'
  <2>1. \A p \in Processes : sequence'[p] >= sequence[p]
    BY <1>p, <1>3, CountGrows DEF Validate, IInv
  <2>2. CASE Throw(w)
    BY <1>3, <2>1, <2>2, ThrowKeeps DEF Validate
  <2>3. CASE ~Throw(w)
    <3>1. Goto(w, "name") /\ UNCHANGED <<todo, files, looked, entries, temp, kept, temps>>
      BY <1>3, <2>3 DEF Validate
    <3>2. Alone(w) /\ UNCHANGED <<temp, manifest>>
      BY <1>a, <1>3, <3>1 DEF Validate
    <3>3. CallSound(w)'
      BY <1>3, <3>1
         DEF Validate, At, Goto, IInv, TypeOK, CallSound, ScanSound, LookSound,
             Takes, Named, Described
    <3> QED BY <3>2, <3>3, StepKeeps
  <2> QED BY <2>2, <2>3
<1>4. ASSUME NameTemp(w) PROVE IInv'
  <2>1. \A p \in Processes : sequence'[p] >= sequence[p]
    BY <1>p, <1>4, CountGrows DEF NameTemp, IInv
  <2>2. PICK ticks \in Ticks : temp' = [temp EXCEPT ![w] = MakeId(Process[w], ticks)]
    BY <1>4 DEF NameTemp
  <2>3. Alone(w) /\ UNCHANGED <<temps, manifest, dead>>
    BY <1>a, <1>4, <2>1 DEF NameTemp
  <2>4. /\ temp'[w].process = Process[w]
        /\ temp'[w].sequence = sequence[Process[w]]
        /\ sequence'[Process[w]] = sequence[Process[w]] + 1
        /\ temp[w] = NoFile /\ temp'[w] # NoFile
    <3>1. MakeId(Process[w], ticks) \in Ids
      BY <1>p, <1>4, IdType DEF NameTemp, IInv
    <3> QED
      BY <1>p, <1>4, <2>2, <3>1, OutputAssumption
         DEF NameTemp, At, CountId, MakeId, IInv, TypeOK, CallSound, Named
  <2>5. CallSound(w)'
    <3>1. temp'[w].sequence < sequence'[Process[w]]
      BY <1>p, <2>4 DEF IInv, TypeOK
    <3>2. pc'[w] = "open" /\ pc[w] = "name"
      BY <1>4 DEF NameTemp, At, Goto, IInv, TypeOK
    <3>3. ScanSound(w)'
      BY <1>4, <3>2 DEF NameTemp, IInv, CallSound, ScanSound, Takes, Described
    <3>4. LookSound(w)'
      BY <1>4, <3>2 DEF NameTemp, IInv, CallSound, LookSound
    <3> QED BY <2>4, <3>1, <3>2, <3>3, <3>4 DEF CallSound, Named
  <2>6. ASSUME NEW v \in Callers \ {w}, temp'[v] # NoFile PROVE temp'[v] # temp'[w]
    <3>1. temp'[v] = temp[v]
      BY <2>3 DEF Alone
    <3>2. temp[v].process = Process[w] => temp[v].sequence < sequence[Process[w]]
      BY <2>6, <3>1 DEF IInv, CallSound
    <3>3. sequence[Process[w]] \in Int
      BY <1>p DEF IInv, TypeOK
    <3> QED BY <2>4, <3>1, <3>2, <3>3
  <2>7. TempsApart'
    BY <2>3, <2>6 DEF IInv, TempsApart, Alone
  <2>8. TempsBelongToCalls'
    <3>1. \A v \in Callers \ {w} : temp'[v] = temp[v]
      BY <2>3 DEF Alone
    <3>2. \A id \in Ids : id # NoFile
      BY OutputAssumption
    <3> QED BY <2>3, <2>4, <3>1, <3>2 DEF IInv, TempsBelongToCalls
  <2>9. PublishedIsInside'
    BY <2>3 DEF IInv, PublishedIsInside
  <2> QED BY <2>3, <2>5, <2>7, <2>8, <2>9, OthersKeep DEF IInv
<1> QED BY <1>1, <1>2, <1>3, <1>4

\* The steps of a call that has a temporary file.
LEMMA WriteKeeps ==
    ASSUME IInv, TypeOK', NEW w \in Callers
    PROVE  /\ OpenTemp(w) \/ Look(w) \/ Describe(w) \/ EndDescribe(w) => IInv'
           /\ CloseTemp(w) \/ Replace(w) => IInv'
<1>a. \/ OpenTemp(w) \/ Look(w) \/ Describe(w) \/ EndDescribe(w)
      \/ CloseTemp(w)
      => Alone(w)
  BY StepIsAlone DEF Step, IInv
<1>0. UNCHANGED sequence => \A p \in Processes : sequence'[p] >= sequence[p]
  BY DEF IInv, TypeOK
<1>1. ASSUME OpenTemp(w) PROVE IInv'
  <2>1. CASE Throw(w)
    BY <1>0, <1>1, <2>1, ThrowKeeps DEF OpenTemp
  <2>2. CASE ~Throw(w)
    <3>1. Alone(w) /\ UNCHANGED <<temp, manifest>>
      BY <1>a, <1>1, <2>2 DEF OpenTemp
    <3>2. CallSound(w)'
      BY <1>1, <2>2
         DEF OpenTemp, At, Goto, IInv, TypeOK, CallSound, ScanSound, LookSound,
             Takes, Named, Described
    <3> QED BY <3>1, <3>2, StepKeeps
  <2> QED BY <2>1, <2>2
<1>6. ASSUME Look(w) PROVE IInv'
  <2>1. CASE Throw(w)
    BY <1>0, <1>6, <2>1, ThrowKeeps DEF Look
  <2>2. CASE ~Throw(w)
    <3>1. PICK f \in todo[w] :
             /\ f \in Pvds => RelativePath(f)
             /\ looked' = [looked EXCEPT ![w] =
                    [file |-> f, where |-> disk[f], steady |-> TRUE]]
             /\ UNCHANGED <<pc, todo, files, entries, temp, kept, temps>>
      BY <1>6, <2>2 DEF Look
    <3>2. Alone(w) /\ UNCHANGED <<temp, manifest, disk>>
      BY <1>a, <1>6, <3>1 DEF Look
    <3>3. pc[w] = "describe" /\ looked'[w] = [file |-> f, where |-> disk[f], steady |-> TRUE]
      BY <1>6, <3>1 DEF Look, At, IInv, TypeOK
    <3>4. LookSound(w)'
      BY <3>1, <3>2, <3>3 DEF LookSound, RelativePath
    <3>5. ScanSound(w)'
      BY <3>1, <3>2 DEF IInv, CallSound, ScanSound, Takes, Described
    <3>6. CallSound(w)'
      BY <1>6, <3>1, <3>3, <3>4, <3>5 DEF Look, IInv, CallSound, Named
    <3> QED BY <3>2, <3>6, StepKeeps
  <2> QED BY <2>1, <2>2
<1>2. ASSUME Describe(w) PROVE IInv'
  <2>1. CASE Throw(w)
    BY <1>0, <1>2, <2>1, ThrowKeeps DEF Describe
  <2>2. CASE ~Throw(w)
    <3> DEFINE f == looked[w].file
               where == IF f \in Pvds THEN disk[f] ELSE looked[w].where
               entry == [file |-> f, where |-> where, steady |-> looked[w].steady]
    <3>1. /\ looked[w] # NoFile
          /\ f \notin Pvds => RelativePath(f)
          /\ todo' = [todo EXCEPT ![w] = @ \ {f}]
          /\ looked' = [looked EXCEPT ![w] = NoFile]
          /\ entries' = [entries EXCEPT ![w] = @ \cup {entry}]
          /\ UNCHANGED <<pc, files, temp, kept, temps>>
      BY <1>2, <2>2 DEF Describe
    <3>2. Alone(w) /\ UNCHANGED <<temp, manifest>>
      BY <1>a, <1>2, <3>1 DEF Describe
    <3>3. entry.file = f /\ (entry.where = "outside" => ~entry.steady)
      BY <3>1 DEF IInv, CallSound, LookSound, RelativePath
    <3> HIDE DEF entry
    <3>4. /\ pc'[w] = "describe" /\ pc[w] = "describe" /\ kept'[w] = kept[w]
          /\ UNCHANGED disk
          /\ todo'[w] = todo[w] \ {f} /\ looked'[w] = NoFile
          /\ entries'[w] = entries[w] \cup {entry}
      BY <1>2, <3>1 DEF Describe, At, IInv, TypeOK
    <3>5. Described(w)' = Described(w) \cup {f}
      <4>1. \A g : g \in Described(w)' <=> \E e \in entries[w] \cup {entry} : g = e.file
        BY <3>4 DEF Described
      <4>2. \A g : g \in Described(w) <=> \E e \in entries[w] : g = e.file
        BY DEF Described
      <4> QED BY <3>3, <4>1, <4>2
    <3>6. ScanSound(w)'
      BY <3>3, <3>4, <3>5 DEF IInv, CallSound, ScanSound, Takes
    <3>7. CallSound(w)'
      BY <1>2, <3>1, <3>4, <3>6 DEF Describe, IInv, CallSound, LookSound, Named
    <3> QED BY <3>2, <3>7, StepKeeps
  <2> QED BY <2>1, <2>2
<1>3. ASSUME EndDescribe(w) PROVE IInv'
  <2>1. Alone(w) /\ UNCHANGED <<temp, manifest>>
    BY <1>a, <1>3 DEF EndDescribe
  <2>2. CallSound(w)'
    BY <1>3
       DEF EndDescribe, At, Goto, IInv, TypeOK, CallSound, ScanSound, LookSound,
           Takes, Named, Described
  <2> QED BY <2>1, <2>2, StepKeeps
<1>4. ASSUME CloseTemp(w) PROVE IInv'
  <2>1. CASE Throw(w)
    BY <1>0, <1>4, <2>1, ThrowKeeps DEF CloseTemp
  <2>2. CASE ~Throw(w)
    <3>1. /\ temps' = [temps EXCEPT ![temp[w]] = Document(w)]
          /\ Goto(w, "replace") /\ UNCHANGED <<todo, files, looked, entries, temp, kept>>
      BY <1>4, <2>2 DEF CloseTemp
    <3>2. Alone(w) /\ UNCHANGED <<temp, manifest>>
      BY <1>a, <1>4, <3>1 DEF CloseTemp
    <3>3. temp[w] \in Ids
      BY <1>4 DEF CloseTemp, At, IInv, TypeOK, CallSound, Named
    <3>4. temps'[temp'[w]] = Document(w)'
      BY <3>1, <3>3 DEF Document, IInv, TypeOK
    <3>5. ScanSound(w)'
      BY <1>4, <3>1
         DEF CloseTemp, At, Goto, IInv, TypeOK, CallSound, ScanSound, Takes, Described
    <3>6. CallSound(w)'
      BY <1>4, <3>1, <3>4, <3>5
         DEF CloseTemp, At, Goto, IInv, TypeOK, CallSound, LookSound, Named
    <3> QED BY <3>2, <3>6, StepKeeps
  <2> QED BY <2>1, <2>2
<1>5. ASSUME Replace(w) PROVE IInv'
  <2>1. CASE Throw(w) /\ UNCHANGED manifest
    BY <1>0, <1>5, <2>1, ThrowKeeps DEF Replace
  <2>2. CASE ~(Throw(w) /\ UNCHANGED manifest)
    <3>1. /\ manifest' = temps[temp[w]]
          /\ temps' = [temps EXCEPT ![temp[w]] = NoFile] /\ Leave(w)
      BY <1>5, <2>2 DEF Replace
    <3>2. temp[w] # NoFile /\ manifest' = Document(w)
      BY <1>5, <3>1 DEF Replace, At, IInv, CallSound, Named
    <3>3. PublishedIsInside'
      BY <3>2 DEF PublishedIsInside, Document, IInv, CallSound, ScanSound
    <3> QED BY <1>0, <1>5, <3>1, <3>2, <3>3, LeaveKeeps DEF Replace
  <2> QED BY <2>1, <2>2
<1> QED BY <1>1, <1>2, <1>3, <1>4, <1>5, <1>6

\* A file that changes is one that no call keeps, or holds for steady.
LEMMA ChangeKeeps ==
    ASSUME IInv, TypeOK', NEW f \in Files, NEW where \in Wheres, Change(f, where)
    PROVE  IInv'
<1>1. ASSUME NEW w \in Callers PROVE CallSound(w)'
  <2>1. Process[w] \in Processes
    BY OutputAssumption
  <2>2. \/ /\ looked'[w] = looked[w]
           /\ looked[w] # NoFile => disk'[looked[w].file] = disk[looked[w].file]
        \/ looked[w] # NoFile /\ looked'[w] = [looked[w] EXCEPT !.steady = FALSE]
    BY DEF Change, IInv, TypeOK
  <2>3. Same(w)
    BY <2>1, <2>2 DEF Change, Same, IInv, TypeOK
  <2> QED BY <2>3, SameKeeps DEF IInv
<1>2. TempsApart' /\ TempsBelongToCalls' /\ PublishedIsInside'
  BY DEF Change, IInv, TempsApart, TempsBelongToCalls, PublishedIsInside
<1> QED BY <1>1, <1>2 DEF IInv

\* What a process leaves behind is that process's.
LEMMA DieKeeps ==
    ASSUME IInv, TypeOK', NEW p \in Processes, Die(p)
    PROVE  IInv'
<1>1. ASSUME NEW w \in Callers PROVE CallSound(w)'
  <2>1. CASE Process[w] = p
    BY <2>1 DEF Die, CallSound, ScanSound, LookSound, Named
  <2>2. CASE Process[w] # p
    <3>1. Process[w] \in Processes
      BY OutputAssumption
    <3>2. Same(w)
      BY <2>2, <3>1 DEF Die, Same, IInv, TypeOK
    <3> QED BY <3>2, SameKeeps DEF IInv
  <2> QED BY <2>1, <2>2
<1>2. \A w \in Callers : temp'[w] = IF Process[w] = p THEN NoFile ELSE temp[w]
  BY DEF Die
<1>3. TempsApart'
  BY <1>2 DEF IInv, TempsApart
<1>4. TempsBelongToCalls'
  <2> SUFFICES ASSUME NEW id \in Ids, temps'[id] # NoFile
               PROVE  id.process \in dead' \/ \E w \in Callers : temp'[w] = id
    BY DEF TempsBelongToCalls
  <2>1. temps[id] # NoFile /\ dead' = dead \cup {p} /\ id # NoFile
    BY OutputAssumption DEF Die
  <2>2. CASE id.process \in dead
    BY <2>1, <2>2
  <2>3. CASE \E w \in Callers : temp[w] = id
    BY <1>2, <2>1, <2>3 DEF IInv, CallSound
  <2> QED BY <2>1, <2>2, <2>3 DEF IInv, TempsBelongToCalls
<1>5. PublishedIsInside'
  BY DEF Die, IInv, PublishedIsInside
<1> QED BY <1>1, <1>3, <1>4, <1>5 DEF IInv

\* Before any call there is nothing that could be unsound.
LEMMA InitEstablishes == Init => IInv
<1> SUFFICES ASSUME Init PROVE IInv
  OBVIOUS
<1>1. TypeOK
  BY OutputAssumption DEF Init, TypeOK, Wheres, Steps
<1>2. ASSUME NEW w \in Callers PROVE CallSound(w)
  BY DEF Init, CallSound, ScanSound, LookSound, Named
<1>3. TempsApart /\ TempsBelongToCalls /\ PublishedIsInside
  BY OutputAssumption DEF Init, TempsApart, TempsBelongToCalls, PublishedIsInside
<1> QED BY <1>1, <1>2, <1>3 DEF IInv

\* Every step of a caller, and every change that others make, keeps the invariant.
LEMMA NextPreserves == IInv /\ [Next]_vars => IInv'
<1> SUFFICES ASSUME IInv, [Next]_vars PROVE IInv'
  OBVIOUS
<1>0. TypeOK'
  BY TypeKeeps DEF IInv
<1>1. ASSUME NEW w \in Callers, Step(w) PROVE IInv'
  BY <1>0, <1>1, ScanKeeps, WriteKeeps DEF Step
<1>2. CASE UNCHANGED vars
  <2>1. \A w \in Callers : CallSound(w)'
    BY <1>2 DEF vars, locals, IInv, CallSound, ScanSound, LookSound, RelativePath,
                Takes, Described, Document
  <2> QED BY <1>0, <1>2, <2>1
          DEF vars, locals, IInv, TempsApart, TempsBelongToCalls, PublishedIsInside
<1> QED BY <1>0, <1>1, <1>2, ChangeKeeps, DieKeeps DEF Next

-----------------------------------------------------------------------------
(* OutputManifest implements AtomicPublication. *)

\* What a call has in flight that is about to publish is an offer.
LEMMA OfferIsReal ==
    ASSUME TypeOK, NEW w \in Callers, pc[w] \in {"close", "replace"}
    PROVE  /\ InFlight(w) = [place |-> "output_manifest.json", doc |-> Document(w)]
           /\ InFlight(w) \in Publication!Offers
           /\ InFlight(w) # Publication!NoOffer
<1>1. Document(w) \in Documents /\ Document(w) # NoFile
  BY DocumentType, OutputAssumption
<1>2. [place |-> "output_manifest.json", doc |-> Document(w)].doc # Publication!NoOffer.doc
  BY <1>1 DEF Publication!NoOffer
<1> QED BY <1>1, <1>2 DEF InFlight, Publication!Offers

\* The calls of the others have in flight what they had.
LEMMA OffersOfOthers ==
    ASSUME NEW w \in Callers, Alone(w)
    PROVE  \A v \in Callers \ {w} : InFlight(v)' = InFlight(v)
BY DEF Alone, InFlight, Document

\* A step of a call that has nothing in flight afterwards, and publishes nothing.
LEMMA StepWithdraws ==
    ASSUME NEW w \in Callers, Alone(w), UNCHANGED manifest,
           pc'[w] \notin {"close", "replace"}
    PROVE  Publication!Next
<1>1. InFlight(w)' = Publication!NoOffer
  BY DEF InFlight, Publication!NoOffer
<1>2. Publication!Withdraw({w})
  BY <1>1, OffersOfOthers DEF Publication!Withdraw
<1> QED BY <1>2 DEF Publication!Next

\* Every step of OutputManifest is one of AtomicPublication, or none.
LEMMA StepRefines ==
    ASSUME IInv, [Next]_vars
    PROVE  [Publication!Next]_(Publication!vars)
<1> DEFINE Stutter == UNCHANGED Publication!vars
<1>1. ASSUME NEW w \in Callers, Step(w) PROVE Publication!Next \/ Stutter
  <2>1. Alone(w)
    BY <1>1, StepIsAlone DEF IInv
  <2>2. CASE UNCHANGED manifest /\ pc'[w] \notin {"close", "replace"}
    BY <2>1, <2>2, StepWithdraws
  <2>3. CASE EndDescribe(w)
    <3>1. /\ pc[w] = "describe" /\ pc'[w] = "close" /\ entries'[w] = entries[w]
          /\ UNCHANGED manifest
      BY <2>3 DEF EndDescribe, At, Goto, IInv, TypeOK
    <3>2. PICK new \in Publication!Offers :
             InFlight(w) = Publication!NoOffer /\ InFlight(w)' = new
      <4> DEFINE offer == [place |-> "output_manifest.json", doc |-> Document(w)]
      <4>1. offer \in Publication!Offers
        BY DocumentType DEF IInv, Publication!Offers
      <4>2. InFlight(w)' = offer
        BY <3>1 DEF InFlight, Document
      <4>3. InFlight(w) = Publication!NoOffer
        BY <3>1 DEF InFlight, Publication!NoOffer
      <4> QED BY <4>1, <4>2, <4>3
    <3>3. [v \in Callers |-> InFlight(v)]' =
             [[v \in Callers |-> InFlight(v)] EXCEPT ![w] = new]
      BY <2>1, <3>2, OffersOfOthers
    <3>4. Publication!Offer(w)
      BY <3>1, <3>2, <3>3 DEF Publication!Offer
    <3> QED BY <3>4 DEF Publication!Next
  <2>4. CASE CloseTemp(w) /\ pc'[w] \in {"close", "replace"}
    <3>1. pc[w] = "close" /\ UNCHANGED <<entries, manifest>>
      BY <2>4 DEF CloseTemp, At, Throw, Leave, Goto, IInv, TypeOK
    <3>2. InFlight(w)' = InFlight(w)
      BY <2>4, <3>1 DEF InFlight, Document
    <3> QED BY <2>1, <3>1, <3>2, OffersOfOthers DEF Publication!vars
  <2>5. CASE Replace(w) /\ ~UNCHANGED manifest
    <3>1. /\ pc[w] = "replace" /\ pc'[w] = "idle"
          /\ manifest' = Document(w)
      BY <2>5 DEF Replace, At, Leave, Goto, IInv, TypeOK, CallSound
    <3>2. /\ InFlight(w) = [place |-> "output_manifest.json", doc |-> Document(w)]
          /\ InFlight(w) # Publication!NoOffer
          /\ InFlight(w)' = Publication!NoOffer
      BY <3>1, OfferIsReal DEF IInv, InFlight, Publication!NoOffer
    <3>3. [v \in Callers |-> InFlight(v)]' =
             [[v \in Callers |-> InFlight(v)] EXCEPT ![w] = Publication!NoOffer]
      BY <2>1, <3>2, OffersOfOthers
    <3>4. [place \in {"output_manifest.json"} |-> manifest]' =
             [[place \in {"output_manifest.json"} |-> manifest]
                 EXCEPT ![InFlight(w).place] = InFlight(w).doc]
      BY <3>1, <3>2
    <3>5. Publication!Publish(w)
      BY <3>2, <3>3, <3>4 DEF Publication!Publish
    <3> QED BY <3>5 DEF Publication!Next
  <2>6. CASE Call(w) \/ Visit(w) \/ Validate(w) \/ NameTemp(w)
    <3>1. UNCHANGED manifest /\ pc'[w] \notin {"close", "replace"}
      BY <2>6 DEF Call, Visit, Validate, NameTemp, At, Throw, Leave, Goto, IInv, TypeOK
    <3> QED BY <2>2, <3>1
  <2>7. CASE OpenTemp(w) \/ Look(w) \/ Describe(w)
    <3>1. UNCHANGED manifest /\ pc'[w] \notin {"close", "replace"}
      BY <2>7 DEF OpenTemp, Look, Describe, At, Throw, Leave, Goto, IInv, TypeOK
    <3> QED BY <2>2, <3>1
  <2>8. CASE CloseTemp(w) /\ pc'[w] \notin {"close", "replace"}
    BY <2>2, <2>8 DEF CloseTemp
  <2>9. CASE Replace(w) /\ UNCHANGED manifest
    <3>1. pc'[w] \notin {"close", "replace"}
      BY <2>9 DEF Replace, Throw, Leave, Goto, IInv, TypeOK
    <3> QED BY <2>2, <2>9, <3>1
  <2> QED BY <1>1, <2>3, <2>4, <2>5, <2>6, <2>7, <2>8, <2>9 DEF Step
<1>2. ASSUME NEW f \in Files, NEW where \in Wheres, Change(f, where) PROVE Stutter
  BY <1>2 DEF Change, Publication!vars, InFlight, Document
<1>3. ASSUME NEW p \in Processes, Die(p) PROVE Publication!Next
  <2> DEFINE gone == {w \in Callers : Process[w] = p}
  <2>1. \A w \in Callers : InFlight(w)' = IF w \in gone THEN Publication!NoOffer
                                           ELSE InFlight(w)
    BY <1>3 DEF Die, InFlight, Document, Publication!NoOffer
  <2>2. Publication!Withdraw(gone)
    BY <1>3, <2>1 DEF Die, Publication!Withdraw
  <2> QED BY <2>2 DEF Publication!Next
<1>4. CASE UNCHANGED vars
  BY <1>4 DEF vars, locals, Publication!vars, InFlight, Document
<1> QED BY <1>1, <1>2, <1>3, <1>4 DEF Next

-----------------------------------------------------------------------------
(* The theorems *)

\* The invariant holds in every run.
THEOREM Invariance == Spec => []IInv
BY InitEstablishes, NextPreserves, PTL DEF Spec

\* Every variable keeps its type.
THEOREM TypeCorrect == Spec => []TypeOK
<1>1. IInv => TypeOK
  BY DEF IInv
<1> QED BY <1>1, Invariance, PTL

\* A temporary file that is left is of a call in progress, or of a process that
\* died: whatever throws, TemporaryOutputManifestFile removes its own.
THEOREM TempsCorrect == Spec => []TempsBelongToCalls
<1>1. IInv => TempsBelongToCalls
  BY DEF IInv
<1> QED BY <1>1, Invariance, PTL

\* Nothing outside of the output directory is described in a manifest, whatever
\* takes the place of a file after the scan (RelativePath asks again), unless it
\* does so between RelativePath's look at the file and the one at what it holds.
THEOREM ListingIsInside == Spec => []PublishedIsInside
<1>1. IInv => PublishedIsInside
  BY DEF IInv
<1> QED BY <1>1, Invariance, PTL

\* A VTK file that was there when the call began, and stayed, is described in
\* what the call publishes.
THEOREM ListingIsComplete == Spec => []DescribesWhatStayed
<1>1. IInv => DescribesWhatStayed
  BY DEF IInv, CallSound, ScanSound, Described, DescribesWhatStayed
<1> QED BY <1>1, Invariance, PTL

\* Readers of output_manifest.json find none or a whole one that a call had set
\* out to publish, with any number of calls, failures and deaths.
THEOREM PublicationCorrect == Spec => ManifestIsAtomic
<1>1. Init => Publication!Init
  BY DEF Init, Publication!Init, InFlight, Publication!NoOffer
<1>2. IInv /\ [Next]_vars => [Publication!Next]_(Publication!vars)
  BY StepRefines
<1> QED BY <1>1, <1>2, Invariance, PTL
        DEF Spec, ManifestIsAtomic, Publication!Spec

=============================================================================
