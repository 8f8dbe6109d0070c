---------------------- MODULE DistributedOutputProofs ----------------------
(***************************************************************************)
(* Proofs about RankAwareOutput and DistributedOutput, for any number of   *)
(* ranks, jobs, files and restarts.  First the library, called in any      *)
(* order.  Then a distributed run: it makes the library's calls as         *)
(* RankAwareOutput lets any caller make them, so what is proved of the     *)
(* library holds in every distributed run; and what the order of Program   *)
(* gives beyond that: what its barriers give and the run identity does not.*)
(***************************************************************************)
EXTENDS DistributedOutput, TLAPS

-----------------------------------------------------------------------------
(* The inductive invariant: what the rest of a call relies on at each step. *)

Validating == {"read", "check", "assemble", "fill"}

\* The loop of a validating call stays within the job, that of an assembly runs
\* to its last rank; the shards it has been through, those before loop.next and
\* from "check" on that one too, belong to the run, and still do.
LoopSound(r) ==
    /\ loop[r].next <= loop[r].last
    /\ loop[r].last < job.world
    /\ loop[r].assembling => loop[r].last = job.world - 1
    /\ pc[r] \in {"assemble", "fill"} =>
          loop[r].assembling /\ loop[r].next = loop[r].last
    /\ loop[r].assembling =>
          \A k \in World :
             (k < loop[r].next \/ (k = loop[r].next /\ pc[r] # "read"))
             => BelongsToRun(k)

\* Only ranks of the job are inside a call.  A rank publishes under an identity
\* that the validator accepts, and renames the partial file it wrote.  The file
\* that "fill" goes on writing is there.
RankSound(r) ==
    /\ pc[r] \notin {"idle", "threw"} => r \in World
    /\ pc[r] \in Publishing => SafeIdentity
    /\ pc[r] = "rename" => partial[Dir(r)] = Manifest(r)
    /\ pc[r] \in Validating => LoopSound(r)
    /\ pc[r] = "fill" => assembly \in Assemblies

RanksSound == \A r \in Ranks : RankSound(r)

\* A shard manifest is whole, comes from a job already started, and belongs to
\* the running job when that job wrote it.
ManifestsSound ==
    /\ \A d \in Dirs : manifest[d] # Torn
    /\ \A d \in Dirs : manifest[d] \in ShardManifests =>
                          manifest[d].attempt <= attempt
    /\ \A k \in Ranks :
          manifest[k] \in ShardManifests /\ manifest[k].attempt = attempt
          => BelongsToRun(k) /\ SafeIdentity

\* An assembly manifest comes from a job already started.
AssemblySound == assembly \in Assemblies => assembly.attempt <= attempt

IInv ==
    /\ RanksSound
    /\ ManifestsSound
    /\ AssemblySound
    /\ AssemblyCoversEveryRank

-----------------------------------------------------------------------------
(* Types *)

\* A rank writes in a directory of the output tree.
LEMMA DirType ==
    ASSUME NEW r \in Ranks
    PROVE  Dir(r) \in Dirs
BY DEF Dir, Dirs

\* The ranks of a job are ranks, and have directories.
LEMMA WorldInRanks ==
    ASSUME job \in JobSet
    PROVE  /\ World \subseteq Ranks
           /\ World \subseteq Dirs
           /\ job.world \in 1 .. MaxWorld
           /\ job.world - 1 \in Ranks
           /\ 0 \in Ranks
BY ConstantsAssumption DEF JobSet, World, Ranks, Dirs

\* The idle loop is a loop.
LEMMA NoLoopType == NoLoop \in Loops
BY ConstantsAssumption DEF NoLoop, Loops, Ranks

\* What a rank writes is a shard manifest.
LEMMA ManifestType ==
    ASSUME TypeOK, NEW r \in Ranks
    PROVE  Manifest(r) \in ShardManifests
BY DEF TypeOK, Manifest, ShardManifests, JobSet

\* An exception keeps the types.
LEMMA ThrowType ==
    ASSUME TypeOK, NEW r \in Ranks, Throw(r)
    PROVE  TypeOK'
BY NoLoopType DEF TypeOK, Throw, Leave, Goto, disk, Steps

\* Every variable keeps its type: the model assigns only states the code can be
\* in, whatever the number of ranks, jobs and files.
LEMMA TypeInductive ==
    ASSUME TypeOK, RanksSound, [Next]_vars
    PROVE  TypeOK'
<1> USE WorldInRanks, DirType, NoLoopType
<1>1. ASSUME NEW r \in Ranks, Call(r) PROVE TypeOK'
  <2>1. ASSUME NEW gen \in SUBSET Files, CallWriteShard(r, gen) PROVE TypeOK'
    <3>1. CASE Throw(r) BY <3>1, ThrowType
    <3>2. CASE Goto(r, "open") /\ generated' = [generated EXCEPT ![r] = gen]
                 /\ UNCHANGED <<loop, inventory, disk>>
      BY <3>2 DEF TypeOK, Goto, disk, Steps
    <3> QED BY <2>1, <3>1, <3>2 DEF CallWriteShard
  <2>2. ASSUME NEW k \in World, CallValidate(r, k) PROVE TypeOK'
    BY <2>2 DEF TypeOK, CallValidate, StartLoop, Goto, disk, Steps, Loops
  <2>3. CASE CallAssemble(r)
    <3>1. CASE StartLoop(r, 0, job.world - 1, TRUE)
      BY <3>1 DEF TypeOK, StartLoop, Goto, disk, Steps, Loops
    <3>2. CASE Return(r) /\ UNCHANGED disk
      BY <3>2 DEF TypeOK, Return, Leave, Goto, disk, Steps
    <3> QED BY <2>3, <3>1, <3>2 DEF CallAssemble
  <2>4. CASE Catch(r)
    BY <2>4 DEF TypeOK, Catch, Goto, disk, locals, Steps
  <2> QED BY <1>1, <2>1, <2>2, <2>3, <2>4 DEF Call
<1>2. ASSUME NEW r \in Ranks, LibraryStep(r) PROVE TypeOK'
  <2>1. CASE Throw(r) BY <2>1, ThrowType
  <2>2. CASE OpenPartial(r) /\ ~Throw(r)
    BY <2>2 DEF TypeOK, OpenPartial, Goto, locals, Steps
  <2>3. CASE ClosePartial(r) /\ ~Throw(r)
    BY <2>3, ManifestType DEF TypeOK, ClosePartial, Goto, locals, Steps
  <2>4. CASE RenamePartial(r) /\ ~Throw(r)
    BY <2>4 DEF TypeOK, RenamePartial, Return, Leave, Goto, Steps
  <2>5. CASE ReadManifest(r) /\ ~Throw(r)
    <3>1. manifest[loop[r].next] \in ShardManifests
      BY <2>5 DEF TypeOK, ReadManifest, Loops, Dirs
    <3>2. manifest[loop[r].next].files \in SUBSET Files
      BY <3>1 DEF ShardManifests
    <3> QED BY <2>5, <3>2 DEF TypeOK, ReadManifest, Goto, disk, Steps
  <2>6. CASE CheckInventory(r) /\ ~Throw(r)
    <3>1. loop[r] \in Loops BY DEF TypeOK
    <3>2. loop[r].next < loop[r].last => loop[r].next + 1 \in Ranks
      BY <3>1, ConstantsAssumption DEF Loops, Ranks
    <3>3. [loop EXCEPT ![r].next = loop[r].next + 1] \in [Ranks -> Loops]
             \/ ~(loop[r].next < loop[r].last)
      BY <3>1, <3>2 DEF TypeOK, Loops
    <3> QED BY <2>6, <3>3 DEF TypeOK, CheckInventory, Return, Leave, Goto,
                              disk, Steps
  <2>7. CASE OpenAssembly(r) /\ ~Throw(r)
    <3>1. [runId |-> job.runId, label |-> job.label, world |-> job.world,
           attempt |-> attempt, content |-> "opened"] \in Assemblies
      BY DEF TypeOK, Assemblies, JobSet
    <3> QED BY <2>7, <3>1 DEF TypeOK, OpenAssembly, Goto, locals, Steps
  <2>8. CASE FillAssembly(r)
    BY <2>8 DEF TypeOK, RanksSound, RankSound, FillAssembly, Return, Leave,
                Goto, Steps, Assemblies
  <2> QED BY <1>2, <2>1, <2>2, <2>3, <2>4, <2>5, <2>6, <2>7, <2>8
          DEF LibraryStep
<1>3. ASSUME NEW r \in Ranks, NEW some \in SUBSET Files,
             ChangePayload(r, some)
      PROVE  TypeOK'
  BY <1>3 DEF TypeOK, ChangePayload, locals
<1>4. ASSUME NEW j \in Jobs, Restart(j) PROVE TypeOK'
  BY <1>4, ConstantsAssumption DEF TypeOK, Restart, disk, Steps
<1>5. CASE UNCHANGED vars
  BY <1>5 DEF TypeOK, vars, locals, disk
<1> QED BY <1>1, <1>2, <1>3, <1>4, <1>5 DEF Next

-----------------------------------------------------------------------------
(* The inductive step *)

\* Where everything a rank relies on is left to it, it goes on relying on it.
LEMMA OthersKeep ==
    ASSUME TypeOK, RanksSound, NEW r \in Ranks,
           UNCHANGED <<job, attempt>>,
           \A q \in Ranks \ {r} : /\ pc'[q] = pc[q]
                                  /\ generated'[q] = generated[q]
                                  /\ loop'[q] = loop[q]
                                  /\ pc[q] = "rename" =>
                                        partial'[Dir(q)] = partial[Dir(q)],
           \A k \in World : BelongsToRun(k) => BelongsToRun(k)',
           assembly \in Assemblies => assembly' \in Assemblies,
           RankSound(r)'
    PROVE  RanksSound'
<1> SUFFICES ASSUME NEW q \in Ranks \ {r} PROVE RankSound(q)'
  BY DEF RanksSound
<1>1. RankSound(q) BY DEF RanksSound
<1>2. World' = World /\ SafeIdentity' = SafeIdentity /\ Dir(q)' = Dir(q)
  BY DEF World, SafeIdentity, Dir, Enabled
<1>3. Manifest(q)' = Manifest(q) BY DEF Manifest
<1>4. pc[q] \in Validating => LoopSound(q)'
  BY <1>1, <1>2 DEF RankSound, LoopSound
<1> QED BY <1>1, <1>2, <1>3, <1>4 DEF RankSound

\* Steps that leave the job, the published manifests and the assembly alone
\* keep everything that is said about those.
LEMMA QuietStep ==
    ASSUME IInv, UNCHANGED <<job, attempt, manifest, assembly>>
    PROVE  /\ World' = World
           /\ SafeIdentity' = SafeIdentity
           /\ \A k : BelongsToRun(k)' = BelongsToRun(k)
           /\ ManifestsSound'
           /\ AssemblySound'
           /\ AssemblyCoversEveryRank'
BY DEF IInv, World, SafeIdentity, BelongsToRun, ManifestsSound, AssemblySound,
       AssemblyCoversEveryRank, AssemblyOfThisJob

\* A quiet step of one rank is sound when it is for that rank.
LEMMA QuietRankStep ==
    ASSUME TypeOK, IInv, NEW r \in Ranks,
           UNCHANGED <<job, attempt, manifest, assembly>>,
           \A q \in Ranks \ {r} : /\ pc'[q] = pc[q]
                                  /\ generated'[q] = generated[q]
                                  /\ loop'[q] = loop[q]
                                  /\ pc[q] = "rename" =>
                                        partial'[Dir(q)] = partial[Dir(q)],
           RankSound(r)'
    PROVE  IInv'
BY QuietStep, OthersKeep DEF IInv

\* A rank that leaves its call, and changes no file, relies on nothing more.
LEMMA LeaveKeeps ==
    ASSUME TypeOK, IInv, NEW r \in Ranks, NEW how \in {"idle", "threw"},
           Leave(r, how), UNCHANGED disk
    PROVE  IInv'
<1>1. UNCHANGED <<job, attempt, manifest, assembly, partial>>
  BY DEF Leave, Goto, disk
<1>2. /\ pc'[r] = how
      /\ \A q \in Ranks \ {r} : /\ pc'[q] = pc[q]
                                /\ generated'[q] = generated[q]
                                /\ loop'[q] = loop[q]
  BY DEF TypeOK, Leave, Goto
<1>3. RankSound(r)' BY <1>2 DEF RankSound, Publishing, Validating
<1> QED BY <1>1, <1>2, <1>3, QuietRankStep

\* The same for an exception.
LEMMA ThrowKeeps ==
    ASSUME TypeOK, IInv, NEW r \in Ranks, Throw(r)
    PROVE  IInv'
BY LeaveKeeps DEF Throw

\* A call that starts the loop of a validation.
LEMMA StartLoopKeeps ==
    ASSUME TypeOK, IInv, NEW r \in Ranks, Idle(r),
           NEW first \in World, NEW last \in World, NEW assembling \in BOOLEAN,
           first <= last,
           assembling => first = 0 /\ last = job.world - 1,
           StartLoop(r, first, last, assembling)
    PROVE  IInv'
<1>1. UNCHANGED <<job, attempt, manifest, assembly, partial, generated>>
  BY DEF StartLoop, Goto, disk
<1>2. /\ pc'[r] = "read"
      /\ loop'[r] = [next |-> first, last |-> last, assembling |-> assembling]
      /\ \A q \in Ranks \ {r} : pc'[q] = pc[q] /\ loop'[q] = loop[q]
  BY DEF TypeOK, StartLoop, Goto
<1>3. last < job.world BY WorldInRanks DEF World, TypeOK
<1>4. LoopSound(r)'
  BY <1>1, <1>2, <1>3 DEF LoopSound, World
<1>5. RankSound(r)'
  BY <1>1, <1>2, <1>4, QuietStep DEF RankSound, Publishing, Idle
<1> QED BY <1>1, <1>2, <1>5, QuietRankStep

\* The calls themselves, and what the caller does between them.
LEMMA CallKeeps ==
    ASSUME TypeOK, IInv, NEW r \in Ranks, Call(r)
    PROVE  IInv'
<1>1. ASSUME NEW gen \in SUBSET Files, CallWriteShard(r, gen) PROVE IInv'
  <2>1. CASE Throw(r) BY <2>1, ThrowKeeps
  <2>2. CASE /\ SafeIdentity
             /\ Goto(r, "open")
             /\ generated' = [generated EXCEPT ![r] = gen]
             /\ UNCHANGED <<loop, inventory, disk>>
    <3>1. UNCHANGED <<job, attempt, manifest, assembly, partial, loop>>
      BY <2>2 DEF Goto, disk
    <3>2. /\ pc'[r] = "open"
          /\ \A q \in Ranks \ {r} : pc'[q] = pc[q] /\ generated'[q] = generated[q]
      BY <2>2 DEF TypeOK, Goto
    <3>3. r \in World BY <1>1 DEF CallWriteShard, Idle
    <3>4. RankSound(r)'
      BY <2>2, <3>1, <3>2, <3>3, QuietStep DEF RankSound, Validating
    <3> QED BY <3>1, <3>2, <3>4, QuietRankStep
  <2> QED BY <1>1, <2>1, <2>2 DEF CallWriteShard
<1>2. ASSUME NEW k \in World, CallValidate(r, k) PROVE IInv'
  <2>1. k <= k BY WorldInRanks DEF World, TypeOK
  <2> QED BY <1>2, <2>1, StartLoopKeeps DEF CallValidate
<1>3. CASE CallAssemble(r)
  <2>1. CASE StartLoop(r, 0, job.world - 1, TRUE)
    <3>1. 0 \in World /\ job.world - 1 \in World /\ 0 <= job.world - 1
      BY WorldInRanks DEF World, TypeOK
    <3>2. Idle(r) BY <1>3 DEF CallAssemble
    <3> QED BY <2>1, <3>1, <3>2, StartLoopKeeps
  <2>2. CASE Return(r) /\ UNCHANGED disk
    BY <2>2, LeaveKeeps DEF Return
  <2> QED BY <1>3, <2>1, <2>2 DEF CallAssemble
<1>4. CASE Catch(r)
  <2>1. UNCHANGED <<job, attempt, manifest, assembly, partial, loop, generated>>
    BY <1>4 DEF Catch, Goto, disk, locals
  <2>2. pc'[r] = "idle" /\ \A q \in Ranks \ {r} : pc'[q] = pc[q]
    BY <1>4 DEF TypeOK, Catch, Goto
  <2>3. RankSound(r)' BY <2>2 DEF RankSound, Publishing, Validating
  <2> QED BY <2>1, <2>2, <2>3, QuietRankStep
<1> QED BY <1>1, <1>2, <1>3, <1>4 DEF Call

\* Opening and closing the partial file: the rank's own directory, a quiet step.
LEMMA OwnDirectory ==
    ASSUME TypeOK, RanksSound, NEW r \in Ranks, NEW q \in Ranks \ {r},
           pc[r] \in Publishing, pc[q] = "rename"
    PROVE  Dir(q) # Dir(r)
<1>1. r \in World /\ q \in World
  BY DEF RanksSound, RankSound, Publishing
<1>2. job.world \in Nat BY WorldInRanks DEF TypeOK
<1>3. Enabled BY <1>1, <1>2 DEF Enabled, World
<1> QED BY <1>3 DEF Dir

\* While the partial file is opened or closed no reader finds anything new; it may be
\* renamed only when it is the rank's whole manifest.
LEMMA PartialStepKeeps ==
    ASSUME TypeOK, IInv, NEW r \in Ranks, OpenPartial(r) \/ ClosePartial(r)
    PROVE  IInv'
<1>1. CASE Throw(r) BY <1>1, ThrowKeeps
<1>2. CASE \E file, step :
             /\ partial' = [partial EXCEPT ![Dir(r)] = file]
             /\ step = "rename" => file = Manifest(r)
             /\ step \in {"close", "rename"}
             /\ Goto(r, step)
             /\ UNCHANGED <<locals, payload, manifest, assembly>>
  <2>1. PICK file, step :
             /\ partial' = [partial EXCEPT ![Dir(r)] = file]
             /\ step = "rename" => file = Manifest(r)
             /\ step \in {"close", "rename"}
             /\ Goto(r, step)
             /\ UNCHANGED <<locals, payload, manifest, assembly>>
    BY <1>2
  <2>2. UNCHANGED <<job, attempt, manifest, assembly, generated, loop>>
    BY <2>1 DEF Goto, locals
  <2>3. pc'[r] = step /\ \A q \in Ranks \ {r} : pc'[q] = pc[q]
    BY <2>1 DEF TypeOK, Goto
  <2>4. pc[r] \in Publishing BY DEF OpenPartial, ClosePartial, Publishing
  <2>5. \A q \in Ranks \ {r} :
          pc[q] = "rename" => partial'[Dir(q)] = partial[Dir(q)]
    BY <2>1, <2>4, OwnDirectory, DirType DEF TypeOK, IInv
  <2>6. partial'[Dir(r)] = file
    BY <2>1, DirType DEF TypeOK
  <2>7. Dir(r)' = Dir(r) /\ Manifest(r)' = Manifest(r)
    BY <2>2 DEF Dir, Enabled, Manifest
  <2>8. RankSound(r) BY DEF IInv, RanksSound
  <2>9. RankSound(r)'
    BY <2>1, <2>2, <2>3, <2>4, <2>6, <2>7, <2>8, QuietStep
       DEF RankSound, Publishing, Validating
  <2> QED BY <2>2, <2>3, <2>5, <2>9, QuietRankStep
<1> QED
  <2>1. CASE OpenPartial(r)
    <3>1. Throw(r) \/ (/\ partial' = [partial EXCEPT ![Dir(r)] = Torn]
                       /\ Goto(r, "close")
                       /\ UNCHANGED <<locals, payload, manifest, assembly>>)
      BY <2>1 DEF OpenPartial
    <3> QED BY <3>1, <1>1, <1>2
  <2>2. CASE ClosePartial(r)
    <3>1. Throw(r) \/ (/\ partial' = [partial EXCEPT ![Dir(r)] = Manifest(r)]
                       /\ Goto(r, "rename")
                       /\ UNCHANGED <<locals, payload, manifest, assembly>>)
      BY <2>2 DEF ClosePartial
    <3> QED BY <3>1, <1>1, <1>2
  <2> QED BY <2>1, <2>2

\* The rename puts a manifest of this run in the place of whatever was there,
\* so a shard that belongs to the run goes on belonging to it.
LEMMA RenameKeeps ==
    ASSUME TypeOK, IInv, NEW r \in Ranks, RenamePartial(r)
    PROVE  IInv'
<1>1. CASE Throw(r) BY <1>1, ThrowKeeps
<1>2. CASE /\ manifest' = [manifest EXCEPT ![Dir(r)] = partial[Dir(r)]]
           /\ partial' = [partial EXCEPT ![Dir(r)] = NoFile]
           /\ Return(r)
           /\ UNCHANGED <<payload, assembly>>
  <2>1. UNCHANGED <<job, attempt, assembly>>
    BY <1>2 DEF Return, Leave, Goto
  <2>2. /\ pc'[r] = "idle"
        /\ \A q \in Ranks \ {r} : /\ pc'[q] = pc[q]
                                 /\ generated'[q] = generated[q]
                                 /\ loop'[q] = loop[q]
    BY <1>2 DEF TypeOK, Return, Leave, Goto
  <2>3. pc[r] = "rename" /\ RankSound(r)
    BY DEF RenamePartial, IInv, RanksSound
  <2>4. r \in World /\ SafeIdentity
    BY <2>3 DEF RankSound, Publishing
  <2>5. manifest' = [manifest EXCEPT ![Dir(r)] = Manifest(r)]
    BY <1>2, <2>3 DEF RankSound
  <2>6. Manifest(r) \in ShardManifests BY ManifestType
  <2>7. World' = World /\ SafeIdentity' = SafeIdentity
    BY <2>1 DEF World, SafeIdentity
  <2>8. \A k \in Ranks : BelongsToRun(k)' <=> BelongsToRun(k) \/ k = Dir(r)
    <3> TAKE k \in Ranks
    <3>1. k \in Dirs BY DEF Dirs
    <3>2. CASE k = Dir(r)
      <4>1. k = r BY <3>2, ConstantsAssumption DEF Dir, RootDir, Ranks
      <4>2. manifest'[k] = Manifest(k) BY <2>5, <3>1, <3>2, <4>1 DEF TypeOK
      <4> QED BY <2>1, <2>6, <3>2, <4>1, <4>2 DEF BelongsToRun, Manifest
    <3>3. CASE k # Dir(r)
      <4>1. manifest'[k] = manifest[k] BY <2>5, <3>1, <3>3 DEF TypeOK
      <4> QED BY <2>1, <3>3, <4>1 DEF BelongsToRun
    <3> QED BY <3>2, <3>3
  <2>9. RanksSound'
    <3>1. \A q \in Ranks \ {r} :
            pc[q] = "rename" => partial'[Dir(q)] = partial[Dir(q)]
      BY <1>2, <2>3, OwnDirectory, DirType DEF TypeOK, IInv, Publishing
    <3>2. \A k \in World : BelongsToRun(k) => BelongsToRun(k)'
      BY <2>8, WorldInRanks DEF TypeOK
    <3>3. RankSound(r)' BY <2>2 DEF RankSound, Publishing, Validating
    <3> QED BY <2>1, <2>2, <3>1, <3>2, <3>3, OthersKeep DEF IInv
  <2>10. ManifestsSound'
    <3>1. \A d \in Dirs : manifest'[d] = IF d = Dir(r) THEN Manifest(r)
                                                      ELSE manifest[d]
      BY <2>5 DEF TypeOK
    <3>2. Manifest(r) # Torn /\ Manifest(r).attempt = attempt
      BY <2>6, ConstantsAssumption DEF Manifest
    <3>3. attempt <= attempt BY DEF TypeOK
    <3>4. \A d \in Dirs : /\ manifest'[d] # Torn
                          /\ manifest'[d] \in ShardManifests =>
                                manifest'[d].attempt <= attempt
      BY <3>1, <3>2, <3>3 DEF IInv, ManifestsSound
    <3>5. ASSUME NEW k \in Ranks, manifest'[k] \in ShardManifests,
                 manifest'[k].attempt = attempt
          PROVE  BelongsToRun(k)' /\ SafeIdentity
      <4>1. CASE k = Dir(r) BY <2>4, <2>8, <4>1
      <4>2. CASE k # Dir(r)
        <5>1. manifest'[k] = manifest[k] BY <3>1, <4>2 DEF Dirs
        <5> QED BY <2>8, <3>5, <5>1 DEF IInv, ManifestsSound
      <4> QED BY <4>1, <4>2
    <3> QED BY <2>1, <2>7, <3>4, <3>5 DEF ManifestsSound
  <2>11. AssemblySound' BY <2>1 DEF IInv, AssemblySound
  <2>12. AssemblyCoversEveryRank'
    BY <2>1, <2>7, <2>8, WorldInRanks
       DEF IInv, AssemblyCoversEveryRank, AssemblyOfThisJob, TypeOK
  <2> QED BY <2>9, <2>10, <2>11, <2>12 DEF IInv
<1> QED BY <1>1, <1>2 DEF RenamePartial

\* Reading a shard manifest: when the fields are accepted, the manifest is one
\* of the run.
LEMMA ReadKeeps ==
    ASSUME TypeOK, IInv, NEW r \in Ranks, ReadManifest(r)
    PROVE  IInv'
<1> DEFINE k == loop[r].next
<1>1. CASE Throw(r) BY <1>1, ThrowKeeps
<1>2. CASE /\ manifest[k] \notin {NoFile, Torn}
           /\ Accepts(manifest[k], k)
           /\ Goto(r, "check")
           /\ UNCHANGED <<generated, loop, disk>>
  <2>1. UNCHANGED <<job, attempt, manifest, assembly, partial, generated, loop>>
    BY <1>2 DEF Goto, disk
  <2>2. pc'[r] = "check" /\ \A q \in Ranks \ {r} : pc'[q] = pc[q]
    BY <1>2 DEF TypeOK, Goto
  <2>3. pc[r] = "read" /\ RankSound(r)
    BY DEF ReadManifest, IInv, RanksSound
  <2>4. k \in Dirs BY DEF TypeOK, Loops, Dirs
  <2>5. BelongsToRun(k)
    BY <1>2, <2>4 DEF BelongsToRun, Accepts, TypeOK
  <2>6. World' = World /\ \A i : BelongsToRun(i)' = BelongsToRun(i)
    BY <2>1, QuietStep
  <2>7. LoopSound(r)'
    BY <2>1, <2>2, <2>3, <2>5, <2>6 DEF RankSound, LoopSound, Validating
  <2>8. RankSound(r)'
    BY <2>2, <2>3, <2>6, <2>7 DEF RankSound, Publishing
  <2> QED BY <2>1, <2>2, <2>8, QuietRankStep
<1> QED BY <1>1, <1>2 DEF ReadManifest

\* Going through the inventory of a shard, and on to the next one.
LEMMA CheckKeeps ==
    ASSUME TypeOK, IInv, NEW r \in Ranks, CheckInventory(r)
    PROVE  IInv'
<1> DEFINE k == loop[r].next
<1>1. CASE Throw(r) BY <1>1, ThrowKeeps
<1>2. CASE Return(r) /\ UNCHANGED disk BY <1>2, LeaveKeeps DEF Return
<1>3. pc[r] = "check" /\ RankSound(r)
  BY DEF CheckInventory, IInv, RanksSound
<1>4. r \in World /\ LoopSound(r)
  BY <1>3 DEF RankSound, Validating
<1>5. k \in Int /\ loop[r].last \in Int /\ job.world \in Int
  BY WorldInRanks DEF TypeOK, Loops, Ranks
<1>6. CASE /\ k < loop[r].last
           /\ loop' = [loop EXCEPT ![r].next = k + 1]
           /\ Goto(r, "read")
           /\ UNCHANGED <<generated, disk>>
  <2>1. UNCHANGED <<job, attempt, manifest, assembly, partial, generated>>
    BY <1>6 DEF Goto, disk
  <2>2. /\ pc'[r] = "read"
        /\ loop'[r] = [loop[r] EXCEPT !.next = k + 1]
        /\ \A q \in Ranks \ {r} : pc'[q] = pc[q] /\ loop'[q] = loop[q]
    BY <1>6 DEF TypeOK, Goto
  <2>3. loop'[r].next = k + 1 /\ loop'[r].last = loop[r].last
          /\ loop'[r].assembling = loop[r].assembling
    BY <2>2 DEF TypeOK, Loops
  <2>4. World' = World /\ \A i : BelongsToRun(i)' = BelongsToRun(i)
    BY <2>1, QuietStep
  <2>5. loop'[r].assembling => \A i \in World : i < k + 1 => BelongsToRun(i)'
    <3>1. \A i \in World : i < k + 1 => i < k \/ i = k
      BY <1>5 DEF World
    <3> QED BY <1>3, <1>4, <2>3, <2>4, <3>1 DEF LoopSound
  <2>6. LoopSound(r)'
    <3>1. \A i \in World : (i < k + 1 \/ (i = k + 1 /\ pc'[r] # "read")) => i < k + 1
      BY <2>2
    <3>2. k + 1 <= loop[r].last BY <1>5, <1>6
    <3> QED BY <1>4, <2>1, <2>2, <2>3, <2>4, <2>5, <3>1, <3>2 DEF LoopSound
  <2>7. RankSound(r)'
    BY <1>4, <2>2, <2>4, <2>6 DEF RankSound, Publishing
  <2> QED BY <2>1, <2>2, <2>7, QuietRankStep
<1>7. CASE /\ k = loop[r].last /\ loop[r].assembling
           /\ Goto(r, "assemble")
           /\ UNCHANGED <<generated, loop, disk>>
  <2>1. UNCHANGED <<job, attempt, manifest, assembly, partial, generated, loop>>
    BY <1>7 DEF Goto, disk
  <2>2. pc'[r] = "assemble" /\ \A q \in Ranks \ {r} : pc'[q] = pc[q]
    BY <1>7 DEF TypeOK, Goto
  <2>3. World' = World /\ \A i : BelongsToRun(i)' = BelongsToRun(i)
    BY <2>1, QuietStep
  <2>4. LoopSound(r)'
    BY <1>3, <1>4, <1>7, <2>1, <2>2, <2>3 DEF LoopSound
  <2>5. RankSound(r)'
    BY <1>4, <2>2, <2>3, <2>4 DEF RankSound, Publishing
  <2> QED BY <2>1, <2>2, <2>5, QuietRankStep
<1> QED BY <1>1, <1>2, <1>6, <1>7 DEF CheckInventory

\* The assembly is written only after the loop has been through every shard.
LEMMA AssembleKeeps ==
    ASSUME TypeOK, IInv, NEW r \in Ranks, OpenAssembly(r) \/ FillAssembly(r)
    PROVE  IInv'
<1>1. CASE Throw(r) BY <1>1, ThrowKeeps
<1>2. CASE ~Throw(r)
  <2>1. pc[r] \in {"assemble", "fill"} /\ RankSound(r)
    BY DEF OpenAssembly, FillAssembly, IInv, RanksSound
  <2>2. r \in World /\ LoopSound(r)
    BY <2>1 DEF RankSound, Validating
  <2>3. \A k \in World : BelongsToRun(k)
    <3>1. loop[r].next = job.world - 1 /\ loop[r].assembling
      BY <2>1, <2>2 DEF LoopSound
    <3>2. \A k \in World : k < job.world - 1 \/ k = job.world - 1
      BY WorldInRanks DEF World, TypeOK
    <3> QED BY <2>1, <2>2, <3>1, <3>2 DEF LoopSound
  <2>4. UNCHANGED <<job, attempt, partial, manifest>>
    BY <1>2 DEF OpenAssembly, FillAssembly, Return, Leave, Goto
  <2>5. \A q \in Ranks \ {r} : /\ pc'[q] = pc[q]
                               /\ generated'[q] = generated[q]
                               /\ loop'[q] = loop[q]
    BY <1>2 DEF OpenAssembly, FillAssembly, Return, Leave, Goto, locals, TypeOK
  <2>6. World' = World /\ \A k : BelongsToRun(k)' = BelongsToRun(k)
    BY <2>4 DEF World, BelongsToRun
  <2>7. assembly' \in Assemblies /\ assembly'.attempt <= attempt
    <3>1. CASE OpenAssembly(r)
      <4>1. assembly' = [runId |-> job.runId, label |-> job.label,
                         world |-> job.world, attempt |-> attempt,
                         content |-> "opened"]
        BY <1>2, <3>1 DEF OpenAssembly
      <4>2. assembly'.attempt = attempt /\ attempt <= attempt
        BY <4>1 DEF TypeOK
      <4> QED BY <4>1, <4>2 DEF TypeOK, Assemblies, JobSet
    <3>2. CASE FillAssembly(r)
      <4>1. assembly \in Assemblies
        BY <2>1, <3>2 DEF FillAssembly, RankSound
      <4>2. assembly.attempt <= attempt BY <4>1 DEF IInv, AssemblySound
      <4> QED BY <3>2, <4>1, <4>2 DEF FillAssembly, Assemblies
    <3> QED BY <3>1, <3>2
  <2>8. RankSound(r)'
    <3>1. CASE OpenAssembly(r)
      <4>1. pc'[r] = "fill" /\ loop'[r] = loop[r]
        BY <1>2, <3>1 DEF OpenAssembly, Goto, locals, TypeOK
      <4>2. LoopSound(r)'
        BY <2>1, <2>2, <2>3, <2>4, <2>6, <4>1 DEF LoopSound
      <4> QED BY <2>2, <2>6, <2>7, <4>1, <4>2 DEF RankSound, Publishing
    <3>2. CASE FillAssembly(r)
      <4>1. pc'[r] = "idle" BY <3>2 DEF FillAssembly, Return, Leave, Goto, TypeOK
      <4> QED BY <4>1 DEF RankSound, Publishing, Validating
    <3> QED BY <3>1, <3>2
  <2>9. RanksSound'
    BY <2>4, <2>5, <2>6, <2>7, <2>8, OthersKeep DEF IInv
  <2>10. ManifestsSound'
    BY <2>4, <2>6 DEF IInv, ManifestsSound, SafeIdentity
  <2>11. AssemblySound' BY <2>4, <2>7 DEF AssemblySound
  <2>12. AssemblyCoversEveryRank'
    BY <2>3, <2>6 DEF AssemblyCoversEveryRank
  <2> QED BY <2>9, <2>10, <2>11, <2>12 DEF IInv
<1> QED BY <1>1, <1>2

\* A restart leaves the files of the dead job behind: none of them is the new
\* job's, whatever its run identity.
LEMMA RestartKeeps ==
    ASSUME TypeOK, IInv, NEW j \in Jobs, Restart(j)
    PROVE  IInv'
<1>1. attempt \in Nat /\ attempt' = attempt + 1 /\ UNCHANGED disk
  BY DEF Restart, TypeOK
<1>2. RanksSound'
  BY DEF Restart, RanksSound, RankSound, Publishing, Validating
<1>3. ASSUME NEW d \in Dirs, manifest[d] \in ShardManifests
      PROVE  manifest[d].attempt < attempt + 1
  <2>1. manifest[d].attempt \in Nat BY <1>3 DEF ShardManifests
  <2> QED BY <1>1, <1>3, <2>1 DEF IInv, ManifestsSound
<1>4. ManifestsSound'
  <2>1. \A d \in Dirs : manifest[d] # Torn BY DEF IInv, ManifestsSound
  <2>2. \A d \in Dirs : manifest[d] \in ShardManifests =>
           manifest[d].attempt <= attempt + 1 /\ manifest[d].attempt # attempt + 1
    <3>1. \A d \in Dirs : manifest[d] \in ShardManifests =>
             manifest[d].attempt \in Nat
      BY DEF ShardManifests
    <3> QED BY <1>1, <1>3, <3>1
  <2>3. Ranks \subseteq Dirs BY DEF Dirs
  <2> QED BY <1>1, <2>1, <2>2, <2>3 DEF ManifestsSound, disk
<1>5. assembly \in Assemblies => assembly.attempt < attempt + 1
  <2>1. assembly \in Assemblies => assembly.attempt \in Nat BY DEF Assemblies
  <2> QED BY <1>1, <2>1 DEF IInv, AssemblySound
<1>6. AssemblySound' /\ AssemblyCoversEveryRank'
  <2>1. assembly \in Assemblies => assembly.attempt \in Nat BY DEF Assemblies
  <2> QED BY <1>1, <1>5, <2>1
          DEF disk, AssemblySound, AssemblyCoversEveryRank, AssemblyOfThisJob
<1> QED BY <1>2, <1>4, <1>6 DEF IInv

\* Every step keeps the inductive invariant.
LEMMA IInvInductive ==
    ASSUME TypeOK, IInv, [Next]_vars
    PROVE  IInv'
<1>1. ASSUME NEW r \in Ranks, Call(r) PROVE IInv' BY <1>1, CallKeeps
<1>2. ASSUME NEW r \in Ranks, LibraryStep(r) PROVE IInv'
  BY <1>2, PartialStepKeeps, RenameKeeps, ReadKeeps, CheckKeeps, AssembleKeeps
     DEF LibraryStep
<1>3. ASSUME NEW r \in Ranks, NEW some \in SUBSET Files,
             ChangePayload(r, some)
      PROVE  IInv'
  <2>1. UNCHANGED <<job, attempt, pc, locals, partial, manifest, assembly>>
    BY <1>3 DEF ChangePayload
  <2>2. RankSound(r)'
    BY <2>1, QuietStep
       DEF IInv, RanksSound, RankSound, LoopSound, locals, Dir, Enabled, Manifest
  <2> QED BY <2>1, <2>2, QuietRankStep DEF locals
<1>4. ASSUME NEW j \in Jobs, Restart(j) PROVE IInv' BY <1>4, RestartKeeps
<1>5. CASE UNCHANGED vars
  <2>1. RanksSound'
    BY <1>5 DEF vars, disk, locals, IInv, RanksSound, RankSound, LoopSound,
                World, SafeIdentity, Dir, Enabled, Manifest, BelongsToRun
  <2> QED BY <1>5, <2>1, QuietStep DEF vars, disk, IInv
<1> QED BY <1>1, <1>2, <1>3, <1>4, <1>5 DEF Next

-----------------------------------------------------------------------------
(* Theorems *)

\* Every reachable state is sound, for any number of ranks, jobs, files and
\* restarts.
THEOREM Invariance == Spec => [](TypeOK /\ IInv)
<1>1. Init => TypeOK
  BY ConstantsAssumption, NoLoopType DEF Init, TypeOK, Steps
<1>2. Init => IInv
  <2>1. Init => RanksSound
    BY DEF Init, RanksSound, RankSound, Publishing, Validating
  <2>2. NoFile # Torn /\ NoFile \notin ShardManifests /\ NoFile \notin Assemblies
    BY ConstantsAssumption
  <2>3. Init => ManifestsSound
    BY <2>2 DEF Init, ManifestsSound, Dirs
  <2>4. Init => AssemblySound /\ AssemblyCoversEveryRank
    BY <2>2 DEF Init, AssemblySound, AssemblyCoversEveryRank, AssemblyOfThisJob
  <2> QED BY <2>1, <2>3, <2>4 DEF IInv
<1>3. TypeOK /\ IInv /\ [Next]_vars => TypeOK' /\ IInv'
  BY TypeInductive, IInvInductive DEF IInv
<1> QED BY <1>1, <1>2, <1>3, PTL DEF Spec

\* TypeOK holds in every reachable state.
THEOREM TypeCorrect == Spec => []TypeOK
BY Invariance, PTL

\* No assembly manifest is ever written over a shard of another run, plan,
\* number of ranks or rank, although WriteAssemblyManifest validates the shards
\* one after the other while the other ranks go on.
THEOREM AssemblyCorrect == Spec => []AssemblyCoversEveryRank
<1>1. IInv => AssemblyCoversEveryRank BY DEF IInv
<1> QED BY <1>1, Invariance, PTL

\* ValidateRankShardManifest never refuses the fields of a manifest the running
\* job's WriteRankShardManifest published with a file in it.
THEOREM FormatsAgree == Spec => []WriterAgreesWithValidator
<1>1. TypeOK /\ IInv => WriterAgreesWithValidator
  <2> SUFFICES ASSUME TypeOK, IInv, NEW k \in World,
                      manifest[k] \in ShardManifests,
                      manifest[k].attempt = attempt,
                      manifest[k].files # {}
               PROVE  Accepts(manifest[k], k)
    BY DEF WriterAgreesWithValidator
  <2>1. k \in Ranks BY WorldInRanks DEF TypeOK
  <2>2. BelongsToRun(k) /\ SafeIdentity
    BY <2>1 DEF IInv, ManifestsSound
  <2> QED BY <2>2 DEF BelongsToRun, SafeIdentity, Accepts
<1> QED BY <1>1, Invariance, PTL

-----------------------------------------------------------------------------
(* Publication of shard manifests is atomic: RankAwareOutput implements     *)
(* AtomicPublication.                                                      *)

\* A step of one rank leaves the offers of the others.
LEMMA OffersOfOthers ==
    ASSUME NEW r \in Ranks,
           UNCHANGED <<job, attempt>>,
           \A q \in Ranks \ {r} : pc'[q] = pc[q] /\ generated'[q] = generated[q]
    PROVE  \A q \in Ranks \ {r} : InFlight(q)' = InFlight(q)
BY DEF InFlight, Dir, Enabled, Manifest

\* An offer is never taken for no offer.
LEMMA OfferIsReal ==
    ASSUME TypeOK, NEW r \in Ranks, pc[r] \in Publishing
    PROVE  /\ InFlight(r) = [place |-> Dir(r), doc |-> Manifest(r)]
           /\ InFlight(r) \in Publication!Offers
           /\ InFlight(r) # Publication!NoOffer
<1>1. Manifest(r) \in ShardManifests /\ Dir(r) \in Dirs
  BY ManifestType, DirType
<1>2. NoFile \notin ShardManifests BY ConstantsAssumption
<1> QED BY <1>1, <1>2 DEF InFlight, Publication!Offers, Publication!NoOffer

\* A step of a rank that is not publishing after it, and that changes no
\* published manifest, takes back the offer the rank may have had.
LEMMA NotPublishingWithdraws ==
    ASSUME NEW r \in Ranks,
           UNCHANGED <<job, attempt, manifest>>,
           \A q \in Ranks \ {r} : pc'[q] = pc[q] /\ generated'[q] = generated[q],
           pc'[r] \notin Publishing
    PROVE  Publication!Withdraw({r})
<1>1. InFlight(r)' = Publication!NoOffer
  BY DEF InFlight, Publication!NoOffer
<1>2. \A q \in Ranks \ {r} : InFlight(q)' = InFlight(q) BY OffersOfOthers
<1> QED BY <1>1, <1>2 DEF Publication!Withdraw

\* A rank that leaves a call withdraws what it had set out to publish, if anything.
LEMMA LeaveWithdraws ==
    ASSUME TypeOK, NEW r \in Ranks, NEW how \in {"idle", "threw"},
           Leave(r, how), UNCHANGED manifest
    PROVE  Publication!Withdraw({r})
<1>1. /\ UNCHANGED <<job, attempt>>
      /\ pc'[r] = how
      /\ \A q \in Ranks \ {r} : pc'[q] = pc[q] /\ generated'[q] = generated[q]
  BY DEF TypeOK, Leave, Goto
<1> QED BY <1>1, NotPublishingWithdraws DEF Publishing

\* Going on, other than to publish.
LEMMA GotoWithdraws ==
    ASSUME TypeOK, NEW r \in Ranks, NEW step, step \notin Publishing,
           Goto(r, step), UNCHANGED <<generated, manifest>>
    PROVE  Publication!Withdraw({r})
<1>1. /\ UNCHANGED <<job, attempt>>
      /\ pc'[r] = step
      /\ \A q \in Ranks \ {r} : pc'[q] = pc[q] /\ generated'[q] = generated[q]
  BY DEF TypeOK, Goto
<1> QED BY <1>1, NotPublishingWithdraws

\* Every step of the code is a step of the abstract specification, or none.
LEMMA StepRefines ==
    ASSUME TypeOK, IInv, [Next]_vars
    PROVE  [Publication!Next]_(Publication!vars)
<1> DEFINE Stutter == UNCHANGED Publication!vars
<1>1. ASSUME NEW r \in Ranks, Publication!Withdraw({r})
      PROVE  Publication!Next
  BY <1>1 DEF Publication!Next
<1>2. ASSUME NEW r \in Ranks, Throw(r) PROVE Publication!Next
  BY <1>1, <1>2, LeaveWithdraws DEF Throw, disk
<1>3. ASSUME NEW r \in Ranks, UNCHANGED <<job, attempt, generated, manifest>>,
             pc[r] \in Publishing, pc'[r] \in Publishing,
             \A q \in Ranks \ {r} : pc'[q] = pc[q]
      PROVE  Stutter
  <2>1. InFlight(r)' = InFlight(r)
    BY <1>3 DEF InFlight, Dir, Enabled, Manifest
  <2>2. \A q \in Ranks \ {r} : InFlight(q)' = InFlight(q)
    BY <1>3, OffersOfOthers
  <2> QED BY <1>3, <2>1, <2>2 DEF Publication!vars
<1>4. ASSUME NEW r \in Ranks, Call(r)
      PROVE  Publication!Next \/ Stutter
  <2>1. ASSUME NEW gen \in SUBSET Files, CallWriteShard(r, gen), ~Throw(r)
        PROVE  Publication!Offer(r)
    <3>1. /\ Idle(r) /\ Goto(r, "open")
          /\ generated' = [generated EXCEPT ![r] = gen]
          /\ UNCHANGED disk
      BY <2>1 DEF CallWriteShard
    <3>2. /\ UNCHANGED <<job, attempt, manifest>>
          /\ pc'[r] = "open"
          /\ \A q \in Ranks \ {r} : pc'[q] = pc[q] /\ generated'[q] = generated[q]
      BY <3>1 DEF TypeOK, Goto, disk
    <3>3. InFlight(r) = Publication!NoOffer
      BY <3>1 DEF Idle, InFlight, Publishing, Publication!NoOffer
    <3>4. TypeOK' BY TypeInductive DEF IInv
    <3>5. InFlight(r)' \in Publication!Offers
      <4>1. InFlight(r)' = [place |-> Dir(r), doc |-> Manifest(r)]'
        BY <3>2 DEF InFlight, Publishing
      <4>2. Manifest(r)' \in ShardManifests
        BY <3>4 DEF TypeOK, Manifest, ShardManifests, JobSet
      <4>3. Dir(r)' \in Dirs BY DEF Dir, Dirs
      <4> QED BY <4>1, <4>2, <4>3 DEF Publication!Offers
    <3>6. \A q \in Ranks \ {r} : InFlight(q)' = InFlight(q)
      BY <3>2, OffersOfOthers
    <3> QED BY <3>2, <3>3, <3>5, <3>6 DEF Publication!Offer
  <2>2. ASSUME NEW k \in World, CallValidate(r, k) PROVE Publication!Next
    <3>1. Goto(r, "read") /\ UNCHANGED <<generated, manifest>>
      BY <2>2 DEF CallValidate, StartLoop, disk
    <3> QED BY <1>1, <3>1, GotoWithdraws DEF Publishing
  <2>3. CASE CallAssemble(r)
    <3>1. CASE StartLoop(r, 0, job.world - 1, TRUE)
      <4>1. Goto(r, "read") /\ UNCHANGED <<generated, manifest>>
        BY <3>1 DEF StartLoop, disk
      <4> QED BY <1>1, <4>1, GotoWithdraws DEF Publishing
    <3>2. CASE Return(r) /\ UNCHANGED disk
      BY <1>1, <3>2, LeaveWithdraws DEF Return, disk
    <3> QED BY <2>3, <3>1, <3>2 DEF CallAssemble
  <2>4. CASE Catch(r)
    <3>1. Goto(r, "idle") /\ UNCHANGED <<generated, manifest>>
      BY <2>4 DEF Catch, locals, disk
    <3> QED BY <1>1, <3>1, GotoWithdraws DEF Publishing
  <2>5. CASE Throw(r) BY <1>2, <2>5
  <2>6. Publication!Offer(r) => Publication!Next BY DEF Publication!Next
  <2> QED BY <1>4, <2>1, <2>2, <2>3, <2>4, <2>5, <2>6 DEF Call
<1>5. ASSUME NEW r \in Ranks, LibraryStep(r)
      PROVE  Publication!Next \/ Stutter
  <2>1. CASE Throw(r) BY <1>2, <2>1
  <2>2. CASE (OpenPartial(r) \/ ClosePartial(r)) /\ ~Throw(r)
    <3>1. PICK step \in {"close", "rename"} : Goto(r, step)
      BY <2>2 DEF OpenPartial, ClosePartial
    <3>2. UNCHANGED <<generated, manifest>> /\ pc[r] \in Publishing
      BY <2>2 DEF OpenPartial, ClosePartial, locals, Publishing
    <3>3. /\ UNCHANGED <<job, attempt>>
          /\ pc'[r] \in Publishing
          /\ \A q \in Ranks \ {r} : pc'[q] = pc[q]
      BY <3>1 DEF Goto, TypeOK, Publishing
    <3> QED BY <1>3, <3>2, <3>3
  <2>3. CASE RenamePartial(r) /\ ~Throw(r)
    <3>1. /\ manifest' = [manifest EXCEPT ![Dir(r)] = partial[Dir(r)]]
          /\ Return(r)
          /\ pc[r] = "rename"
      BY <2>3 DEF RenamePartial
    <3>2. /\ UNCHANGED <<job, attempt>>
          /\ pc'[r] = "idle"
          /\ \A q \in Ranks \ {r} : pc'[q] = pc[q] /\ generated'[q] = generated[q]
      BY <3>1 DEF TypeOK, Return, Leave, Goto
    <3>3. partial[Dir(r)] = Manifest(r)
      BY <3>1 DEF IInv, RanksSound, RankSound
    <3>4. /\ InFlight(r) = [place |-> Dir(r), doc |-> Manifest(r)]
          /\ InFlight(r) # Publication!NoOffer
      BY <3>1, OfferIsReal DEF Publishing
    <3>5. InFlight(r)' = Publication!NoOffer
      BY <3>2 DEF InFlight, Publishing, Publication!NoOffer
    <3>6. \A q \in Ranks \ {r} : InFlight(q)' = InFlight(q)
      BY <3>2, OffersOfOthers
    <3>7. manifest' = [manifest EXCEPT ![InFlight(r).place] = InFlight(r).doc]
      BY <3>1, <3>3, <3>4
    <3>8. [q \in Ranks |-> InFlight(q)]' =
             [[q \in Ranks |-> InFlight(q)] EXCEPT ![r] = Publication!NoOffer]
      BY <3>5, <3>6
    <3>9. Publication!Publish(r)
      BY <3>4, <3>7, <3>8 DEF Publication!Publish
    <3> QED BY <3>9 DEF Publication!Next
  <2>4. CASE (ReadManifest(r) \/ CheckInventory(r) \/ OpenAssembly(r)) /\ ~Throw(r)
    <3>1. UNCHANGED manifest
      BY <2>4 DEF ReadManifest, CheckInventory, OpenAssembly, disk
    <3>2. CASE Return(r) BY <1>1, <3>1, <3>2, LeaveWithdraws DEF Return
    <3>3. CASE ~Return(r)
      <4>1. PICK step \in {"check", "read", "assemble", "fill"} : Goto(r, step)
        BY <2>4, <3>3 DEF ReadManifest, CheckInventory, OpenAssembly
      <4>2. UNCHANGED generated
        BY <2>4, <3>3 DEF ReadManifest, CheckInventory, OpenAssembly, locals
      <4> QED BY <1>1, <3>1, <4>1, <4>2, GotoWithdraws DEF Publishing
    <3> QED BY <3>2, <3>3
  <2>5. CASE FillAssembly(r)
    BY <1>1, <2>5, LeaveWithdraws DEF FillAssembly, Return
  <2> QED BY <1>5, <2>1, <2>2, <2>3, <2>4, <2>5 DEF LibraryStep
<1>6. ASSUME NEW r \in Ranks, NEW some \in SUBSET Files,
             ChangePayload(r, some)
      PROVE  Stutter
  BY <1>6 DEF ChangePayload, locals, Publication!vars, InFlight, Dir, Enabled,
              Manifest
<1>7. ASSUME NEW j \in Jobs, Restart(j) PROVE Publication!Next
  <2>1. \A r \in Ranks : InFlight(r)' = Publication!NoOffer
    BY <1>7 DEF Restart, InFlight, Publishing, Publication!NoOffer
  <2>2. Publication!Withdraw(Ranks)
    BY <1>7, <2>1 DEF Restart, disk, Publication!Withdraw
  <2> QED BY <2>2 DEF Publication!Next
<1>8. CASE UNCHANGED vars
  BY <1>8 DEF vars, locals, disk, Publication!vars, InFlight, Dir, Enabled,
              Manifest
<1> QED BY <1>4, <1>5, <1>6, <1>7, <1>8 DEF Next

\* A reader of a rank's manifest finds nothing or a whole one, and what it finds
\* changes only to the manifest the running job had set out to publish, whatever
\* fails, dies, or was left behind by an earlier job.
THEOREM PublicationCorrect == Spec => ShardPublicationIsAtomic
<1>1. Init => Publication!Init
  BY DEF Init, Publication!Init, InFlight, Publishing, Publication!NoOffer
<1>2. TypeOK /\ IInv /\ [Next]_vars => [Publication!Next]_(Publication!vars)
  BY StepRefines
<1> QED BY <1>1, <1>2, Invariance, PTL
        DEF Spec, ShardPublicationIsAtomic, Publication!Spec

-----------------------------------------------------------------------------
(* A distributed run *)

\* What a rank says it produced is a set of payload files.
ProducedType == produced \in [Ranks -> SUBSET Files]

\* The files that a rank remembers to have written are payload files.
LEMMA ProducedInductive ==
    ASSUME ProducedType, [RunNext]_runVars
    PROVE  ProducedType'
<1>1. ASSUME NEW r \in Ranks, WritePayload(r) PROVE ProducedType'
  BY <1>1 DEF WritePayload, ProducedType
<1>2. ASSUME NEW r \in Ranks,
             \/ Invoke(r) \/ Skip(r) \/ RemovePayload(r) \/ Refused(r) \/ Inside(r)
             \/ EnterCollective(r) \/ LeaveCollective(r)
             \/ Guard(r) \/ Crash(r) \/ Kill(r)
      PROVE  ProducedType'
  BY <1>2 DEF Invoke, Skip, RemovePayload, Refused, Inside, EnterCollective,
              LeaveCollective, Guard, Crash, Kill, ProducedType
<1>3. ASSUME NEW j \in Jobs, Resubmit(j) PROVE ProducedType'
  BY <1>3 DEF Resubmit, ProducedType
<1>4. CASE UNCHANGED runVars
  BY <1>4 DEF runVars, ProducedType
<1> QED BY <1>1, <1>2, <1>3, <1>4 DEF RunNext, RankStep

\* Every step of a run is a step of the library's callers, or none of theirs.
LEMMA RunStepSimulates ==
    ASSUME ProducedType, [RunNext]_runVars
    PROVE  [Next]_vars
<1>1. ASSUME NEW r \in Ranks, WritePayload(r) PROVE Next
  <2>1. PICK some \in SUBSET Files :
            payload' = [payload EXCEPT ![Dir(r)] = @ \cup some]
    BY <1>1 DEF WritePayload
  <2>2. ChangePayload(r, some)
    BY <1>1, <2>1 DEF WritePayload, ChangePayload, Reaches
  <2> QED BY <2>2 DEF Next
<1>2. ASSUME NEW r \in Ranks, Invoke(r) PROVE Next
  <2>1. CASE CallWriteShard(r, produced[r])
    <3>1. produced[r] \in SUBSET Files BY DEF ProducedType
    <3> QED BY <2>1, <3>1 DEF Next, Call
  <2>2. CASE CallValidate(r, r)
    <3>1. r \in World BY <2>2 DEF CallValidate, Idle
    <3> QED BY <2>2, <3>1 DEF Next, Call
  <2>3. CASE CallAssemble(r)
    BY <2>3 DEF Next, Call
  <2>4. CASE r = 0 /\ Reaches(r, "reject") /\ CallValidate(r, 0)
    <3>1. 0 \in World
      BY <2>4 DEF Reaches, Idle
    <3> QED BY <2>4, <3>1 DEF Next, Call
  <2> QED BY <1>2, <2>1, <2>2, <2>3, <2>4 DEF Invoke
<1>7. ASSUME NEW r \in Ranks, RemovePayload(r) PROVE Next
  <2>1. produced[r] \in SUBSET Files BY DEF ProducedType
  <2>2. ChangePayload(r, produced[r])
    BY <1>7 DEF RemovePayload, ChangePayload, Reaches
  <2> QED BY <2>1, <2>2 DEF Next
<1>8. ASSUME NEW r \in Ranks, Refused(r) PROVE Next
  BY <1>8 DEF Refused, Next, Call
<1>3. ASSUME NEW r \in Ranks, Inside(r) PROVE Next
  BY <1>3 DEF Inside, Next
<1>4. ASSUME NEW r \in Ranks,
             Skip(r) \/ EnterCollective(r) \/ LeaveCollective(r) \/ Guard(r)
                \/ Crash(r) \/ Kill(r)
      PROVE  UNCHANGED vars
  BY <1>4 DEF Skip, EnterCollective, LeaveCollective, Guard, Crash, Kill
<1>5. ASSUME NEW j \in Jobs, Resubmit(j) PROVE Next
  BY <1>5 DEF Resubmit, Next
<1>6. CASE UNCHANGED runVars
  BY <1>6 DEF runVars
<1> QED BY <1>1, <1>2, <1>3, <1>4, <1>5, <1>6, <1>7, <1>8 DEF RunNext, RankStep

\* A distributed run, with whatever throws, is killed or is resubmitted, is a
\* behaviour that RankAwareOutput allows: DistributedOutput implements it.
THEOREM RunImplementsLibrary == RunSpec => Spec
<1>1. RunInit => Init /\ ProducedType
  BY DEF RunInit, ProducedType
<1>2. ProducedType /\ [RunNext]_runVars => ProducedType'
  BY ProducedInductive
<1>3. ProducedType /\ [RunNext]_runVars => [Next]_vars
  BY RunStepSimulates
<1> QED BY <1>1, <1>2, <1>3, PTL DEF RunSpec, Spec

\* In a distributed run the assembly manifest of the running job has the shard
\* of every rank behind it, of this run and of no other.
THEOREM RunAssemblyCorrect == RunSpec => []AssemblyCoversEveryRank
BY RunImplementsLibrary, AssemblyCorrect, PTL

\* In a distributed run shard manifests are published atomically.
THEOREM RunPublicationCorrect == RunSpec => ShardPublicationIsAtomic
BY RunImplementsLibrary, PublicationCorrect, PTL

-----------------------------------------------------------------------------
(* The inductive invariant of a run: where a rank is, what it has done,    *)
(* and what it knows of the others.                                        *)

\* How many collectives are before a line of Program.
Passed(line) ==
    IF line = 1 THEN 0 ELSE IF line <= 5 THEN 1 ELSE IF line = 6 THEN 2
    ELSE IF line <= 11 THEN 3 ELSE 4

\* The lines of the collectives.
CollectiveLines == {1, 5, 6, 11}

\* The line tells which call a rank is in; what it publishes is in place.  The
\* coordinator's lines are its own.
PlaceSound(r) ==
    /\ pc[r] \in Publishing => at[r] = 4 /\ generated[r] \subseteq payload[Dir(r)]
    /\ pc[r] \in Validating =>
          IF loop[r].assembling THEN at[r] = 8 ELSE at[r] \in {5, 10}
    /\ pc[r] = "threw" => at[r] \in {4, 5, 8, 10}
    /\ at[r] \in 8 .. 10 => r = 0

\* A rank has entered the collectives before its line, and the one it is in; all
\* have entered those that it has left.
CollectivesSound(r) ==
    /\ Len(posted[r]) = Passed(at[r]) + (IF inside[r] THEN 1 ELSE 0)
    /\ inside[r] => r \in World /\ at[r] \in CollectiveLines /\ pc[r] = "idle"
    /\ r \in World => \A q \in World : Len(posted[q]) >= Passed(at[r])

\* HasRemoved, in numbers.
Removed(r) == r = 0 /\ at[r] >= 9

\* The shard of rank d is of this job, with its files unless rank d has removed
\* them.
ShardDone(d) ==
    /\ manifest[d] \in ShardManifests
    /\ manifest[d].attempt = attempt
    /\ Removed(d) \/ manifest[d].files \subseteq payload[d]

\* A rank whose call to write the shard has returned has written it.
ShardSound(r) ==
    r \in World /\ ((at[r] = 4 /\ pc[r] = "idle") \/ at[r] >= 5) => ShardDone(r)

\* Rank 0 has opened the assembly when it fills it, and filled it when the call
\* has returned.
AssembleSound ==
    /\ at[0] = 8 /\ pc[0] = "fill" => AssemblyOfThisJob
    /\ at[0] >= 9 \/ (at[0] = 8 /\ pc[0] = "idle") =>
          AssemblyOfThisJob /\ assembly.content # "opened"

\* Behind an assembly of this job all shards are done.
AttemptSound == AssemblyOfThisJob => \A k \in World : ShardDone(k)

RunType ==
    /\ job \in Jobs
    /\ at \in [Ranks -> 1 .. 12]
    /\ posted \in [Ranks -> Seq(MPI!Kinds \ {"bcast"})]
    /\ inside \in [Ranks -> BOOLEAN]
    /\ ProducedType

RunInv ==
    /\ RunType
    /\ \A r \in Ranks : PlaceSound(r) /\ CollectivesSound(r) /\ ShardSound(r)
    /\ AssembleSound
    /\ AttemptSound

-----------------------------------------------------------------------------

\* The lines of Program.
LEMMA ProgramLines ==
    ASSUME NEW line \in 1 .. 11
    PROVE  /\ Program[line] = "payload" <=> line = 2
           /\ Program[line] = "shard" <=> line = 3
           /\ Program[line] = "validate" <=> line = 4
           /\ Program[line] = "assemble" <=> line = 7
           /\ Program[line] = "remove" <=> line = 8
           /\ Program[line] = "reject" <=> line = 9
           /\ Program[line] = "refused" <=> line = 10
           /\ Program[line] \in MPI!Kinds <=> line \in CollectiveLines
           /\ Program[line] # "bcast"
BY DEF Program, MPI!Kinds, CollectiveLines

\* The line a rank reaches.
LEMMA ReachedLine ==
    ASSUME RunType, NEW r \in Ranks, NEW line, Reaches(r, line)
    PROVE  at[r] \in 1 .. 11 /\ Program[at[r]] = line /\ at[r] + 1 \in 1 .. 12
<1>1. Len(Program) = 11
  BY DEF Program
<1> QED BY <1>1 DEF RunType, Reaches, Done

\* The line of a validation that was refused.
LEMMA RefusedLine ==
    ASSUME RunInv, NEW r \in Ranks, Refused(r)
    PROVE  at[r] = 10 /\ r = 0
<1>1. pc[r] = "threw" /\ Program[at[r]] = "refused"
  BY DEF Refused
<1>2. at[r] \in {4, 5, 8, 10} /\ PlaceSound(r)
  BY <1>1 DEF RunInv, PlaceSound
<1>3. at[r] = 10
  BY <1>1, <1>2, ProgramLines
<1> QED BY <1>2, <1>3 DEF PlaceSound

\* Several ranks have a directory each.
LEMMA OwnDirectories ==
    ASSUME RunType, TypeOK
    PROVE  /\ Enabled
           /\ World \subseteq Ranks /\ 0 \in World
           /\ \A r \in Ranks : Dir(r) = r
<1>1. Enabled
  BY SeveralRanks DEF RunType, Enabled
<1>2. World \subseteq Ranks /\ job.world \in 1 .. MaxWorld
  BY WorldInRanks DEF TypeOK
<1> QED BY <1>1, <1>2, ConstantsAssumption DEF Dir, World

\* What is known of a rank is about its own variables, its own directory, and how
\* far the others have come.
Same(r) ==
    /\ pc'[r] = pc[r] /\ generated'[r] = generated[r] /\ loop'[r] = loop[r]
    /\ at'[r] = at[r] /\ inside'[r] = inside[r] /\ posted'[r] = posted[r]
    /\ payload[Dir(r)] \subseteq payload'[Dir(r)] /\ payload[r] \subseteq payload'[r]
    /\ manifest'[r] = manifest[r]
    /\ UNCHANGED <<job, attempt>>
    /\ \A q \in World : Len(posted'[q]) >= Len(posted[q])

Sound(r) == PlaceSound(r) /\ CollectivesSound(r) /\ ShardSound(r)

\* There are four collectives.
LEMMA PassedType == ASSUME NEW line \in 1 .. 12 PROVE Passed(line) \in 0 .. 4
BY DEF Passed

\* A rank that does nothing stays sound.
LEMMA SameKeeps ==
    ASSUME RunType, RunType', TypeOK, NEW r \in Ranks, Sound(r), Same(r)
    PROVE  Sound(r)'
<1>1. PlaceSound(r)'
  BY DEF Sound, Same, PlaceSound, Dir, Enabled
<1>2. CollectivesSound(r)'
  <2>1. \A q \in World : Len(posted[q]) \in Nat /\ Len(posted'[q]) \in Nat
    BY OwnDirectories DEF RunType
  <2>2. Passed(at[r]) \in Nat /\ Passed(at[r])' = Passed(at[r])
    BY PassedType DEF RunType, Same, Passed
  <2>3. r \in World => \A q \in World : Len(posted'[q]) >= Passed(at[r])
    BY <2>1, <2>2 DEF Sound, Same, CollectivesSound
  <2>4. Len(posted'[r]) = Passed(at[r]) + (IF inside'[r] THEN 1 ELSE 0)
    BY DEF Sound, Same, CollectivesSound
  <2>5. inside'[r] => r \in World /\ at'[r] \in CollectiveLines /\ pc'[r] = "idle"
    BY DEF Sound, Same, CollectivesSound
  <2> QED BY <2>2, <2>3, <2>4, <2>5 DEF Same, CollectivesSound, World
<1>3. ShardSound(r)'
  BY DEF Sound, Same, ShardSound, ShardDone, Removed, World
<1> QED BY <1>1, <1>2, <1>3 DEF Sound

\* Behind the first barrier after the shards all ranks have entered that barrier,
\* or the sum before it: their shards are done.
LEMMA AllShardsDone ==
    ASSUME RunInv, TypeOK, NEW r \in World, at[r] >= 6
    PROVE  \A k \in World : ShardDone(k)
<1> SUFFICES ASSUME NEW k \in World PROVE ShardDone(k)
  OBVIOUS
<1>1. r \in Ranks /\ k \in Ranks
  BY OwnDirectories DEF RunInv
<1>2. at[r] \in 1 .. 12 /\ at[k] \in 1 .. 12
  BY <1>1 DEF RunInv, RunType
<1>3. Len(posted[k]) >= Passed(at[r])
  BY <1>1 DEF RunInv, CollectivesSound
<1>4. Len(posted[k]) >= 2
  <2>1. Len(posted[k]) \in Nat
    BY <1>1 DEF RunInv, RunType
  <2> QED BY <1>2, <1>3, <2>1 DEF Passed
<1>5. at[k] >= 5
  <2>1. CASE inside[k]
    <3>1. Len(posted[k]) = Passed(at[k]) + 1 /\ at[k] \in CollectiveLines
      BY <1>1, <2>1 DEF RunInv, CollectivesSound
    <3> QED BY <1>2, <1>4, <3>1 DEF Passed, CollectiveLines
  <2>2. CASE ~inside[k]
    <3>1. Len(posted[k]) = Passed(at[k]) + 0
      BY <1>1, <2>2 DEF RunInv, CollectivesSound
    <3> QED BY <1>2, <1>4, <3>1 DEF Passed
  <2> QED BY <2>1, <2>2
<1> QED BY <1>1, <1>5 DEF RunInv, ShardSound

\* A step in which one rank moves and neither assembly nor anybody's shard changes;
\* a payload goes only when the rank may remove it.
LEMMA MoveKeeps ==
    ASSUME RunInv, TypeOK, RunType', NEW r \in Ranks, Sound(r)',
           \A q \in Ranks \ {r} : Same(q),
           payload[r] \subseteq payload'[r] \/ Removed(r)',
           Removed(r) => Removed(r)',
           UNCHANGED <<job, attempt, manifest, assembly>>,
           r = 0 => AssembleSound'
    PROVE  RunInv'
<1>1. \A q \in Ranks : Sound(q)'
  BY SameKeeps DEF RunInv, Sound
<1>2. AssembleSound'
  <2>1. 0 \in Ranks
    BY OwnDirectories DEF RunInv
  <2>2. CASE r # 0
    BY <2>1, <2>2 DEF RunInv, Same, AssembleSound, AssemblyOfThisJob
  <2> QED BY <2>2
<1>3. AttemptSound'
  <2>1. \A k \in World : /\ payload[k] \subseteq payload'[k] \/ Removed(k)'
                         /\ Removed(k) => Removed(k)'
    <3>1. \A k \in Ranks \ {r} : payload[k] \subseteq payload'[k] /\ at'[k] = at[k]
      BY DEF Same
    <3> QED BY <3>1, OwnDirectories DEF RunInv, Removed
  <2> QED BY <2>1 DEF RunInv, AttemptSound, ShardDone, AssemblyOfThisJob, World
<1> QED BY <1>1, <1>2, <1>3 DEF RunInv, Sound

-----------------------------------------------------------------------------
(* The steps *)

\* Types, but for those of RankAwareOutput.
LEMMA RunTypeKeeps ==
    ASSUME RunInv, [RunNext]_runVars
    PROVE  RunType'
<1>0. RunType
  BY DEF RunInv
<1>1. ProducedType'
  BY <1>0, ProducedInductive DEF RunType
<1>2. ASSUME NEW r \in Ranks,
             WritePayload(r) \/ Invoke(r) \/ RemovePayload(r) \/ Refused(r)
      PROVE  RunType'
  <2>1. at[r] + 1 \in 1 .. 12
    <3>1. CASE Refused(r)
      BY <1>0, <3>1, RefusedLine
    <3> QED BY <1>0, <1>2, <3>1, ReachedLine DEF WritePayload, Invoke, RemovePayload
  <2>2. UNCHANGED <<posted, inside>> /\ at' = [at EXCEPT ![r] = at[r] + 1]
    BY <1>2 DEF WritePayload, Invoke, RemovePayload, Refused, Advance, mpi
  <2>3. UNCHANGED job
    BY <1>2 DEF WritePayload, RemovePayload, Refused, Catch, Invoke, CallWriteShard,
                CallValidate, StartLoop, CallAssemble, Return, Throw, Leave, Goto
  <2> QED BY <1>0, <1>1, <2>1, <2>2, <2>3 DEF RunType
<1>9. ASSUME NEW r \in Ranks, Skip(r) PROVE RunType'
  <2>1. Len(Program) = 11
    BY DEF Program
  <2> QED BY <1>0, <1>1, <1>9, <2>1 DEF Skip, RunType, vars, mpi
<1>3. ASSUME NEW r \in Ranks, Inside(r) PROVE RunType'
  <2>1. UNCHANGED job
    BY <1>3 DEF Inside, LibraryStep, OpenPartial, ClosePartial, RenamePartial, ReadManifest,
                CheckInventory, OpenAssembly, FillAssembly, Return, Throw, Leave, Goto
  <2> QED BY <1>0, <1>1, <1>3, <2>1 DEF Inside, RunType, mpi
<1>4. ASSUME NEW r \in Ranks, EnterCollective(r) PROVE RunType'
  <2>1. PICK kind \in MPI!Kinds : Reaches(r, kind) /\ MPI!Post(r, kind)
    BY <1>4 DEF EnterCollective
  <2>2. kind # "bcast"
    BY <1>0, <2>1, ReachedLine, ProgramLines
  <2>3. Append(posted[r], kind) \in Seq(MPI!Kinds \ {"bcast"})
    BY <1>0, <2>2 DEF RunType
  <2> QED BY <1>0, <1>1, <1>4, <2>1, <2>3 DEF EnterCollective, MPI!Post, RunType, vars
<1>5. ASSUME NEW r \in Ranks, LeaveCollective(r) PROVE RunType'
  <2>1. at[r] \in CollectiveLines
    BY <1>5 DEF LeaveCollective, MPI!Complete, RunInv, CollectivesSound
  <2>2. at[r] + 1 \in 1 .. 12
    BY <2>1 DEF CollectiveLines
  <2> QED BY <1>0, <1>1, <1>5, <2>2 DEF LeaveCollective, MPI!Complete, Advance, RunType, vars
<1>6. ASSUME NEW r \in Ranks, Guard(r) \/ Crash(r) \/ Kill(r) PROVE RunType'
  BY <1>0, <1>1, <1>6 DEF Guard, Crash, Kill, MPI!Abort, MPI!Killed, RunType, vars
<1>7. ASSUME NEW j \in Jobs, Resubmit(j) PROVE RunType'
  <2>1. <<>> \in Seq(MPI!Kinds \ {"bcast"})
    OBVIOUS
  <2> QED BY <1>0, <1>1, <1>7, <2>1 DEF Resubmit, Restart, Start, RunType
<1>8. CASE UNCHANGED runVars
  BY <1>0, <1>1, <1>8 DEF runVars, vars, mpi, RunType
<1> QED BY <1>2, <1>3, <1>4, <1>5, <1>6, <1>7, <1>8, <1>9 DEF RunNext, RankStep

\* Before and between the calls.
LEMMA OutsideKeeps ==
    ASSUME RunInv, TypeOK, RunType', NEW r \in Ranks, WritePayload(r) \/ Invoke(r)
    PROVE  RunInv'
<1>0. /\ RunType /\ at[r] \in 1 .. 11 /\ r \in World /\ pc[r] = "idle" /\ ~inside[r]
      /\ UNCHANGED <<posted, inside>> /\ at' = [at EXCEPT ![r] = at[r] + 1]
  BY ReachedLine DEF RunInv, WritePayload, Invoke, Advance, Reaches, Idle, mpi
<1>1. at'[r] = at[r] + 1 /\ \A q \in Ranks \ {r} : at'[q] = at[q]
  BY <1>0 DEF RunType
<1>2. /\ Enabled /\ Dir(r) = r /\ r \in Ranks
      /\ \A q \in Ranks : Dir(q) = q
  BY <1>0, OwnDirectories
<1>3. at[r] \notin CollectiveLines
  BY <1>0, ProgramLines, ReachedLine DEF WritePayload, Invoke, MPI!Kinds
<1>4. ASSUME UNCHANGED <<job>> PROVE CollectivesSound(r)'
  <2>1. Passed(at[r] + 1) = Passed(at[r])
    BY <1>0, <1>3 DEF Passed, CollectiveLines
  <2> QED BY <1>0, <1>1, <1>4, <2>1 DEF RunInv, CollectivesSound, Passed, World
<1>5. CASE WritePayload(r)
  <2>1. PICK some \in SUBSET Files : payload' = [payload EXCEPT ![Dir(r)] = @ \cup some]
    BY <1>5 DEF WritePayload
  <2>2. /\ at[r] = 2 /\ UNCHANGED <<job, attempt, pc, locals, manifest, assembly>>
    BY <1>0, <1>5, ReachedLine, ProgramLines DEF WritePayload
  <2>3. \A d \in Ranks : payload[d] \subseteq payload'[d]
    BY <1>2, <2>1 DEF TypeOK, Dirs
  <2>4. ASSUME NEW q \in Ranks \ {r} PROVE Same(q)
    <3>1. \A p \in World : Len(posted'[p]) >= Len(posted[p])
      BY <1>0, OwnDirectories DEF RunType
    <3> QED BY <1>0, <1>1, <1>2, <2>2, <2>3, <3>1 DEF Same, locals
  <2>5. Sound(r)'
    BY <1>0, <1>1, <1>4, <2>2 DEF Sound, PlaceSound, ShardSound, Publishing, Validating
  <2>6. AssembleSound' \/ r # 0
    BY <1>1, <2>2 DEF AssembleSound
  <2>7. Removed(r) => Removed(r)'
    BY <2>2 DEF Removed
  <2> QED BY <2>2, <2>3, <2>4, <2>5, <2>6, <2>7, MoveKeeps
<1>6. CASE Invoke(r)
  <2>1. /\ UNCHANGED <<job, attempt, manifest, assembly, payload>>
        /\ \A q \in Ranks \ {r} : /\ pc'[q] = pc[q] /\ generated'[q] = generated[q]
                                  /\ loop'[q] = loop[q]
    BY <1>6 DEF Invoke, CallWriteShard, CallValidate, StartLoop, CallAssemble, Return, Throw,
                Leave, Goto, disk, TypeOK
  <2>2. ASSUME NEW q \in Ranks \ {r} PROVE Same(q)
    <3>1. \A p \in World : Len(posted'[p]) >= Len(posted[p])
      BY <1>0, OwnDirectories DEF RunType
    <3> QED BY <1>0, <1>1, <2>1, <3>1 DEF Same
  <2>3. CollectivesSound(r)'
    BY <1>4, <2>1
  <2>4. CASE Reaches(r, "shard") /\ CallWriteShard(r, produced[r])
    <3>1. at[r] = 3
      BY <1>0, <2>4, ReachedLine, ProgramLines
    <3>2. \/ /\ pc'[r] = "open" /\ generated'[r] = produced[r]
             /\ produced[r] \subseteq payload[Dir(r)]
          \/ pc'[r] = "threw"
      BY <2>4 DEF CallWriteShard, CheckedPayload, Throw, Leave, Goto, TypeOK
    <3>3. Sound(r)'
      BY <1>1, <1>2, <2>1, <2>3, <3>1, <3>2
         DEF Sound, PlaceSound, ShardSound, Publishing, Validating, Dir, Enabled
    <3>4. AssembleSound' \/ r # 0
      BY <1>1, <3>1 DEF AssembleSound
    <3>5. Removed(r) => Removed(r)'
      BY <3>1 DEF Removed
    <3> QED BY <2>1, <2>2, <3>3, <3>4, <3>5, MoveKeeps
  <2>5. CASE Reaches(r, "validate") /\ CallValidate(r, r)
    <3>1. at[r] = 4
      BY <1>0, <2>5, ReachedLine, ProgramLines
    <3>2. pc'[r] = "read" /\ loop'[r].assembling = FALSE
      BY <2>5 DEF CallValidate, StartLoop, Goto, TypeOK
    <3>3. ShardDone(r)
      BY <1>0, <3>1 DEF RunInv, ShardSound
    <3>4. Sound(r)'
      BY <1>1, <2>1, <2>3, <3>1, <3>2, <3>3
         DEF Sound, PlaceSound, ShardSound, ShardDone, Removed, Publishing,
             Validating
    <3>5. AssembleSound' \/ r # 0
      BY <1>1, <3>1 DEF AssembleSound
    <3>6. Removed(r) => Removed(r)'
      BY <3>1 DEF Removed
    <3> QED BY <2>1, <2>2, <3>4, <3>5, <3>6, MoveKeeps
  <2>6. CASE r = 0 /\ Reaches(r, "assemble") /\ CallAssemble(r)
    <3>1. at[r] = 7
      BY <1>0, <2>6, ReachedLine, ProgramLines
    <3>2. r = 0 /\ pc'[r] = "read" /\ loop'[r].assembling = TRUE
      BY <1>2, <2>6 DEF CallAssemble, StartLoop, Goto, TypeOK
    <3>3. ShardDone(r)
      BY <1>0, <3>1 DEF RunInv, ShardSound
    <3>4. Sound(r)'
      BY <1>1, <2>1, <2>3, <3>1, <3>2, <3>3
         DEF Sound, PlaceSound, ShardSound, ShardDone, Removed, Publishing,
             Validating
    <3>5. AssembleSound' \/ r # 0
      BY <1>1, <3>1, <3>2 DEF AssembleSound
    <3>6. Removed(r) => Removed(r)'
      BY <3>1 DEF Removed
    <3> QED BY <2>1, <2>2, <3>4, <3>5, <3>6, MoveKeeps
  <2>7. CASE r = 0 /\ Reaches(r, "reject") /\ CallValidate(r, 0)
    <3>1. at[r] = 9 /\ r = 0
      BY <1>0, <2>7, ReachedLine, ProgramLines
    <3>2. pc'[r] = "read" /\ loop'[r].assembling = FALSE
      BY <2>7 DEF CallValidate, StartLoop, Goto, TypeOK
    <3>3. ShardDone(r) /\ Removed(r) /\ Removed(r)'
      BY <1>0, <1>1, <3>1 DEF RunInv, ShardSound, Removed
    <3>4. Sound(r)'
      BY <1>1, <2>1, <2>3, <3>1, <3>2, <3>3
         DEF Sound, PlaceSound, ShardSound, ShardDone, Removed, Publishing,
             Validating
    <3>5. AssembleSound'
      BY <1>1, <2>1, <3>1, <3>2 DEF RunInv, AssembleSound, AssemblyOfThisJob
    <3> QED BY <2>1, <2>2, <3>3, <3>4, <3>5, MoveKeeps
  <2> QED BY <1>6, <2>4, <2>5, <2>6, <2>7 DEF Invoke
<1> QED BY <1>5, <1>6

\* The coordinator removes its payload, and catches the refusal; the others go
\* past its lines.
LEMMA CoordinatorKeeps ==
    ASSUME RunInv, TypeOK, RunType', NEW r \in Ranks,
           Skip(r) \/ RemovePayload(r) \/ Refused(r)
    PROVE  RunInv'
<1>0. RunType /\ Enabled /\ \A q \in Ranks : Dir(q) = q
  BY OwnDirectories DEF RunInv
<1>1. \/ r # 0 /\ at[r] = 7 /\ at' = [at EXCEPT ![r] = 11] /\ UNCHANGED payload
      \/ r = 0 /\ at[r] \in {8, 10} /\ at' = [at EXCEPT ![r] = at[r] + 1]
  <2>1. CASE Skip(r)
    <3>1. Len(Program) = 11
      BY DEF Program
    <3> QED BY <1>0, <2>1, <3>1, ReachedLine, ProgramLines DEF Skip, vars, disk
  <2>2. CASE RemovePayload(r)
    <3>1. at[r] = 8
      BY <1>0, <2>2, ReachedLine, ProgramLines DEF RemovePayload
    <3> QED BY <2>2, <3>1 DEF RemovePayload, Advance, RunInv, PlaceSound
  <2>3. CASE Refused(r)
    BY <2>3, RefusedLine DEF Refused, Advance
  <2> QED BY <2>1, <2>2, <2>3
<1>2. /\ at'[r] \in {9, 11} /\ at'[r] > at[r] /\ at[r] \in 7 .. 10
      /\ at'[r] = 11 \/ r = 0
  BY <1>0, <1>1 DEF RunType
<1>3. /\ UNCHANGED <<job, attempt, generated, loop, manifest, assembly, posted, inside>>
      /\ pc'[r] = "idle" /\ inside[r] = FALSE
      /\ \A q \in Ranks \ {r} : /\ pc'[q] = pc[q] /\ payload'[q] = payload[q]
                                /\ at'[q] = at[q]
  <2>1. UNCHANGED <<job, attempt, generated, loop, manifest, assembly, posted, inside>>
    BY DEF Skip, RemovePayload, Refused, Catch, Goto, vars, locals, disk, mpi
  <2>2. pc'[r] = "idle" /\ \A q \in Ranks \ {r} : pc'[q] = pc[q]
    BY DEF Skip, RemovePayload, Refused, Catch, Goto, Reaches, Idle, vars, TypeOK
  <2>3. \A q \in Ranks \ {r} : payload'[q] = payload[q]
    BY <1>0 DEF Skip, RemovePayload, Refused, Catch, vars, disk, TypeOK, Dirs
  <2>4. \A q \in Ranks \ {r} : at'[q] = at[q]
    BY <1>0, <1>1 DEF RunType
  <2>5. at[r] \notin CollectiveLines /\ inside[r] \in BOOLEAN
    BY <1>0, <1>2 DEF RunType, CollectiveLines
  <2> QED BY <2>1, <2>2, <2>3, <2>4, <2>5 DEF RunInv, CollectivesSound
<1>4. ASSUME NEW q \in Ranks \ {r} PROVE Same(q)
  <2>1. \A p \in World : Len(posted'[p]) >= Len(posted[p])
    BY <1>0, <1>3, OwnDirectories DEF RunType
  <2> QED BY <1>0, <1>3, <2>1 DEF Same
<1>5. /\ payload[r] \subseteq payload'[r] \/ Removed(r)'
      /\ Removed(r) => Removed(r)'
  BY <1>1, <1>2 DEF Removed
<1>6. Sound(r)'
  <2>1. PlaceSound(r)'
    BY <1>1, <1>2, <1>3 DEF PlaceSound, Publishing, Validating
  <2>2. CollectivesSound(r)'
    <3>1. Passed(at[r]) = 3 /\ Passed(at'[r]) = 3 /\ Passed(at[r])' = 3
      BY <1>2 DEF Passed
    <3> QED BY <1>3, <3>1 DEF RunInv, CollectivesSound, World
  <2>3. ShardSound(r)'
    <3>1. r \in World => ShardDone(r)
      BY <1>2 DEF RunInv, ShardSound
    <3>2. World' = World
      BY <1>3 DEF World
    <3> QED BY <1>3, <1>5, <3>1, <3>2 DEF ShardSound, ShardDone
  <2> QED BY <2>1, <2>2, <2>3 DEF Sound
<1>7. r = 0 => AssembleSound'
  <2> SUFFICES ASSUME r = 0 PROVE AssembleSound'
    OBVIOUS
  <2>1. AssemblyOfThisJob /\ assembly.content # "opened"
    <3>1. at[0] = 8 => pc[0] = "idle"
      <4>1. at[0] = 8 => ~Refused(r)
        BY RefusedLine
      <4> QED BY <4>1 DEF Skip, RemovePayload, Reaches, Idle
    <3> QED BY <1>1, <3>1 DEF RunInv, AssembleSound
  <2> QED BY <1>2, <1>3, <2>1 DEF AssembleSound, AssemblyOfThisJob
<1> QED BY <1>3, <1>4, <1>5, <1>6, <1>7, MoveKeeps

\* Within MPI, and where it ends.
LEMMA MpiKeeps ==
    ASSUME RunInv, TypeOK, RunType', NEW r \in Ranks
    PROVE  /\ EnterCollective(r) \/ LeaveCollective(r) => RunInv'
           /\ Guard(r) \/ Crash(r) \/ Kill(r) => RunInv'
<1>0. RunType
  BY DEF RunInv
<1>1. ASSUME EnterCollective(r) PROVE RunInv'
  <2>1. PICK kind \in MPI!Kinds : Reaches(r, kind) /\ MPI!Post(r, kind)
    BY <1>1 DEF EnterCollective
  <2>2. /\ at[r] \in CollectiveLines /\ r \in World /\ pc[r] = "idle" /\ ~inside[r]
    BY <1>0, <2>1, ReachedLine, ProgramLines DEF Reaches, Idle
  <2>3. /\ inside' = [inside EXCEPT ![r] = TRUE]
        /\ posted' = [posted EXCEPT ![r] = Append(posted[r], kind)]
        /\ UNCHANGED <<vars, at, produced>>
    BY <1>1, <2>1 DEF EnterCollective, MPI!Post
  <2>4. Len(posted'[r]) = Len(posted[r]) + 1
    BY <1>0, <2>3 DEF RunType
  <2>5. \A p \in Ranks : /\ Len(posted[p]) \in Nat /\ Len(posted'[p]) \in Nat
                         /\ Len(posted'[p]) >= Len(posted[p])
    <3>1. \A p \in Ranks \ {r} : posted'[p] = posted[p]
      BY <1>0, <2>3 DEF RunType
    <3>2. \A p \in Ranks : Len(posted[p]) \in Nat
      BY <1>0 DEF RunType
    <3>3. \A p \in Ranks : posted'[p] = posted[p] \/ Len(posted'[p]) = Len(posted[p]) + 1
      BY <2>4, <3>1
    <3> QED BY <3>2, <3>3
  <2>6. ASSUME NEW q \in Ranks \ {r} PROVE Same(q)
    <3>1. \A p \in World : Len(posted'[p]) >= Len(posted[p])
      BY <1>0, <2>5, OwnDirectories
    <3>2. inside'[q] = inside[q] /\ posted'[q] = posted[q]
      BY <1>0, <2>3 DEF RunType
    <3> QED BY <2>3, <3>1, <3>2 DEF Same, vars, locals, disk
  <2>7. CollectivesSound(r)'
    <3>0. CollectivesSound(r) /\ ~inside[r]
      BY <2>2 DEF RunInv
    <3>1. Len(posted[r]) = Passed(at[r]) + 0
      BY <3>0 DEF CollectivesSound
    <3>2. Passed(at[r]) \in Nat
      <4>1. at[r] \in 1 .. 12
        BY <1>0 DEF RunType
      <4> QED BY <4>1 DEF Passed
    <3>3. \A q \in World : Len(posted'[q]) >= Passed(at[r])
      BY <2>2, <2>5, <3>2, OwnDirectories DEF RunInv, CollectivesSound
    <3>4. inside'[r] /\ UNCHANGED <<at, pc, job>>
      BY <1>0, <2>3 DEF RunType, vars
    <3> QED BY <2>2, <2>4, <3>1, <3>2, <3>3, <3>4 DEF CollectivesSound, Passed, World
  <2>8. Sound(r)'
    BY <2>3, <2>7 DEF RunInv, Sound, PlaceSound, ShardSound, ShardDone, vars, locals, disk,
                      Removed, Dir, Enabled, World
  <2>9. AssembleSound'
    BY <2>3 DEF RunInv, AssembleSound, AssemblyOfThisJob, vars, disk
  <2> QED BY <2>3, <2>6, <2>8, <2>9, MoveKeeps DEF vars, disk, Removed
<1>2. ASSUME LeaveCollective(r) PROVE RunInv'
  <2>1. /\ inside[r] /\ inside' = [inside EXCEPT ![r] = FALSE]
        /\ at' = [at EXCEPT ![r] = at[r] + 1]
        /\ UNCHANGED <<vars, produced, posted>>
    BY <1>2 DEF LeaveCollective, MPI!Complete, Advance
  <2>2. /\ at[r] \in CollectiveLines /\ r \in World /\ pc[r] = "idle"
        /\ Len(posted[r]) = Passed(at[r]) + 1
    BY <2>1 DEF RunInv, CollectivesSound
  <2>3. Passed(at[r] + 1) = Passed(at[r]) + 1 /\ at'[r] = at[r] + 1 /\ ~inside'[r]
    BY <1>0, <2>1, <2>2 DEF Passed, CollectiveLines, RunType
  <2>4. \A q \in World : Len(posted[q]) >= Len(posted[r])
    <3>1. Len(posted[r]) \in Nat /\ Len(posted[r]) >= 1
      BY <1>0, <2>2 DEF RunType, Passed
    <3>2. posted[r][Len(posted[r])] # "bcast"
      BY <1>0, <3>1 DEF RunType
    <3> QED BY <1>2, <3>2 DEF LeaveCollective, MPI!Complete, MPI!Joined
  <2>5. \A q \in Ranks \ {r} : Same(q)
    BY <1>0, <2>1, OwnDirectories DEF Same, vars, locals, disk, RunType
  <2>6. CollectivesSound(r)'
    <3>1. Len(posted[r]) = Passed(at[r] + 1) + 0
      BY <2>2, <2>3 DEF Passed
    <3>2. \A q \in World : Len(posted[q]) >= Passed(at[r] + 1)
      BY <2>2, <2>3, <2>4
    <3> QED BY <2>1, <2>2, <2>3, <3>1, <3>2 DEF CollectivesSound, Passed, World, vars
  <2>7. PlaceSound(r)'
    BY <2>1, <2>2, <2>3 DEF PlaceSound, Publishing, Validating, CollectiveLines, vars
  <2>8. ShardSound(r)'
    BY <2>1, <2>2, <2>3
       DEF RunInv, ShardSound, ShardDone, Removed, CollectiveLines, vars, disk, World
  <2>9. r = 0 => AssembleSound'
    BY <2>1, <2>2, <2>3 DEF RunInv, AssembleSound, AssemblyOfThisJob, CollectiveLines, vars, disk
  <2>10. Removed(r) => Removed(r)'
    BY <2>2, <2>3 DEF Removed, CollectiveLines
  <2> QED BY <2>1, <2>5, <2>6, <2>7, <2>8, <2>9, <2>10, MoveKeeps DEF Sound, vars, disk
<1>3. ASSUME Guard(r) \/ Crash(r) \/ Kill(r) PROVE RunInv'
  <2>1. UNCHANGED <<vars, at, posted, inside>>
    BY <1>3 DEF Guard, Crash, Kill, MPI!Abort, MPI!Killed
  <2>2. \A q \in Ranks : Same(q)
    BY <1>0, <2>1, OwnDirectories DEF Same, vars, locals, disk, RunType
  <2>3. AssembleSound' /\ Sound(r)'
    BY <1>0, <2>1, <2>2, SameKeeps
       DEF RunInv, AssembleSound, AssemblyOfThisJob, Sound, vars, disk
  <2> QED BY <2>1, <2>2, <2>3, MoveKeeps DEF vars, disk, Removed
<1> QED BY <1>1, <1>2, <1>3

\* A step inside a library call, by a rank that is in it.
InCall(r) ==
    /\ RunInv /\ TypeOK /\ IInv /\ RunType'
    /\ pc[r] \in Publishing \cup Validating
    /\ UNCHANGED <<job, attempt, at, posted, inside>>
    /\ \A q \in Ranks \ {r} : /\ pc'[q] = pc[q] /\ generated'[q] = generated[q]
                              /\ loop'[q] = loop[q]

\* What such a step leaves as it was, and where its rank is.
LEMMA InCallFrame ==
    ASSUME NEW r \in Ranks, InCall(r)
    PROVE  /\ r \in World /\ at[r] \in {4, 5, 8, 10}
           /\ Enabled /\ \A q \in Ranks : Dir(q) = q
           /\ CollectivesSound(r)'
           /\ UNCHANGED payload =>
                 \A q \in Ranks \ {r} : manifest'[q] = manifest[q] => Same(q)
<1>1. pc[r] \notin {"idle", "threw"}
  BY DEF InCall, Publishing, Validating
<1>2. r \in World /\ RankSound(r)
  BY <1>1 DEF InCall, IInv, RanksSound, RankSound
<1>3. PlaceSound(r) /\ CollectivesSound(r)
  BY DEF InCall, RunInv
<1>4. at[r] \in {4, 5, 8, 10}
  BY <1>3 DEF InCall, PlaceSound
<1>5. Enabled /\ \A q \in Ranks : Dir(q) = q
  BY OwnDirectories DEF InCall, RunInv
<1>6. inside[r] = FALSE
  BY <1>1, <1>3 DEF InCall, RunInv, RunType, CollectivesSound
<1>7. CollectivesSound(r)'
  BY <1>3, <1>6 DEF InCall, CollectivesSound, Passed, World
<1>8. ASSUME UNCHANGED payload, NEW q \in Ranks \ {r}, manifest'[q] = manifest[q]
      PROVE  Same(q)
  <2>1. \A p \in World : Len(posted'[p]) >= Len(posted[p])
    <3>1. \A p \in World : Len(posted[p]) \in Nat
      BY OwnDirectories DEF InCall, RunInv, RunType
    <3> QED BY <3>1 DEF InCall
  <2> QED BY <1>8, <2>1 DEF InCall, Same
<1> QED BY <1>2, <1>4, <1>5, <1>7, <1>8

\* Steps that change no file that a reader looks at, and end no publication.
LEMMA QuietKeeps ==
    ASSUME NEW r \in Ranks, InCall(r), UNCHANGED <<payload, manifest, assembly>>,
           PlaceSound(r)', pc[r] \in Publishing => pc'[r] # "idle",
           at[r] = 8 => pc'[r] \notin {"idle", "fill"}
    PROVE  RunInv'
<1>1. ShardSound(r)'
  BY InCallFrame DEF InCall, RunInv, PlaceSound, ShardSound, ShardDone, Removed, World
<1>2. r = 0 => AssembleSound'
  BY InCallFrame DEF InCall, RunInv, AssembleSound, AssemblyOfThisJob
<1>3. Removed(r) => Removed(r)'
  BY DEF InCall, Removed
<1> QED BY <1>1, <1>2, <1>3, InCallFrame, MoveKeeps DEF InCall, Sound

\* Rank 0 writes the assembly manifest over shards that are done.
LEMMA AssemblyKeeps ==
    ASSUME NEW r \in Ranks, InCall(r), UNCHANGED <<payload, manifest>>,
           r = 0, at[r] = 8, pc'[r] \in {"idle", "fill"},
           pc'[r] = "fill" => loop'[r].assembling, AssemblyOfThisJob',
           pc'[r] = "idle" => assembly'.content # "opened"
    PROVE  RunInv'
<1>1. \A k \in World : ShardDone(k)
  BY InCallFrame, AllShardsDone DEF InCall
<1>2. AttemptSound' /\ AssembleSound'
  BY <1>1 DEF InCall, AttemptSound, AssembleSound, ShardDone, Removed, World
<1>3. PlaceSound(r)'
  BY DEF InCall, PlaceSound, Publishing, Validating
<1>4. ShardSound(r)'
  BY <1>1 DEF InCall, ShardSound, ShardDone, Removed, World
<1>5. \A q \in Ranks : Sound(q)'
  BY <1>3, <1>4, InCallFrame, SameKeeps DEF InCall, RunInv, Sound
<1> QED BY <1>2, <1>5 DEF InCall, RunInv, Sound

\* A publication ends.
LEMMA RenameKeepsRun ==
    ASSUME NEW r \in Ranks, InCall(r), RenamePartial(r), ~Throw(r)
    PROVE  RunInv'
<1>1. /\ manifest' = [manifest EXCEPT ![Dir(r)] = partial[Dir(r)]]
      /\ pc[r] = "rename" /\ pc'[r] = "idle"
      /\ UNCHANGED <<payload, assembly>>
  BY DEF RenamePartial, Return, Leave, Goto, InCall, TypeOK
<1>2. at[r] = 4 /\ generated[r] \subseteq payload[r]
  BY <1>1, InCallFrame DEF InCall, RunInv, PlaceSound, Publishing
<1>3. partial[Dir(r)] = Manifest(r)
  BY <1>1 DEF InCall, IInv, RanksSound, RankSound
<1>4. manifest'[r] = Manifest(r) /\ \A q \in Ranks \ {r} : manifest'[q] = manifest[q]
  BY <1>1, <1>3, InCallFrame DEF InCall, TypeOK, Dirs
<1>5. Manifest(r).attempt = attempt /\ Manifest(r).files = generated[r]
  BY DEF Manifest
<1>6. ShardDone(r)'
  <2>1. Manifest(r) \in ShardManifests
    BY ManifestType DEF InCall
  <2> QED BY <1>1, <1>2, <1>4, <1>5, <2>1 DEF InCall, ShardDone
<1>7. Sound(r)'
  BY <1>1, <1>2, <1>6, InCallFrame
     DEF InCall, Sound, PlaceSound, ShardSound, Publishing, Validating
<1>8. \A q \in Ranks : Sound(q)'
  BY <1>1, <1>4, <1>7, InCallFrame, SameKeeps DEF InCall, RunInv, Sound
<1>9. AttemptSound'
  <2> SUFFICES ASSUME AssemblyOfThisJob', NEW k \in World PROVE ShardDone(k)'
    BY DEF InCall, AttemptSound, World
  <2>1. CASE k # r
    <3>1. k \in Ranks /\ AssemblyOfThisJob
      BY <1>1, OwnDirectories DEF InCall, RunInv, AssemblyOfThisJob
    <3> QED BY <1>1, <1>4, <2>1, <3>1
            DEF InCall, RunInv, AttemptSound, ShardDone, Removed
  <2> QED BY <1>6, <2>1
<1>10. AssembleSound'
  <2>1. 0 \in Ranks
    BY OwnDirectories DEF InCall, RunInv
  <2> QED BY <1>1, <1>2, <2>1 DEF InCall, RunInv, AssembleSound, AssemblyOfThisJob
<1> QED BY <1>8, <1>9, <1>10 DEF InCall, RunInv, Sound

\* Inside the calls.
LEMMA InsideKeeps ==
    ASSUME RunInv, TypeOK, IInv, RunType', NEW r \in Ranks, Inside(r)
    PROVE  RunInv'
<1>1. LibraryStep(r) /\ UNCHANGED <<at, posted, inside>>
  BY DEF Inside, mpi
<1>2. InCall(r)
  <2>1. pc[r] \in Publishing \cup Validating
    BY <1>1 DEF LibraryStep, OpenPartial, ClosePartial, RenamePartial, ReadManifest,
                CheckInventory, OpenAssembly, FillAssembly, Publishing, Validating
  <2>2. /\ UNCHANGED <<job, attempt>>
        /\ \A q \in Ranks \ {r} : /\ pc'[q] = pc[q] /\ generated'[q] = generated[q]
                                  /\ loop'[q] = loop[q]
    BY <1>1 DEF LibraryStep, OpenPartial, ClosePartial, RenamePartial, ReadManifest,
                CheckInventory, OpenAssembly, FillAssembly, Throw, Return, Leave, Goto,
                locals, TypeOK
  <2> QED BY <1>1, <2>1, <2>2 DEF InCall
<1>3. PlaceSound(r) /\ RankSound(r)
  BY DEF RunInv, IInv, RanksSound
<1>4. CASE Throw(r)
  <2>1. pc'[r] = "threw" /\ UNCHANGED <<payload, manifest, assembly>>
    BY <1>4 DEF Throw, Leave, Goto, disk, TypeOK
  <2>2. PlaceSound(r)'
    BY <1>2, <1>3, <2>1, InCallFrame DEF InCall, PlaceSound, Publishing, Validating
  <2> QED BY <1>2, <2>1, <2>2, QuietKeeps
<1>5. CASE (OpenPartial(r) \/ ClosePartial(r)) /\ ~Throw(r)
  <2>1. /\ pc[r] \in Publishing /\ pc'[r] \in {"close", "rename"}
        /\ UNCHANGED <<payload, manifest, assembly, generated>>
    BY <1>5 DEF OpenPartial, ClosePartial, Goto, locals, TypeOK, Publishing
  <2>2. at[r] = 4 /\ PlaceSound(r)'
    BY <1>2, <1>3, <2>1 DEF InCall, PlaceSound, Publishing, Validating, Dir, Enabled
  <2> QED BY <1>2, <2>1, <2>2, QuietKeeps
<1>6. CASE RenamePartial(r) /\ ~Throw(r)
  BY <1>2, <1>6, RenameKeepsRun
<1>7. CASE (ReadManifest(r) \/ CheckInventory(r)) /\ ~Throw(r)
  <2>1. pc[r] \in {"read", "check"} /\ UNCHANGED <<payload, manifest, assembly>>
    BY <1>7 DEF ReadManifest, CheckInventory, disk
  <2>2. \/ /\ pc'[r] \in {"check", "read", "assemble"}
           /\ loop'[r].assembling = loop[r].assembling
        \/ pc'[r] = "idle" /\ ~loop[r].assembling
    <3>1. pc \in [Ranks -> Steps] /\ loop \in [Ranks -> Loops] /\ loop[r] \in Loops
      BY DEF TypeOK
    <3>2. CASE ReadManifest(r)
      BY <1>7, <3>1, <3>2 DEF ReadManifest, Goto
    <3>3. CASE CheckInventory(r)
      BY <1>7, <3>1, <3>3 DEF CheckInventory, Return, Leave, Goto, Loops
    <3> QED BY <1>7, <3>2, <3>3
  <2>3. PlaceSound(r)' /\ (at[r] = 8 => loop[r].assembling)
    BY <1>2, <1>3, <2>1, <2>2 DEF InCall, PlaceSound, Publishing, Validating
  <2>4. pc[r] \notin Publishing /\ (at[r] = 8 => pc'[r] \notin {"idle", "fill"})
    BY <2>1, <2>2, <2>3 DEF Publishing
  <2> QED BY <1>2, <2>1, <2>3, <2>4, QuietKeeps
<1>8. CASE (OpenAssembly(r) \/ FillAssembly(r)) /\ ~Throw(r)
  <2>1. pc[r] \in {"assemble", "fill"} /\ UNCHANGED <<payload, manifest>>
    BY <1>8 DEF OpenAssembly, FillAssembly
  <2>2. loop[r].assembling /\ at[r] = 8 /\ r = 0
    BY <1>3, <2>1 DEF PlaceSound, RankSound, LoopSound, Validating
  <2>3. CASE OpenAssembly(r)
    <3>1. assembly' = [runId |-> job.runId, label |-> job.label, world |-> job.world,
                       attempt |-> attempt, content |-> "opened"]
          /\ pc'[r] = "fill" /\ UNCHANGED loop
      BY <1>8, <2>3 DEF OpenAssembly, Goto, locals, TypeOK
    <3>2. AssemblyOfThisJob'
      BY <1>2, <3>1 DEF InCall, TypeOK, JobSet, Assemblies, AssemblyOfThisJob
    <3> QED BY <1>2, <2>1, <2>2, <3>1, <3>2, AssemblyKeeps
  <2>4. CASE FillAssembly(r)
    <3>1. PICK content \in {"cut", "whole"} :
             assembly' = [assembly EXCEPT !.content = content]
      BY <2>4 DEF FillAssembly
    <3>2. pc[r] = "fill" /\ pc'[r] = "idle"
      BY <2>4 DEF FillAssembly, Return, Leave, Goto, TypeOK
    <3>3. AssemblyOfThisJob
      BY <2>2, <3>2 DEF RunInv, AssembleSound
    <3>4. AssemblyOfThisJob'
      BY <1>2, <3>1, <3>3 DEF InCall, Assemblies, AssemblyOfThisJob
    <3>5. assembly'.content # "opened"
      BY <3>1, <3>3 DEF AssemblyOfThisJob, Assemblies
    <3> QED BY <1>2, <2>1, <2>2, <3>2, <3>4, <3>5, AssemblyKeeps
  <2> QED BY <1>8, <2>3, <2>4
<1> QED BY <1>1, <1>4, <1>5, <1>6, <1>7, <1>8 DEF LibraryStep

\* The next job: nobody has done anything, and no assembly manifest is of it.
LEMMA ResubmitKeeps ==
    ASSUME RunInv, TypeOK, IInv, RunType', NEW j \in Jobs, Resubmit(j)
    PROVE  RunInv'
<1>1. /\ UNCHANGED assembly /\ attempt' = attempt + 1 /\ attempt \in Nat
      /\ \A r \in Ranks : /\ at'[r] = 1 /\ posted'[r] = <<>> /\ inside'[r] = FALSE
                          /\ pc'[r] = "idle"
  BY DEF Resubmit, Restart, Start, disk, TypeOK
<1>2. ~AssemblyOfThisJob'
  <2>1. assembly \in Assemblies => assembly.attempt \in Nat /\ assembly.attempt <= attempt
    BY DEF IInv, AssemblySound, Assemblies
  <2> QED BY <1>1, <2>1 DEF AssemblyOfThisJob
<1>3. World' \subseteq Ranks /\ 0 \in Ranks
  <2>1. j \in JobSet /\ job' = j
    BY ConstantsAssumption DEF Resubmit, Restart
  <2> QED BY <2>1, ConstantsAssumption DEF JobSet, World, Ranks
<1>4. ASSUME NEW r \in Ranks PROVE Sound(r)'
  BY <1>1, <1>3, <1>4
     DEF Sound, PlaceSound, CollectivesSound, ShardSound, Passed, Publishing, Validating
<1>5. AssembleSound' /\ AttemptSound'
  BY <1>1, <1>2, <1>3 DEF AssembleSound, AttemptSound
<1> QED BY <1>4, <1>5 DEF RunInv, Sound

-----------------------------------------------------------------------------
(* The theorems *)

\* Every step of a run keeps the invariant.
LEMMA RunInductive ==
    ASSUME RunInv, TypeOK, IInv, [RunNext]_runVars
    PROVE  RunInv'
<1>1. RunType'
  BY RunTypeKeeps
<1>2. CASE UNCHANGED runVars
  <2>1. ASSUME NEW r \in Ranks PROVE Same(r)
    <3>1. \A q \in World : Len(posted[q]) \in Nat
      BY OwnDirectories DEF RunInv, RunType
    <3> QED BY <1>2, <3>1 DEF Same, runVars, vars, mpi, locals, disk
  <2>2. \A r \in Ranks : Sound(r)'
    BY <1>1, <2>1, SameKeeps DEF RunInv, Sound
  <2>3. AssembleSound' /\ AttemptSound'
    BY <1>2 DEF RunInv, AssembleSound, AttemptSound, ShardDone, Removed, AssemblyOfThisJob,
                World, runVars, vars, disk
  <2> QED BY <1>1, <2>2, <2>3 DEF RunInv, Sound
<1>3. ASSUME NEW r \in Ranks, RankStep(r) \/ Crash(r) \/ Kill(r) PROVE RunInv'
  BY <1>1, <1>3, OutsideKeeps, CoordinatorKeeps, InsideKeeps, MpiKeeps DEF RankStep
<1>4. ASSUME NEW j \in Jobs, Resubmit(j) PROVE RunInv'
  BY <1>1, <1>4, ResubmitKeeps
<1> QED BY <1>2, <1>3, <1>4 DEF RunNext

\* Before the first step nobody has done anything.
LEMMA RunInitial == RunInit => RunInv
<1> SUFFICES ASSUME RunInit PROVE RunInv
  OBVIOUS
<1>1. RunType
  BY DEF RunInit, Init, MPI!MpiInit, Start, RunType, ProducedType
<1>2. World \subseteq Ranks /\ 0 \in Ranks
  BY ConstantsAssumption DEF RunInit, Init, JobSet, World, Ranks
<1>3. ASSUME NEW r \in Ranks PROVE Sound(r)
  BY <1>2, <1>3 DEF RunInit, Init, MPI!MpiInit, Start, Sound, PlaceSound, CollectivesSound,
                    ShardSound, Passed, Publishing, Validating
<1>4. ~AssemblyOfThisJob
  BY ConstantsAssumption DEF RunInit, Init, AssemblyOfThisJob
<1> QED BY <1>1, <1>2, <1>3, <1>4
        DEF RunInit, Init, Start, RunInv, Sound, AssembleSound, AttemptSound

\* In every distributed run, RunInv holds.
THEOREM RunInvariance == RunSpec => []RunInv
<1>1. RunSpec => [](TypeOK /\ IInv)
  BY RunImplementsLibrary, Invariance, PTL
<1>2. RunInit => RunInv
  BY RunInitial
<1>3. RunInv /\ TypeOK /\ IInv /\ [RunNext]_runVars => RunInv'
  BY RunInductive
<1> QED BY <1>1, <1>2, <1>3, PTL DEF RunSpec

\* An assembly manifest of a job names shards that this job wrote, and no other,
\* with their files until rank 0 removes its own: rank 0 passes the barrier before
\* WriteAssemblyManifest only when every rank's WriteRankShardManifest has returned.
THEOREM AttemptCorrect == RunSpec => []AssemblyFromThisAttempt
<1>1. ASSUME RunInv, TypeOK PROVE AssemblyFromThisAttempt
  <2> SUFFICES ASSUME AssemblyOfThisJob, NEW k \in World, Removed(k)
               PROVE  HasRemoved(k)
    BY <1>1 DEF RunInv, AttemptSound, ShardDone, AssemblyFromThisAttempt
  <2>1. 8 \in DOMAIN Program /\ Program[8] = "remove"
    BY DEF Program
  <2>2. at[k] \in 1 .. 12 /\ k = 0 /\ at[k] >= 9
    BY <1>1, OwnDirectories DEF RunInv, RunType, Removed
  <2> QED BY <2>1, <2>2 DEF HasRemoved
<1>2. RunSpec => [](TypeOK /\ IInv)
  BY RunImplementsLibrary, Invariance, PTL
<1> QED BY <1>1, <1>2, RunInvariance, PTL

\* When the program ends well on any rank, rank 0 has written the assembly manifest
\* of its job to its end: it enters the last barrier after that call's return.
THEOREM SuccessCorrect == RunSpec => []DoneMeansAssembled
<1>1. RunSpec => [](TypeOK /\ IInv)
  BY RunImplementsLibrary, Invariance, PTL
<1>2. ASSUME RunInv, TypeOK PROVE DoneMeansAssembled
  <2> SUFFICES ASSUME NEW r \in World, Done(r)
               PROVE  AssemblyOfThisJob /\ assembly.content # "opened"
    BY DEF DoneMeansAssembled
  <2>1. r \in Ranks /\ 0 \in World /\ 0 \in Ranks
    BY <1>2, OwnDirectories DEF RunInv
  <2>2. Len(Program) = 11
    BY DEF Program
  <2>3. at[r] = 12
    BY <2>2 DEF Done
  <2>4. Len(posted[0]) >= 4
    BY <1>2, <2>1, <2>3 DEF RunInv, CollectivesSound, Passed
  <2>5. at[0] \in 1 .. 12
    BY <1>2, <2>1 DEF RunInv, RunType
  <2>6. CollectivesSound(0) /\ AssembleSound
    BY <1>2, <2>1 DEF RunInv
  <2>7. CASE inside[0]
    <3>1. Len(posted[0]) = Passed(at[0]) + 1 /\ at[0] \in CollectiveLines /\ pc[0] = "idle"
      BY <2>6, <2>7 DEF CollectivesSound
    <3>2. at[0] = 11
      BY <2>4, <3>1 DEF Passed, CollectiveLines
    <3> QED BY <2>6, <3>1, <3>2 DEF AssembleSound
  <2>8. CASE ~inside[0]
    <3>1. Len(posted[0]) = Passed(at[0]) + 0
      BY <2>6, <2>8 DEF CollectivesSound
    <3>2. at[0] = 12
      BY <2>4, <2>5, <3>1 DEF Passed
    <3> QED BY <2>6, <3>2 DEF AssembleSound
  <2> QED BY <2>7, <2>8
<1> QED BY <1>1, <1>2, RunInvariance, PTL

=============================================================================
