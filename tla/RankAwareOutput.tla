-------------------------- MODULE RankAwareOutput --------------------------
(***************************************************************************)
(* RankAwareOutput.h: the shard manifest every rank of a distributed run   *)
(* publishes, its validation, and the assembly manifest of rank 0.         *)
(*                                                                         *)
(* Every library call runs in the steps at which the file system changes   *)
(* or is read, so that calls of different ranks interleave and a crash can *)
(* fall between any two steps.  The callers are arbitrary here: any rank   *)
(* may change its payload files or make any call whenever it is not inside *)
(* one.  DistributedOutput adds the order in which the SDK's own caller    *)
(* makes them.  After a crash the output directory stays and a new job     *)
(* starts in it, with the same run identity or another one, possibly with  *)
(* another plan or another number of ranks.                                *)
(***************************************************************************)
EXTENDS Integers, FiniteSets

CONSTANTS
    MaxWorld,      \* the largest number of ranks of any job
    Jobs,          \* the jobs that may be started in the output directory
    RunIds,        \* run identities
    Labels,        \* what the <<solver name, partition plan path>> pair says
    NoRunId,       \* the empty run identity
    Unsafe,        \* the run identities and labels with a CR or LF in them
    Files,         \* names of payload files
    Escaping,      \* the names CheckedPayload refuses: empty, absolute, with
                   \* "..", or through a symbolic link
    MaxAttempts,   \* bound: how many jobs are started
    NoFile,        \* nothing at that path
    Torn           \* a file that holds only a prefix of what was written to it

Ranks == 0 .. MaxWorld - 1

\* The parameters of MakeContext and of the calls, the same on every rank.
JobSet == [runId : RunIds, label : Labels, world : 1 .. MaxWorld]

\* The output directory itself and the directory of each rank under shards/.
RootDir == -1
Dirs == Ranks \cup {RootDir}

\* A whole rank_manifest.scpa.  attempt (created_at_utc) says which job wrote
\* it.
ShardManifests == [runId : RunIds, label : Labels, world : 1 .. MaxWorld,
                   rank : Ranks, files : SUBSET Files,
                   attempt : 1 .. MaxAttempts]
\* A rank_assembly.scpa, the same way.  Its call has "opened" it and not got
\* further, or has returned: then the file is "whole", or it was "cut" by a
\* write that failed.
Assemblies == [runId : RunIds, label : Labels, world : 1 .. MaxWorld,
               attempt : 1 .. MaxAttempts,
               content : {"opened", "cut", "whole"}]

ASSUME ConstantsAssumption ==
    /\ MaxWorld \in Nat \ {0}
    /\ MaxAttempts \in Nat \ {0}
    /\ Jobs \subseteq JobSet
    /\ {NoFile, Torn} \cap (ShardManifests \cup Assemblies) = {}
    /\ NoFile # Torn

VARIABLES
    job,        \* the running job
    attempt,    \* how many jobs were started, the running one included
    pc,         \* pc[r]: the next step of the call rank r is in, "idle", or
                \* "threw" when an exception is on its way to the caller
    generated,  \* generated[r]: WriteRankShardManifest's generatedFiles
    loop,       \* loop[r]: the loop over ranks of a validating call
    inventory,  \* inventory[r]: the files that the fields read by it list
    payload,    \* payload[d]: the regular, nonempty payload files of directory d
    partial,    \* partial[d]: rank_manifest.scpa.partial in directory d
    manifest,   \* manifest[d]: rank_manifest.scpa in directory d
    assembly    \* assembly/rank_assembly.scpa

disk == <<payload, partial, manifest, assembly>>
locals == <<generated, loop, inventory>>
vars == <<job, attempt, pc, locals, disk>>

-----------------------------------------------------------------------------
(* MakeContext *)

World == 0 .. job.world - 1
Enabled == job.world > 1
Dir(r) == IF Enabled THEN r ELSE RootDir

\* Mutated form: the rank is written counted from one.
ManifestOneBased(r) ==
    [runId |-> job.runId, label |-> job.label, world |-> job.world,
     rank |-> r + 1, files |-> generated[r], attempt |-> attempt]

\* The manifest rank r writes in this job.
Manifest(r) == [runId |-> job.runId, label |-> job.label, world |-> job.world,
                rank |-> r, files |-> generated[r], attempt |-> attempt]

\* CheckedPayload returns: a plain relative name of a regular, nonempty file.
CheckedPayload(d, f) ==
    /\ f \notin Escaping
    /\ f \in payload[d]

-----------------------------------------------------------------------------
(* How a call starts, goes on and ends.                                    *)

\* No loop is running.
NoLoop == [next |-> 0, last |-> 0, assembling |-> FALSE]

Goto(r, step) ==
    /\ pc' = [pc EXCEPT ![r] = step]
    /\ UNCHANGED <<job, attempt>>

Leave(r, how) ==
    /\ Goto(r, how)
    /\ generated' = [generated EXCEPT ![r] = {}]
    /\ loop' = [loop EXCEPT ![r] = NoLoop]
    /\ inventory' = [inventory EXCEPT ![r] = {}]

Return(r) == Leave(r, "idle")

\* An exception leaves the call; files stay as they are.
Throw(r) == Leave(r, "threw") /\ UNCHANGED disk

Idle(r) == r \in World /\ pc[r] = "idle"

\* A caller that catches the exception may go on.
Catch(r) ==
    /\ pc[r] = "threw"
    /\ Goto(r, "idle")
    /\ UNCHANGED <<locals, disk>>

-----------------------------------------------------------------------------
(* The solver's own files: written, or emptied or removed, by their rank,  *)
(* outside of the library's calls.                                         *)

ChangePayload(r, some) ==
    /\ Idle(r)
    /\ \/ payload' = [payload EXCEPT ![Dir(r)] = @ \cup some]
       \/ payload' = [payload EXCEPT ![Dir(r)] = @ \ some]
    /\ UNCHANGED <<job, attempt, pc, locals, partial, manifest, assembly>>

-----------------------------------------------------------------------------
(* WriteRankShardManifest *)

SafeIdentity ==
    /\ job.runId # NoRunId
    /\ job.runId \notin Unsafe
    /\ job.label \notin Unsafe

CallWriteShard(r, gen) ==
    /\ Idle(r)
    /\ \/ /\ SafeIdentity
          /\ \A f \in gen : CheckedPayload(Dir(r), f)
          /\ Goto(r, "open")
          /\ generated' = [generated EXCEPT ![r] = gen]
          /\ UNCHANGED <<loop, inventory, disk>>
       \/ /\ \/ ~SafeIdentity
             \/ \E f \in gen : ~CheckedPayload(Dir(r), f)
          /\ Throw(r)

\* The partial file is opened for writing, which empties it.
OpenPartial(r) ==
    /\ pc[r] = "open"
    /\ \/ /\ partial' = [partial EXCEPT ![Dir(r)] = Torn]
          /\ Goto(r, "close")
          /\ UNCHANGED <<locals, payload, manifest, assembly>>
       \/ Throw(r)

\* Mutated form: the stream is closed and nobody looks at its state.
ClosePartialUnchecked(r) ==
    /\ pc[r] = "close"
    /\ \E file \in {Torn, Manifest(r)} :
          partial' = [partial EXCEPT ![Dir(r)] = file]
    /\ Goto(r, "rename")
    /\ UNCHANGED <<locals, payload, manifest, assembly>>

\* Every line has been written; the state of the stream is tested after
\* close, so a full disk or a write error ends the call here.
ClosePartial(r) ==
    /\ pc[r] = "close"
    /\ \/ /\ partial' = [partial EXCEPT ![Dir(r)] = Manifest(r)]
          /\ Goto(r, "rename")
          /\ UNCHANGED <<locals, payload, manifest, assembly>>
       \/ Throw(r)

RenamePartial(r) ==
    /\ pc[r] = "rename"
    /\ \/ /\ manifest' = [manifest EXCEPT ![Dir(r)] = partial[Dir(r)]]
          /\ partial' = [partial EXCEPT ![Dir(r)] = NoFile]
          /\ Return(r)
          /\ UNCHANGED <<payload, assembly>>
       \/ Throw(r)

-----------------------------------------------------------------------------
(* ValidateRankShardManifest, alone or as the loop of WriteAssemblyManifest *)

StartLoop(r, first, last, assembling) ==
    /\ Goto(r, "read")
    /\ loop' = [loop EXCEPT ![r] = [next |-> first, last |-> last,
                                    assembling |-> assembling]]
    /\ UNCHANGED <<generated, inventory, disk>>

CallValidate(r, k) ==
    /\ Idle(r)
    /\ StartLoop(r, k, k, FALSE)

CallAssemble(r) ==
    /\ Idle(r)
    /\ \/ /\ Enabled /\ r = 0
          /\ StartLoop(r, 0, job.world - 1, TRUE)
       \/ /\ ~Enabled \/ r # 0
          /\ Return(r)
          /\ UNCHANGED disk

\* Mutated form: the run identity is not compared.
AcceptsAnyRun(file, k) ==
    /\ job.runId # NoRunId
    /\ file.label = job.label
    /\ file.rank = k
    /\ file.world = job.world
    /\ file.files # {}

\* The fields name this run and shard k, and list at least one file.
Accepts(file, k) ==
    /\ job.runId # NoRunId
    /\ file.runId = job.runId
    /\ file.label = job.label
    /\ file.rank = k
    /\ file.world = job.world
    /\ file.files # {}

\* ReadShardFields and the tests on the fields it returned.  A manifest that is
\* missing, a link or unreadable is refused as one whose fields differ is, and
\* so is a prefix, which lacks the inventory or a part of it.
ReadManifest(r) ==
    LET k == loop[r].next
        file == manifest[k]
    IN  /\ pc[r] = "read"
        /\ \/ /\ file \notin {NoFile, Torn}
              /\ Accepts(file, k)
              /\ inventory' = [inventory EXCEPT ![r] = file.files]
              /\ Goto(r, "check")
              /\ UNCHANGED <<generated, loop, disk>>
           \/ Throw(r)

\* Mutated form: the loop runs while rank <= worldSize.
CheckInventoryPastEnd(r) ==
    /\ pc[r] = "check"
    /\ \A f \in inventory[r] : CheckedPayload(loop[r].next, f)
    /\ loop[r].next <= loop[r].last
    /\ loop' = [loop EXCEPT ![r].next = @ + 1]
    /\ inventory' = [inventory EXCEPT ![r] = {}]
    /\ Goto(r, "read")
    /\ UNCHANGED <<generated, disk>>

\* The payload files the fields list are looked at, whatever the manifest
\* says by now; then the next shard, the assembly, or the end.
CheckInventory(r) ==
    LET k == loop[r].next
        listed == \A f \in inventory[r] : CheckedPayload(k, f)
    IN  /\ pc[r] = "check"
        /\ \/ /\ listed /\ k < loop[r].last
              /\ loop' = [loop EXCEPT ![r].next = k + 1]
              /\ inventory' = [inventory EXCEPT ![r] = {}]
              /\ Goto(r, "read")
              /\ UNCHANGED <<generated, disk>>
           \/ /\ listed /\ k = loop[r].last /\ loop[r].assembling
              /\ inventory' = [inventory EXCEPT ![r] = {}]
              /\ Goto(r, "assemble")
              /\ UNCHANGED <<generated, loop, disk>>
           \/ /\ listed /\ k = loop[r].last /\ ~loop[r].assembling
              /\ Return(r)
              /\ UNCHANGED disk
           \/ ~listed /\ Throw(r)

-----------------------------------------------------------------------------
(* WriteAssemblyManifest, after its loop: the file is opened under its     *)
(* final name, which empties it, then written and closed; nothing is       *)
(* tested after the open.                                                  *)

OpenAssembly(r) ==
    /\ pc[r] = "assemble"
    /\ \/ /\ assembly' = [runId |-> job.runId, label |-> job.label,
                          world |-> job.world, attempt |-> attempt,
                          content |-> "opened"]
          /\ Goto(r, "fill")
          /\ UNCHANGED <<locals, payload, partial, manifest>>
       \/ Throw(r)

FillAssembly(r) ==
    /\ pc[r] = "fill"
    /\ \E content \in {"cut", "whole"} :
          assembly' = [assembly EXCEPT !.content = content]
    /\ Return(r)
    /\ UNCHANGED <<payload, partial, manifest>>

-----------------------------------------------------------------------------
(* The job dies between two steps of any of its ranks, and another job is  *)
(* started in the same output directory.                                   *)

Restart(j) ==
    /\ attempt < MaxAttempts
    /\ attempt' = attempt + 1
    /\ job' = j
    /\ pc' = [r \in Ranks |-> "idle"]
    /\ generated' = [r \in Ranks |-> {}]
    /\ loop' = [r \in Ranks |-> NoLoop]
    /\ inventory' = [r \in Ranks |-> {}]
    /\ UNCHANGED disk

-----------------------------------------------------------------------------

Init ==
    /\ job \in Jobs
    /\ attempt = 1
    /\ pc = [r \in Ranks |-> "idle"]
    /\ generated = [r \in Ranks |-> {}]
    /\ loop = [r \in Ranks |-> NoLoop]
    /\ inventory = [r \in Ranks |-> {}]
    /\ payload = [d \in Dirs |-> {}]
    /\ partial = [d \in Dirs |-> NoFile]
    /\ manifest = [d \in Dirs |-> NoFile]
    /\ assembly = NoFile

LibraryStep(r) ==
    \/ OpenPartial(r) \/ ClosePartial(r) \/ RenamePartial(r)
    \/ ReadManifest(r) \/ CheckInventory(r)
    \/ OpenAssembly(r) \/ FillAssembly(r)

Call(r) ==
    \/ \E gen \in SUBSET Files : CallWriteShard(r, gen)
    \/ \E k \in World : CallValidate(r, k)
    \/ CallAssemble(r)
    \/ Catch(r)

Next ==
    \/ \E r \in Ranks : Call(r) \/ LibraryStep(r)
    \/ \E r \in Ranks, some \in SUBSET Files : ChangePayload(r, some)
    \/ \E j \in Jobs : Restart(j)

Spec == Init /\ [][Next]_vars

-----------------------------------------------------------------------------
(* Properties *)

Steps == {"idle", "threw", "open", "close", "rename", "read", "check", "assemble",
          "fill"}
Loops == [next : Ranks, last : Ranks, assembling : BOOLEAN]

\* Every variable has its type.
TypeOK ==
    /\ job \in JobSet
    /\ attempt \in 1 .. MaxAttempts
    /\ pc \in [Ranks -> Steps]
    /\ generated \in [Ranks -> SUBSET Files]
    /\ loop \in [Ranks -> Loops]
    /\ inventory \in [Ranks -> SUBSET Files]
    /\ payload \in [Dirs -> SUBSET Files]
    /\ partial \in [Dirs -> ShardManifests \cup {NoFile, Torn}]
    /\ manifest \in [Dirs -> ShardManifests \cup {NoFile, Torn}]
    /\ assembly \in Assemblies \cup {NoFile}

\* The manifest of shard k is a whole one of the running job's identity.
BelongsToRun(k) ==
    /\ manifest[k] \in ShardManifests
    /\ manifest[k].runId = job.runId
    /\ manifest[k].label = job.label
    /\ manifest[k].world = job.world
    /\ manifest[k].rank = k

AssemblyOfThisJob == assembly \in Assemblies /\ assembly.attempt = attempt

\* Once the running job has begun its assembly manifest, the shard of every
\* one of its ranks is and stays this run's: no shard of an earlier run, of
\* another plan, another number of ranks or another rank is ever behind it,
\* although rank 0 validates the shards one at a time while the others work.
AssemblyCoversEveryRank ==
    AssemblyOfThisJob => \A k \in World : BelongsToRun(k)

\* WriteRankShardManifest and ValidateRankShardManifest agree on the format:
\* a shard published by the running job, listing a file and with all files it
\* lists in place, is one that validation accepts.
WriterAgreesWithValidator ==
    \A k \in World :
        (/\ Enabled
         /\ manifest[k] \in ShardManifests
         /\ manifest[k].attempt = attempt
         /\ manifest[k].files # {})
        => Accepts(manifest[k], k)

\* To readers, shard manifests are published atomically: whatever fails or
\* dies, and whatever .partial an earlier job left, the file holds nothing or
\* a whole manifest that the running job set out to write.
Publishing == {"open", "close", "rename"}

InFlight(r) ==
    IF pc[r] \in Publishing
    THEN [place |-> Dir(r), doc |-> Manifest(r)]
    ELSE [place |-> NoFile, doc |-> NoFile]

Publication == INSTANCE AtomicPublication WITH
    Writers <- Ranks,
    Places <- Dirs,
    Documents <- ShardManifests,
    Nothing <- NoFile,
    published <- manifest,
    offer <- [r \in Ranks |-> InFlight(r)]

ShardPublicationIsAtomic == Publication!Spec

\* rank_assembly.scpa says of itself "assembly_policy = rank0_transaction"
\* (RankAwareOutput.h:202).  The least a transaction promises: when the call of
\* WriteAssemblyManifest that wrote the file has returned, the file is whole.
AssemblyIsTransaction ==
    (assembly # NoFile /\ assembly.content # "opened")
    => assembly.content = "whole"

=============================================================================
