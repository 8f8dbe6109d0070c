------------------------- MODULE DistributedOutput -------------------------
(***************************************************************************)
(* A distributed run: every rank executes the program below under          *)
(* Runtime::Guard (DistributedRuntime.h:85-103), the order being that of   *)
(* the SDK's own caller, tests/DistributedOutputTest.cpp:61-130.           *)
(* RankAwareOutput gives the steps inside the library's calls, Collectives *)
(* the MPI library.  A job that ends, however it does, may be followed by  *)
(* another one in the same output directory.                               *)
(*                                                                         *)
(* Left out of those lines: the remove_all of line 62, which belongs to    *)
(* the fixture (a resubmitted job finds the files of the job before it);   *)
(* the partition plans of 66-97; the three rejected calls of 104-108,      *)
(* which read files and change none; what is for a job of one rank.        *)
(***************************************************************************)
EXTENDS RankAwareOutput, Sequences

\* The program is run by several ranks (Guard throws on in a job of one).
ASSUME SeveralRanks == \A j \in Jobs : j.world > 1

VARIABLES
    at,         \* at[r]: the line of Program that rank r executes
    produced,   \* produced[r]: the payload files that rank r wrote
    posted, inside, aborted, alive      \* see Collectives

MPI == INSTANCE Collectives

mpi == <<posted, inside, aborted, alive>>
runVars == <<vars, at, produced, mpi>>

\* Mutated form: rank 0 does not wait for the shards of the others.
ProgramNoBarrier ==
    <<"barrier", "payload", "shard", "validate",
      "assemble", "remove", "reject", "refused", "barrier">>

\* The lines from "assemble" to "refused" are the coordinator's, rank 0's.
Program ==
    <<"barrier", "payload", "shard", "validate", "sum", "barrier",
      "assemble", "remove", "reject", "refused", "barrier">>

Positions == 1 .. Len(Program) + 1
Done(r) == at[r] = Len(Program) + 1
Ended(r) == Done(r) \/ r \notin alive

-----------------------------------------------------------------------------
(* One rank *)

\* Rank r, which runs and is between two calls, reaches this line.
Reaches(r, line) ==
    /\ Idle(r) /\ r \in alive
    /\ ~inside[r]
    /\ ~Done(r)
    /\ Program[at[r]] = line

Start == [r \in Ranks |-> 1]

Advance(r) == at' = [at EXCEPT ![r] = @ + 1]

\* The solver's computation ends with some files.
WritePayload(r) ==
    /\ Reaches(r, "payload")
    /\ \E some \in SUBSET Files :
          /\ payload' = [payload EXCEPT ![Dir(r)] = @ \cup some]
          /\ produced' = [produced EXCEPT ![r] = some]
    /\ Advance(r)
    /\ UNCHANGED <<job, attempt, pc, locals, partial, manifest, assembly, mpi>>

Invoke(r) ==
    /\ \/ Reaches(r, "shard") /\ CallWriteShard(r, produced[r])
       \/ Reaches(r, "validate") /\ CallValidate(r, r)
       \/ r = 0 /\ Reaches(r, "assemble") /\ CallAssemble(r)
       \/ r = 0 /\ Reaches(r, "reject") /\ CallValidate(r, 0)
    /\ Advance(r)
    /\ UNCHANGED <<produced, mpi>>

\* Every other rank goes past the coordinator's lines, to the last barrier.
Skip(r) ==
    /\ r # 0
    /\ Reaches(r, "assemble")
    /\ at' = [at EXCEPT ![r] = Len(Program)]
    /\ UNCHANGED <<vars, produced, mpi>>

\* The coordinator removes the payload its shard lists.
RemovePayload(r) ==
    /\ Reaches(r, "remove")
    /\ payload' = [payload EXCEPT ![Dir(r)] = @ \ produced[r]]
    /\ Advance(r)
    /\ UNCHANGED <<job, attempt, pc, locals, partial, manifest, assembly,
                   produced, mpi>>

\* Reject takes the exception it was waiting for.
Refused(r) ==
    /\ r \in alive
    /\ pc[r] = "threw" /\ Program[at[r]] = "refused"
    /\ Catch(r)
    /\ Advance(r)
    /\ UNCHANGED <<produced, mpi>>

Inside(r) ==
    /\ r \in alive
    /\ LibraryStep(r)
    /\ UNCHANGED <<at, produced, mpi>>

EnterCollective(r) ==
    \E kind \in MPI!Kinds :
        /\ Reaches(r, kind)
        /\ MPI!Post(r, kind)
        /\ UNCHANGED <<vars, at, produced>>

\* Mutated form: a rank goes on as soon as it has entered the collective.
LeaveCollectiveEarly(r) ==
    /\ inside[r]
    /\ inside' = [inside EXCEPT ![r] = FALSE]
    /\ Advance(r)
    /\ UNCHANGED <<vars, produced, posted, aborted, alive>>

LeaveCollective(r) ==
    /\ MPI!Complete(r, World)
    /\ Advance(r)
    /\ UNCHANGED <<vars, produced>>

\* An exception on its way to Guard: a library call's, the solver's own, or
\* that of Reject when the call it made returned.
Throws(r) ==
    \/ pc[r] = "threw" /\ Program[at[r]] # "refused"
    \/ Reaches(r, "payload")
    \/ Reaches(r, "refused")

\* Mutated form: the exception unwinds the rank that threw, and no other.
GuardLocally(r) ==
    /\ Throws(r)
    /\ alive' = alive \ {r}
    /\ UNCHANGED <<vars, at, produced, posted, inside, aborted>>

\* Runtime::Guard's handler: there is more than one rank here.
Guard(r) ==
    /\ Throws(r)
    /\ MPI!Abort(r)
    /\ UNCHANGED <<vars, at, produced>>

RankStep(r) ==
    \/ WritePayload(r) \/ Invoke(r) \/ Inside(r)
    \/ Skip(r) \/ RemovePayload(r) \/ Refused(r)
    \/ EnterCollective(r) \/ LeaveCollective(r)
    \/ Guard(r)

-----------------------------------------------------------------------------
(* Around the ranks *)

\* The process of rank r dies; the launcher aborts its job.
Crash(r) ==
    /\ r \in World /\ ~Done(r)
    /\ MPI!Abort(r)
    /\ UNCHANGED <<vars, at, produced>>

Kill(r) ==
    /\ r \in World /\ ~Done(r)
    /\ MPI!Killed(r)
    /\ UNCHANGED <<vars, at, produced>>

Resubmit(j) ==
    /\ \A r \in World : Ended(r)
    /\ Restart(j)
    /\ at' = Start
    /\ produced' = [r \in Ranks |-> {}]
    /\ posted' = [r \in Ranks |-> <<>>]
    /\ inside' = [r \in Ranks |-> FALSE]
    /\ aborted' = FALSE
    /\ alive' = Ranks

-----------------------------------------------------------------------------

RunInit ==
    /\ Init
    /\ at = Start
    /\ produced = [r \in Ranks |-> {}]
    /\ MPI!MpiInit

RunNext ==
    \/ \E r \in Ranks : RankStep(r) \/ Crash(r) \/ Kill(r)
    \/ \E j \in Jobs : Resubmit(j)

\* A process that can run is run, and the launcher's signal arrives.
Fairness == \A r \in Ranks : WF_runVars(RankStep(r)) /\ WF_runVars(Kill(r))

RunSpec == RunInit /\ [][RunNext]_runVars /\ Fairness

-----------------------------------------------------------------------------
(* Properties *)

\* Rank r is the coordinator and has been through its "remove".
HasRemoved(r) ==
    r = 0 /\ \E i \in DOMAIN Program : i < at[r] /\ Program[i] = "remove"

\* The barrier between the shards and the assembly: an assembly manifest of
\* this job only ever names shards that this very job wrote, with the files
\* they list in place, until the coordinator removes its own.  The run identity
\* alone does not give that: a job resubmitted under the identity of an earlier
\* one finds that one's shards.
AssemblyFromThisAttempt ==
    AssemblyOfThisJob =>
        \A k \in World : /\ manifest[k] \in ShardManifests
                         /\ manifest[k].attempt = attempt
                         /\ HasRemoved(k) \/ manifest[k].files \subseteq payload[k]

\* Success is collective: when the program ends well on any rank, rank 0's call
\* has written this job's assembly manifest to its end.  It left the file whole,
\* or cut by a write that failed unnoticed (see AssemblyIsTransaction).
DoneMeansAssembled ==
    (\E r \in World : Done(r))
    => AssemblyOfThisJob /\ assembly.content # "opened"

\* No rank waits forever in a collective for a rank that threw or died: every
\* job ends, on all of its ranks.
JobEnds == []<>(\A r \in World : Ended(r))

=============================================================================
