------------------------- MODULE DistributedRuntime -------------------------
(***************************************************************************)
(* DistributedRuntime.h: the MPI session of a process that makes several   *)
(* solver calls, each with a Runtime of its own, and Runtime::Guard.       *)
(*                                                                         *)
(* Every rank executes the same script of solver calls and, when the host  *)
(* application uses MPI itself, of its MPI_Init and MPI_Finalize.  A       *)
(* solver call constructs a Runtime and runs, under Guard, a body that     *)
(* broadcasts a configuration, computes, sums and meets the others: one    *)
(* collective of each kind there is.  tests/DistributedOutputTest.cpp, for *)
(* its part, broadcasts nothing, and its first two calls are a barrier     *)
(* each, outside of Guard.                                                 *)
(***************************************************************************)
EXTENDS Integers, Sequences, FiniteSets

CONSTANTS
    MaxWorld,       \* the largest MPI_COMM_WORLD
    Scripts,        \* what a process may do before it exits
    Node,           \* Node[r]: the node, with shared memory, that rank r is on
    Environments,   \* what launchers may have left in a process's environment
    DeviceLists,    \* values of CUDA_VISIBLE_DEVICES on a node
    Unset, Garbage  \* see HardwareAwareness

Ranks == 0 .. MaxWorld - 1
Items == {"hostInit", "solve", "hostFinalize"}

\* A host that initializes MPI does so before it does anything else with it.
ASSUME RuntimeAssumption ==
    /\ MaxWorld \in Nat \ {0}
    /\ Scripts \subseteq Seq(Items)
    /\ \A s \in Scripts : \A n \in 2 .. Len(s) : s[n] # "hostInit"
    /\ DOMAIN Node = Ranks
    /\ DeviceLists \subseteq Seq(STRING)

VARIABLES
    world,      \* MPI_Comm_size
    script,     \* the script of this run
    at,         \* at[r]: the item of the script that rank r is at
    pc,         \* pc[r]: where in that item, "exit" in the static destructors,
                \* "gone" after them
    session,    \* session[r]: MPI in process r; "broken" after a call that MPI
                \* forbids: a second MPI_Init or MPI_Finalize, or a use of MPI
                \* while it is not running
    lifetime,   \* lifetime[r]: the function-local static was constructed ...
    owned,      \* owned[r]: ... and initialized MPI
    topology,   \* topology[r]: MpiTopologyCache, with size 0 while empty
    tooLarge,   \* tooLarge[r]: count of the last Broadcast exceeds INT_MAX
    posted, inside, aborted, alive      \* see Collectives

MPI == INSTANCE Collectives
Hardware == INSTANCE HardwareAwareness

mpi == <<posted, inside, aborted, alive>>
process == <<session, lifetime, owned, topology>>
vars == <<world, script, at, pc, process, tooLarge, mpi>>

World == 0 .. world - 1

\* MPI's own account of rank r: MPI_Comm_size and MPI_Comm_rank, and its rank
\* in the communicator of its node, which MPI_Comm_split_type orders by rank.
Placement(r) ==
    [size |-> world, rank |-> r,
     localRank |-> Cardinality({q \in 0 .. r - 1 : Node[q] = Node[r]})]

-----------------------------------------------------------------------------
(* The MPI library's view of a process *)

Runs(r, step) == r \in alive /\ pc[r] = step /\ ~inside[r]

Goto(r, step) == pc' = [pc EXCEPT ![r] = step]

MpiIs(r, state) == session' = [session EXCEPT ![r] = state]

\* Rank r calls MPI_Init or MPI_Init_thread.
InitMpi(r) == MpiIs(r, IF session[r] = "fresh" THEN "running" ELSE "broken")

\* Rank r enters a collective; MPI_Finalize is one.
Enter(r, kind) ==
    IF session[r] = "running"
    THEN MPI!Post(r, kind) /\ UNCHANGED session
    ELSE MpiIs(r, "broken") /\ UNCHANGED mpi

-----------------------------------------------------------------------------
(* The host application *)

HostInit(r) ==
    /\ Runs(r, "host")
    /\ at[r] <= Len(script) /\ script[at[r]] = "hostInit"
    /\ InitMpi(r)
    /\ at' = [at EXCEPT ![r] = @ + 1]
    /\ UNCHANGED <<world, script, pc, lifetime, owned, topology, tooLarge, mpi>>

\* A host that finds MPI running may finalize it, whoever initialized it.
HostFinalize(r) ==
    /\ Runs(r, "host")
    /\ at[r] <= Len(script) /\ script[at[r]] = "hostFinalize"
    /\ IF session[r] = "running"
       THEN Enter(r, "finalize") /\ Goto(r, "finalize") /\ UNCHANGED at
       ELSE at' = [at EXCEPT ![r] = @ + 1] /\ UNCHANGED <<pc, session, mpi>>
    /\ UNCHANGED <<world, script, lifetime, owned, topology, tooLarge>>

CallSolver(r) ==
    /\ Runs(r, "host")
    /\ at[r] <= Len(script) /\ script[at[r]] = "solve"
    /\ Goto(r, "lifetime")
    /\ UNCHANGED <<world, script, at, process, tooLarge, mpi>>

\* Mutated form: a call that ends early takes the next one with it.
ReturnPastNext(r) ==
    /\ Goto(r, "host")
    /\ at' = [at EXCEPT ![r] = @ + 2]

ReturnToHost(r) ==
    /\ Goto(r, "host")
    /\ at' = [at EXCEPT ![r] = @ + 1]

-----------------------------------------------------------------------------
(* Runtime's constructor *)

\* Mutated form: the session belongs to the Runtime, not to the process.
ConstructLifetimeEachTime(r) ==
    /\ Runs(r, "lifetime")
    /\ InitMpi(r)
    /\ owned' = [owned EXCEPT ![r] = TRUE]
    /\ lifetime' = [lifetime EXCEPT ![r] = TRUE]
    /\ Goto(r, "session")
    /\ UNCHANGED <<world, script, at, topology, tooLarge, mpi>>

\* static MpiLifetime: constructed by the first Runtime that can, skipped by
\* the others.  MPI_Init_thread may grant less than MPI_THREAD_FUNNELED.
ConstructLifetime(r) ==
    /\ Runs(r, "lifetime")
    /\ \/ /\ lifetime[r]
          /\ Goto(r, "session")
          /\ UNCHANGED <<at, session, lifetime, owned, mpi>>
       \/ /\ ~lifetime[r] /\ session[r] = "finalized"
          /\ ReturnToHost(r)
          /\ UNCHANGED <<session, lifetime, owned, mpi>>
       \/ /\ ~lifetime[r] /\ session[r] = "running"
          /\ lifetime' = [lifetime EXCEPT ![r] = TRUE]
          /\ Goto(r, "session")
          /\ UNCHANGED <<at, session, owned, mpi>>
       \/ /\ ~lifetime[r] /\ session[r] = "fresh"
          /\ InitMpi(r)
          /\ \/ /\ owned' = [owned EXCEPT ![r] = TRUE]
                /\ lifetime' = [lifetime EXCEPT ![r] = TRUE]
                /\ Goto(r, "session")
                /\ UNCHANGED <<at, mpi>>
             \/ MPI!Abort(r) /\ UNCHANGED <<at, pc, lifetime, owned>>
    /\ UNCHANGED <<world, script, topology, tooLarge>>

\* The session of an external owner may have ended since; with a filled cache
\* the constructor communicates no more.
CheckSession(r) ==
    /\ Runs(r, "session")
    /\ \/ session[r] = "finalized" /\ ReturnToHost(r)
       \/ /\ session[r] # "finalized"
          /\ Goto(r, IF topology[r].size > 0 THEN "count" ELSE "split")
          /\ UNCHANGED at
    /\ UNCHANGED <<world, script, process, tooLarge, mpi>>

EnterSplit(r) ==
    /\ Runs(r, "split")
    /\ Enter(r, "split")
    /\ UNCHANGED <<world, script, at, pc, lifetime, owned, topology, tooLarge>>

-----------------------------------------------------------------------------
(* The body of a solver call, under Guard *)

\* Broadcast: its first collective carries the count, which rank 0 knows.
EnterCount(r) ==
    /\ Runs(r, "count")
    /\ Enter(r, "bcast")
    /\ IF r = 0
       THEN \E large \in BOOLEAN : tooLarge' = [tooLarge EXCEPT ![0] = large]
       ELSE UNCHANGED tooLarge
    /\ UNCHANGED <<world, script, at, pc, lifetime, owned, topology>>

Kind == [data |-> "bcast", sum |-> "sum", barrier |-> "barrier"]

EnterCollective(r) ==
    /\ pc[r] \in DOMAIN Kind
    /\ Runs(r, pc[r])
    /\ Enter(r, Kind[pc[r]])
    /\ UNCHANGED <<world, script, at, pc, lifetime, owned, topology, tooLarge>>

\* The solver computes, on this rank alone, and may throw.
Compute(r) ==
    /\ Runs(r, "work")
    /\ Goto(r, "sum") \/ Goto(r, "threw")
    /\ UNCHANGED <<world, script, at, process, tooLarge, mpi>>

\* Rank r leaves the collective it is in.
Leave(r) ==
    /\ MPI!Complete(r, World)
    /\ \/ /\ pc[r] = "split"
          /\ topology' = [topology EXCEPT ![r] = Placement(r)]
          /\ Goto(r, "count")
          /\ UNCHANGED <<at, session, tooLarge>>
       \/ /\ pc[r] = "count"
          /\ tooLarge' = [tooLarge EXCEPT ![r] = tooLarge[0]]
          /\ Goto(r, IF tooLarge[0] THEN "threw" ELSE "data")
          /\ UNCHANGED <<at, session, topology>>
       \/ /\ pc[r] \in {"data", "sum"}
          /\ Goto(r, IF pc[r] = "data" THEN "work" ELSE "barrier")
          /\ UNCHANGED <<at, session, topology, tooLarge>>
       \/ /\ pc[r] = "barrier"
          /\ ReturnToHost(r)
          /\ UNCHANGED <<session, topology, tooLarge>>
       \/ /\ pc[r] = "finalize"
          /\ MpiIs(r, "finalized")
          /\ ReturnToHost(r)
          /\ UNCHANGED <<topology, tooLarge>>
       \/ /\ pc[r] = "exit"
          /\ MpiIs(r, "finalized")
          /\ Goto(r, "gone")
          /\ UNCHANGED <<at, topology, tooLarge>>
    /\ UNCHANGED <<world, script, lifetime, owned>>

\* Mutated form: the exception is rethrown and the peers are left alone.
GuardRethrows(r) ==
    /\ Runs(r, "threw")
    /\ ReturnToHost(r)
    /\ UNCHANGED <<world, script, process, tooLarge, mpi>>

\* Guard's handler; a host without peers may catch what it rethrows.
Guard(r) ==
    /\ Runs(r, "threw")
    /\ IF world > 1
       THEN MPI!Abort(r) /\ UNCHANGED <<at, pc>>
       ELSE ReturnToHost(r) /\ UNCHANGED mpi
    /\ UNCHANGED <<world, script, process, tooLarge>>

-----------------------------------------------------------------------------
(* The end of a process *)

BeginExit(r) ==
    /\ Runs(r, "host")
    /\ at[r] = Len(script) + 1
    /\ Goto(r, "exit")
    /\ UNCHANGED <<world, script, at, process, tooLarge, mpi>>

\* Mutated form: the static has no destructor.
DestroyNothing(r) ==
    /\ Runs(r, "exit")
    /\ Goto(r, "gone")
    /\ UNCHANGED <<world, script, at, process, tooLarge, mpi>>

DestroyLifetime(r) ==
    /\ Runs(r, "exit")
    /\ IF lifetime[r] /\ owned[r] /\ session[r] # "finalized"
       THEN Enter(r, "finalize") /\ UNCHANGED pc
       ELSE Goto(r, "gone") /\ UNCHANGED <<session, mpi>>
    /\ UNCHANGED <<world, script, at, lifetime, owned, topology, tooLarge>>

\* A process dies, or Check sees an MPI call fail; MPI_Abort does not return.
Die(r) ==
    /\ r \in World /\ pc[r] # "gone"
    /\ MPI!Abort(r)
    /\ UNCHANGED <<world, script, at, pc, process, tooLarge>>

Kill(r) ==
    /\ r \in World /\ pc[r] # "gone"
    /\ MPI!Killed(r)
    /\ UNCHANGED <<world, script, at, pc, process, tooLarge>>

-----------------------------------------------------------------------------

Init ==
    /\ world \in 1 .. MaxWorld
    /\ script \in Scripts
    /\ at = [r \in Ranks |-> 1]
    /\ pc = [r \in Ranks |-> "host"]
    /\ session = [r \in Ranks |-> "fresh"]
    /\ lifetime = [r \in Ranks |-> FALSE]
    /\ owned = [r \in Ranks |-> FALSE]
    /\ topology = [r \in Ranks |-> Hardware!EmptyTopology]
    /\ tooLarge = [r \in Ranks |-> FALSE]
    /\ MPI!MpiInit

Step(r) ==
    \/ HostInit(r) \/ HostFinalize(r) \/ CallSolver(r)
    \/ ConstructLifetime(r) \/ CheckSession(r) \/ EnterSplit(r)
    \/ EnterCount(r) \/ EnterCollective(r) \/ Compute(r) \/ Leave(r)
    \/ Guard(r)
    \/ BeginExit(r) \/ DestroyLifetime(r)

Next == \E r \in World : Step(r) \/ Die(r) \/ Kill(r)

\* A process that can run is run, and the launcher's signal arrives.
Fairness == \A r \in Ranks : WF_vars(r \in World /\ Step(r)) /\ WF_vars(Kill(r))

Spec == Init /\ [][Next]_vars /\ Fairness

-----------------------------------------------------------------------------
(* Properties *)

Steps == {"host", "lifetime", "session", "split", "count", "data", "work", "sum",
          "barrier", "threw", "finalize", "exit", "gone"}

\* Every variable has its type: no rank runs past the end of its script.  The
\* session may be "broken" here; SessionNeverMisused is about that.
TypeOK ==
    /\ world \in 1 .. MaxWorld /\ script \in Scripts
    /\ at \in [Ranks -> 1 .. Len(script) + 1]
    /\ pc \in [Ranks -> Steps]
    /\ session \in [Ranks -> {"fresh", "running", "finalized", "broken"}]
    /\ lifetime \in [Ranks -> BOOLEAN] /\ owned \in [Ranks -> BOOLEAN]
    /\ topology \in [Ranks -> [size : Nat, rank : Nat, localRank : Nat]]
    /\ tooLarge \in [Ranks -> BOOLEAN]
    /\ posted \in [Ranks -> Seq(MPI!Kinds)] /\ inside \in [Ranks -> BOOLEAN]
    /\ aborted \in BOOLEAN /\ alive \in SUBSET Ranks

\* "MPI cannot be restarted after Finalize, so a process-owned session outlives
\* individual Runtime instances": however solver calls and the host's own
\* MPI_Init and MPI_Finalize alternate, no process ever initializes or
\* finalizes MPI twice, nor communicates while MPI is not running.
SessionNeverMisused == \A r \in Ranks : session[r] # "broken"

\* A session that the SDK opened is closed when the process ends by itself.
OwnedSessionIsClosed ==
    \A r \in World : pc[r] = "gone" /\ owned[r] => session[r] = "finalized"

\* The ranks enter the same collectives in the same order, so that no barrier
\* of one solver call is ever matched with a broadcast of another.
CollectivesAgree ==
    \A q, r \in World : \A n \in 1 .. Len(posted[q]) :
        n <= Len(posted[r]) => posted[q][n] = posted[r][n]

\* A rank whose Runtime is constructed, which is in the body of a solver call.
HasRuntime(r) == pc[r] \in {"count", "data", "work", "sum", "barrier", "threw"}

Probe(r, env) == Hardware!DetectHardwareAwareness(env, topology[r])

\* tests/DistributedOutputTest.cpp:39-41: in every solver call of a process, the
\* first or a later one, a probe that a rank makes alone agrees with MPI,
\* whatever an outer launcher left in its environment.
ProbeAgreesWithRuntime ==
    \A r \in World : HasRuntime(r) =>
        \A env \in Environments : Probe(r, env) = Placement(r)

\* Once the ranks of a node have their Runtimes, their unanimous use of one
\* CUDA_VISIBLE_DEVICES spreads them over its devices: no device serves two
\* ranks more than another, and without a list no two ranks name the same
\* device (lines 51-54 of the test).
DevicesAreSpread ==
    \A node \in {Node[r] : r \in World} :
        LET here == {r \in World : Node[r] = node}
        IN  (\A r \in here : HasRuntime(r)) =>
            \A env \in [here -> Environments], list \in DeviceLists :
                LET visible == Cardinality(Hardware!SplitVisibleDevices(list))
                    Of(r) == Hardware!PreferredCudaDeviceOrdinal(Probe(r, env[r]), list)
                    Load(device) == Cardinality({r \in here : Of(r) = device})
                IN  IF visible = 0
                    THEN \A q, r \in here : Of(q) = Of(r) => q = r
                    ELSE \A d, e \in 0 .. visible - 1 : Load(d) <= Load(e) + 1

\* "A peer may be inside a collective; local unwinding alone would hang it":
\* every process ends, although any may throw, fail or die at any point.
EveryoneEnds == <>(\A r \in World : pc[r] = "gone" \/ r \notin alive)

=============================================================================
