---------------------- MODULE DistributedRuntimeProofs ----------------------
(***************************************************************************)
(* Proofs about DistributedRuntime, for any number of ranks, any scripts   *)
(* in which a host initializes MPI first or not at all, any nodes and any  *)
(* environments.                                                           *)
(***************************************************************************)
EXTENDS DistributedRuntime, FiniteSetTheorems, TLAPS

-----------------------------------------------------------------------------
(* The inductive invariant: what a rank knows of MPI at each step. *)

\* From the split of the communicator on, and in a finalization of the host.
UsingMpi == {"split", "count", "data", "work", "sum", "barrier", "threw", "finalize"}

\* The static was constructed when MPI had been initialized, or did that; before
\* its first item a host has not; inside a call the script goes on; and a
\* session of the static's own is ended before the process is gone.
SessionSound(r) ==
    /\ session[r] # "broken"
    /\ lifetime[r] => session[r] # "fresh"
    /\ owned[r] => lifetime[r]
    /\ pc[r] = "session" => lifetime[r]
    /\ pc[r] \in UsingMpi => session[r] = "running"
    /\ pc[r] = "host" /\ at[r] = 1 => session[r] = "fresh"
    /\ pc[r] \notin {"host", "exit", "gone"} => at[r] <= Len(script)
    /\ pc[r] = "gone" /\ owned[r] => session[r] = "finalized"

\* The cache is empty or MPI's own account, and filled in the body of a call.
TopologySound(r) ==
    /\ topology[r] \in {Hardware!EmptyTopology, Placement(r)}
    /\ HasRuntime(r) => topology[r] = Placement(r)

IInv == TypeOK /\ \A r \in Ranks : SessionSound(r) /\ TopologySound(r)

-----------------------------------------------------------------------------

\* What MPI says of a rank is a topology, and not the empty one.
LEMMA PlacementType ==
    ASSUME TypeOK, NEW r \in Ranks
    PROVE  /\ Placement(r) \in [size : Nat, rank : Nat, localRank : Nat]
           /\ Placement(r).size > 0
<1> DEFINE before == {q \in 0 .. r - 1 : Node[q] = Node[r]}
<1>1. IsFiniteSet(0 .. r - 1)
  BY RuntimeAssumption, FS_Interval DEF Ranks
<1>2. Cardinality(before) \in Nat
  BY <1>1, FS_Subset, FS_CardinalityType
<1>3. world \in Nat /\ world > 0 /\ r \in Nat
  BY RuntimeAssumption DEF TypeOK, Ranks
<1> QED BY <1>2, <1>3 DEF Placement

\* The ranks that run are ranks, rank 0 among them.
LEMMA WorldInRanks ==
    ASSUME TypeOK
    PROVE  World \subseteq Ranks /\ 0 \in World
BY RuntimeAssumption DEF TypeOK, World, Ranks

\* Before the first step.
LEMMA InitEstablishes == Init => IInv
<1> SUFFICES ASSUME Init PROVE IInv
  OBVIOUS
<1>1. TypeOK
  <2>1. script \in Seq(Items) /\ 1 \in 1 .. Len(script) + 1
    BY RuntimeAssumption DEF Init
  <2>2. posted \in [Ranks -> Seq(MPI!Kinds)]
    <3>1. <<>> \in Seq(MPI!Kinds)
      OBVIOUS
    <3> QED BY <3>1 DEF Init, MPI!MpiInit
  <2>3. topology \in [Ranks -> [size : Nat, rank : Nat, localRank : Nat]]
    BY DEF Init, Hardware!EmptyTopology
  <2>4. at \in [Ranks -> 1 .. Len(script) + 1]
    BY <2>1 DEF Init
  <2> QED BY <2>2, <2>3, <2>4 DEF Init, TypeOK, Steps, MPI!MpiInit
<1>2. ASSUME NEW r \in Ranks PROVE SessionSound(r) /\ TopologySound(r)
  BY <1>2 DEF Init, SessionSound, TopologySound, UsingMpi, HasRuntime
<1> QED BY <1>1, <1>2 DEF IInv

\* A collective that is entered while MPI runs leaves the session as it is.
LEMMA EnterRuns ==
    ASSUME TypeOK, NEW r \in Ranks, NEW kind \in MPI!Kinds,
           Enter(r, kind), session[r] = "running"
    PROVE  /\ UNCHANGED <<session, aborted, alive>>
           /\ posted' \in [Ranks -> Seq(MPI!Kinds)]
           /\ inside' \in [Ranks -> BOOLEAN]
<1>1. UNCHANGED session /\ MPI!Post(r, kind)
  BY DEF Enter
<1>2. Append(posted[r], kind) \in Seq(MPI!Kinds)
  BY DEF TypeOK
<1> QED BY <1>1, <1>2 DEF MPI!Post, TypeOK

\* A call returns to an item of the script, or to its end.
LEMMA ReturnType ==
    ASSUME TypeOK, NEW r \in Ranks, at[r] <= Len(script), ReturnToHost(r), UNCHANGED script
    PROVE  /\ (at \in [Ranks -> 1 .. Len(script) + 1])'
           /\ (pc \in [Ranks -> Steps])'
           /\ at'[r] # 1 /\ pc'[r] = "host"
<1>1. script \in Seq(Items)
  BY RuntimeAssumption DEF TypeOK
<1>2. Len(script) \in Nat /\ at[r] \in 1 .. Len(script)
  BY <1>1 DEF TypeOK
<1>3. at[r] + 1 \in 1 .. Len(script) + 1 /\ at[r] + 1 # 1
  BY <1>2
<1>4. at' = [at EXCEPT ![r] = at[r] + 1] /\ pc' = [pc EXCEPT ![r] = "host"]
  BY DEF ReturnToHost, Goto
<1> QED BY <1>3, <1>4 DEF TypeOK, Steps

\* What the invariant says of rank r is about its own variables.
Same(r) ==
    /\ at'[r] = at[r] /\ pc'[r] = pc[r] /\ session'[r] = session[r]
    /\ lifetime'[r] = lifetime[r] /\ owned'[r] = owned[r]
    /\ topology'[r] = topology[r]
    /\ UNCHANGED <<world, script>>

Sound(r) == SessionSound(r) /\ TopologySound(r)

\* A rank that does nothing stays sound.
LEMMA SameKeeps ==
    ASSUME NEW r \in Ranks, Sound(r), Same(r)
    PROVE  Sound(r)'
BY DEF Sound, Same, SessionSound, TopologySound, HasRuntime, Placement, UsingMpi

\* Nor does the topology change by a step that neither fills it nor comes to
\* the body of a call.
LEMMA TopologyKeeps ==
    ASSUME NEW r \in Ranks, TopologySound(r), UNCHANGED <<world, topology>>,
           HasRuntime(r)' => HasRuntime(r)
    PROVE  TopologySound(r)'
BY DEF TopologySound, Placement

\* Steps outside of the body of a solver call.
LEMMA OutsideKeeps ==
    ASSUME IInv, NEW r \in Ranks
    PROVE  /\ HostInit(r) \/ HostFinalize(r) \/ CallSolver(r) => IInv'
           /\ ConstructLifetime(r) \/ CheckSession(r) \/ EnterSplit(r) => IInv'
           /\ BeginExit(r) \/ DestroyLifetime(r) => IInv'
<1>1. ASSUME HostInit(r) PROVE IInv'
  <2>1. at[r] = 1 /\ session[r] = "fresh"
    BY <1>1, RuntimeAssumption DEF HostInit, Runs, IInv, TypeOK, SessionSound
  <2>2. TypeOK'
    BY <1>1, <2>1 DEF HostInit, IInv, TypeOK, Steps, InitMpi, MpiIs, mpi
  <2>3. SessionSound(r)'
    BY <1>1, <2>1 DEF HostInit, Runs, IInv, TypeOK, SessionSound, UsingMpi, InitMpi, MpiIs
  <2>4. TopologySound(r)'
    BY <1>1, <2>1, TopologyKeeps
       DEF HostInit, Runs, Goto, IInv, TypeOK, HasRuntime, InitMpi, MpiIs, mpi
  <2>5. ASSUME NEW q \in Ranks \ {r} PROVE Same(q)
    BY <1>1, <2>1, <2>5 DEF HostInit, IInv, TypeOK, Same, InitMpi, MpiIs
  <2> QED BY <2>2, <2>3, <2>4, <2>5, SameKeeps DEF IInv, Sound
<1>2. ASSUME HostFinalize(r) PROVE IInv'
  <2>1. TypeOK'
    <3>1. CASE session[r] = "running"
      <4>1. Enter(r, "finalize") /\ "finalize" \in MPI!Kinds
        BY <1>2, <3>1 DEF HostFinalize, MPI!Kinds
      <4> QED BY <1>2, <3>1, <4>1, EnterRuns DEF HostFinalize, IInv, TypeOK, Steps, Goto
    <3>2. CASE session[r] # "running"
      BY <1>2, <3>2 DEF HostFinalize, IInv, TypeOK, Steps, mpi
    <3> QED BY <3>1, <3>2
  <2>2. SessionSound(r)'
    BY <1>2
       DEF HostFinalize, Runs, IInv, TypeOK, SessionSound, UsingMpi, Enter, MPI!Post,
           Goto
  <2>3. TopologySound(r)'
    BY <1>2, TopologyKeeps
       DEF HostFinalize, Runs, Goto, IInv, TypeOK, HasRuntime, Enter, MPI!Post,
           MPI!Kinds, Goto, mpi
  <2>4. ASSUME NEW q \in Ranks \ {r} PROVE Same(q)
    BY <1>2, <2>4 DEF HostFinalize, IInv, TypeOK, Same, Enter, MPI!Post, Goto
  <2> QED BY <2>1, <2>2, <2>3, <2>4, SameKeeps DEF IInv, Sound
<1>3. ASSUME CallSolver(r) PROVE IInv'
  <2>1. TypeOK'
    BY <1>3 DEF CallSolver, IInv, TypeOK, Steps, Runs, Goto, process, mpi
  <2>2. SessionSound(r)'
    BY <1>3 DEF CallSolver, Runs, IInv, TypeOK, SessionSound, UsingMpi, Goto, process
  <2>3. TopologySound(r)'
    BY <1>3, TopologyKeeps
       DEF CallSolver, Runs, Goto, IInv, TypeOK, HasRuntime, process, mpi
  <2>4. ASSUME NEW q \in Ranks \ {r} PROVE Same(q)
    BY <1>3, <2>4 DEF CallSolver, IInv, TypeOK, Same, Goto, process
  <2> QED BY <2>1, <2>2, <2>3, <2>4, SameKeeps DEF IInv, Sound
<1>4. ASSUME ConstructLifetime(r) PROVE IInv'
  <2>1. at[r] <= Len(script) /\ pc[r] = "lifetime"
    BY <1>4 DEF ConstructLifetime, Runs, IInv, SessionSound
  <2>2. TypeOK' /\ SessionSound(r)'
    <3>1. CASE lifetime[r]
      BY <1>4, <2>1, <3>1
         DEF ConstructLifetime, IInv, TypeOK, Steps, SessionSound, UsingMpi, Goto, mpi
    <3>2. CASE ~lifetime[r] /\ session[r] = "finalized"
      <4>1. ReturnToHost(r) /\ UNCHANGED <<script, session, lifetime, owned, mpi>>
        BY <1>4, <3>2 DEF ConstructLifetime
      <4> QED BY <1>4, <2>1, <3>2, <4>1, ReturnType
               DEF ConstructLifetime, IInv, TypeOK, SessionSound, UsingMpi, mpi
    <3>3. CASE ~lifetime[r] /\ session[r] = "running"
      BY <1>4, <2>1, <3>3
         DEF ConstructLifetime, IInv, TypeOK, Steps, SessionSound, UsingMpi, Goto, mpi
    <3>4. CASE ~lifetime[r] /\ session[r] = "fresh"
      <4>1. session' = [session EXCEPT ![r] = "running"]
        BY <1>4, <3>4 DEF ConstructLifetime, InitMpi, MpiIs
      <4>2. \/ /\ owned' = [owned EXCEPT ![r] = TRUE] /\ lifetime' = [lifetime EXCEPT ![r] = TRUE]
               /\ Goto(r, "session") /\ UNCHANGED <<at, mpi>>
            \/ MPI!Abort(r) /\ UNCHANGED <<at, pc, lifetime, owned>>
        BY <1>4, <3>4 DEF ConstructLifetime
      <4>3. UNCHANGED <<world, script, topology, tooLarge>>
        BY <1>4 DEF ConstructLifetime
      <4>4. TypeOK'
        BY <4>1, <4>2, <4>3 DEF IInv, TypeOK, Steps, MPI!Abort, Goto, mpi
      <4>5. SessionSound(r)'
        BY <2>1, <4>1, <4>2, <4>3 DEF IInv, TypeOK, SessionSound, UsingMpi, Goto
      <4> QED BY <4>4, <4>5
    <3> QED BY <3>1, <3>2, <3>3, <3>4 DEF IInv, TypeOK, SessionSound
  <2>3. TopologySound(r)'
    BY <1>4, <2>1, TopologyKeeps
       DEF ConstructLifetime, IInv, TypeOK, HasRuntime, ReturnToHost, Goto
  <2>4. ASSUME NEW q \in Ranks \ {r} PROVE Same(q)
    BY <1>4, <2>4
       DEF ConstructLifetime, IInv, TypeOK, Same, ReturnToHost, InitMpi, MpiIs,
           MPI!Abort, Goto
  <2> QED BY <2>2, <2>3, <2>4, SameKeeps DEF IInv, Sound
<1>5. ASSUME CheckSession(r) PROVE IInv'
  <2>1. TypeOK'
    <3>1. CASE session[r] = "finalized"
      <4>1. at[r] <= Len(script) /\ ReturnToHost(r) /\ UNCHANGED script
        BY <1>5, <3>1 DEF CheckSession, Runs, IInv, SessionSound
      <4> QED BY <1>5, <4>1, ReturnType DEF CheckSession, IInv, TypeOK, process, mpi
    <3>2. CASE session[r] # "finalized"
      BY <1>5, <3>2 DEF CheckSession, IInv, TypeOK, Steps, Goto, process, mpi
    <3> QED BY <3>1, <3>2
  <2>2. SessionSound(r)'
    BY <1>5
       DEF CheckSession, Runs, IInv, TypeOK, SessionSound, UsingMpi, ReturnToHost, Goto,
           process
  <2>3. TopologySound(r)'
    <3>1. topology[r].size > 0 => topology[r] = Placement(r)
      BY DEF IInv, TopologySound, Hardware!EmptyTopology
    <3>2. UNCHANGED <<world, topology>> /\ (HasRuntime(r)' => topology[r].size > 0)
      BY <1>5 DEF CheckSession, IInv, TypeOK, HasRuntime, ReturnToHost, Goto, process
    <3> QED BY <3>1, <3>2 DEF IInv, TopologySound, Placement
  <2>4. ASSUME NEW q \in Ranks \ {r} PROVE Same(q)
    BY <1>5, <2>4 DEF CheckSession, IInv, TypeOK, Same, ReturnToHost, Goto, process
  <2> QED BY <2>1, <2>2, <2>3, <2>4, SameKeeps DEF IInv, Sound
<1>6. ASSUME EnterSplit(r) PROVE IInv'
  <2>1. TypeOK'
    <3>1. Enter(r, "split") /\ "split" \in MPI!Kinds /\ session[r] = "running"
      BY <1>6 DEF EnterSplit, Runs, MPI!Kinds, IInv, SessionSound, UsingMpi
    <3> QED BY <1>6, <3>1, EnterRuns DEF EnterSplit, IInv, TypeOK
  <2>2. SessionSound(r)'
    BY <1>6 DEF EnterSplit, Runs, IInv, TypeOK, SessionSound, UsingMpi, Enter, MPI!Post
  <2>3. TopologySound(r)'
    BY <1>6, TopologyKeeps
       DEF EnterSplit, Runs, Goto, IInv, TypeOK, HasRuntime, Enter, MPI!Post, MPI!Kinds,
           MpiIs, mpi
  <2>4. ASSUME NEW q \in Ranks \ {r} PROVE Same(q)
    BY <1>6, <2>4 DEF EnterSplit, IInv, TypeOK, Same, Enter, MPI!Post, MpiIs
  <2> QED BY <2>1, <2>2, <2>3, <2>4, SameKeeps DEF IInv, Sound
<1>7. ASSUME BeginExit(r) PROVE IInv'
  <2>1. TypeOK'
    BY <1>7 DEF BeginExit, IInv, TypeOK, Steps, Goto, process, mpi
  <2>2. SessionSound(r)'
    BY <1>7 DEF BeginExit, Runs, IInv, TypeOK, SessionSound, UsingMpi, Goto, process
  <2>3. TopologySound(r)'
    BY <1>7, TopologyKeeps
       DEF BeginExit, Runs, Goto, IInv, TypeOK, HasRuntime, process, mpi
  <2>4. ASSUME NEW q \in Ranks \ {r} PROVE Same(q)
    BY <1>7, <2>4 DEF BeginExit, IInv, TypeOK, Same, Goto, process
  <2> QED BY <2>1, <2>2, <2>3, <2>4, SameKeeps DEF IInv, Sound
<1>8. ASSUME DestroyLifetime(r) PROVE IInv'
  <2>1. TypeOK'
    <3>1. CASE lifetime[r] /\ owned[r] /\ session[r] # "finalized"
      <4>1. Enter(r, "finalize") /\ "finalize" \in MPI!Kinds /\ session[r] = "running"
        BY <1>8, <3>1 DEF DestroyLifetime, MPI!Kinds, IInv, TypeOK, SessionSound
      <4> QED BY <1>8, <3>1, <4>1, EnterRuns DEF DestroyLifetime, IInv, TypeOK
    <3>2. CASE ~(lifetime[r] /\ owned[r] /\ session[r] # "finalized")
      BY <1>8, <3>2 DEF DestroyLifetime, IInv, TypeOK, Steps, Goto, mpi
    <3> QED BY <3>1, <3>2
  <2>2. SessionSound(r)'
    BY <1>8
       DEF DestroyLifetime, Runs, IInv, TypeOK, SessionSound, UsingMpi, Enter, MPI!Post,
           Goto
  <2>3. TopologySound(r)'
    BY <1>8, TopologyKeeps
       DEF DestroyLifetime, Runs, Goto, IInv, TypeOK, HasRuntime, Enter, MPI!Post,
           MPI!Kinds, MpiIs, Goto, mpi
  <2>4. ASSUME NEW q \in Ranks \ {r} PROVE Same(q)
    BY <1>8, <2>4 DEF DestroyLifetime, IInv, TypeOK, Same, Enter, MPI!Post, MpiIs, Goto
  <2> QED BY <2>1, <2>2, <2>3, <2>4, SameKeeps DEF IInv, Sound
<1> QED BY <1>1, <1>2, <1>3, <1>4, <1>5, <1>6, <1>7, <1>8

\* Steps in the body of a solver call, and the end of a process.
LEMMA InsideKeeps ==
    ASSUME IInv, NEW r \in World
    PROVE  /\ EnterCount(r) \/ EnterCollective(r) \/ Compute(r) \/ Leave(r) \/ Guard(r) => IInv'
           /\ Die(r) \/ Kill(r) => IInv'
<1>r. r \in Ranks /\ 0 \in Ranks
  BY WorldInRanks DEF IInv
<1>1. ASSUME EnterCount(r) PROVE IInv'
  <2>1. Enter(r, "bcast") /\ "bcast" \in MPI!Kinds /\ session[r] = "running"
    BY <1>1, <1>r DEF EnterCount, Runs, MPI!Kinds, IInv, SessionSound, UsingMpi
  <2>2. TypeOK'
    <3>1. tooLarge' \in [Ranks -> BOOLEAN]
      BY <1>1, <1>r DEF EnterCount, IInv, TypeOK
    <3> QED BY <1>1, <1>r, <2>1, <3>1, EnterRuns DEF EnterCount, IInv, TypeOK
  <2>3. ASSUME NEW q \in Ranks PROVE Same(q)
    BY <1>1, <1>r, <2>1, <2>3, EnterRuns DEF EnterCount, IInv, TypeOK, Same
  <2> QED BY <2>2, <2>3, SameKeeps DEF IInv, Sound
<1>2. ASSUME EnterCollective(r) PROVE IInv'
  <2>1. Enter(r, Kind[pc[r]]) /\ Kind[pc[r]] \in MPI!Kinds /\ session[r] = "running"
    BY <1>2, <1>r DEF EnterCollective, Runs, Kind, MPI!Kinds, IInv, SessionSound, UsingMpi
  <2>2. TypeOK'
    BY <1>2, <1>r, <2>1, EnterRuns DEF EnterCollective, IInv, TypeOK
  <2>3. ASSUME NEW q \in Ranks PROVE Same(q)
    BY <1>2, <1>r, <2>1, <2>3, EnterRuns DEF EnterCollective, IInv, TypeOK, Same
  <2> QED BY <2>2, <2>3, SameKeeps DEF IInv, Sound
<1>3. ASSUME Compute(r) PROVE IInv'
  <2>1. TypeOK'
    BY <1>3, <1>r DEF Compute, IInv, TypeOK, Steps, Goto, process, mpi
  <2>2. SessionSound(r)'
    BY <1>3, <1>r DEF Compute, Runs, IInv, TypeOK, SessionSound, UsingMpi, Goto, process
  <2>3. TopologySound(r)'
    BY <1>3, <1>r, TopologyKeeps
       DEF Compute, Runs, IInv, TypeOK, HasRuntime, Goto, process
  <2>4. ASSUME NEW q \in Ranks \ {r} PROVE Same(q)
    BY <1>3, <1>r, <2>4 DEF Compute, IInv, TypeOK, Same, Goto, process
  <2> QED BY <1>r, <2>1, <2>2, <2>3, <2>4, SameKeeps DEF IInv, Sound
<1>4. ASSUME Guard(r) PROVE IInv'
  <2>1. at[r] <= Len(script) /\ UNCHANGED <<world, script, process, tooLarge>>
    BY <1>4, <1>r DEF Guard, Runs, IInv, SessionSound
  <2>2. CASE world > 1
    <3>1. TypeOK'
      BY <1>4, <2>1, <2>2 DEF Guard, IInv, TypeOK, MPI!Abort, process
    <3>2. ASSUME NEW q \in Ranks PROVE Same(q)
      BY <1>4, <2>1, <2>2 DEF Guard, Same, process
    <3> QED BY <3>1, <3>2, SameKeeps DEF IInv, Sound
  <2>3. CASE ~(world > 1)
    <3>1. ReturnToHost(r) /\ UNCHANGED mpi
      BY <1>4, <2>3 DEF Guard
    <3>2. TypeOK' /\ at'[r] # 1 /\ pc'[r] = "host"
      BY <1>r, <2>1, <3>1, ReturnType DEF IInv, TypeOK, process, mpi
    <3>3. SessionSound(r)'
      BY <1>r, <2>1, <3>2 DEF IInv, SessionSound, UsingMpi, process
    <3>4. TopologySound(r)'
      BY <1>r, <2>1, <3>2, TopologyKeeps DEF IInv, HasRuntime, process
    <3>5. ASSUME NEW q \in Ranks \ {r} PROVE Same(q)
      BY <1>r, <2>1, <3>1, <3>5 DEF IInv, TypeOK, Same, ReturnToHost, Goto, process
    <3> QED BY <1>r, <3>2, <3>3, <3>4, <3>5, SameKeeps DEF IInv, Sound
  <2> QED BY <2>2, <2>3
<1>5. ASSUME Die(r) \/ Kill(r) PROVE IInv'
  <2>1. TypeOK'
    BY <1>5 DEF Die, Kill, IInv, TypeOK, MPI!Abort, MPI!Killed, process
  <2>2. ASSUME NEW q \in Ranks PROVE Same(q)
    BY <1>5 DEF Die, Kill, Same, process
  <2> QED BY <2>1, <2>2, SameKeeps DEF IInv, Sound
<1>6. ASSUME Leave(r) PROVE IInv'
  <2>1. /\ UNCHANGED <<world, script, lifetime, owned, posted, aborted, alive>>
        /\ inside' = [inside EXCEPT ![r] = FALSE]
    BY <1>6 DEF Leave, MPI!Complete
  <2>2. CASE pc[r] = "split"
    <3>1. /\ topology' = [topology EXCEPT ![r] = Placement(r)] /\ Goto(r, "count")
          /\ UNCHANGED <<at, session, tooLarge>>
      BY <1>6, <2>2 DEF Leave
    <3>2. TypeOK'
      BY <1>r, <2>1, <3>1, PlacementType DEF IInv, TypeOK, Steps, Goto
    <3>3. SessionSound(r)'
      BY <1>r, <2>1, <2>2, <3>1 DEF IInv, TypeOK, SessionSound, UsingMpi, Goto
    <3>4. TopologySound(r)'
      BY <1>r, <2>1, <3>1 DEF IInv, TypeOK, TopologySound, HasRuntime, Placement, Goto
    <3>5. ASSUME NEW q \in Ranks \ {r} PROVE Same(q)
      BY <1>r, <2>1, <3>1, <3>5 DEF IInv, TypeOK, Same, Goto
    <3> QED BY <1>r, <3>2, <3>3, <3>4, <3>5, SameKeeps DEF IInv, Sound
  <2>3. CASE pc[r] \in {"count", "data", "sum"}
    <3>1. /\ \E step \in {"threw", "data", "work", "barrier"} : Goto(r, step)
          /\ tooLarge' \in [Ranks -> BOOLEAN]
          /\ UNCHANGED <<at, session, topology>>
      BY <1>6, <1>r, <2>3 DEF Leave, IInv, TypeOK
    <3>2. TypeOK'
      BY <1>r, <2>1, <3>1 DEF IInv, TypeOK, Steps, Goto
    <3>3. SessionSound(r)'
      BY <1>r, <2>1, <2>3, <3>1 DEF IInv, TypeOK, SessionSound, UsingMpi, Goto
    <3>4. TopologySound(r)'
      BY <1>r, <2>1, <2>3, <3>1, TopologyKeeps DEF IInv, HasRuntime
    <3>5. ASSUME NEW q \in Ranks \ {r} PROVE Same(q)
      BY <1>r, <2>1, <3>1, <3>5 DEF IInv, TypeOK, Same, Goto
    <3> QED BY <1>r, <3>2, <3>3, <3>4, <3>5, SameKeeps DEF IInv, Sound
  <2>4. CASE pc[r] \in {"barrier", "finalize"}
    <3>1. /\ ReturnToHost(r) /\ UNCHANGED <<topology, tooLarge>>
          /\ session' = session \/ session' = [session EXCEPT ![r] = "finalized"]
      BY <1>6, <2>4 DEF Leave, MpiIs
    <3>2. at[r] <= Len(script) /\ session[r] = "running"
      BY <1>r, <2>4 DEF IInv, SessionSound, UsingMpi
    <3>3. TypeOK' /\ at'[r] # 1 /\ pc'[r] = "host"
      BY <1>r, <2>1, <3>1, <3>2, ReturnType DEF IInv, TypeOK
    <3>4. SessionSound(r)'
      BY <1>r, <2>1, <3>1, <3>2, <3>3 DEF IInv, TypeOK, SessionSound, UsingMpi
    <3>5. TopologySound(r)'
      BY <1>r, <2>1, <3>1, <3>3, TopologyKeeps DEF IInv, HasRuntime
    <3>6. ASSUME NEW q \in Ranks \ {r} PROVE Same(q)
      BY <1>r, <2>1, <3>1, <3>6 DEF IInv, TypeOK, Same, ReturnToHost, Goto
    <3> QED BY <1>r, <3>3, <3>4, <3>5, <3>6, SameKeeps DEF IInv, Sound
  <2>5. CASE pc[r] = "exit"
    <3>1. /\ session' = [session EXCEPT ![r] = "finalized"] /\ Goto(r, "gone")
          /\ UNCHANGED <<at, topology, tooLarge>>
      BY <1>6, <2>5 DEF Leave, MpiIs
    <3>2. TypeOK'
      BY <1>r, <2>1, <3>1 DEF IInv, TypeOK, Steps, Goto
    <3>3. SessionSound(r)'
      BY <1>r, <2>1, <2>5, <3>1 DEF IInv, TypeOK, SessionSound, UsingMpi, Goto
    <3>4. TopologySound(r)'
      BY <1>r, <2>1, <3>1, TopologyKeeps DEF IInv, TypeOK, HasRuntime, Goto
    <3>5. ASSUME NEW q \in Ranks \ {r} PROVE Same(q)
      BY <1>r, <2>1, <3>1, <3>5 DEF IInv, TypeOK, Same, Goto
    <3> QED BY <1>r, <3>2, <3>3, <3>4, <3>5, SameKeeps DEF IInv, Sound
  <2> QED BY <1>6, <2>2, <2>3, <2>4, <2>5 DEF Leave
<1> QED BY <1>1, <1>2, <1>3, <1>4, <1>5, <1>6

\* Every step keeps the invariant.
LEMMA NextPreserves == IInv /\ [Next]_vars => IInv'
<1> SUFFICES ASSUME IInv, [Next]_vars PROVE IInv'
  OBVIOUS
<1>1. ASSUME NEW r \in World, Step(r) PROVE IInv'
  <2>1. r \in Ranks
    BY WorldInRanks DEF IInv
  <2> QED BY <1>1, <2>1, OutsideKeeps, InsideKeeps DEF Step
<1>2. ASSUME NEW r \in World, Die(r) \/ Kill(r) PROVE IInv'
  BY <1>2, InsideKeeps
<1>3. CASE UNCHANGED vars
  <2>1. TypeOK'
    BY <1>3 DEF vars, process, mpi, IInv, TypeOK
  <2>2. ASSUME NEW q \in Ranks PROVE Same(q)
    BY <1>3 DEF vars, process, Same
  <2> QED BY <2>1, <2>2, SameKeeps DEF IInv, Sound
<1> QED BY <1>1, <1>2, <1>3 DEF Next

-----------------------------------------------------------------------------
(* The theorems *)

\* The invariant holds in every run.
THEOREM Invariance == Spec => []IInv
BY InitEstablishes, NextPreserves, PTL DEF Spec

\* Every variable keeps its type; no rank runs past its script.
THEOREM TypeCorrect == Spec => []TypeOK
<1>1. IInv => TypeOK
  BY DEF IInv
<1> QED BY <1>1, Invariance, PTL

\* "MPI cannot be restarted after Finalize, so a process-owned session outlives
\* individual Runtime instances": no process initializes or finalizes MPI twice,
\* nor communicates while it does not run, however many solver calls it makes and
\* whenever the host ends MPI.
THEOREM SessionCorrect == Spec => []SessionNeverMisused
<1>1. IInv => SessionNeverMisused
  BY DEF IInv, SessionSound, SessionNeverMisused
<1> QED BY <1>1, Invariance, PTL

\* What MpiLifetime initialized, its destructor or the host finalizes.
THEOREM OwnerCloses == Spec => []OwnedSessionIsClosed
<1>1. IInv => OwnedSessionIsClosed
  BY WorldInRanks DEF IInv, SessionSound, OwnedSessionIsClosed
<1> QED BY <1>1, Invariance, PTL

\* A probe of a rank in the body of a call tells what MPI does.
LEMMA ProbeIsPlacement ==
    ASSUME IInv, NEW r \in World, HasRuntime(r), NEW env
    PROVE  Probe(r, env) = Placement(r)
<1>1. r \in Ranks /\ TypeOK
  BY WorldInRanks DEF IInv
<1>2. topology[r] = Placement(r) /\ topology[r].size > 0
  BY <1>1, PlacementType DEF IInv, TopologySound
<1> QED BY <1>2 DEF Probe, Hardware!DetectHardwareAwareness

\* A probe agrees with MPI in every solver call, whatever launchers have left in
\* the environment.
THEOREM ProbeCorrect == Spec => []ProbeAgreesWithRuntime
<1>1. IInv => ProbeAgreesWithRuntime
  BY ProbeIsPlacement DEF ProbeAgreesWithRuntime
<1> QED BY <1>1, Invariance, PTL

-----------------------------------------------------------------------------
(* The order of the collectives *)

\* How many of the items before the j-th of script s are solver calls.
Solves(s, j) == Cardinality({i \in 1 .. j - 1 : s[i] = "solve"})

\* MPI runs after the first item of one of these kinds; the host finalization
\* after it is the one that finalizes MPI.
OpensMpi == {"hostInit", "solve"}
Finalizes(s, i) ==
    /\ i \in 1 .. Len(s) /\ s[i] = "hostFinalize"
    /\ \E j \in 1 .. i - 1 : s[j] \in OpensMpi

\* Where MPI is finalized: by the host, or at the end of the process.
IsEnd(s, i) ==
    /\ i = Len(s) + 1 \/ Finalizes(s, i)
    /\ \A j \in 1 .. i - 1 : ~Finalizes(s, j)

\* How many collectives a rank has entered before the j-th item: four in each
\* solver call, and the split of the communicator in the first.
Before(s, j) == IF Solves(s, j) = 0 THEN 0 ELSE 4 * Solves(s, j) + 1

\* The n-th collective of a rank is of this kind unless MPI is finalized.
Regular(n, kind) ==
    kind = IF n = 1 THEN "split"
           ELSE IF n % 4 \in {2, 3} THEN "bcast"
           ELSE IF n % 4 = 0 THEN "sum" ELSE "barrier"

Finished(r) == Len(posted[r]) > 0 /\ posted[r][Len(posted[r])] = "finalize"

KindsRegular(r) ==
    \A n \in 1 .. Len(posted[r]) :
        \/ Regular(n, posted[r][n])
        \/ n = Len(posted[r]) /\ posted[r][n] = "finalize"

\* How many collectives of a solver call come before each of its steps.
Offset == [split |-> 0, count |-> 1, data |-> 2, work |-> 3, sum |-> 3, barrier |-> 4]
InCall == DOMAIN Offset \cup {"lifetime", "session", "threw"}
Entered(r) == IF inside[r] THEN 1 ELSE 0

\* Until it finalizes MPI a rank has entered what its place in the script tells.
BeforeTheEnd(r) ==
    LET n == Len(posted[r])
        solves == Solves(script, at[r])
    IN  /\ \A j \in 1 .. at[r] - 1 : ~Finalizes(script, j)
        /\ pc[r] \in {"host", "lifetime", "session", "exit", "gone"} =>
               n = Before(script, at[r]) /\ ~inside[r]
        /\ pc[r] \in DOMAIN Offset => n = 4 * solves + Offset[pc[r]] + Entered(r)
        /\ pc[r] = "threw" => n \in 4 * solves + 2 .. 4 * solves + 3
        /\ pc[r] \in {"work", "threw"} => ~inside[r]
        /\ IF pc[r] = "split"
           THEN solves = 0 /\ topology[r].size = 0
           ELSE topology[r].size > 0 <=> n > 0

\* Afterwards it has entered as much as every other that has, and enters no more.
AfterTheEnd(r) ==
    /\ \E i \in 1 .. Len(script) + 1 :
           IsEnd(script, i) /\ Len(posted[r]) = Before(script, i) + 1
    /\ IF inside[r] THEN pc[r] \in {"finalize", "exit"} ELSE session[r] = "finalized"

\* The step that a rank is at, the item of its script and MPI's state fit.
ScriptSound(r) ==
    /\ session[r] = "finalized" => Finished(r)
    /\ pc[r] = "finalize" => inside[r] /\ Finished(r)
    /\ pc[r] \in InCall => at[r] <= Len(script) /\ script[at[r]] = "solve"
    /\ pc[r] = "exit" => at[r] = Len(script) + 1
    /\ pc[r] = "host" /\ session[r] = "fresh" =>
           \A j \in 1 .. at[r] - 1 : script[j] = "hostFinalize"
    /\ pc[r] = "host" /\ session[r] = "running" =>
           \E j \in 1 .. at[r] - 1 : script[j] \in OpensMpi

Order(r) ==
    /\ KindsRegular(r)
    /\ Finished(r) => AfterTheEnd(r)
    /\ ~Finished(r) => BeforeTheEnd(r)
    /\ ScriptSound(r)

\* A call that throws leaves the script of a rank with peers, never that of one
\* without; the order of a job of one rank is nobody else's.
Ordered == IInv /\ (world > 1 => \A r \in Ranks : Order(r))

\* One item more is one solver call more or none.
LEMMA SolvesStep ==
    ASSUME NEW s \in Seq(Items), NEW j \in 1 .. Len(s)
    PROVE  /\ Solves(s, j) \in Nat
           /\ Solves(s, j + 1) = Solves(s, j) + (IF s[j] = "solve" THEN 1 ELSE 0)
<1> DEFINE calls(k) == {i \in 1 .. k - 1 : s[i] = "solve"}
<1>1. IsFiniteSet(1 .. j - 1)
  BY FS_Interval
<1>2. IsFiniteSet(calls(j)) /\ Cardinality(calls(j)) \in Nat
  BY <1>1, FS_Subset, FS_CardinalityType
<1>3. CASE s[j] = "solve"
  <2>1. calls(j + 1) = calls(j) \cup {j} /\ j \notin calls(j)
    BY <1>3
  <2>2. Cardinality(calls(j + 1)) = Cardinality(calls(j)) + 1
    BY <1>2, <2>1, FS_AddElement
  <2> QED BY <1>2, <1>3, <2>2 DEF Solves
<1>4. CASE s[j] # "solve"
  <2>1. calls(j + 1) = calls(j)
    BY <1>4
  <2>2. Cardinality(calls(j + 1)) = Cardinality(calls(j))
    BY <2>1
  <2> QED BY <1>2, <1>4, <2>2 DEF Solves
<1> QED BY <1>3, <1>4

\* Further on in the script there are no fewer of them.
LEMMA SolvesGrow ==
    ASSUME NEW s \in Seq(Items), NEW i \in 1 .. Len(s) + 1, NEW j \in 1 .. Len(s) + 1, i <= j
    PROVE  Solves(s, i) \in Nat /\ Solves(s, j) \in Nat /\ Solves(s, i) <= Solves(s, j)
<1> DEFINE calls(k) == {n \in 1 .. k - 1 : s[n] = "solve"}
<1>1. IsFiniteSet(1 .. j - 1)
  BY FS_Interval
<1>2. IsFiniteSet(calls(j))
  BY <1>1, FS_Subset
<1>3. calls(i) \subseteq calls(j)
  OBVIOUS
<1> HIDE DEF calls
<1>4. IsFiniteSet(calls(i)) /\ Cardinality(calls(i)) <= Cardinality(calls(j))
  BY <1>2, <1>3, FS_Subset
<1>5. Cardinality(calls(i)) \in Nat /\ Cardinality(calls(j)) \in Nat
  BY <1>2, <1>4, FS_CardinalityType
<1> QED BY <1>4, <1>5 DEF Solves, calls

\* Before the first item there are none.
LEMMA SolvesNone == \A s : Solves(s, 1) = 0
<1> SUFFICES ASSUME NEW s PROVE Solves(s, 1) = 0
  OBVIOUS
<1>1. {i \in 1 .. 1 - 1 : s[i] = "solve"} = {}
  OBVIOUS
<1> QED BY <1>1, FS_EmptySet DEF Solves

\* MPI is finalized at one place of a script.
LEMMA OneEnd ==
    ASSUME NEW s \in Seq(Items), NEW i \in 1 .. Len(s) + 1, NEW j \in 1 .. Len(s) + 1,
           IsEnd(s, i), IsEnd(s, j)
    PROVE  i = j
BY DEF IsEnd, Finalizes

\* Before the first step.
LEMMA InitOrders == Init => Ordered
<1> SUFFICES ASSUME Init, NEW r \in Ranks PROVE Order(r)
  BY InitEstablishes DEF Ordered
<1>1. /\ at[r] = 1 /\ pc[r] = "host" /\ session[r] = "fresh" /\ ~inside[r]
      /\ posted[r] = <<>> /\ Len(posted[r]) = 0 /\ topology[r].size = 0
  BY DEF Init, MPI!MpiInit, Hardware!EmptyTopology
<1>2. Before(script, 1) = 0
  BY SolvesNone DEF Before
<1>3. KindsRegular(r) /\ ~Finished(r) /\ ScriptSound(r)
  BY <1>1 DEF KindsRegular, Finished, ScriptSound, InCall, Offset
<1>4. BeforeTheEnd(r)
  BY <1>1, <1>2 DEF BeforeTheEnd, Offset
<1> QED BY <1>3, <1>4 DEF Order

\* Rank r neither enters nor leaves a collective.
NotInMpi(r) == posted'[r] = posted[r] /\ inside'[r] = inside[r] /\ UNCHANGED script

\* A rank that does nothing keeps its order.
LEMMA OrderStays ==
    ASSUME NEW r \in Ranks, Order(r), Same(r), NotInMpi(r)
    PROVE  Order(r)'
<1>1. KindsRegular(r)' /\ (Finished(r)' <=> Finished(r))
  BY DEF Order, KindsRegular, Finished, NotInMpi
<1>2. AfterTheEnd(r) => AfterTheEnd(r)'
  BY DEF AfterTheEnd, Same, NotInMpi
<1>3. BeforeTheEnd(r) => BeforeTheEnd(r)'
  BY DEF BeforeTheEnd, Same, NotInMpi, Entered
<1>4. ScriptSound(r)'
  BY <1>1 DEF Order, ScriptSound, Same, NotInMpi
<1> QED BY <1>1, <1>2, <1>3, <1>4 DEF Order

\* Rank r goes to another step of its item, or on in the script.
Moves(r) ==
    /\ NotInMpi(r) /\ ~inside[r]
    /\ topology'[r] = topology[r] /\ UNCHANGED world

\* Without a collective the order is that of the script alone.
LEMMA OrderMoves ==
    ASSUME NEW r \in Ranks, Order(r), Moves(r), ScriptSound(r)',
           ~Finished(r) => BeforeTheEnd(r)',
           Finished(r) => session'[r] = "finalized"
    PROVE  Order(r)'
<1>1. KindsRegular(r)' /\ (Finished(r)' <=> Finished(r))
  BY DEF Order, KindsRegular, Finished, NotInMpi, Moves
<1>2. Finished(r) => AfterTheEnd(r)'
  BY DEF Order, AfterTheEnd, NotInMpi, Moves
<1> QED BY <1>1, <1>2 DEF Order

\* What the invariant says of the script and of the collectives of rank r.
LEMMA OrderType ==
    ASSUME IInv, NEW r \in Ranks
    PROVE  /\ script \in Seq(Items) /\ Len(script) \in Nat
           /\ at[r] \in 1 .. Len(script) + 1
           /\ Solves(script, at[r]) \in Nat
           /\ posted[r] \in Seq(MPI!Kinds) /\ Len(posted[r]) \in Nat
<1>1. script \in Seq(Items) /\ at[r] \in 1 .. Len(script) + 1 /\ posted[r] \in Seq(MPI!Kinds)
  BY RuntimeAssumption DEF IInv, TypeOK
<1>2. Solves(script, at[r]) \in Nat
  BY <1>1, SolvesGrow
<1> QED BY <1>1, <1>2

\* An item that is no solver call brings no collective but the last.
LEMMA BeforeStays ==
    ASSUME NEW s \in Seq(Items), NEW j \in 1 .. Len(s), s[j] # "solve"
    PROVE  Before(s, j + 1) = Before(s, j)
BY SolvesStep DEF Before

\* Steps outside of MPI's collectives.
LEMMA OutsideOrders ==
    ASSUME IInv, NEW r \in Ranks, Order(r)
    PROVE  /\ HostInit(r) \/ CallSolver(r) \/ ConstructLifetime(r) => Order(r)'
           /\ CheckSession(r) \/ Compute(r) \/ BeginExit(r) => Order(r)'
<1>t. /\ script \in Seq(Items) /\ Len(script) \in Nat /\ at[r] \in 1 .. Len(script) + 1
      /\ Solves(script, at[r]) \in Nat /\ Len(posted[r]) \in Nat
  BY OrderType
<1>f. Finished(r) /\ ~inside[r] => session[r] = "finalized"
  BY DEF Order, AfterTheEnd
<1>1. ASSUME HostInit(r) PROVE Order(r)'
  <2>1. at[r] = 1 /\ session[r] = "fresh" /\ script[1] = "hostInit" /\ 1 \in 1 .. Len(script)
    BY <1>1, <1>t, RuntimeAssumption DEF HostInit, Runs, IInv, TypeOK, SessionSound
  <2>2. Moves(r) /\ pc'[r] = "host" /\ at'[r] = 2 /\ session'[r] = "running"
    BY <1>1, <2>1 DEF HostInit, Runs, IInv, TypeOK, InitMpi, MpiIs, mpi, Moves, NotInMpi
  <2>3. ~Finished(r)
    BY <1>1, <1>f, <2>1 DEF HostInit, Runs
  <2>4. Before(script, 2) = Before(script, 1) /\ ~Finalizes(script, 1)
    BY <1>t, <2>1, BeforeStays DEF Finalizes
  <2>5. BeforeTheEnd(r)'
    BY <1>1, <2>1, <2>2, <2>3, <2>4
       DEF HostInit, Runs, Order, BeforeTheEnd, Offset, Moves, NotInMpi
  <2>6. ScriptSound(r)'
    BY <2>1, <2>2 DEF ScriptSound, InCall, Offset, OpensMpi, Moves, NotInMpi
  <2> QED BY <2>2, <2>3, <2>5, <2>6, OrderMoves
<1>2. ASSUME CallSolver(r) PROVE Order(r)'
  <2>1. Moves(r) /\ pc'[r] = "lifetime" /\ at'[r] = at[r] /\ session'[r] = session[r]
    BY <1>2 DEF CallSolver, Runs, IInv, TypeOK, Goto, process, mpi, Moves, NotInMpi
  <2>2. ~Finished(r) => BeforeTheEnd(r)'
    BY <1>2, <2>1 DEF CallSolver, Runs, Order, BeforeTheEnd, Offset, Moves, NotInMpi
  <2>3. ScriptSound(r)'
    BY <1>2, <2>1
       DEF CallSolver, Runs, Order, ScriptSound, InCall, Offset, Moves, NotInMpi, Finished
  <2> QED BY <1>f, <2>1, <2>2, <2>3, OrderMoves DEF Moves
<1>3. ASSUME ConstructLifetime(r) PROVE Order(r)'
  <2>1. Moves(r) /\ pc[r] = "lifetime" /\ ~inside[r]
    BY <1>3 DEF ConstructLifetime, Runs, MPI!Abort, mpi, Moves, NotInMpi
  <2>2. CASE session[r] = "finalized" /\ ~lifetime[r]
    <3>1. Finished(r) /\ pc'[r] = "host" /\ session'[r] = "finalized"
      BY <1>3, <2>2 DEF ConstructLifetime, ReturnToHost, Goto, IInv, TypeOK, Order, ScriptSound
    <3>2. ScriptSound(r)'
      BY <2>1, <3>1 DEF ScriptSound, InCall, Offset, Moves, NotInMpi, Finished
    <3> QED BY <2>1, <3>1, <3>2, OrderMoves
  <2>3. CASE ~(session[r] = "finalized" /\ ~lifetime[r])
    <3>1. /\ pc'[r] \in {"lifetime", "session"} /\ at'[r] = at[r]
          /\ session'[r] = "finalized" <=> session[r] = "finalized"
      BY <1>3, <2>1, <2>3
         DEF ConstructLifetime, InitMpi, MpiIs, Goto, MPI!Abort, IInv, TypeOK
    <3>2. ~Finished(r) => BeforeTheEnd(r)'
      BY <2>1, <3>1 DEF Order, BeforeTheEnd, Offset, Moves, NotInMpi
    <3>3. ScriptSound(r)'
      BY <2>1, <3>1 DEF Order, ScriptSound, InCall, Offset, Moves, NotInMpi, Finished
    <3> QED BY <1>f, <2>1, <3>1, <3>2, <3>3, OrderMoves
  <2> QED BY <2>2, <2>3
<1>4. ASSUME CheckSession(r) PROVE Order(r)'
  <2>1. Moves(r) /\ pc[r] = "session" /\ ~inside[r] /\ session'[r] = session[r]
    BY <1>4 DEF CheckSession, Runs, process, mpi, Moves, NotInMpi
  <2>2. CASE session[r] = "finalized"
    <3>1. Finished(r) /\ pc'[r] = "host"
      BY <1>4, <2>2 DEF CheckSession, ReturnToHost, Goto, IInv, TypeOK, Order, ScriptSound
    <3>2. ScriptSound(r)'
      BY <2>1, <2>2, <3>1 DEF ScriptSound, InCall, Offset, Moves, NotInMpi, Finished
    <3> QED BY <2>1, <2>2, <3>1, <3>2, OrderMoves
  <2>3. CASE session[r] # "finalized"
    <3>1. /\ pc'[r] = IF topology[r].size > 0 THEN "count" ELSE "split"
          /\ at'[r] = at[r]
      BY <1>4, <2>3 DEF CheckSession, Goto, IInv, TypeOK
    <3>2. ~Finished(r) /\ BeforeTheEnd(r) /\ topology[r].size \in Nat
      BY <1>f, <2>1, <2>3 DEF Order, IInv, TypeOK
    <3>3. /\ Len(posted[r]) = Before(script, at[r])
          /\ topology[r].size > 0 <=> Len(posted[r]) > 0
      BY <2>1, <3>2 DEF BeforeTheEnd
    <3>4. BeforeTheEnd(r)'
      <4>1. CASE topology[r].size > 0
        BY <1>t, <2>1, <3>1, <3>2, <3>3, <4>1
           DEF BeforeTheEnd, Before, Offset, Entered, Moves, NotInMpi
      <4>2. CASE topology[r].size = 0
        BY <1>t, <2>1, <3>1, <3>2, <3>3, <4>2
           DEF BeforeTheEnd, Before, Offset, Entered, Moves, NotInMpi
      <4> QED BY <3>2, <4>1, <4>2
    <3>5. ScriptSound(r)'
      BY <2>1, <2>3, <3>1 DEF Order, ScriptSound, InCall, Offset, Moves, NotInMpi, Finished
    <3> QED BY <2>1, <3>2, <3>4, <3>5, OrderMoves
  <2> QED BY <2>2, <2>3
<1>5. ASSUME Compute(r) PROVE Order(r)'
  <2>1. /\ Moves(r) /\ pc[r] = "work" /\ ~inside[r] /\ session'[r] = session[r]
        /\ pc'[r] \in {"sum", "threw"} /\ at'[r] = at[r]
    BY <1>5 DEF Compute, Runs, Goto, IInv, TypeOK, process, mpi, Moves, NotInMpi
  <2>2. ~Finished(r) /\ BeforeTheEnd(r)
    BY <1>f, <2>1 DEF Order, IInv, SessionSound, UsingMpi
  <2>3. BeforeTheEnd(r)'
    BY <1>t, <2>1, <2>2 DEF BeforeTheEnd, Offset, Entered, Moves, NotInMpi
  <2>4. ScriptSound(r)'
    BY <2>1 DEF Order, ScriptSound, InCall, Offset, Moves, NotInMpi, Finished
  <2> QED BY <2>1, <2>2, <2>3, <2>4, OrderMoves
<1>6. ASSUME BeginExit(r) PROVE Order(r)'
  <2>1. /\ Moves(r) /\ pc[r] = "host" /\ ~inside[r] /\ session'[r] = session[r]
        /\ pc'[r] = "exit" /\ at[r] = Len(script) + 1 /\ at'[r] = at[r]
    BY <1>6 DEF BeginExit, Runs, Goto, IInv, TypeOK, process, mpi, Moves, NotInMpi
  <2>2. ~Finished(r) => BeforeTheEnd(r)'
    BY <2>1 DEF Order, BeforeTheEnd, Offset, Moves, NotInMpi
  <2>3. ScriptSound(r)'
    BY <2>1 DEF Order, ScriptSound, InCall, Offset, Moves, NotInMpi, Finished
  <2> QED BY <1>f, <2>1, <2>2, <2>3, OrderMoves
<1> QED BY <1>1, <1>2, <1>3, <1>4, <1>5, <1>6

\* A collective that comes where it belongs, or the last one.
LEMMA OrderPosted ==
    ASSUME IInv, NEW r \in Ranks, Order(r), ~Finished(r), UNCHANGED script,
           NEW kind \in MPI!Kinds, MPI!Post(r, kind),
           Regular(Len(posted[r]) + 1, kind) \/ kind = "finalize"
    PROVE  /\ KindsRegular(r)' /\ (Finished(r)' <=> kind = "finalize")
           /\ Len(posted'[r]) = Len(posted[r]) + 1 /\ inside'[r]
<1> DEFINE n == Len(posted[r])
<1>1. posted[r] \in Seq(MPI!Kinds) /\ n \in Nat
  BY OrderType
<1>2. posted'[r] = Append(posted[r], kind) /\ inside'[r]
  BY DEF MPI!Post, IInv, TypeOK
<1>3. /\ Len(posted'[r]) = n + 1 /\ posted'[r][n + 1] = kind
      /\ \A k \in 1 .. n : posted'[r][k] = posted[r][k]
  BY <1>1, <1>2
<1>4. \A k \in 1 .. n : Regular(k, posted[r][k])
  BY <1>1 DEF Order, KindsRegular, Finished
<1>5. KindsRegular(r)'
  <2> SUFFICES ASSUME NEW k \in 1 .. n + 1
               PROVE  \/ Regular(k, posted'[r][k])
                      \/ k = n + 1 /\ posted'[r][k] = "finalize"
    BY <1>3 DEF KindsRegular
  <2>1. CASE k = n + 1
    BY <1>3, <2>1
  <2>2. CASE k # n + 1
    <3>1. k \in 1 .. n
      BY <1>1, <2>2
    <3> QED BY <1>3, <1>4, <3>1
  <2> QED BY <2>1, <2>2
<1>6. Finished(r)' <=> kind = "finalize"
  BY <1>1, <1>3 DEF Finished
<1> QED BY <1>2, <1>3, <1>5, <1>6

\* The kinds of the four collectives of a call, after the split and s calls.
LEMMA CallIsRegular ==
    ASSUME NEW s \in Nat
    PROVE  /\ Regular(4 * s + 2, "bcast") /\ Regular(4 * s + 3, "bcast")
           /\ Regular(4 * s + 4, "sum") /\ Regular(4 * s + 5, "barrier")
<1>1. /\ (4 * s + 2) % 4 = 2 /\ (4 * s + 3) % 4 = 3
      /\ (4 * s + 4) % 4 = 0 /\ (4 * s + 5) % 4 = 1
  OBVIOUS
<1> QED BY <1>1 DEF Regular

\* Steps into a collective.
LEMMA EnterOrders ==
    ASSUME IInv, NEW r \in Ranks, Order(r)
    PROVE  /\ EnterSplit(r) \/ EnterCount(r) \/ EnterCollective(r) => Order(r)'
           /\ HostFinalize(r) \/ DestroyLifetime(r) => Order(r)'
<1>t. /\ script \in Seq(Items) /\ Len(script) \in Nat /\ at[r] \in 1 .. Len(script) + 1
      /\ Solves(script, at[r]) \in Nat /\ Len(posted[r]) \in Nat
  BY OrderType
<1>f. Finished(r) /\ ~inside[r] => session[r] = "finalized"
  BY DEF Order, AfterTheEnd
<1>1. ASSUME EnterSplit(r) \/ EnterCount(r) \/ EnterCollective(r) PROVE Order(r)'
  <2> DEFINE kind == IF pc[r] = "split" THEN "split"
                     ELSE IF pc[r] = "count" THEN "bcast" ELSE Kind[pc[r]]
  <2>1. /\ pc[r] \in {"split", "count", "data", "sum", "barrier"}
        /\ Runs(r, pc[r]) /\ Enter(r, kind) /\ UNCHANGED <<world, script, at, pc, topology>>
    BY <1>1 DEF EnterSplit, EnterCount, EnterCollective, Kind, Runs
  <2>2. session[r] = "running" /\ kind \in MPI!Kinds
    BY <2>1 DEF IInv, SessionSound, UsingMpi, Kind, MPI!Kinds
  <2>3. MPI!Post(r, kind) /\ UNCHANGED session
    BY <2>1, <2>2 DEF Enter
  <2>4. ~Finished(r) /\ BeforeTheEnd(r) /\ ~inside[r]
    BY <1>f, <2>1, <2>2 DEF Order, Runs
  <2>5. Len(posted[r]) = 4 * Solves(script, at[r]) + Offset[pc[r]]
    BY <2>1, <2>4, <1>t DEF BeforeTheEnd, Offset, Entered
  <2>6. Regular(Len(posted[r]) + 1, kind) /\ kind # "finalize"
    <3>1. CASE pc[r] = "split"
      BY <2>4, <2>5, <3>1, <1>t DEF BeforeTheEnd, Regular, Offset
    <3>2. CASE pc[r] # "split"
      <4> DEFINE n == 4 * Solves(script, at[r])
      <4>1. /\ Regular(n + 2, "bcast") /\ Regular(n + 3, "bcast")
            /\ Regular(n + 4, "sum") /\ Regular(n + 5, "barrier")
        BY <1>t, CallIsRegular
      <4>2. Len(posted[r]) = n + Offset[pc[r]] /\ n \in Nat
        BY <2>5, <1>t
      <4> HIDE DEF n
      <4>3. CASE pc[r] = "count"
        <5>1. Len(posted[r]) + 1 = n + 2 /\ kind = "bcast"
          BY <4>2, <4>3 DEF Offset, Kind
        <5> QED BY <4>1, <5>1
      <4>4. CASE pc[r] = "data"
        <5>1. Len(posted[r]) + 1 = n + 3 /\ kind = "bcast"
          BY <4>2, <4>4 DEF Offset, Kind
        <5> QED BY <4>1, <5>1
      <4>5. CASE pc[r] = "sum"
        <5>1. Len(posted[r]) + 1 = n + 4 /\ kind = "sum"
          BY <4>2, <4>5 DEF Offset, Kind
        <5> QED BY <4>1, <5>1
      <4>6. CASE pc[r] = "barrier"
        <5>1. Len(posted[r]) + 1 = n + 5 /\ kind = "barrier"
          BY <4>2, <4>6 DEF Offset, Kind
        <5> QED BY <4>1, <5>1
      <4> QED BY <2>1, <3>2, <4>3, <4>4, <4>5, <4>6
    <3> QED BY <3>1, <3>2
  <2>7. /\ KindsRegular(r)' /\ ~Finished(r)'
        /\ Len(posted'[r]) = Len(posted[r]) + 1 /\ inside'[r]
    BY <2>1, <2>2, <2>3, <2>4, <2>6, OrderPosted
  <2>8. BeforeTheEnd(r)'
    <3>1. pc[r] # "split" => Len(posted[r]) > 0
      BY <2>1, <2>5, <1>t DEF Offset
    <3>2. IF pc[r] = "split"
          THEN Solves(script, at[r]) = 0 /\ topology[r].size = 0
          ELSE topology[r].size > 0 <=> Len(posted'[r]) > 0
      BY <2>1, <2>4, <2>7, <3>1, <1>t DEF BeforeTheEnd
    <3>3. /\ pc[r] \notin {"host", "lifetime", "session", "exit", "gone", "work", "threw"}
          /\ Entered(r)' = 1
      BY <2>1, <2>7 DEF Entered
    <3> QED BY <2>1, <2>4, <2>5, <2>7, <3>2, <3>3, <1>t DEF BeforeTheEnd
  <2>9. ScriptSound(r)'
    BY <2>1, <2>2, <2>3, <2>7 DEF Order, ScriptSound, InCall, Offset
  <2> QED BY <2>7, <2>8, <2>9 DEF Order
<1>2. ASSUME HostFinalize(r) PROVE Order(r)'
  <2>1. /\ pc[r] = "host" /\ ~inside[r] /\ at[r] \in 1 .. Len(script)
        /\ script[at[r]] = "hostFinalize" /\ UNCHANGED <<world, script, topology>>
    BY <1>2, <1>t DEF HostFinalize, Runs
  <2>2. CASE session[r] = "running"
    <3>1. MPI!Post(r, "finalize") /\ pc'[r] = "finalize" /\ UNCHANGED <<at, session>>
      BY <1>2, <2>2 DEF HostFinalize, Enter, Goto, IInv, TypeOK
    <3>2. ~Finished(r) /\ BeforeTheEnd(r)
      BY <1>f, <2>1, <2>2 DEF Order
    <3>3. /\ KindsRegular(r)' /\ Finished(r)'
          /\ Len(posted'[r]) = Len(posted[r]) + 1 /\ inside'[r]
      BY <2>1, <3>1, <3>2, OrderPosted DEF MPI!Kinds
    <3>4. IsEnd(script, at[r])
      BY <2>1, <2>2, <3>2 DEF IsEnd, Finalizes, BeforeTheEnd, Order, ScriptSound
    <3>5. AfterTheEnd(r)'
      BY <2>1, <3>1, <3>2, <3>3, <3>4, <1>t DEF AfterTheEnd, BeforeTheEnd
    <3>6. ScriptSound(r)'
      BY <2>2, <3>1, <3>3 DEF ScriptSound, InCall, Offset
    <3> QED BY <3>3, <3>5, <3>6 DEF Order
  <2>3. CASE session[r] # "running"
    <3>1. /\ Moves(r) /\ pc'[r] = "host" /\ at'[r] = at[r] + 1 /\ session'[r] = session[r]
          /\ session[r] \in {"fresh", "finalized"}
      BY <1>2, <2>1, <2>3
         DEF HostFinalize, mpi, Moves, NotInMpi, IInv, TypeOK, SessionSound
    <3>2. ASSUME ~Finished(r) PROVE BeforeTheEnd(r)'
      <4>1. session[r] = "fresh" /\ BeforeTheEnd(r)
        BY <3>1, <3>2 DEF Order, ScriptSound
      <4>2. ~Finalizes(script, at[r])
        BY <2>1, <4>1 DEF Order, ScriptSound, Finalizes, OpensMpi
      <4>3. Before(script, at[r] + 1) = Before(script, at[r])
        BY <2>1, <1>t, BeforeStays
      <4>4. \A j \in 1 .. at[r] : ~Finalizes(script, j)
        BY <4>1, <4>2, <1>t DEF BeforeTheEnd
      <4>5. 1 .. at[r] = 1 .. at'[r] - 1
        BY <3>1, <1>t
      <4> QED BY <2>1, <3>1, <4>1, <4>3, <4>4, <4>5, <1>t
               DEF BeforeTheEnd, Offset, Moves, NotInMpi
    <3>3. ScriptSound(r)'
      BY <2>1, <3>1, <1>t
         DEF Order, ScriptSound, InCall, Offset, Moves, NotInMpi, Finished
    <3> QED BY <1>f, <2>1, <3>1, <3>2, <3>3, OrderMoves
  <2> QED BY <2>2, <2>3
<1>3. ASSUME DestroyLifetime(r) PROVE Order(r)'
  <2>1. /\ pc[r] = "exit" /\ ~inside[r] /\ UNCHANGED <<world, script, at, topology>>
        /\ at[r] = Len(script) + 1
    BY <1>3 DEF DestroyLifetime, Runs, Order, ScriptSound
  <2>2. CASE lifetime[r] /\ owned[r] /\ session[r] # "finalized"
    <3>1. session[r] = "running"
      BY <2>2 DEF IInv, TypeOK, SessionSound
    <3>2. MPI!Post(r, "finalize") /\ UNCHANGED <<pc, session>>
      BY <1>3, <2>2, <3>1 DEF DestroyLifetime, Enter
    <3>3. ~Finished(r) /\ BeforeTheEnd(r)
      BY <1>f, <2>1, <2>2 DEF Order
    <3>4. /\ KindsRegular(r)' /\ Finished(r)'
          /\ Len(posted'[r]) = Len(posted[r]) + 1 /\ inside'[r]
      BY <2>1, <3>2, <3>3, OrderPosted DEF MPI!Kinds
    <3>5. IsEnd(script, at[r])
      BY <2>1, <3>3 DEF IsEnd, BeforeTheEnd
    <3>6. AfterTheEnd(r)'
      BY <2>1, <3>2, <3>3, <3>4, <3>5, <1>t DEF AfterTheEnd, BeforeTheEnd
    <3>7. ScriptSound(r)'
      BY <2>1, <3>2, <3>4 DEF ScriptSound, InCall, Offset
    <3> QED BY <3>4, <3>6, <3>7 DEF Order
  <2>3. CASE ~(lifetime[r] /\ owned[r] /\ session[r] # "finalized")
    <3>1. Moves(r) /\ pc'[r] = "gone" /\ session'[r] = session[r] /\ at'[r] = at[r]
      BY <1>3, <2>1, <2>3 DEF DestroyLifetime, Goto, mpi, Moves, NotInMpi, IInv, TypeOK
    <3>2. ~Finished(r) => BeforeTheEnd(r)'
      BY <2>1, <3>1 DEF Order, BeforeTheEnd, Offset, Moves, NotInMpi
    <3>3. ScriptSound(r)'
      BY <3>1 DEF Order, ScriptSound, InCall, Offset, Moves, NotInMpi, Finished
    <3> QED BY <1>f, <2>1, <3>1, <3>2, <3>3, OrderMoves
  <2> QED BY <2>2, <2>3
<1> QED BY <1>1, <1>2, <1>3

\* Steps out of a collective, and after an exception with peers.
LEMMA LeaveOrders ==
    ASSUME IInv, NEW r \in Ranks, Order(r), world > 1
    PROVE  Leave(r) \/ Guard(r) => Order(r)'
<1>t. /\ script \in Seq(Items) /\ Len(script) \in Nat /\ at[r] \in 1 .. Len(script) + 1
      /\ Solves(script, at[r]) \in Nat /\ Len(posted[r]) \in Nat
  BY OrderType
<1>1. ASSUME Guard(r) PROVE Order(r)'
  BY <1>1, OrderStays DEF Guard, MPI!Abort, process, Same, NotInMpi
<1>2. ASSUME Leave(r) PROVE Order(r)'
  <2>1. /\ inside[r] /\ ~inside'[r]
        /\ UNCHANGED <<world, script, posted>>
    BY <1>2 DEF Leave, MPI!Complete, IInv, TypeOK
  <2>2. KindsRegular(r)' /\ (Finished(r)' <=> Finished(r))
    BY <2>1 DEF Order, KindsRegular, Finished
  <2>3. CASE pc[r] \in {"finalize", "exit"}
    <3>1. Finished(r)
      BY <2>1, <2>3 DEF Order, BeforeTheEnd, ScriptSound
    <3>2. session'[r] = "finalized" /\ pc'[r] \in {"host", "gone"}
      BY <1>2, <2>3 DEF Leave, MpiIs, ReturnToHost, Goto, IInv, TypeOK
    <3>3. AfterTheEnd(r)'
      BY <2>1, <3>1, <3>2 DEF Order, AfterTheEnd
    <3>4. ScriptSound(r)'
      BY <2>2, <3>1, <3>2 DEF ScriptSound, InCall, Offset
    <3> QED BY <2>2, <3>1, <3>3, <3>4 DEF Order
  <2>4. CASE pc[r] \notin {"finalize", "exit"}
    <3>1. ~Finished(r) /\ BeforeTheEnd(r) /\ session[r] # "finalized"
      BY <2>1, <2>4 DEF Order, AfterTheEnd, ScriptSound
    <3>2. pc[r] \in {"split", "count", "data", "sum", "barrier"}
      BY <1>2, <2>4 DEF Leave
    <3>3. /\ Len(posted[r]) = 4 * Solves(script, at[r]) + Offset[pc[r]] + 1
          /\ at[r] <= Len(script) /\ script[at[r]] = "solve"
      BY <2>1, <3>1, <3>2 DEF BeforeTheEnd, Order, ScriptSound, InCall, Offset, Entered
    <3>4. CASE pc[r] = "split"
      <4>1. /\ pc'[r] = "count" /\ at'[r] = at[r] /\ session'[r] = session[r]
            /\ topology'[r] = Placement(r)
        BY <1>2, <3>4 DEF Leave, Goto, IInv, TypeOK
      <4>2. topology'[r].size > 0
        BY <4>1, PlacementType DEF IInv
      <4>3. BeforeTheEnd(r)'
        <5>1. Len(posted[r]) = 4 * Solves(script, at[r]) + 1 /\ Entered(r)' = 0
          BY <2>1, <3>3, <3>4, <1>t DEF Offset, Entered
        <5> QED BY <2>1, <3>1, <4>1, <4>2, <5>1, <1>t DEF BeforeTheEnd, Offset
      <4>4. ScriptSound(r)'
        BY <2>1, <3>1, <3>3, <4>1 DEF ScriptSound, InCall, Offset
      <4> QED BY <2>2, <3>1, <4>3, <4>4 DEF Order
    <3>5. CASE pc[r] \in {"count", "data", "sum"}
      <4>1. /\ at'[r] = at[r] /\ session'[r] = session[r] /\ topology' = topology
            /\ \/ pc[r] = "count" /\ pc'[r] \in {"threw", "data"}
               \/ pc[r] = "data" /\ pc'[r] = "work"
               \/ pc[r] = "sum" /\ pc'[r] = "barrier"
        BY <1>2, <3>5 DEF Leave, Goto, IInv, TypeOK
      <4>2. BeforeTheEnd(r)'
        <5> DEFINE solves == Solves(script, at[r])
                   n == Len(posted[r])
        <5>1. Entered(r)' = 0 /\ (topology[r].size > 0 <=> n > 0)
          BY <2>1, <3>1, <3>5 DEF Entered, BeforeTheEnd
        <5>2. /\ pc'[r] = "threw" => n = 4 * solves + 2
              /\ pc'[r] = "data" => n = 4 * solves + 2
              /\ pc'[r] = "work" => n = 4 * solves + 3
              /\ pc'[r] = "barrier" => n = 4 * solves + 4
          BY <3>3, <4>1, <1>t DEF Offset
        <5> QED BY <2>1, <3>1, <4>1, <5>1, <5>2, <1>t DEF BeforeTheEnd, Offset
      <4>3. ScriptSound(r)'
        BY <2>1, <3>1, <3>3, <4>1 DEF ScriptSound, InCall, Offset
      <4> QED BY <2>2, <3>1, <4>2, <4>3 DEF Order
    <3>6. CASE pc[r] = "barrier"
      <4>1. /\ pc'[r] = "host" /\ at'[r] = at[r] + 1 /\ session'[r] = session[r]
            /\ topology' = topology
        BY <1>2, <3>6 DEF Leave, ReturnToHost, Goto, IInv, TypeOK
      <4>2. Solves(script, at[r] + 1) = Solves(script, at[r]) + 1
        BY <3>3, <1>t, SolvesStep
      <4>3. Len(posted[r]) = Before(script, at[r] + 1)
        BY <3>3, <3>6, <4>2, <1>t DEF Before, Offset
      <4>4. \A j \in 1 .. at'[r] - 1 : ~Finalizes(script, j)
        <5>1. ~Finalizes(script, at[r])
          BY <3>3 DEF Finalizes
        <5>2. \A j \in 1 .. at[r] : ~Finalizes(script, j)
          BY <3>1, <5>1, <1>t DEF BeforeTheEnd
        <5> QED BY <4>1, <5>2, <1>t
      <4>5. BeforeTheEnd(r)'
        BY <2>1, <3>1, <3>6, <4>1, <4>3, <4>4, <1>t DEF BeforeTheEnd, Offset, Entered
      <4>6. ScriptSound(r)'
        <5>1. session[r] = "running" /\ at[r] \in 1 .. at'[r] - 1 /\ script[at[r]] \in OpensMpi
          BY <3>3, <3>6, <4>1, <1>t DEF IInv, SessionSound, UsingMpi, OpensMpi
        <5> QED BY <2>1, <3>1, <4>1, <5>1 DEF ScriptSound, InCall, Offset
      <4> QED BY <2>2, <3>1, <4>5, <4>6 DEF Order
    <3> QED BY <3>2, <3>4, <3>5, <3>6
  <2> QED BY <2>3, <2>4
<1> QED BY <1>1, <1>2

\* A step is a step of one rank.
LEMMA OthersStay ==
    ASSUME IInv, NEW r \in World, NEW q \in Ranks \ {r}, Step(r) \/ Die(r) \/ Kill(r)
    PROVE  Same(q) /\ NotInMpi(q)
<1>r. r \in Ranks /\ 0 \in Ranks
  BY WorldInRanks DEF IInv
<1>1. ASSUME HostInit(r) \/ HostFinalize(r) \/ CallSolver(r) \/ ConstructLifetime(r)
      PROVE  Same(q) /\ NotInMpi(q)
  BY <1>1, <1>r
     DEF HostInit, HostFinalize, CallSolver, ConstructLifetime, InitMpi, MpiIs, Enter,
         MPI!Post, MPI!Abort, ReturnToHost, Goto, process, mpi, IInv, TypeOK, Same, NotInMpi
<1>2. ASSUME CheckSession(r) \/ EnterSplit(r) \/ EnterCount(r) \/ EnterCollective(r)
      PROVE  Same(q) /\ NotInMpi(q)
  BY <1>2, <1>r
     DEF CheckSession, EnterSplit, EnterCount, EnterCollective, MpiIs, Enter, MPI!Post,
         ReturnToHost, Goto, process, mpi, IInv, TypeOK, Same, NotInMpi
<1>3. ASSUME Compute(r) \/ Guard(r) \/ BeginExit(r) \/ DestroyLifetime(r) \/ Die(r) \/ Kill(r)
      PROVE  Same(q) /\ NotInMpi(q)
  BY <1>3, <1>r
     DEF Compute, Guard, BeginExit, DestroyLifetime, Die, Kill, MpiIs, Enter, MPI!Post,
         MPI!Abort, MPI!Killed, ReturnToHost, Goto, process, mpi, IInv, TypeOK, Same, NotInMpi
<1>4. ASSUME Leave(r) PROVE Same(q) /\ NotInMpi(q)
  <2>1. /\ inside' = [inside EXCEPT ![r] = FALSE]
        /\ UNCHANGED <<world, script, lifetime, owned, posted>>
    BY <1>4 DEF Leave, MPI!Complete
  <2>2. /\ at'[q] = at[q] /\ pc'[q] = pc[q] /\ session'[q] = session[q]
        /\ topology'[q] = topology[q]
    BY <1>4, <1>r DEF Leave, MpiIs, ReturnToHost, Goto, IInv, TypeOK
  <2> QED BY <2>1, <2>2, <1>r DEF IInv, TypeOK, Same, NotInMpi
<1> QED BY <1>1, <1>2, <1>3, <1>4 DEF Step

\* Every step keeps the order.
LEMMA NextOrders == Ordered /\ [Next]_vars => Ordered'
<1> SUFFICES ASSUME Ordered, [Next]_vars PROVE Ordered'
  OBVIOUS
<1>1. IInv /\ IInv'
  BY NextPreserves DEF Ordered
<1>2. ASSUME NEW r \in World, Step(r) \/ Die(r) \/ Kill(r), world' > 1, NEW q \in Ranks
      PROVE  Order(q)'
  <2>1. r \in Ranks
    BY <1>1, WorldInRanks DEF IInv
  <2>2. UNCHANGED world
    BY <1>2
       DEF Step, HostInit, HostFinalize, CallSolver, ConstructLifetime, CheckSession,
           EnterSplit, EnterCount, EnterCollective, Compute, Leave, Guard, BeginExit,
           DestroyLifetime, Die, Kill
  <2>3. Order(q) /\ Order(r) /\ world > 1
    BY <1>2, <2>1, <2>2 DEF Ordered
  <2>4. CASE q # r
    BY <1>1, <1>2, <2>3, <2>4, OthersStay, OrderStays
  <2>5. CASE q = r /\ Step(r)
    BY <1>1, <2>1, <2>3, <2>5, OutsideOrders, EnterOrders, LeaveOrders DEF Step
  <2>6. CASE q = r /\ (Die(r) \/ Kill(r))
    BY <2>1, <2>3, <2>6, OrderStays
       DEF Die, Kill, MPI!Abort, MPI!Killed, process, Same, NotInMpi
  <2> QED BY <1>2, <2>4, <2>5, <2>6
<1>3. CASE UNCHANGED vars
  <2>1. ASSUME NEW q \in Ranks PROVE Same(q) /\ NotInMpi(q)
    BY <1>3 DEF vars, process, mpi, Same, NotInMpi
  <2>2. world' = world
    BY <1>3 DEF vars
  <2> QED BY <1>1, <2>1, <2>2, OrderStays DEF Ordered
<1> QED BY <1>1, <1>2, <1>3 DEF Next, Ordered

\* No rank has entered as much as one that finalizes MPI and not finalized it.
LEMMA FinalizeIsLast ==
    ASSUME IInv, NEW q \in Ranks, NEW r \in Ranks, Order(q), Order(r),
           Finished(q), Len(posted[r]) >= Len(posted[q])
    PROVE  Finished(r) /\ Len(posted[r]) = Len(posted[q])
<1> DEFINE n == Len(posted[r])
           solves == Solves(script, at[r])
<1>t. /\ script \in Seq(Items) /\ Len(script) \in Nat /\ at[r] \in 1 .. Len(script) + 1
      /\ solves \in Nat /\ n \in Nat
  BY OrderType
<1>1. PICK i \in 1 .. Len(script) + 1 :
          IsEnd(script, i) /\ Len(posted[q]) = Before(script, i) + 1
  BY DEF Order, AfterTheEnd
<1>2. CASE Finished(r)
  <2>1. PICK j \in 1 .. Len(script) + 1 : IsEnd(script, j) /\ n = Before(script, j) + 1
    BY <1>2 DEF Order, AfterTheEnd
  <2>2. i = j
    BY <1>1, <2>1, <1>t, OneEnd
  <2> QED BY <1>1, <1>2, <2>1, <2>2
<1>3. CASE ~Finished(r)
  <2>1. BeforeTheEnd(r) /\ pc[r] # "finalize"
    BY <1>3 DEF Order, ScriptSound
  <2>2. at[r] <= i
    BY <1>1, <2>1, <1>t DEF IsEnd, Finalizes, BeforeTheEnd
  <2>3. Solves(script, i) \in Nat /\ solves <= Solves(script, i)
    BY <2>2, <1>t, SolvesGrow
  <2>4. CASE pc[r] \notin InCall
    <3>1. pc[r] \in Steps
      BY DEF IInv, TypeOK
    <3>2. pc[r] \in {"host", "exit", "gone"}
      BY <2>1, <2>4, <3>1 DEF InCall, Offset, Steps
    <3>3. n = Before(script, at[r])
      BY <2>1, <3>2 DEF BeforeTheEnd
    <3>4. Before(script, at[r]) <= Before(script, i)
      BY <2>3, <1>t DEF Before
    <3>5. Before(script, i) \in Nat
      BY <2>3 DEF Before
    <3> QED BY <1>1, <3>3, <3>4, <3>5, <1>t
  <2>5. CASE pc[r] \in InCall
    <3>1. at[r] \in 1 .. Len(script) /\ script[at[r]] = "solve"
      BY <2>5, <1>t DEF Order, ScriptSound
    <3>2. at[r] + 1 <= i
      BY <1>1, <2>2, <3>1, <1>t DEF IsEnd, Finalizes
    <3>3. Solves(script, at[r] + 1) = solves + 1 /\ solves + 1 <= Solves(script, i)
      <4>1. Solves(script, at[r] + 1) = solves + 1
        BY <3>1, <1>t, SolvesStep
      <4>2. at[r] + 1 \in 1 .. Len(script) + 1
        BY <3>1, <1>t
      <4> QED BY <3>2, <4>1, <4>2, <1>t, SolvesGrow
    <3>4. n <= 4 * solves + 5
      <4>1. CASE pc[r] \in DOMAIN Offset
        <5>1. n = 4 * solves + Offset[pc[r]] + Entered(r)
          BY <2>1, <4>1 DEF BeforeTheEnd
        <5>2. Offset[pc[r]] \in 0 .. 4 /\ Entered(r) \in 0 .. 1
          BY <4>1 DEF Offset, Entered
        <5> QED BY <5>1, <5>2, <1>t
      <4>2. CASE pc[r] \in {"lifetime", "session"}
        <5>1. n = Before(script, at[r])
          BY <2>1, <4>2 DEF BeforeTheEnd
        <5> QED BY <5>1, <1>t DEF Before
      <4>3. CASE pc[r] = "threw"
        BY <2>1, <4>3, <1>t DEF BeforeTheEnd
      <4> QED BY <2>5, <4>1, <4>2, <4>3 DEF InCall
    <3>5. Before(script, i) = 4 * Solves(script, i) + 1
      BY <2>3, <3>3, <1>t DEF Before
    <3> QED BY <1>1, <2>3, <3>3, <3>4, <3>5, <1>t
  <2> QED BY <2>4, <2>5
<1> QED BY <1>2, <1>3

\* "A peer may be inside a collective": no rank ever enters one of another kind
\* than its peers enter at that place, however long the script, wherever the
\* host ends MPI and whichever ranks are left behind.
THEOREM CollectivesCorrect == Spec => []CollectivesAgree
<1>1. Spec => []Ordered
  BY InitOrders, NextOrders, PTL DEF Spec
<1>2. ASSUME Ordered PROVE CollectivesAgree
  <2> SUFFICES ASSUME NEW q \in World, NEW r \in World, NEW n \in 1 .. Len(posted[q]),
                      n <= Len(posted[r])
               PROVE  posted[q][n] = posted[r][n]
    BY DEF CollectivesAgree
  <2>1. IInv /\ q \in Ranks /\ r \in Ranks
    BY <1>2, WorldInRanks DEF Ordered, IInv
  <2>2. Len(posted[q]) \in Nat /\ Len(posted[r]) \in Nat
    BY <2>1, OrderType
  <2>3. CASE q = r
    BY <2>3
  <2>4. CASE q # r
    <3>1. world > 1
      BY <2>1, <2>4, RuntimeAssumption DEF World, IInv, TypeOK
    <3>2. Order(q) /\ Order(r)
      BY <1>2, <2>1, <3>1 DEF Ordered
    <3>3. CASE Regular(n, posted[q][n]) /\ Regular(n, posted[r][n])
      BY <3>3 DEF Regular
    <3>4. CASE n = Len(posted[q]) /\ posted[q][n] = "finalize"
      <4>1. Finished(q)
        BY <3>4, <2>2 DEF Finished
      <4>2. Finished(r) /\ Len(posted[r]) = n
        BY <2>1, <2>2, <3>2, <3>4, <4>1, FinalizeIsLast
      <4> QED BY <3>4, <4>2 DEF Finished
    <3>5. CASE n = Len(posted[r]) /\ posted[r][n] = "finalize"
      <4>1. Finished(r)
        BY <3>5, <2>2 DEF Finished
      <4>2. Finished(q) /\ Len(posted[q]) = n
        BY <2>1, <2>2, <3>2, <3>5, <4>1, FinalizeIsLast
      <4> QED BY <3>5, <4>2 DEF Finished
    <3>6. n \in 1 .. Len(posted[q]) /\ n \in 1 .. Len(posted[r])
      BY <2>2
    <3> QED BY <3>2, <3>3, <3>4, <3>5, <3>6 DEF Order, KindsRegular
  <2> QED BY <2>3, <2>4
<1> QED BY <1>1, <1>2, PTL

-----------------------------------------------------------------------------
(* How the ranks of a node are spread over its devices *)

\* Division leaves a remainder.
LEMMA DivMod ==
    ASSUME NEW a \in Nat, NEW v \in Nat \ {0}
    PROVE  /\ a \div v \in Nat /\ (a % v) \in 0 .. v - 1
           /\ a = v * (a \div v) + (a % v)
OBVIOUS

\* A multiple by at least one is no smaller.
LEMMA AtLeastOnce ==
    ASSUME NEW v \in Nat, NEW k \in Nat, k >= 1
    PROVE  v * k \in Nat /\ v * k >= v
OBVIOUS

\* Multiplication distributes.
LEMMA TimesDifference ==
    ASSUME NEW v \in Int, NEW k \in Int, NEW l \in Int
    PROVE  v * (k - l) = v * k - v * l /\ v * k \in Int /\ v * l \in Int
OBVIOUS

\* ... and there is no other remainder.
LEMMA ModUnique ==
    ASSUME NEW v \in Nat \ {0}, NEW k \in Nat, NEW e \in 0 .. v - 1
    PROVE  (v * k + e) % v = e
<1> DEFINE a == v * k + e
           l == a \div v
           f == a % v
<1>1. a \in Nat
  OBVIOUS
<1>2. l \in Nat /\ f \in 0 .. v - 1 /\ a = v * l + f
  BY <1>1, DivMod
<1> HIDE DEF a, l, f
<1>3. a = v * k + e
  BY DEF a
<1>4. v * (k - l) = v * k - v * l /\ v * k \in Int /\ v * l \in Int
  BY <1>2, TimesDifference
<1>5. v * (k - l) = f - e
  BY <1>2, <1>3, <1>4
<1>6. ~(k > l)
  <2> SUFFICES ASSUME k > l PROVE FALSE
    OBVIOUS
  <2>1. v * (k - l) >= v
    BY <1>2, AtLeastOnce
  <2> QED BY <1>2, <1>5, <2>1
<1>7. ~(k < l)
  <2> SUFFICES ASSUME k < l PROVE FALSE
    OBVIOUS
  <2>1. v * (l - k) >= v
    BY <1>2, AtLeastOnce
  <2>2. v * (l - k) = v * l - v * k
    BY <1>2, TimesDifference
  <2> QED BY <1>2, <1>3, <1>4, <2>1, <2>2
<1>8. k = l
  BY <1>2, <1>6, <1>7
<1> QED BY <1>2, <1>3, <1>4, <1>8 DEF f, a

\* A period less does not change it.
LEMMA ModPeriod ==
    ASSUME NEW v \in Nat \ {0}, NEW a \in Nat, a >= v, NEW e \in 0 .. v - 1
    PROVE  /\ a - v - (a % v) + e \in Nat
           /\ a - v - (a % v) + e < a
           /\ (a - v - (a % v) + e) % v = e
<1> DEFINE k == a \div v
<1>1. k \in Nat /\ (a % v) \in 0 .. v - 1 /\ a = v * k + (a % v)
  BY DivMod
<1> HIDE DEF k
<1>2. k >= 1
  <2> SUFFICES ASSUME k = 0 PROVE FALSE
    BY <1>1
  <2>1. v * k = 0
    OBVIOUS
  <2> QED BY <1>1, <2>1
<1>3. v * (k - 1) = v * k - v /\ v * (k - 1) \in Nat /\ v * k \in Nat
  BY <1>1, <1>2
<1>4. a - v - (a % v) + e = v * (k - 1) + e
  BY <1>1, <1>3
<1>5. (v * (k - 1) + e) % v = e
  <2>1. k - 1 \in Nat
    BY <1>1, <1>2
  <2> QED BY <2>1, ModUnique
<1> QED BY <1>1, <1>3, <1>4, <1>5

\* How many numbers of a set come before r: r's index in it.
Below(S, r) == {q \in S : q < r}
Index(S, r) == Cardinality(Below(S, r))

\* The indices of a finite set of numbers are 0 up to its size, each once.
LEMMA IndexBijective ==
    ASSUME NEW S \in SUBSET Nat, IsFiniteSet(S)
    PROVE  /\ Cardinality(S) \in Nat
           /\ \A r \in S : Index(S, r) \in 0 .. Cardinality(S) - 1
           /\ \A q, r \in S : Index(S, q) = Index(S, r) => q = r
           /\ \A i \in 0 .. Cardinality(S) - 1 : \E r \in S : Index(S, r) = i
<1> DEFINE n == Cardinality(S)
           f == [r \in S |-> Index(S, r)]
<1>1. n \in Nat
  BY FS_CardinalityType
<1>2. ASSUME NEW r \in S PROVE Index(S, r) \in 0 .. n - 1 /\ IsFiniteSet(Below(S, r))
  <2>1. IsFiniteSet(S \ {r}) /\ Cardinality(S \ {r}) = n - 1
    BY FS_RemoveElement
  <2>2. Below(S, r) \in SUBSET (S \ {r})
    BY DEF Below
  <2>3. IsFiniteSet(Below(S, r)) /\ Cardinality(Below(S, r)) <= n - 1
    BY <2>1, <2>2, FS_Subset
  <2>4. Cardinality(Below(S, r)) \in Nat
    BY <2>3, FS_CardinalityType
  <2> QED BY <1>1, <2>3, <2>4 DEF Index
<1>3. ASSUME NEW q \in S, NEW r \in S, q < r PROVE Index(S, q) # Index(S, r)
  <2>1. Below(S, q) \subseteq Below(S, r)
    <3> SUFFICES ASSUME NEW p \in S, p < q PROVE p < r
      BY DEF Below
    <3>1. p \in Nat /\ q \in Nat /\ r \in Nat
      OBVIOUS
    <3> QED BY <1>3, <3>1
  <2>2. q \in Below(S, r) /\ q \notin Below(S, q)
    BY <1>3 DEF Below
  <2>3. IsFiniteSet(Below(S, r))
    BY <1>2
  <2> QED BY <2>1, <2>2, <2>3, FS_Subset DEF Index
<1>4. ASSUME NEW q \in S, NEW r \in S, Index(S, q) = Index(S, r) PROVE q = r
  <2>1. q < r \/ r < q \/ q = r
    OBVIOUS
  <2> QED BY <1>3, <1>4, <2>1
<1>5. f \in Injection(S, 0 .. n - 1)
  BY <1>2, <1>4 DEF Injection, IsInjective
<1>6. IsFiniteSet(0 .. n - 1) /\ Cardinality(0 .. n - 1) = n
  <2>1. 0 \in Int /\ n - 1 \in Int
    BY <1>1
  <2>2. IsFiniteSet(0 .. n - 1)
        /\ Cardinality(0 .. n - 1) = IF 0 > n - 1 THEN 0 ELSE n - 1 - 0 + 1
    BY <2>1, FS_Interval
  <2> QED BY <1>1, <2>2
<1>7. f \in Surjection(S, 0 .. n - 1)
  BY <1>5, <1>6, FS_Injection
<1>8. \A i \in 0 .. n - 1 : \E r \in S : f[r] = i
  BY <1>7 DEF Surjection
<1> QED BY <1>1, <1>2, <1>4, <1>8

\* The ranks that get device d when they are dealt out in turn to v devices.
Share(S, v, d) == {r \in S : Index(S, r) % v = d}

\* Ranks of a node numbered one after the other and dealt to devices in turn: those of
\* device d but its first follow, one for one, on ranks of device e.
LEMMA DealtEvenly ==
    ASSUME NEW S \in SUBSET Nat, IsFiniteSet(S), NEW v \in Nat \ {0},
           NEW d \in 0 .. v - 1, NEW e \in 0 .. v - 1
    PROVE  Cardinality(Share(S, v, d)) <= Cardinality(Share(S, v, e)) + 1
<1> DEFINE later == {r \in Share(S, v, d) : Index(S, r) >= v}
           back(r) == Index(S, r) - v - d + e
           f == [r \in later |-> CHOOSE s \in S : Index(S, s) = back(r)]
<1>1. \A r \in S : Index(S, r) \in 0 .. Cardinality(S) - 1 /\ Cardinality(S) \in Nat
  BY IndexBijective
<1>2. /\ IsFiniteSet(Share(S, v, d)) /\ Cardinality(Share(S, v, d)) \in Nat
      /\ IsFiniteSet(Share(S, v, e)) /\ Cardinality(Share(S, v, e)) \in Nat
      /\ IsFiniteSet(later) /\ Cardinality(later) \in Nat
  <2>1. Share(S, v, d) \in SUBSET S /\ Share(S, v, e) \in SUBSET S /\ later \in SUBSET S
    BY DEF Share
  <2> HIDE DEF later
  <2> QED BY <2>1, FS_Subset, FS_CardinalityType
<1>3. ASSUME NEW r \in later
      PROVE  f[r] \in Share(S, v, e) /\ Index(S, f[r]) = back(r)
  <2>1. /\ r \in S /\ Index(S, r) % v = d /\ Index(S, r) >= v
        /\ Index(S, r) \in Nat /\ Index(S, r) <= Cardinality(S) - 1
    BY <1>1 DEF Share
  <2>2. back(r) \in Nat /\ back(r) < Index(S, r) /\ back(r) % v = e
    <3> DEFINE a == Index(S, r)
    <3>1. a \in Nat /\ a % v = d /\ a >= v
      BY <2>1
    <3> HIDE DEF a
    <3>2. a - v - d + e \in Nat /\ a - v - d + e < a /\ (a - v - d + e) % v = e
      BY <3>1, ModPeriod
    <3> QED BY <3>2 DEF a
  <2>3. back(r) \in 0 .. Cardinality(S) - 1
    BY <2>1, <2>2, <1>1
  <2>4. \E s \in S : Index(S, s) = back(r)
    BY <2>3, IndexBijective
  <2>5. f[r] \in S /\ Index(S, f[r]) = back(r)
    BY <2>4
  <2> QED BY <2>2, <2>5 DEF Share
<1>4. ASSUME NEW q \in later, NEW r \in later, f[q] = f[r] PROVE q = r
  <2>1. back(q) = back(r)
    BY <1>3, <1>4
  <2>2. q \in S /\ r \in S /\ Index(S, q) \in Int /\ Index(S, r) \in Int
    BY <1>1 DEF Share
  <2>3. Index(S, q) = Index(S, r)
    BY <2>1, <2>2
  <2> QED BY <2>2, <2>3, IndexBijective
<1>5. f \in Injection(later, Share(S, v, e))
  <2>1. f \in [later -> Share(S, v, e)]
    BY <1>3
  <2> HIDE DEF later, f
  <2> QED BY <1>4, <2>1 DEF Injection, IsInjective
<1>6. Cardinality(later) <= Cardinality(Share(S, v, e))
  <2> HIDE DEF later, f
  <2> QED BY <1>2, <1>5, FS_Injection
<1>7. PICK x : Share(S, v, d) \subseteq later \cup {x}
  <2>1. ASSUME NEW r \in Share(S, v, d), r \notin later PROVE Index(S, r) = d
    <3>1. r \in S /\ Index(S, r) % v = d /\ Index(S, r) \in 0 .. v - 1
      BY <1>1, <2>1 DEF Share
    <3> QED BY <3>1
  <2>2. \A q, r \in Share(S, v, d) : q \notin later /\ r \notin later => q = r
    <3>1. Share(S, v, d) \subseteq S
      BY DEF Share
    <3>2. \A q, r \in S : Index(S, q) = Index(S, r) => q = r
      BY IndexBijective
    <3> HIDE DEF later
    <3> QED BY <2>1, <3>1, <3>2
  <2> HIDE DEF later
  <2>3. CASE Share(S, v, d) \subseteq later
    BY <2>3
  <2>4. CASE ~(Share(S, v, d) \subseteq later)
    <3>1. PICK r \in Share(S, v, d) : r \notin later
      BY <2>4
    <3>2. Share(S, v, d) \subseteq later \cup {r}
      BY <2>2, <3>1
    <3> QED BY <3>2
  <2> QED BY <2>3, <2>4
<1>8. Cardinality(Share(S, v, d)) <= Cardinality(later) + 1
  <2> HIDE DEF later
  <2>1. /\ IsFiniteSet(later \cup {x})
        /\ Cardinality(later \cup {x}) <= Cardinality(later) + 1
        /\ Cardinality(later \cup {x}) \in Nat
    <3>1. IsFiniteSet(later \cup {x})
      BY <1>2, FS_AddElement
    <3>2. Cardinality(later \cup {x}) =
              IF x \in later THEN Cardinality(later) ELSE Cardinality(later) + 1
      BY <1>2, FS_AddElement
    <3> QED BY <1>2, <3>1, <3>2
  <2>2. Cardinality(Share(S, v, d)) <= Cardinality(later \cup {x})
    BY <1>7, <2>1, FS_Subset
  <2> QED BY <1>2, <2>1, <2>2
<1> HIDE DEF later
<1> QED BY <1>2, <1>6, <1>8

\* HardwareAwareness counts as this module does.
LEMMA HardwareCardinality == \A S : Hardware!Cardinality(S) = Cardinality(S)
BY DEF Hardware!Cardinality, Cardinality

\* Every rank chooses its device alone, and yet no device of a node serves two
\* ranks more than another; without a list no two ranks of a node name the same.
THEOREM DevicesSpread == Spec => []DevicesAreSpread
<1>1. ASSUME IInv PROVE DevicesAreSpread
  <2> DEFINE On(node) == {r \in World : Node[r] = node}
             Of(r, env, list) == Hardware!PreferredCudaDeviceOrdinal(Probe(r, env[r]), list)
             Count(list) == Cardinality(Hardware!SplitVisibleDevices(list))
  <2> SUFFICES ASSUME NEW node \in {Node[r] : r \in World},
                      \A r \in On(node) : HasRuntime(r),
                      NEW env \in [On(node) -> Environments], NEW list \in DeviceLists
               PROVE  IF Count(list) = 0
                      THEN \A q, r \in On(node) : Of(q, env, list) = Of(r, env, list) => q = r
                      ELSE \A d, e \in 0 .. Count(list) - 1 :
                               Cardinality({r \in On(node) : Of(r, env, list) = d})
                                   <= Cardinality({r \in On(node) : Of(r, env, list) = e}) + 1
    BY DEF DevicesAreSpread
  <2> DEFINE here == On(node)
             visible == Count(list)
  <2>1. here \in SUBSET Nat /\ IsFiniteSet(here) /\ here \subseteq World
    <3>1. world \in Nat
      BY <1>1, RuntimeAssumption DEF IInv, TypeOK
    <3>2. IsFiniteSet(World) /\ World \subseteq Nat
      BY <3>1, FS_Interval DEF World
    <3> QED BY <3>2, FS_Subset
  <2>2. visible \in Nat
    <3>1. list \in Seq(STRING)
      BY RuntimeAssumption
    <3>2. IsFiniteSet(1 .. Len(list)) /\ DOMAIN list = 1 .. Len(list)
      BY <3>1, FS_Interval
    <3>3. Hardware!SplitVisibleDevices(list) \in SUBSET (1 .. Len(list))
      BY <3>2 DEF Hardware!SplitVisibleDevices
    <3> QED BY <3>2, <3>3, FS_Subset, FS_CardinalityType
  <2>3. ASSUME NEW r \in here
        PROVE  /\ Index(here, r) \in Nat
               /\ Of(r, env, list) = IF visible = 0 THEN Index(here, r)
                                     ELSE Index(here, r) % visible
    <3>1. Probe(r, env[r]) = Placement(r)
      BY <1>1, <2>1, ProbeIsPlacement
    <3>2. {q \in 0 .. r - 1 : Node[q] = Node[r]} = Below(here, r)
      <4>1. world \in Nat /\ r \in 0 .. world - 1 /\ Node[r] = node
        BY <1>1, RuntimeAssumption DEF World, IInv, TypeOK
      <4>2. \A q : q \in 0 .. r - 1 <=> q \in 0 .. world - 1 /\ q < r
        BY <4>1
      <4> QED BY <4>1, <4>2 DEF Below, World
    <3>3. Placement(r).localRank = Index(here, r)
      BY <3>2 DEF Placement, Index
    <3>4. Index(here, r) \in Nat
      BY <2>1, IndexBijective
    <3>5. Hardware!NotNegative(Placement(r).localRank) = Index(here, r)
      BY <3>3, <3>4 DEF Hardware!NotNegative
    <3>6. Of(r, env, list) =
              IF visible = 0 THEN Hardware!NotNegative(Placement(r).localRank)
              ELSE Hardware!NotNegative(Placement(r).localRank) % visible
      BY <3>1, HardwareCardinality DEF Hardware!PreferredCudaDeviceOrdinal
    <3> HIDE DEF here, Of, visible
    <3> QED BY <3>4, <3>5, <3>6
  <2>4. CASE visible = 0
    BY <2>1, <2>3, <2>4, IndexBijective
  <2>5. CASE visible # 0
    <3> SUFFICES ASSUME NEW d \in 0 .. visible - 1, NEW e \in 0 .. visible - 1
                 PROVE  Cardinality({r \in here : Of(r, env, list) = d})
                            <= Cardinality({r \in here : Of(r, env, list) = e}) + 1
      BY <2>5
    <3>1. /\ {r \in here : Of(r, env, list) = d} = Share(here, visible, d)
          /\ {r \in here : Of(r, env, list) = e} = Share(here, visible, e)
      BY <2>3, <2>5 DEF Share
    <3>2. Cardinality(Share(here, visible, d)) <= Cardinality(Share(here, visible, e)) + 1
      BY <2>1, <2>2, <2>5, DealtEvenly
    <3> QED BY <3>1, <3>2
  <2> QED BY <2>4, <2>5
<1> QED BY <1>1, Invariance, PTL

=============================================================================
