-------------------------- MODULE HardwareAwareness --------------------------
(***************************************************************************)
(* HardwareAwareness.h: what a process finds out about its place in a job  *)
(* and about its GPUs, from its environment and from the topology that a   *)
(* Runtime leaves in MpiTopologyCache.  It communicates with nobody.       *)
(*                                                                         *)
(* An environment gives, for each launcher, the text of its three          *)
(* variables: a number, Unset (or empty), or Garbage, which strtol finds   *)
(* no digits in.  The numbers fit into an int.                             *)
(***************************************************************************)
EXTENDS Integers, SequencesExt

CONSTANTS Unset, Garbage

\* OMPI_COMM_WORLD_*, PMIX_*, PMI_*, MV2_COMM_WORLD_*, SLURM_*, in the order
\* in which DetectHardwareAwareness asks for them.
Launchers == <<"ompi", "pmix", "pmi", "mv2", "slurm">>

EmptyTopology == [size |-> 0, rank |-> 0, localRank |-> 0]

EnvironmentInt(value, fallback) ==
    IF value \in {Unset, Garbage} THEN fallback ELSE value

\* Each launcher's variable falls back on what the ones before it said.
FromEnvironment(env, field, default) ==
    FoldLeft(LAMBDA found, launcher : EnvironmentInt(env[launcher][field], found),
             default, Launchers)

FromLaunchers(env) ==
    [size |-> FromEnvironment(env, "size", 1),
     rank |-> FromEnvironment(env, "rank", 0),
     localRank |-> FromEnvironment(env, "localRank", 0)]

\* Mutated form: the cached topology is used where no launcher set a size.
DetectEnvironmentFirst(env, topology) ==
    IF topology.size > 0 /\ FromEnvironment(env, "size", 0) = 0
    THEN topology ELSE FromLaunchers(env)

\* The mpi* members of DetectHardwareAwareness's result.
DetectHardwareAwareness(env, topology) ==
    IF topology.size > 0 THEN topology ELSE FromLaunchers(env)

\* CUDA_VISIBLE_DEVICES, as the tokens between its commas without blanks: the
\* places of those that name a device.
SplitVisibleDevices(tokens) ==
    {n \in DOMAIN tokens : tokens[n] \notin {"", "NoDevFiles", "void"}}

NotNegative(n) == IF n < 0 THEN 0 ELSE n

\* Mutated form: the devices are shared out by the rank in the whole job.
PreferredByWorldRank(info, tokens) ==
    LET visible == Cardinality(SplitVisibleDevices(tokens))
    IN  IF visible = 0 THEN NotNegative(info.rank) ELSE NotNegative(info.rank) % visible

PreferredCudaDeviceOrdinal(info, tokens) ==
    LET visible == Cardinality(SplitVisibleDevices(tokens))
        localRank == NotNegative(info.localRank)
    IN  IF visible = 0 THEN localRank ELSE localRank % visible

=============================================================================
