# SCP-SolverSDK in TLA+

SCP-SolverSDK is a header-only C++17 SDK and a set of CMake modules for solver programs. The headers
give a solver a distributed runtime over MPI, output that several ranks write together, the
manifests by which other programs find that output, partition plans, and time steps of VTKHDF files.
The CMake modules build a solver with or without CUDA and compile into it what it says of itself.

This directory holds TLA+ specifications of the parts of it that have state and order, the TLC
configurations that check them on small instances, and theorems that the TLA+ proof system checks
for every instance. Paths below are relative to the root of the repository. Every definition that
stands for code is listed with its lines in `PROJECT.json` (`"map"`).

- [The system](#the-system): its parts, and what makes each of them correct
- [The modules](#the-modules): how state and actions correspond to the code
- [The runs](#the-runs): what each shows, its bounds, its fairness
- [The proofs](#the-proofs): what holds for every value of the constants, and why
- [What is only model-checked, and what is not modelled](#what-is-only-model-checked)
- [The plan](#the-plan)
- [Running it](#running-it)

## The system

    solver program (one process per rank)
      |  Runtime::Guard, Broadcast, Sum, Barrier           DistributedRuntime.h -- MPI
      |  DetectHardwareAwareness, PreferredCudaDevice...   HardwareAwareness.h -- environment
      |  LoadPlan -> BuildOwnership                        PartitionPlan.h, DistributedOwnership.h
      |  WriteRankShardManifest, WriteAssemblyManifest     RankAwareOutput.h -- output directory
      |  WriteOutputManifest, its catalog                  OutputManifest.h, VisualizationManifest.h
      |  ExpandTimeSteps, ReadDataObject                   VtkHdfIO.h -- VTK
      |  AssessTimeAxis, ValidatedTimeStep                 EnSightTimePolicy.h, EnSightHdfTimeMetadata.h
    its build
         streamcenterplus_add_optional_cuda, ..._configure_solver_info    cmake/modules/*.cmake

The parts share no memory. They meet in the file system (what one process publishes, another one
reads, in the same job or a later one), in MPI's collectives, and, in the build, in CMake's cache
and in the properties of targets.

| part | state | operations | what is hard | what makes it correct |
|---|---|---|---|---|
| Rank-aware output (`include/streamcenterplus/RankAwareOutput.h`) | files of the output directory: shard manifests and their `.partial`, payload, the assembly manifest | `MakeContext`, `CheckedPayload`, `WriteRankShardManifest`, `ValidateRankShardManifest`, `WriteAssemblyManifest` | ranks act at once; a job dies anywhere; the next one finds its files, with the same run identity or not | shards are replaced atomically; an assembly is of this run's shards, of every rank; what is written is what is accepted |
| Distributed program (`tests/DistributedOutputTest.cpp`) | the line every rank is at | barrier, payload, shard, validation, sum, barrier, assembly, removal of a payload, validation refused, barrier, under `Guard` | order between ranks comes from barriers alone; one rank throws while others wait | the assembly names what *this* job wrote; a rank that ends well ends after the assembly; nobody waits for ever |
| Distributed runtime (`DistributedRuntime.h`) | the MPI session, who owns it, the topology cached per process | `Runtime`, `Broadcast`, `Sum`, `Barrier`, `Guard`, destruction at exit | several solver calls share one session, the host may own it; every collective must be met by all | MPI is never used outside its session, ended once and by its owner; all ranks make the same collectives |
| Hardware awareness (`HardwareAwareness.h`) | none of its own: the environment, and the topology that a `Runtime` caches | `DetectHardwareAwareness`, `SplitVisibleDevices`, `PreferredCudaDeviceOrdinal` | an outer launcher's variables are inherited; every rank chooses its GPU alone | a probe agrees with MPI where there is a `Runtime`; the ranks of a node are spread over its devices |
| Output manifest (`OutputManifest.h`, identities in `VisualizationManifest.h`) | the directory's files, `output_manifest.json`, temporary files, a counter per process | the scan, the descriptions, `ReplaceFile` | threads and processes write the same manifest; files change under the scan; writes fail half way | readers see whole manifests; calls never touch each other's temporary files and leave none; only what is inside the directory is listed |
| Partition plan, ownership (`PartitionPlan.h`, `DistributedOwnership.h`) | a plan as loaded | `LoadPlan`, `BuildOwnership`, `contains`, `ownedItemCount` | -1 stands for absent; half-open ranges; overlaps | what a rank owns is what the file says, also where it gives half a range; its count is that of its items |
| VTKHDF time steps (`VtkHdfIO.h`) | files with steps, which change | `MakeStepToken`, `ParseStepToken`, `ExpandTimeSteps`, `ReadDataObject` | a token is a path that may be a file's own name; the file changes between expansion and reading | a frame reads its own step or fails; a file's own name wins |
| EnSight time policy (`EnSightTimePolicy.h`, `EnSightHdfTimeMetadata.h`) | the axis a reader loaded, the frames it selected | `AssessTimeAxis`, `DecimalTimeQuantum`, `PvdTimeQuantum`, `EnSightTimeQuantum`, `ValidatedTimeStep` | printed times are rounded, also the ends of a selection; a file is replaced after its axis was assessed | a selection's step is the solver's; only what the file declares is taken for rounding; nothing soundly rounded is refused |
| Visualization catalog (`VisualizationManifest.h`) | what a solver registered, and the document made of it | defaults, `ValidateVisualizationCatalog`, `WriteVisualizationCatalog` | axes, quantities and variants refer to each other by names that may be shared, absent or wrong; files vanish in between | what is published means one thing, and what the README promises is published |
| Solver capability (`StreamcenterPlusSolverInfo.cmake`, part of `StreamcenterPlusOptionalCuda.cmake`) | properties of targets, links, deferred calls | the two helpers, `target_link_libraries`, the walk at the end of a directory | commands come in any order, from two directories; links hide behind aliases and `$<LINK_ONLY:>` | metadata never contradicts the code it describes, and nothing else is refused |
| CUDA configuration (`StreamcenterPlusOptionalCuda.cmake`) | CMake's cache, which outlives configures that fail | settings, thread requests, architecture selection, toolchain check, code generation | a cache left by another configure; precedence of `-D`, cache, normal variables and environment | what is compiled and recorded belongs to the settings of now |

The other parts are listed in `PROJECT.json` with the reason why they are not modelled: VTK input
association, solver info and compute backend, cluster job hints, the solver bundle, naming and JSON
helpers, packaging and installers, and the remaining tests.

The hazards of the modelled parts (`"hazards"` in `PROJECT.json`), each at its line, are what the
properties were chosen for. Those that no property covers have a note: most are behaviour the code
chose and no document promises otherwise.

## The modules

Names are the code's where TLA+ allows it. A definition whose comment begins with *Mutated form* is
not used by a specification: it is a plausible bug of the definition after it, listed under
`"mutants"` in `PROJECT.json`, and shows that the property it belongs to can fail. `MC...` modules
give the constants of a run.

    AtomicPublication  <---- implemented by ---- RankAwareOutput, OutputManifest
    Collectives        <---- instance of    ---- DistributedOutput, DistributedRuntime
    RankAwareOutput    <---- extended, implemented by ---- DistributedOutput
    HardwareAwareness  <---- instance of    ---- DistributedRuntime
    PartitionPlan, VtkHdfTimeSteps, EnSightTimePolicy, VisualizationCatalog,
    SolverCapability, CudaConfiguration stand alone

**AtomicPublication** is the abstract specification of a published file: a reader finds nothing or a
whole document which some writer had set out to publish, and a writer that fails or dies changes
nothing. It says nothing of partial files, renames or identities.

**RankAwareOutput** is `RankAwareOutput.h`. A call is cut into the steps at which the file system
changes or is looked at; `pc[r]` is the next step of the call that rank `r` is in.
`WriteRankShardManifest` is `CallWriteShard` (identity and payload checks), `OpenPartial`,
`ClosePartial` (all lines written, the stream tested after close) and `RenamePartial`.
`ValidateRankShardManifest` is `CallValidate`, `ReadManifest` (fields read and compared) and
`CheckInventory` (each listed file looked at); `WriteAssemblyManifest` is the same two in a loop
over ranks, then `OpenAssembly` and `FillAssembly`, whose stream is not tested, as in the code: an
assembly manifest is `"opened"`, and then `"whole"` or, when a write failed, `"cut"`. Each of the
steps but the last may end in `Throw`. Callers are arbitrary: between calls a rank may change its
files, make any call, catch. `Restart` lets the job die between any two steps and starts another one
in the same directory. A manifest is a record of the fields that are compared (solver name and
partition plan path as one `label`), with `attempt`, the job that wrote it, in the place of
`created_at_utc`; `Torn` is a file with a prefix of its text. `enableRankAware` is taken as true, as
the only caller in the repository gives it.

**DistributedOutput** is the program of `tests/DistributedOutputTest.cpp:61-130`, the one caller in
the repository: each rank goes through `Program`, every library step is RankAwareOutput's, every
barrier or sum is Collectives', an exception goes to `Guard`, which aborts a job of several ranks
(`DistributedRuntime.h:85-103`). The lines from `"assemble"` to `"refused"` are rank 0's: when it has
the assembly, it removes the payload its own shard lists (line 127) and expects validation to refuse
that shard (line 128); the others `Skip` them. Ranks crash; a job that ended is followed by another
one over the same files. Left out of these lines are the fixture's `remove_all` (62: a resubmitted
job finds the files of the one before), its partition plans (66-97), three calls that are refused and
change no file (104-108), and what it does when there is one rank.

**Collectives** is the little of MPI that the code relies on (external): a rank enters a collective
and leaves it when all have entered the same one as their n-th (a broadcast needs rank 0 alone);
`MPI_Abort` does not return and a signal ends the other processes.

**DistributedRuntime** is `DistributedRuntime.h` in the MPI build. A process works through a script
of what its host does (initialize MPI, call a solver, finalize MPI). A solver call constructs
`Runtime` (`ConstructLifetime`: the function-local static; `CheckSession`; `EnterSplit`: the
topology, once per process), then broadcasts, computes, sums and meets a barrier under `Guard`;
`DestroyLifetime` is the static's destructor at exit. The session goes fresh, running, finalized; a
call that MPI does not allow there makes it `"broken"`. `Placement` is what MPI says of a rank
(`MPI_Comm_split_type` orders a node's ranks by rank); leaving the split stores it in `topology`,
the `MpiTopologyCache`. A host initializes MPI before it does anything else with it, or not at all.

**HardwareAwareness** is the probe of `HardwareAwareness.h`, as operators: what it makes of an
environment, launcher by launcher, each falling back on the one before; the cached topology, which
wins over all of them; the tokens of `CUDA_VISIBLE_DEVICES`; and the device a rank prefers. A
variable is a number, unset, or garbage. DistributedRuntime asks it in every state, with its cache.
The scheduler's name, its job id and the summary only report and are left out.

**OutputManifest** is `WriteOutputManifest` with what it calls: the recursive scan (`Visit`), the
catalog (`Validate`), `MakeId` with the counter of the process, `OpenTemp`, the descriptions, one
file after the other, `CloseTemp`, `Replace`, and the removal of the temporary file when
anything throws. Other programs `Change` files at any time: they come, go, or become links that lead
outside. A call looks twice at a file that it describes: `Look` is the first, at the path of a `.pvd`
(is it inside, `RelativePath`) or at what another file holds, `Describe` the second, at what the
`.pvd` holds or at the path of the other, and the file may change between the two. What is written of
a file (arrays, dimensions, JSON) is abstracted to which file it is, where it was when it was read,
and whether it was `steady` from the first look to the second, which only a property asks. What a
`.pvd` refers to is looked at together with its content.

**PartitionPlan** is `LoadPlan`, one assignment a step, with `BuildOwnership`, `contains` and
`ownedItemCount` of `DistributedOwnership.h` as operators. The splitting of a line into fields is
abstracted: a field is a number or `Garbage`. The owned item count is a sum modulo `SizeLimit`, which
is 2^64 in the code.

**VtkHdfTimeSteps** is `VtkHdfIO.h` in the POSIX build: a path is the sequence of its parts between
step markers. A call is cut where it looks at the file system: `Expand` and `CountSteps` are
`ExpandTimeSteps`; `ReadFrame`, of one of the tokens that gave, or `ReadPath`, of any path, then
`Open` (the ending, the reader, the number of steps) and `Update` (the data) are `ReadDataObject`.
Both begin with `ParseStepToken`, which throws also when the file system gives no answer. `Change`
writes, rewrites or removes files between any two of these steps.

**EnSightTimePolicy** is `EnSightTimePolicy.h` with `EnSightHdfTimeMetadata.h`. Times are integers,
in ticks finer than any printed digit, and an interval is kept as a span and a number of steps: the
comparisons are the code's, multiplied out, without the tolerances for the roundoff of doubles
(`TimeRoundoff`, `1e-10`). A document is the sequence of its comments, instructions and elements. A
reader `Load`s an axis, `Pick`s frames of the file that is there by then and may be another one
(`Write`), loads again, deselects; `ValidatedTimeStep` is asked of every selection. A source knows
the physical time of its frames (`truth`), which only the properties look at, and what it declares
is read off its document by definitions that do no scan (`Declares`), against which the properties
compare what `PvdTimeQuantum` makes of it.

**VisualizationCatalog** is what `WriteOutputManifest` does with a solver's catalog: `Fill` (unset
identities), `ValidateHead`, then one axis, quantity or variant a step in the order of
`ValidateVisualizationCatalog`, and `WriteVisualizationCatalog`; the specification is `CatalogSpec`.
A text is abstracted to what may be wrong with it (not UTF-8, padded, with a NUL), a file to where it
leads, and files `Change` in any step. `Sound` says what `README.md:17-45` asks of a catalog as a
whole, without the order and the comparisons with what came before of the validation. Run identities
are in OutputManifest.

**SolverCapability** is the CUDA capability of targets within one configure of a project of a parent
directory and its child. `AddOptionalCuda` and `ConfigureSolverInfo` are the two helpers, with the
immediate refusal of a conflict on one target; `EndDirectory` runs the deferred validation, whose
walk over link items is `LinkedRefused` and `DependencyRefused`, recursive *functions* over the
visited set. The properties say what the walk is for with a definition that has no walk (`Linked`: a
least set).

**CudaConfiguration** is `StreamcenterPlusOptionalCuda.cmake` over a cache that outlives configures.
Between configures users set options and thread requests, with a type or without; a configure goes
through `CheckSettings`, `ResolveRequest` for each request, `SelectAdaptive`, `SelectRelease` or
`SelectCpuOnly`, `CheckToolchain`, then the targets. `Fail` is `FATAL_ERROR`: the cache set so far
stays. Architecture lists are sets of items (plain, dotted, blank, garbage). The numbers of the
release list are the code's. It is assumed that `CMP0126` is `NEW`, so that a normal variable hides
a cache entry of its name, and that the module is included once in a configure.

## The runs

Figures are distinct states; the runs take from seconds to about three minutes.

| run | module, configuration | states | what it shows |
|---|---|---|---|
| `rank_output` | MCRankAwareOutput | 5.9 million | any calls in any order on two ranks, deaths and restarts: shard manifests are replaced atomically (`ShardPublicationIsAtomic`), `AssemblyCoversEveryRank`, and what the writer writes the validator takes (`WriterAgreesWithValidator`) |
| `rank_transaction` | MCRankAwareTransaction | violation | the finding below |
| `distributed_two` | MCDistributedOutput | 177,776 | with a job resubmitted under the same run identity, an assembly is only of shards its own job wrote, their files in place until the coordinator removes its own (`AssemblyFromThisAttempt`): this is the barrier's doing, not the identity's |
| `distributed_three` | MCDistributedThree | 128,494 | a job ends on all its ranks, whoever throws or dies (`JobEnds`); when one ends well, rank 0's call has written the assembly manifest to its end (`DoneMeansAssembled`) |
| `runtime` | MCDistributedRuntime | 43,824 | the MPI session is never misused, closed by its owner alone, the collectives of all ranks agree, every process ends; a probe says what MPI says (`ProbeAgreesWithRuntime`), and the ranks of a node share its devices evenly (`DevicesAreSpread`), whatever their environments hold |
| `output` | MCOutputManifest | 1,537,650 | two of three callers at once, in one process or two that may die, within one tick of the clock, while a file changes: the manifest is atomic, lists nothing outside the directory, but a file that changed between the two looks at it, and everything that stayed in it; a temporary file belongs to a call in progress or to a process that died |
| `partition` | MCPartitionPlan | 34,566 | every small plan, the malformed ones too: ownership is what the file says; the count is that of the items, or more where ranges overlap, until it wraps |
| `vtkhdf` | MCVtkHdfTimeSteps | 65,902 | a frame reads the step it stands for or fails, and a file's own name takes precedence, whatever changes between calls and within them |
| `ensight_time` | MCEnSightTimePolicy | 287,072 | the step of a selection is the solver's (`StepIsTheSolvers`) and fits its frames even when the file was replaced between their reads (`SelectionFitsItsStep`); an axis is taken for rounded only if the root of its file says so, and is the run's (`AxisIsTheRuns`); nothing soundly rounded is refused |
| `visualization_catalog` | MCVisualizationCatalog | 154,230 | a published selector tuple leads to one result, its values to one meaning (`PublishedMeansOneThing`); sparse tuples, omitted axes and shared files are accepted (`PromisedIsPublished`) |
| `solver_capability` | MCSolverCapability | 245,132 | a capability that contradicts the target's or a linked one's is refused, and nothing else is |
| `cuda_configuration` | MCCudaConfiguration | 90,180 | images, recorded lists, host or CUDA code and thread numbers are of the settings of now; a request the user gave is kept |

**The finding** (`rank_transaction`). `WriteAssemblyManifest` writes `assembly_policy =
rank0_transaction` into the file (`include/streamcenterplus/RankAwareOutput.h:202`), but opens the
final path with `trunc` (line 191), fills it (195-207) and never tests the stream after the open.
`AssemblyIsTransaction` asks the least that the word says: when the call that wrote the file has
returned, the file is whole. It excludes the file that was only opened. TLC's trace is a call whose
write fails: it returns normally and leaves a prefix of the manifest under its final name. Shard
manifests, written in the same header through `.partial`, a test and a rename, do not have this.

### Bounds, and why they are enough

- **rank_output**: two ranks, one payload file, two jobs in a row, chosen from four: two with
  different run identities on two ranks, one of a single rank, one without identity; all have one
  solver and plan. Interactions
  here are of one rank with the validator, and of one job with the next: a third rank or job adds no
  new pair. The proofs drop the bound.
- **distributed_two / distributed_three**: two ranks with two jobs, or three ranks with one. Two are
  enough for a shard of an older job; three for a rank that waits for one of two others.
- **runtime**: one to three ranks, dealt to two nodes in turn, four scripts: the SDK owns the
  session; the host finalizes it between two solver calls; the host owns it around two calls; the
  host ended it before the first. Environments are empty, of an allocation that started another
  launcher, or partly garbage; device lists show none to three devices, also with empty tokens.
- **output**: two threads of one process (symmetric) and one of another, of which two overlap
  (`MaxActive`), so that any pair of calls meets and a third may follow either; a `.pvd` that refers
  to a `.vtm` and a `.vtkhdf`; one change (a file comes, goes or becomes a link), which is enough to come
  between any two looks; one tick, and counters that count to two (`MaxSequence`), so that two calls
  of one process share a tick. The proofs drop all of these.
- **partition**: one assignment with all field values from below the sentinel to above the items;
  all pairs of ranges of two assignments; three long ranges, whose lengths exceed `SizeLimit`, here 8;
  headers with one wrong field.
- **vtkhdf**: files of up to two steps, seven paths (tokens with and without leading zeros, one too
  large for `vtkIdType`, a file whose own name looks like a token and a token of that), three
  changes.
- **ensight_time**: runs of three or four frames with steps around 100 quanta and around the limit
  of 1.1 %, rounded to the nearest value or down, uniform, with a missing or an early frame, or
  printed with one digit less from some frame on; each way in which a document may, or may not,
  declare a quantum; one replacement, three selected frames. The bounds compare one frame, or two
  neighbours, with the ends of the axis, so that four frames show every relation there is.
- **visualization_catalog**: two axes, one numeric, that share a key; two variants with all tuples,
  complete, sparse and wrong; and a sound catalog with one field wrong at a time. Two files, one
  change.
- **solver_capability**: three targets, an alias, six possible links that form a chain, a diamond
  through the alias and a cycle, of each kind of scope. `Linkable` bounds which links a project may
  make.
- **cuda_configuration**: one target configured any number of times, thread values above, at and
  below a cap, 0, and none of the choices; lists that are empty, blank, garbage, or name one
  architecture twice. Nothing in the code relates two targets.

Deadlock is checked where the system cannot stop; the cfgs that switch it off are of systems that
do: jobs end, processes die, plans are read.

### Fairness

Two specifications state fairness. `RunSpec` and DistributedRuntime's `Spec` assume, for every rank,
that a process that can take a step takes one (the operating system schedules it, MPI makes
progress) and that the launcher's signal reaches the processes of an aborted job. Nothing forces a
rank to throw, crash or be resubmitted, and a rank inside a collective can take no step before its
peers joined, so that `JobEnds` and `EveryoneEnds` hold because `Guard` aborts, not because of
fairness. Without that abort both fail (their mutants).

## The proofs

Eight modules hold theorems, checked by `tlapm`. They assume what the modules assume of their
constants and nothing else, and TLC evaluates each assumption in a passing run:

| assumption | says |
|---|---|
| `ConstantsAssumption` | at least one rank and one job; `NoFile` and `Torn` are no documents |
| `SeveralRanks` | the distributed program has more than one rank |
| `RuntimeAssumption` | a host initializes MPI first or not at all; every rank has a node; device lists are lists of tokens |
| `OutputAssumption` | a caller is of one process; a `.pvd` and a `.vtkhdf` are of the VTK family, and different; no file and a prefix are no documents |
| `PlanAssumption` | what fields hold: numbers, or garbage that is no number; no range ends beyond the items that are looked at, of which there are fewer than a `size_t` counts |
| `TokenAssumption` | what paths are; a text has a value or none; the digits written for a step are read as that step |
| `PolicyAssumption` | what is no number or no answer is no time |
| `SourceAssumption` | the types of documents; a printed time is within its token's quantum of the physical one, and of two printed times the errors differ by no more than the coarser quantum, as any fixed way of rounding has it |
| `CatalogAssumption` | what a solver hands over has lists where the code has vectors, and integer steps; what is filled in is a good text |
| `SolverCapabilityAssumption` | aliases are no targets and lead to targets; solvers are targets, of which there are finitely many; links join targets |
| `CudaConfigurationAssumption` | thread values are integers, architecture lists are finite |

Induction over data (a walk through a graph, a sum over assignments, the greatest of finitely many
numbers, the count of a rank's solver calls, the steps along a time axis) is done by least
counterexample: the library's theorem that `<` is well-founded on `Nat` gives `NatLeast`, that any
numbers have a least one, and a smallest bad size, place or rest is led to a contradiction.
Recursive functions are used through their recursion equation; that one exists is proved in the same
way (`WalkExists`, `SumExists`).

**DistributedOutputProofs**, first the library, RankAwareOutput. For any numbers of ranks, jobs,
files and restarts and arbitrary callers:

- `TypeCorrect`: types.
- `AssemblyCorrect`: `AssemblyCoversEveryRank`. The property alone is not inductive: that the
  assembly is opened says nothing unless the loop before it did its work. `IInv` adds what a rank
  relies on at each step: `RanksSound` (only ranks of the job are in a call; who publishes has an
  identity the validator takes, and holds its own manifest in `.partial` when it renames; the shards
  a loop has been through belong to the run), `ManifestsSound` (no manifest is torn; none is of a
  job to come; those of this job belong to the run) and `AssemblySound`. The step that matters is
  `RenameKeeps`: a rank that publishes again while rank 0 goes on replaces its shard by one that
  belongs to the run too, so that what was validated stays so. A restart makes every file one of an
  earlier job (`RestartKeeps`).
- `FormatsAgree`: `WriterAgreesWithValidator`, from `ManifestsSound`.
- `PublicationCorrect`: RankAwareOutput implements AtomicPublication. A rank between the checks and
  the rename maps to a writer with an offer; the rename maps to `Publish`, because by `IInv` the
  partial file is what was offered; every throw and every restart maps to `Withdraw`; all other
  steps stutter. That two ranks never share a directory is `OwnDirectory`.

Then the distributed run over it. `RunImplementsLibrary`: every step of the program is a step of
RankAwareOutput or leaves its variables alone, so what was proved for arbitrary callers holds of the
program: `RunAssemblyCorrect` and `RunPublicationCorrect`. It needs one invariant, that the files a
rank remembers are payload files (`ProducedInductive`).

Last, what the barriers give and the run identity does not. `AttemptCorrect` is
`AssemblyFromThisAttempt`, `SuccessCorrect` is `DoneMeansAssembled`. Neither is inductive, as they say nothing of how far the ranks are. `RunInv` relates, for each rank, its line of `Program`,
the step of the library call it is in (`PlaceSound`), the number of collectives it has entered
(`CollectivesSound`: as many as are before its line, and no rank has entered fewer than another one
has left) and its shard (`ShardSound`: published by this job once its call has returned, its files in
place unless the rank is the coordinator and has come past `"remove"`). So rank 0, which assembles
behind the second barrier, knows that everybody has entered that barrier and hence has published
(`AllShardsDone`); and a rank that is done knows that rank 0 has entered the last barrier, and hence
has returned from the assembly, the file filled to its end (`AssembleSound`). A resubmitted job starts with an assembly that is not of it
(`ResubmitKeeps`). The proof uses the library's `IInv` through `RunImplementsLibrary`.

**DistributedRuntimeProofs.** For any number of ranks, scripts, nodes and environments:
`TypeCorrect`, `SessionCorrect` (`SessionNeverMisused`), `OwnerCloses` (`OwnedSessionIsClosed`) and
`ProbeCorrect` (`ProbeAgreesWithRuntime`). `SessionSound` says what a rank knows of MPI where it
is: from the split on MPI runs; the static exists only after MPI was initialized; a host that is at
its first item has a fresh session. It is needed because the properties do not say why
`CheckSession` protects what follows it. `TopologySound` says that the cache is empty or MPI's own
account, and filled in the body of a call.

- `CollectivesCorrect` (`CollectivesAgree`). The property compares ranks; the invariant, `Order`, is
  of one rank: what it has entered is a function of its script and of where it is in it. The first
  collective is the split, each solver call adds two broadcasts (the count, the data), a sum and a
  barrier, in this order (`KindsRegular`), the rank at item `j` has entered as many as are before
  `j` (`Before`) plus those of the call it is in (`Offset`, `BeforeTheEnd`), and the finalization is
  the last (`AfterTheEnd`). An exception does not upset the count, because with peers `Guard` aborts and a
  rank that threw goes nowhere. So two ranks can differ at a place only if one finalizes MPI where
  the other does not, and where that may be is fixed by the script, in which MPI is opened and ended
  once (`FinalizeIsLast`).
- `DevicesSpread` (`DevicesAreSpread`). By `TopologySound` the local rank of a rank with a `Runtime`
  is the number of ranks of its node below it. So a node's ranks are numbered from 0 without a gap
  (`IndexBijective`); taken modulo the number of devices, all ranks of one device but the first
  follow, one for one, on ranks of any other (`DealtEvenly`).

**OutputManifestProofs.** For any callers, processes, files, catalogs and overlaps: `TypeCorrect`,
`TempsCorrect` (`TempsBelongToCalls`), `ListingIsInside` (`PublishedIsInside`), `ListingIsComplete`
(`DescribesWhatStayed`) and `PublicationCorrect`: OutputManifest implements AtomicPublication. The
invariant adds `TempsApart` (two calls never have one temporary file: the number in its name was
counted by the process of the call, and counters only grow) and `CallSound` (what is in the
temporary file when it is renamed is this call's document; a file that stayed is still to be
visited, found, or described; a file that has not changed since the first look at it, `LookSound`, is
what that look saw). Without `TempsApart` the rename of one call could publish what
another one has half written.

**PartitionPlanProofs.** For any plan file, numbers of any size, and any `SizeLimit` above the number
of items: `OwnershipCorrect` (`OwnershipIsWhatTheFileSays`) and `CountCorrect` (`CountIsOfItems`).
The invariant, `LoadedSoFar`, is that the assignments loaded so far are the file's, each of them
accepted. For the count, `SumCounts` adds one assignment at a time: the sum of the lengths is never
less than the number of items held, and equal exactly while the ranges are apart (`OneMore`); two
ranges that are not share the item where the later one starts (`RangesMeet`). The count is that sum
modulo `SizeLimit`, which leaves a sum below the limit alone (`SmallRemainder`); the sum of ranges
that are apart is below it, as no more items are held than there are (`HeldFit`). Where overlapping
ranges exceed the limit nothing is claimed.

**VtkHdfTimeStepsProofs.** For any paths, step tables and changes: `TypeCorrect`, `FramesCorrect`
(`FrameReadsItsStep`) and `LiteralPathCorrect` (`LiteralPathTakesPrecedence`). The properties look at
the last read, which says nothing of the reads to come; `FramesSound` does: the frames not yet read
are the tokens of the last steps of the expanded file, in order. Nor do they say anything of a call
in progress, while files change; `CallSound` does: what it has taken its path for is the step its
frame stands for, and the path itself if there has been a file all the time. A token is cut at its
last marker (`TokenReadsItsStep`: `MakeStepToken` and `ParseStepToken` undo each other), unless a file
has that very name; that name ends in a number, so that the read throws rather than gives another
file's data. What bounds a step that is read is `vtkIdType`, which is all that the type invariant says
of it.

**CudaConfigurationProofs.** For any targets, options and sequence of configures, those that fail
half way included: `RecordedCorrect` (`RecordedIsCompiled`), `ModeCorrect` (`TargetsFollowTheMode`),
`ThreadsCorrect` (`ThreadsAreWithinCaps`) and `RequestsCorrect` (`RequestsAreKept`, an action
property). The properties are about targets, the invariant about what a configure has settled before
it comes to them: which lists are in the cache at each step (`ListsSound`), that requests were
checked (`RequestsSound`), and that no target of an earlier configure is left (`TargetsSound`).
`ListsCorrect` (`ListsAreOfThisConfigure`) takes one more (`Selected`): since the architectures were
selected the lists are those prepared from the source of *this* configure, or the release matrix.
Then PTX is for the greatest architecture, which there is, as the list is finite
(`FiniteHasGreatest`).

**SolverCapabilityProofs.** `MetadataCorrect`: in any project, with any links and order of commands,
a target whose capability was published and whose solver info was declared has the same capability
in both. `IInv` says why: both are copies of one property of the target, which is never overwritten
with another value (`CapabilityDecides`).

`MismatchesCorrect` (`MismatchesAreRejected`) and `OnlyMismatchesCorrect`
(`OnlyMismatchesAreRejected`): the depth-first walk of the deferred validation decides the least set
of linked targets, in any graph with aliases and cycles. The walk is a recursive function of the
set of targets a branch has come through, and ends as that set only grows (`WalkExists`). A walk that
refuses has come to a refused target, which is in every set that is closed under links
(`WalkSound`). One that does not refuse leaves such a set without a refused target
(`WalkComplete`): what is not trivial there is that a branch does not look again at targets it has
come through, so that the closed sets of the branches must be put together with the node where
they part.

**VisualizationProofs**, about what a program that shows results relies on.

Of EnSightTimePolicy, for any contents of a file, any way of rounding within `SourceAssumption`, any
replacements, loads and selections, of any lengths: `SelectionCorrect` (`SelectionFitsItsStep`),
`AxisCorrect` (`AxisIsTheRuns`), `StepCorrect` (`StepIsTheSolvers`) and `RefusalCorrect`
(`NothingSoundIsRefused`). The invariant says what is left of what a load has found out once the file
has been replaced: an axis or a frame is worth its provenance for ever (`IsWorth`), is the file's own
while the file is the content it was loaded from (`IsAxisOf`), and its time lies on its axis if both
were read from the same content, also an older one (`PickSound`). Two frames of one content share an
axis and come in the order of their times (`PairSound`). The rest is arithmetic along the axis: what
grows by the same from frame to frame has grown in proportion between any two (`GrowsEvenly`), the
bounds of `AssessTimeAxis` put each frame within a quantum of the line, two frames within two, and
the errors of a rounded uniform run stay within the same bounds (`UniformIsRounded`), which needs
both parts of `SourceAssumption`: that *two* errors differ by no more than one quantum is what makes
the bounds sufficient for rounding down as well as to the nearest value.

Of VisualizationCatalog, for any catalogs and any changes of files during the call: `PublishedCorrect`
(`PublishedMeansOneThing`). `CatalogInv` says that what was validated holds of every element before
the one that is looked at, and goes on holding: ids and keys that differ from those before them
(`AxisGood`, `QuantityGood`), selectors that no earlier variant has and that name an axis and a value
there, and a file that is inside as long as nobody touched it (`VariantGood`). So an axis id and a
key have one place each, and a tuple one variant. The converse is `PromiseKept`
(`PromisedIsPublished`): every element of a `Sound` catalog passes its round, whatever is left out of
its tuples, and only a file can be the reason of a refusal; `Promised` adds what `Fill` leaves of the
identities. Between them the two theorems fix the validation from both sides.

### What is only model-checked

- `JobEnds`, `EveryoneEnds`: liveness under fairness is out of the prover's reach, and so is
  `ENABLED`.
- `AssemblyIsTransaction` does not hold (the finding), so that a job may end well with an assembly
  manifest that a failed write has cut.

### What is not modelled

- Of modelled parts: the serial build of the runtime (no state; what it refuses is at
  `DistributedRuntime.h:43-48`); a scheduler's name and job id; the tolerances for roundoff of the
  time policy; `enableRankAware` false with several ranks, where all ranks write the same manifest
  and nothing is promised; what manifests say of VTK files, and JSON text; how lines are split into
  fields; a `remove` of a temporary file that fails, whose error is ignored (`OutputManifest.h:662-663`);
  a change between the reading of a `.pvd` and the look at the files it refers to;
  separable compilation, runtime directories and the Visual Studio compiler-cache shim
  (`StreamcenterPlusOptionalCuda.cmake:433-488`); a second inclusion of that module by a sibling
  directory in one configure; `CMAKE_CUDA_ARCHITECTURES` (line 293), which is set to the list the
  targets are given; validation of names, dates and feature lists in solver info; targets are
  configured once per configure.
- `MismatchesAreRejected` is about the links there are when a directory ends: the README of the
  repository promises the check for targets of one directory (`README.md:141-156`), and a parent
  that links more afterwards is not seen.
- `SCP::SolverSDK` itself, linked by solvers, publishes no capability and is left out of the links.
- Whole parts: see `"components"` in `PROJECT.json`, with the reason of each.

## The plan

Done, in this order: rank-aware output with its abstract specification and proofs, the distributed
program over it (refinement and proofs), the runtime, the output manifest (refinement), partition
plans, time steps, solver capability, CUDA configuration; then hardware awareness within the
runtime, the EnSight time policy, the visualization catalog; then the proofs about the program's
barriers, the runtime, the output manifest, partition plans and the CUDA configuration; then the
order of collectives and the sharing of devices, the walk of the solver capability, time steps, the
count of owned items, the architecture lists, the time policy and the catalog, from both sides. With
these every invariant that a run checks is a theorem, but the one of the finding.

Next, to extend the model:

1. the program without rank-aware output (`enableRankAware` false with several ranks) as another job
   parameter of RankAwareOutput;
2. a second inclusion of OptionalCuda by a sibling directory in one configure; the licences the
   solver bundle registers once for each destination.

Next, to prove: what a step may never do in the parts whose safety is proved (action properties),
and `RunSpec`'s own steps as a refinement of a specification of the program without a file system.

## Running it

In this directory, with `tlc`, `tlasany` and `tlapm` able to find the community modules:

    tlc -workers 2 -config MCRankAwareOutput.cfg MCRankAwareOutput
    tlapm DistributedOutputProofs.tla
