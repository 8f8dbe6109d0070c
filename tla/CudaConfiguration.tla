--------------------------- MODULE CudaConfiguration --------------------------
(***************************************************************************)
(* The CUDA build mode of a project that is configured again and again in  *)
(* one build directory (cmake/modules/StreamcenterPlusOptionalCuda.cmake). *)
(* The CMake cache outlives a configure, also one that fails half way; the *)
(* user edits it between two of them, and the environment, the visible     *)
(* GPUs and the toolchain may be others each time.  A configure checks the *)
(* settings, settles the two thread requests, selects the architectures    *)
(* and checks the toolchain; then the project's targets are configured.    *)
(***************************************************************************)
EXTENDS Integers, FiniteSets

CONSTANTS
    Targets,         \* the targets of the project
    Modes,           \* the build modes users try
    Policies,        \* the toolchain policies users try
    AdaptiveLists,   \* the architecture lists they give, {} for none
    FallbackLists,   \* the fallback lists they give, {} for none
    Probes,          \* what nvidia-smi may list, {} when it fails
    RequestInputs,   \* the values they ask for, of each kind of thread
    CapInputs,       \* the caps targets pass, of each kind of thread
    Normals          \* normal variables the including project may have set

Kinds == {"split", "architecture"}
NoValue == -1
(* An item of an architecture list: a plain number (89, sm_89, 89-real), a *)
(* dotted one (8.9), separators only, or text that is neither.             *)
Items == [form : {"plain", "dotted", "blank", "garbage"}, major : Nat \cup {NoValue},
          minor : Nat]

Choices == [split |-> {0, 1, 2, 4, 8}, architecture |-> {0, 1, 2, 3, 4, 8, 12}]
Default == [split |-> 2, architecture |-> 12]
CapChoices == [split |-> {1, 2, 4, 8}, architecture |-> {1, 2, 3, 4, 8, 12}]
DefaultCap == 2

ASSUME CudaConfigurationAssumption ==
    /\ "CpuOnly" \in Modes /\ "Release13_2" \in Policies
    /\ {} \in AdaptiveLists /\ {} \in FallbackLists
    /\ \A list \in AdaptiveLists \cup FallbackLists \cup Probes :
           list \subseteq Items /\ IsFiniteSet(list)
    /\ RequestInputs \in [Kinds -> SUBSET Int] /\ CapInputs \in [Kinds -> SUBSET Int]
    /\ Normals \subseteq [Kinds -> Int]

VARIABLES
    step,       \* what the configure does next; "idle" between configures
    options,    \* the cached mode, policy and architecture options
    requests,   \* the cached thread requests, [type, value] each
    normal,     \* the project's normal variables of the same names
    lists,      \* the architecture entries of the cache
    available,  \* STREAMCENTERPLUS_CUDA_AVAILABLE
    probed,     \* what nvidia-smi listed in this configure
    compiled,   \* what each configured target is compiled for, and how
    recorded    \* the architectures in the solver info of each target

vars == <<step, options, requests, normal, lists, available, probed, compiled, recorded>>
cached == <<options, requests, lists, available>>

Real(n) == [kind |-> "real", number |-> n]
Virtual(n) == [kind |-> "virtual", number |-> n]

(* The release matrix: what CMake emits, and the one explicit compute_120  *)
(* invocation for the Blackwell images and the PTX.                        *)
ReleaseCMake == {Real(n) : n \in {75, 80, 86, 87, 88, 89, 90, 100, 103, 110}}
Blackwell == {Real(120), Real(121), Virtual(120)}
ReleaseLists == [cmake |-> ReleaseCMake, public |-> ReleaseCMake \cup Blackwell,
                 combined |-> Blackwell, policy |-> "release_cuda_13_2_full_fatbin"]
NoLists == [cmake |-> {}, public |-> {}, combined |-> {}, policy |-> "none"]

Absent == [type |-> "none", value |-> NoValue]
NoTargets == [t \in {} |-> 0]

Init ==
    /\ step = "idle" /\ normal \in Normals
    /\ options = [mode |-> "CpuOnly", policy |-> "Release13_2", adaptive |-> {},
                  fallback |-> {}]
    /\ requests = [k \in Kinds |-> Absent]
    /\ lists = NoLists /\ available = FALSE /\ probed = {}
    /\ compiled = NoTargets /\ recorded = NoTargets

------------------------------------------------------------------------------
(* Between configures: -D options; CMake gives a new entry no type. *)

SetOption ==
    /\ step = "idle"
    /\ \E o \in [mode : Modes, policy : Policies, adaptive : AdaptiveLists,
                 fallback : FallbackLists] : options' = o
    /\ UNCHANGED <<step, requests, normal, lists, available, probed, compiled, recorded>>

SetRequest(k, value) ==
    /\ step = "idle"
    /\ requests' = [requests EXCEPT ![k] =
          [type |-> IF @.type = "none" THEN "UNINITIALIZED" ELSE @.type, value |-> value]]
    /\ UNCHANGED <<step, options, normal, lists, available, probed, compiled, recorded>>

Configure ==
    /\ step = "idle" /\ step' = "settings" /\ probed' = {}
    /\ compiled' = NoTargets /\ recorded' = NoTargets
    /\ UNCHANGED <<cached, normal>>

(* message(FATAL_ERROR): nothing is generated, what is cached stays cached *)
Fail ==
    /\ step' = "idle" /\ compiled' = NoTargets /\ recorded' = NoTargets
    /\ UNCHANGED <<normal, probed>>

------------------------------------------------------------------------------
(* The settings and the thread requests *)

(* Mutated form: set(... CACHE INTERNAL) without FORCE. *)
ListsKept == IF lists = NoLists THEN ReleaseLists ELSE lists

ListsForced == ReleaseLists

CheckSettings ==
    /\ step = "settings"
    /\ \/ /\ options.mode \notin {"CpuOnly", "CpuCuda"}
             \/ options.policy \notin {"Release13_2", "Adaptive"}
          /\ Fail /\ UNCHANGED cached
       \/ /\ options.mode \in {"CpuOnly", "CpuCuda"}
          /\ options.policy \in {"Release13_2", "Adaptive"}
          /\ lists' = ListsForced /\ step' = "split"
          /\ UNCHANGED <<options, requests, normal, available, probed, compiled, recorded>>

(* ${NAME}: a normal variable hides the cache entry of its name *)
Visible(k, request) == IF normal[k] # NoValue THEN normal[k] ELSE request.value

(* A new entry: from the normal variable, the environment or the default *)
InitialRequest(k, env) ==
    IF normal[k] # NoValue THEN normal[k] ELSE IF env # NoValue THEN env ELSE Default[k]

(* Mutated form: an entry that has no type yet counts as absent. *)
SettledUnlessTyped(k, env) ==
    [type |-> "STRING", value |-> IF requests[k].type = "STRING" THEN requests[k].value
                                  ELSE InitialRequest(k, env)]

(* The entry after its lookup: one that is there keeps its value, untyped  *)
(* or not.                                                                 *)
SettledRequest(k, env) ==
    [type |-> "STRING",
     value |-> CASE requests[k].type = "none" -> InitialRequest(k, env)
                 [] requests[k].type = "UNINITIALIZED" -> Visible(k, requests[k])
                 [] OTHER -> requests[k].value]

(* The entry is cached before it is checked: a bad value stays there. *)
ResolveRequest(k) ==
    /\ step = k
    /\ \E env \in RequestInputs[k] \cup {NoValue} :
          /\ requests' = [requests EXCEPT ![k] = SettledRequest(k, env)]
          /\ \/ Visible(k, requests'[k]) \notin Choices[k] /\ Fail
             \/ /\ Visible(k, requests'[k]) \in Choices[k]
                /\ step' = IF k = "split" THEN "architecture" ELSE "select"
                /\ UNCHANGED <<normal, probed, compiled, recorded>>
    /\ UNCHANGED <<options, lists, available>>

------------------------------------------------------------------------------
(* The architectures and the toolchain *)

Usable(list) == {item \in list : item.form # "blank"}
Number(item) == IF item.form = "dotted" THEN item.major * 10 + item.minor ELSE item.major
Numbers(list) == {Number(item) : item \in Usable(list)}
Highest(numbers) == CHOOSE n \in numbers : \A m \in numbers : n >= m

WellFormed(list) ==
    Usable(list) # {} /\ \A item \in list : item.form # "garbage"

(* _streamcenterplus_prepare_cuda_architecture_lists: a native image for   *)
(* each number, and PTX for the highest.                                   *)
PreparedLists(list) == {Real(n) : n \in Numbers(list)} \cup {Virtual(Highest(Numbers(list)))}

(* The explicit list, what the probe shows, or the fallback *)
Source(list) ==
    IF options.adaptive # {} THEN options.adaptive
    ELSE IF list # {} THEN list ELSE options.fallback

(* Mutated form: the list that CMake compiles is left as it was. *)
AdaptedPublicOnly(images) == [lists EXCEPT !.public = images]

Adapted(images) ==
    [cmake |-> images, public |-> images, combined |-> {}, policy |-> "adaptive_visible_gpu"]

SelectAdaptive ==
    /\ step = "select" /\ options.mode = "CpuCuda" /\ options.policy = "Adaptive"
    /\ \E list \in IF options.adaptive = {} THEN Probes ELSE {{}} :
          \/ /\ ~WellFormed(Source(list)) /\ Fail
             /\ UNCHANGED lists
          \/ /\ WellFormed(Source(list))
             /\ lists' = Adapted(PreparedLists(Source(list)))
             /\ probed' = list /\ step' = "toolchain"
             /\ UNCHANGED <<normal, compiled, recorded>>
    /\ UNCHANGED <<options, requests, available>>

SelectRelease ==
    /\ step = "select" /\ options.mode = "CpuCuda" /\ options.policy = "Release13_2"
    /\ step' = "toolchain"
    /\ UNCHANGED <<cached, normal, probed, compiled, recorded>>

(* Mutated form: the entry of an earlier configure is not reset. *)
LeftAvailable == available

NotAvailable == FALSE

SelectCpuOnly ==
    /\ step = "select" /\ options.mode = "CpuOnly"
    /\ available' = NotAvailable /\ step' = "targets"
    /\ UNCHANGED <<options, requests, lists, normal, probed, compiled, recorded>>

(* check_language, enable_language, find_package: the toolchain found, and *)
(* the exact version the release policy wants.                             *)
CheckToolchain ==
    /\ step = "toolchain"
    /\ \E toolchain \in {"none", "13.2", "other"} :
          LET usable == \/ toolchain = "13.2"
                        \/ toolchain = "other" /\ options.policy = "Adaptive"
          IN  \/ ~usable /\ Fail /\ UNCHANGED available
              \/ /\ usable /\ available' = TRUE /\ step' = "targets"
                 /\ UNCHANGED <<normal, probed, compiled, recorded>>
    /\ UNCHANGED <<options, requests, lists>>

------------------------------------------------------------------------------
(* The targets *)

Cap(given) == IF given = NoValue THEN DefaultCap ELSE given

(* Mutated form: 0 is passed on to nvcc. *)
ZeroIsUnlimited(request, cap) == IF request > cap THEN cap ELSE request

Effective(request, cap) == IF request = 0 \/ request > cap THEN cap ELSE request

(* streamcenterplus_apply_cuda_release_codegen *)
Codegen(caps) ==
    [cuda |-> TRUE, caps |-> [k \in Kinds |-> Cap(caps[k])],
     threads |-> [k \in Kinds |-> Effective(Visible(k, requests[k]), Cap(caps[k]))],
     images |-> lists.cmake \cup
                (IF options.policy = "Release13_2" THEN lists.combined ELSE {})]
HostOnly ==
    [cuda |-> FALSE, caps |-> [k \in Kinds |-> 0], threads |-> [k \in Kinds |-> 0],
     images |-> {}]
CapsAllowed(caps) == \A k \in Kinds : Cap(caps[k]) \in CapChoices[k]
CapsGiven == {caps \in [Kinds -> CapInputs.split \cup CapInputs.architecture] :
                  \A k \in Kinds : caps[k] \in CapInputs[k]}

Compile(t, how) == compiled' = [u \in DOMAIN compiled \cup {t} |->
                                    IF u = t THEN how ELSE compiled[u]]

(* The caps are checked in every mode. *)
AddOptionalCuda(t, caps) ==
    /\ step = "targets" /\ t \notin DOMAIN compiled
    /\ \/ ~CapsAllowed(caps) /\ Fail
       \/ /\ CapsAllowed(caps) /\ Compile(t, IF available THEN Codegen(caps) ELSE HostOnly)
          /\ UNCHANGED <<step, normal, probed, recorded>>
    /\ UNCHANGED cached

ApplyReleaseCodegen(t, caps) ==
    /\ step = "targets" /\ t \notin DOMAIN compiled
    /\ \/ ~(available /\ CapsAllowed(caps)) /\ Fail
       \/ /\ available /\ CapsAllowed(caps) /\ Compile(t, Codegen(caps))
          /\ UNCHANGED <<step, normal, probed, recorded>>
    /\ UNCHANGED cached

(* streamcenterplus_configure_solver_info copies the public list *)
RecordSolverInfo(t) ==
    /\ step = "targets"
    /\ recorded' = [u \in DOMAIN recorded \cup {t} |->
                        IF u = t THEN lists.public ELSE recorded[u]]
    /\ UNCHANGED <<step, cached, normal, probed, compiled>>

Generate ==
    /\ step = "targets" /\ step' = "idle"
    /\ UNCHANGED <<cached, normal, probed, compiled, recorded>>

Next ==
    \/ SetOption \/ Configure \/ CheckSettings
    \/ \E k \in Kinds : \/ ResolveRequest(k)
                        \/ \E value \in RequestInputs[k] : SetRequest(k, value)
    \/ SelectAdaptive \/ SelectRelease \/ SelectCpuOnly \/ CheckToolchain
    \/ \E t \in Targets :
          \/ RecordSolverInfo(t)
          \/ \E caps \in CapsGiven : AddOptionalCuda(t, caps) \/ ApplyReleaseCodegen(t, caps)
    \/ Generate

Spec == Init /\ [][Next]_vars

------------------------------------------------------------------------------
(* Properties *)

(* The architectures a solver says it holds are the ones it is compiled    *)
(* for, although the release policy splits the list between CMake and an   *)
(* explicit option, and whatever earlier configures left in the cache.     *)
RecordedIsCompiled ==
    \A t \in DOMAIN compiled \cap DOMAIN recorded :
        compiled[t].cuda => recorded[t] = compiled[t].images

(* When targets are configured, the lists belong to this configure: the    *)
(* full matrix unless the mode and the policy of now are the adaptive      *)
(* ones, and then an image for each architecture of the first source that  *)
(* has any, and PTX exactly for the newest (README.md:127-131).            *)
ListsAreOfThisConfigure ==
    step = "targets" =>
        IF options.mode = "CpuCuda" /\ options.policy = "Adaptive"
        THEN LET numbers == {i.number : i \in {j \in lists.public : j.kind = "real"}}
                 ptx == lists.public \ {Real(n) : n \in numbers}
                 first == CHOOSE l \in {options.adaptive, probed, options.fallback} :
                            \/ l = options.adaptive /\ l # {}
                            \/ options.adaptive = {} /\ l = probed /\ l # {}
                            \/ options.adaptive = {} /\ probed = {} /\ l = options.fallback
             IN  /\ numbers = Numbers(first) /\ Cardinality(ptx) = 1
                 /\ \A i \in ptx : i.number \in numbers /\ \A n \in numbers : n <= i.number
        ELSE lists = ReleaseLists

(* A target carries CUDA code exactly when the configure that made it was  *)
(* asked for CpuCuda, also after a configure in the other mode or one that *)
(* failed between enabling CUDA and its end.                               *)
TargetsFollowTheMode ==
    step = "targets" =>
        \A t \in DOMAIN compiled : compiled[t].cuda <=> options.mode = "CpuCuda"

(* A thread request that is in the cache, from -D or from an earlier       *)
(* configure, changes by the next -D only: no environment of a later       *)
(* configure replaces it (README.md:162-166).                              *)
RequestsAreKept ==
    [][\A k \in Kinds :
          requests[k].type # "none" /\ normal[k] = NoValue /\ step # "idle"
              => requests'[k].value = requests[k].value]_vars

(* No target compiles with more threads than its cap, nor with none, nor   *)
(* with more than were asked for unless 0 asked for the cap.               *)
ThreadsAreWithinCaps ==
    step = "targets" =>
        \A t \in DOMAIN compiled : compiled[t].cuda =>
            \A k \in Kinds :
                /\ compiled[t].threads[k] \in 1 .. compiled[t].caps[k]
                /\ Visible(k, requests[k]) # 0
                       => compiled[t].threads[k] <= Visible(k, requests[k])
=============================================================================
