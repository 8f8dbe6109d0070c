--------------------------- MODULE SolverCapability ---------------------------
(***************************************************************************)
(* The CUDA capability of the targets of one CMake configure.              *)
(* streamcenterplus_add_optional_cuda publishes what a target was built    *)
(* with; streamcenterplus_configure_solver_info records what a solver says *)
(* of itself.  A conflict on one target is refused at the call; a conflict *)
(* with what the solver links is looked for at the end of the directory    *)
(* that made the call, by a walk over the targets it links (cmake/modules/ *)
(* StreamcenterPlusSolverInfo.cmake, StreamcenterPlusOptionalCuda.cmake).  *)
(* A project is a parent directory that adds one child directory; the      *)
(* commands of both come in any order, on any target that exists by then.  *)
(***************************************************************************)
EXTENDS Integers, FiniteSets

CONSTANTS
    Targets,    \* the targets the project may create
    Aliases,    \* the ALIAS names it may link
    AliasOf,    \* the target of each alias
    Solvers,    \* the targets that are solver entries
    Linkable    \* [from, to, scope]: the links the project may make, a bound

Names == Targets \cup Aliases
Directories == {"parent", "child"}
(* PRIVATE of an executable or shared library, PRIVATE of a static one     *)
(* (published as $<LINK_ONLY:...>), PUBLIC and INTERFACE.                  *)
Scopes == {"private", "static", "public", "interface"}
Items == [to : Names, scope : Scopes]

ASSUME SolverCapabilityAssumption ==
    /\ Targets \cap Aliases = {} /\ Solvers \subseteq Targets
    /\ IsFiniteSet(Targets)
    /\ AliasOf \in [Aliases -> Targets]
    /\ Linkable \subseteq [from : Targets, to : Names, scope : Scopes]

NotSet == -1

VARIABLES
    stage,       \* what CMake processes, or how the configure ended
    available,   \* STREAMCENTERPLUS_CUDA_AVAILABLE in each directory
    created,     \* the targets that exist
    capability,  \* property STREAMCENTERPLUS_CUDA_CAPABILITY
    published,   \* property INTERFACE_STREAMCENTERPLUS_CUDA_CAPABILITY
    metadata,    \* STREAMCENTERPLUS_SOLVER_HAS_CUDA compiled into the solver
    restricted,  \* property STREAMCENTERPLUS_CUDA_CAPABILITY_RESTRICTED
    links,       \* the items target_link_libraries gave each target
    deferred     \* the validations each directory runs at its end

vars == <<stage, available, created, capability, published, metadata,
          restricted, links, deferred>>
properties == <<capability, published, metadata>>
Running == {"before", "child", "after"}

(* Every property of a target that is set is 0 or 1, and every deferred    *)
(* validation has the target and the value of its call.                    *)
TypeOK ==
    /\ stage \in Running \cup {"configured", "failed", "rejected"}
    /\ available \in [Directories -> {0, 1}] /\ created \subseteq Targets
    /\ capability \in [Targets -> {NotSet, 0, 1}]
    /\ published \in [Targets -> {NotSet, 0, 1}]
    /\ metadata \in [Targets -> {NotSet, 0, 1}]
    /\ restricted \subseteq Targets
    /\ links \in [Targets -> SUBSET Items]
    /\ deferred \in [Directories -> SUBSET [target : Targets, expected : {0, 1}]]

Init ==
    /\ stage = "before" /\ available \in [Directories -> {0, 1}]
    /\ created = {} /\ restricted = {}
    /\ capability = [t \in Targets |-> NotSet]
    /\ published = [t \in Targets |-> NotSet]
    /\ metadata = [t \in Targets |-> NotSet]
    /\ links = [t \in Targets |-> {}]
    /\ deferred = [d \in Directories |-> {}]

Here == IF stage = "child" THEN "child" ELSE "parent"
Can(t) == stage \in Running /\ t \in created

------------------------------------------------------------------------------
(* The walk of the end of a directory *)

(* get_property(... ALIASED_TARGET); an alias exists with its target *)
Resolve(name) == IF name \in Aliases THEN AliasOf[name] ELSE name
IsTarget(name) == name \in Names /\ Resolve(name) \in created

(* What LINK_LIBRARIES and INTERFACE_LINK_LIBRARIES of a target list *)
LinkLibraries(t) == {i \in links[t] : i.scope # "interface"}
InterfaceLinkLibraries(t) == {i \in links[t] : i.scope # "private"}

(* Mutated form: an item in $<LINK_ONLY:...> is taken as it is written. *)
ItemAsWritten(item) == IF item.scope = "static" THEN "$<LINK_ONLY>" ELSE item.to

(* The name an item stands for once a $<LINK_ONLY:...> around it is undone *)
ItemName(item) == item.to

(* Mutated form: a restricted entry is treated as any other. *)
RefusedAlways(t, expected, isRestricted) ==
    published[t] # NotSet /\ published[t] # expected

(* The capability a linked target publishes is refused unless it is the    *)
(* declared one, or the entry is restricted to the CPU side of a hybrid.   *)
Refused(t, expected, isRestricted) ==
    /\ published[t] # NotSet /\ published[t] # expected
    /\ ~(isRestricted /\ expected = 0 /\ published[t] = 1)

(* _streamcenterplus_validate_cuda_capability_dependency: depth first over *)
(* the interface links, each branch with the targets it has come through;  *)
(* refusing[visited] are the targets where such a branch is refused.       *)
DependencyRefused(name, expected, isRestricted) ==
    LET refusing[visited \in SUBSET Targets] ==
          {t \in Targets \ visited :
              \/ Refused(t, expected, isRestricted)
              \/ \E item \in InterfaceLinkLibraries(t) :
                     /\ IsTarget(ItemName(item))
                     /\ Resolve(ItemName(item)) \in refusing[visited \cup {t}]}
    IN  IsTarget(name) /\ Resolve(name) \in refusing[{}]

(* _streamcenterplus_validate_linked_cuda_capability *)
LinkedRefused(t, expected) ==
    \E item \in LinkLibraries(t) :
        DependencyRefused(ItemName(item), expected, t \in restricted)

------------------------------------------------------------------------------
(* Commands *)

(* add_library, add_executable, with the aliases of the target *)
Create(t) ==
    /\ stage \in Running /\ t \notin created /\ created' = created \cup {t}
    /\ UNCHANGED <<stage, available, properties, restricted, links, deferred>>

TargetLinkLibraries(t, item) ==
    /\ Can(t) /\ [from |-> t, to |-> item.to, scope |-> item.scope] \in Linkable
    /\ links' = [links EXCEPT ![t] = @ \cup {item}]
    /\ UNCHANGED <<stage, available, created, properties, restricted, deferred>>

(* set_property(... STREAMCENTERPLUS_CUDA_CAPABILITY_RESTRICTED ON) *)
MarkRestricted(t) ==
    /\ Can(t) /\ t \in Solvers /\ restricted' = restricted \cup {t}
    /\ UNCHANGED <<stage, available, created, properties, links, deferred>>

(* message(FATAL_ERROR): nothing that follows is processed *)
Abort(how) ==
    /\ stage' = how
    /\ UNCHANGED <<available, created, properties, restricted, links, deferred>>

(* Mutated form: the helpers do not look for an earlier call. *)
ConflictForgotten(t, value) == FALSE

ConflictsWithOwn(t, value) == capability[t] # NotSet /\ capability[t] # value

(* _streamcenterplus_set_target_cuda_capability *)
AddOptionalCuda(t) ==
    LET value == available[Here] IN
    /\ Can(t)
    /\ \/ ConflictsWithOwn(t, value) /\ Abort("failed")
       \/ /\ ~ConflictsWithOwn(t, value)
          /\ capability' = [capability EXCEPT ![t] = value]
          /\ published' = [published EXCEPT ![t] = value]
          /\ UNCHANGED <<stage, available, created, metadata, restricted, links, deferred>>

(* The deferred validation: its arguments are read as it is scheduled. *)
DeferredCall(t, hasCuda) == [target |-> t, expected |-> hasCuda]

(* The validation runs at the end of the directory that makes the call.    *)
ConfigureSolverInfo(t, hasCuda) ==
    /\ Can(t) /\ t \in Solvers
    /\ \/ ConflictsWithOwn(t, hasCuda) /\ Abort("failed")
       \/ /\ ~ConflictsWithOwn(t, hasCuda)
          /\ capability' = [capability EXCEPT ![t] = hasCuda]
          /\ metadata' = [metadata EXCEPT ![t] = hasCuda]
          /\ deferred' = [deferred EXCEPT ![Here] =
                              @ \cup {DeferredCall(t, hasCuda)}]
          /\ UNCHANGED <<stage, available, created, published, restricted, links>>

(* add_subdirectory *)
EnterChild ==
    /\ stage = "before" /\ stage' = "child"
    /\ UNCHANGED <<available, created, properties, restricted, links, deferred>>

EndDirectory ==
    /\ stage \in {"child", "after"}
    /\ stage' = IF \E call \in deferred[Here] :
                       LinkedRefused(call.target, call.expected) THEN "rejected"
                ELSE IF stage = "child" THEN "after" ELSE "configured"
    /\ UNCHANGED <<available, created, properties, restricted, links, deferred>>

Next ==
    \/ \E t \in Targets :
          \/ Create(t) \/ MarkRestricted(t) \/ AddOptionalCuda(t)
          \/ \E item \in Items : TargetLinkLibraries(t, item)
          \/ \E hasCuda \in {0, 1} : ConfigureSolverInfo(t, hasCuda)
    \/ EnterChild \/ EndDirectory

Spec == Init /\ [][Next]_vars

------------------------------------------------------------------------------
(* Properties *)

(* What a solver links, said without a walk: the least set that holds the  *)
(* targets of its own link items and, with a target, those of the target's *)
(* interface items.                                                        *)
TargetsOf(items) == {Resolve(i.to) : i \in items} \cap created
Linked(t) ==
    LET holdsAll(S) ==
            /\ TargetsOf(LinkLibraries(t)) \subseteq S
            /\ \A v \in S : TargetsOf(InterfaceLinkLibraries(v)) \subseteq S
    IN  {u \in created : \A S \in SUBSET created : holdsAll(S) => u \in S}

(* The pairs of declared and published capability the README allows        *)
(* (README.md:141-156).                                                    *)
Compatible(t, declared, u) ==
    \/ published[u] \in {NotSet, declared}
    \/ t \in restricted /\ declared = 0 /\ published[u] = 1

(* A directory that ends well holds no solver whose declared capability    *)
(* contradicts a target it links, directly, through an alias, through the  *)
(* private links of a static library or around a cycle, whichever of the   *)
(* link and the solver-info call came first.                               *)
MismatchesAreRejected ==
    [][stage' # stage /\ stage' \in {"after", "configured"}
        => \A call \in deferred[Here] : \A u \in Linked(call.target) :
              Compatible(call.target, call.expected, u)]_vars

(* A configure is refused at a directory's end only for a solver of that   *)
(* directory that does contradict a target it links: a CPU-only entry      *)
(* marked as restricted over a hybrid core is let through.                 *)
OnlyMismatchesAreRejected ==
    [][stage' = "rejected" /\ stage # "rejected"
        => \E call \in deferred[Here] : \E u \in Linked(call.target) :
              ~Compatible(call.target, call.expected, u)]_vars

(* Whatever the order of the calls and the directories they are made from, *)
(* the capability compiled into a target's solver info is the one its      *)
(* dependents see, until the configure fails.                              *)
MetadataMatchesOwnCode ==
    \A t \in Targets :
        metadata[t] # NotSet /\ published[t] # NotSet => metadata[t] = published[t]
=============================================================================
