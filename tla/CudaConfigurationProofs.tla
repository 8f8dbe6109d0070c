---------------------- MODULE CudaConfigurationProofs ----------------------
(***************************************************************************)
(* Proofs about CudaConfiguration, for any targets, options, environments  *)
(* and GPUs, and any sequence of configures, those that fail included.     *)
(***************************************************************************)
EXTENDS CudaConfiguration, FiniteSetTheorems, WellFoundedInduction, TLAPS

-----------------------------------------------------------------------------
(* The inductive invariant: what a configure has settled before each step.  *)

Requests == [type : {"none", "UNINITIALIZED", "STRING"}, value : Int]

TypeSound ==
    /\ step \in {"idle", "settings", "split", "architecture", "select", "toolchain",
                 "targets"}
    /\ requests \in [Kinds -> Requests]
    /\ normal \in [Kinds -> Int]
    /\ available \in BOOLEAN

Checked == {"split", "architecture", "select", "toolchain", "targets"}

\* From the check of the settings on the lists are the release matrix, unless the
\* adaptive policy of this configure has replaced all of them; at the targets CUDA
\* is available in the one mode that asks for it.
ListsSound ==
    /\ step \in Checked => /\ options.mode \in {"CpuOnly", "CpuCuda"}
                           /\ options.policy \in {"Release13_2", "Adaptive"}
    /\ step \in {"split", "architecture", "select"} => lists = ReleaseLists
    /\ step \in {"toolchain", "targets"} =>
          \/ lists = ReleaseLists
          \/ options.policy = "Adaptive" /\ lists.cmake = lists.public
    /\ step = "toolchain" =>
          options.mode = "CpuCuda" /\ (options.policy = "Adaptive" => lists.cmake = lists.public)
    /\ step = "targets" =>
          /\ available <=> options.mode = "CpuCuda"
          /\ available /\ options.policy = "Adaptive" => lists.cmake = lists.public

\* A request is one of the choices once it has been resolved.
RequestsSound ==
    /\ step \in {"architecture", "select", "toolchain", "targets"} =>
          Visible("split", requests["split"]) \in Choices["split"]
    /\ step \in {"select", "toolchain", "targets"} =>
          Visible("architecture", requests["architecture"]) \in Choices["architecture"]

\* What a target was compiled for, by the settings there are.
TargetSound(t) ==
    /\ compiled[t].cuda <=> options.mode = "CpuCuda"
    /\ compiled[t].cuda => /\ compiled[t].images = lists.public
                           /\ \A k \in Kinds :
                                /\ compiled[t].threads[k] \in 1 .. compiled[t].caps[k]
                                /\ Visible(k, requests[k]) # 0 =>
                                      compiled[t].threads[k] <= Visible(k, requests[k])

\* Nothing is left of the targets of an earlier configure.
TargetsSound ==
    /\ step \notin {"idle", "targets"} => compiled = NoTargets /\ recorded = NoTargets
    /\ step = "targets" => /\ \A t \in DOMAIN compiled : TargetSound(t)
                           /\ \A t \in DOMAIN recorded : recorded[t] = lists.public

IInv ==
    /\ TypeSound
    /\ ListsSound
    /\ RequestsSound
    /\ TargetsSound
    /\ RecordedIsCompiled

-----------------------------------------------------------------------------
(* Requests *)

\* Looking up a request keeps the value of an entry that no variable hides.
LEMMA SettledKeeps ==
    ASSUME TypeSound, NEW k \in Kinds, NEW env
    PROVE  requests[k].type # "none" /\ normal[k] = NoValue =>
              SettledRequest(k, env).value = requests[k].value
BY DEF TypeSound, Requests, SettledRequest, Visible

\* A request that is looked up is one.
LEMMA SettledType ==
    ASSUME TypeSound, NEW k \in Kinds, NEW env \in RequestInputs[k] \cup {NoValue}
    PROVE  SettledRequest(k, env) \in Requests
<1>1. env \in Int
  BY CudaConfigurationAssumption DEF NoValue
<1>2. InitialRequest(k, env) \in Int
  BY <1>1 DEF TypeSound, InitialRequest, Default, Kinds
<1>3. requests[k].value \in Int /\ Visible(k, requests[k]) \in Int
  BY DEF TypeSound, Requests, Visible
<1> QED BY <1>2, <1>3 DEF SettledRequest, Requests, TypeSound

-----------------------------------------------------------------------------
(* The steps *)

\* A configure that fails leaves nothing compiled.
LEMMA FailKeeps ==
    ASSUME Fail, TypeSound'
    PROVE  IInv'
<1>1. step' = "idle" /\ DOMAIN compiled' = {} /\ DOMAIN recorded' = {}
  BY DEF Fail, NoTargets
<1> QED BY <1>1 DEF IInv, ListsSound, RequestsSound, TargetsSound, RecordedIsCompiled, Checked

\* The user's -D options, between two configures.
LEMMA BetweenKeeps ==
    ASSUME IInv, SetOption \/ (\E k \in Kinds : \E value \in RequestInputs[k] :
                                  SetRequest(k, value))
    PROVE  IInv'
<1>1. /\ step = "idle" /\ UNCHANGED <<step, normal, available, compiled, recorded>>
  BY DEF SetOption, SetRequest
<1>2. (requests \in [Kinds -> Requests])'
  <2>1. CASE SetOption
    BY <2>1 DEF SetOption, IInv, TypeSound
  <2>2. ASSUME NEW k \in Kinds, NEW value \in RequestInputs[k], SetRequest(k, value)
        PROVE  requests' \in [Kinds -> Requests]
    <3>1. value \in Int
      BY CudaConfigurationAssumption
    <3> QED BY <2>2, <3>1 DEF SetRequest, IInv, TypeSound, Requests
  <2> QED BY <2>1, <2>2
<1>3. TypeSound'
  BY <1>1, <1>2 DEF IInv, TypeSound
<1>4. RecordedIsCompiled'
  BY <1>1 DEF IInv, RecordedIsCompiled
<1> QED BY <1>1, <1>3, <1>4
        DEF IInv, ListsSound, RequestsSound, TargetsSound, Checked

\* A configure begins, and checks its settings.
LEMMA BeginKeeps ==
    ASSUME IInv, Configure \/ CheckSettings
    PROVE  IInv'
<1>1. TypeSound'
  BY DEF IInv, TypeSound, Configure, CheckSettings, Fail, cached
<1>2. CASE Configure
  BY <1>1, <1>2
     DEF Configure, IInv, ListsSound, RequestsSound, TargetsSound, RecordedIsCompiled, Checked,
         NoTargets
<1>3. CASE CheckSettings /\ ~Fail
  BY <1>1, <1>3
     DEF CheckSettings, ListsForced, IInv, ListsSound, RequestsSound, TargetsSound,
         RecordedIsCompiled, Checked
<1> QED BY <1>1, <1>2, <1>3, FailKeeps

\* A thread request is looked up, and refused or kept.
LEMMA ResolveKeeps ==
    ASSUME IInv, NEW k \in Kinds, ResolveRequest(k)
    PROVE  IInv'
<1>1. PICK env \in RequestInputs[k] \cup {NoValue} :
          requests' = [requests EXCEPT ![k] = SettledRequest(k, env)]
  BY DEF ResolveRequest
<1>2. TypeSound'
  <2>1. SettledRequest(k, env) \in Requests
    BY SettledType DEF IInv
  <2>2. (step \in {"idle", "architecture", "select"})' /\ UNCHANGED <<normal, available>>
    BY DEF ResolveRequest, Fail
  <2> QED BY <1>1, <2>1, <2>2 DEF IInv, TypeSound
<1>3. CASE ~Fail
  <2>1. /\ step = k /\ step' = IF k = "split" THEN "architecture" ELSE "select"
        /\ Visible(k, requests'[k]) \in Choices[k]
        /\ UNCHANGED <<normal, compiled, recorded, options, lists, available>>
    BY <1>3 DEF ResolveRequest
  <2>2. RequestsSound'
    <3>1. CASE k = "split"
      BY <2>1, <3>1 DEF RequestsSound, Visible
    <3>2. CASE k = "architecture"
      <4>1. requests'["split"] = requests["split"]
        BY <1>1, <3>2 DEF IInv, TypeSound, Kinds
      <4> QED BY <2>1, <3>2, <4>1 DEF IInv, RequestsSound, Visible
    <3> QED BY <3>1, <3>2 DEF Kinds
  <2>3. ListsSound' /\ TargetsSound' /\ RecordedIsCompiled'
    BY <2>1 DEF IInv, Kinds, ListsSound, TargetsSound, RecordedIsCompiled, Checked
  <2> QED BY <1>2, <2>2, <2>3 DEF IInv
<1> QED BY <1>2, <1>3, FailKeeps

\* The architectures and the toolchain.
LEMMA SelectKeeps ==
    ASSUME IInv, SelectAdaptive \/ SelectRelease \/ SelectCpuOnly \/ CheckToolchain
    PROVE  IInv'
<1>1. TypeSound'
  BY DEF IInv, TypeSound, SelectAdaptive, SelectRelease, SelectCpuOnly, CheckToolchain, Fail,
         cached, NotAvailable
<1>2. CASE ~Fail
  <2>1. /\ step \in {"select", "toolchain"} /\ step' \in {"toolchain", "targets"}
        /\ UNCHANGED <<options, requests, normal, compiled, recorded>>
    BY <1>2 DEF SelectAdaptive, SelectRelease, SelectCpuOnly, CheckToolchain, cached
  <2>2. ListsSound'
    <3>1. CASE SelectAdaptive
      BY <1>2, <3>1 DEF SelectAdaptive, Adapted, IInv, ListsSound, Checked
    <3>2. CASE SelectRelease
      BY <3>2 DEF SelectRelease, cached, IInv, ListsSound, Checked
    <3>3. CASE SelectCpuOnly
      BY <3>3 DEF SelectCpuOnly, NotAvailable, IInv, ListsSound, Checked
    <3>4. CASE CheckToolchain
      BY <1>2, <3>4 DEF CheckToolchain, IInv, ListsSound, Checked
    <3> QED BY <3>1, <3>2, <3>3, <3>4
  <2>3. RequestsSound'
    BY <2>1 DEF IInv, RequestsSound, Visible
  <2>4. TargetsSound' /\ RecordedIsCompiled'
    BY <2>1 DEF IInv, TargetsSound, RecordedIsCompiled, NoTargets
  <2> QED BY <1>1, <2>2, <2>3, <2>4 DEF IInv
<1> QED BY <1>1, <1>2, FailKeeps

\* The threads of a target, for a cap that is allowed and a request that is one of
\* the choices.
LEMMA EffectiveBounds ==
    ASSUME NEW request \in Nat, NEW cap \in Nat \ {0}
    PROVE  /\ Effective(request, cap) \in 1 .. cap
           /\ request # 0 => Effective(request, cap) <= request
BY DEF Effective

\* A target that gets CUDA code is compiled as the settings say.
LEMMA CodegenSound ==
    ASSUME IInv, step = "targets", available, NEW caps, CapsAllowed(caps)
    PROVE  /\ Codegen(caps).cuda
           /\ Codegen(caps).images = lists.public
           /\ \A k \in Kinds :
                /\ Codegen(caps).threads[k] \in 1 .. Codegen(caps).caps[k]
                /\ Visible(k, requests[k]) # 0 =>
                      Codegen(caps).threads[k] <= Visible(k, requests[k])
<1>1. Codegen(caps).images = lists.public
  <2>1. CASE options.policy = "Release13_2"
    <3>1. lists = ReleaseLists
      BY <2>1 DEF IInv, ListsSound
    <3> QED BY <2>1, <3>1 DEF Codegen, ReleaseLists
  <2>2. CASE options.policy = "Adaptive"
    BY <2>2 DEF IInv, ListsSound, Codegen
  <2> QED BY <2>1, <2>2 DEF IInv, ListsSound, Checked
<1>2. ASSUME NEW k \in Kinds
      PROVE  /\ Codegen(caps).threads[k] \in 1 .. Codegen(caps).caps[k]
             /\ Visible(k, requests[k]) # 0 =>
                   Codegen(caps).threads[k] <= Visible(k, requests[k])
  <2>1. Visible(k, requests[k]) \in Nat
    BY DEF IInv, RequestsSound, Kinds, Choices
  <2>2. Cap(caps[k]) \in Nat \ {0}
    BY DEF CapsAllowed, Kinds, CapChoices
  <2>3. /\ Codegen(caps).threads[k] = Effective(Visible(k, requests[k]), Cap(caps[k]))
        /\ Codegen(caps).caps[k] = Cap(caps[k])
    BY DEF Codegen
  <2> QED BY <2>1, <2>2, <2>3, EffectiveBounds
<1> QED BY <1>1, <1>2 DEF Codegen

\* A target that is compiled as the settings say, after those there are.
LEMMA CompileKeeps ==
    ASSUME IInv, step = "targets", NEW t, NEW how, t \notin DOMAIN compiled, Compile(t, how),
           UNCHANGED <<step, options, requests, normal, lists, available, recorded>>,
           how.cuda <=> options.mode = "CpuCuda",
           how.cuda => /\ how.images = lists.public
                       /\ \A k \in Kinds :
                            /\ how.threads[k] \in 1 .. how.caps[k]
                            /\ Visible(k, requests[k]) # 0 =>
                                  how.threads[k] <= Visible(k, requests[k])
    PROVE  IInv'
<1>1. /\ DOMAIN compiled' = DOMAIN compiled \cup {t} /\ compiled'[t] = how
      /\ \A u \in DOMAIN compiled : compiled'[u] = compiled[u]
  BY DEF Compile
<1>2. ASSUME NEW u \in DOMAIN compiled' PROVE TargetSound(u)'
  <2>1. CASE u = t
    BY <1>1, <2>1 DEF TargetSound, Visible
  <2>2. CASE u # t
    <3>1. u \in DOMAIN compiled /\ compiled'[u] = compiled[u]
      BY <1>1, <2>2
    <3>2. TargetSound(u)
      BY <3>1 DEF IInv, TargetsSound
    <3> QED BY <3>1, <3>2 DEF TargetSound, Visible
  <2> QED BY <2>1, <2>2
<1>3. \A u \in DOMAIN recorded' : recorded'[u] = lists'.public
  BY DEF IInv, TargetsSound
<1>4. RecordedIsCompiled'
  BY <1>2, <1>3 DEF RecordedIsCompiled, TargetSound
<1>5. TypeSound' /\ ListsSound' /\ RequestsSound'
  BY DEF IInv, TypeSound, ListsSound, RequestsSound, Visible
<1> QED BY <1>2, <1>3, <1>4, <1>5 DEF IInv, TargetsSound

\* The targets are configured and recorded.
LEMMA TargetsKeep ==
    ASSUME IInv, NEW t, NEW caps,
           AddOptionalCuda(t, caps) \/ ApplyReleaseCodegen(t, caps) \/ RecordSolverInfo(t)
    PROVE  IInv'
<1>0. step = "targets" /\ UNCHANGED <<options, requests, lists, available, normal>>
  BY DEF AddOptionalCuda, ApplyReleaseCodegen, RecordSolverInfo, cached, Fail
<1>1. CASE Fail
  <2>1. TypeSound'
    BY <1>0, <1>1 DEF Fail, IInv, TypeSound
  <2> QED BY <1>1, <2>1, FailKeeps
<1>2. available <=> options.mode = "CpuCuda"
  BY <1>0 DEF IInv, ListsSound
<1>3. CASE AddOptionalCuda(t, caps) /\ ~Fail
  <2>1. /\ t \notin DOMAIN compiled /\ CapsAllowed(caps) /\ UNCHANGED <<step, recorded>>
        /\ Compile(t, IF available THEN Codegen(caps) ELSE HostOnly)
    BY <1>3 DEF AddOptionalCuda
  <2>2. CASE available
    BY <1>0, <1>2, <2>1, <2>2, CodegenSound, CompileKeeps
  <2>3. CASE ~available
    <3>1. HostOnly.cuda = FALSE
      BY DEF HostOnly
    <3> QED BY <1>0, <1>2, <2>1, <2>3, <3>1, CompileKeeps
  <2> QED BY <2>2, <2>3
<1>4. CASE ApplyReleaseCodegen(t, caps) /\ ~Fail
  <2>1. /\ t \notin DOMAIN compiled /\ CapsAllowed(caps) /\ UNCHANGED <<step, recorded>>
        /\ available /\ Compile(t, Codegen(caps))
    BY <1>4 DEF ApplyReleaseCodegen
  <2> QED BY <1>0, <1>2, <2>1, CodegenSound, CompileKeeps
<1>5. CASE RecordSolverInfo(t)
  <2>1. /\ UNCHANGED <<step, compiled>>
        /\ \A u \in DOMAIN recorded' : recorded'[u] = lists.public
    BY <1>0, <1>5 DEF RecordSolverInfo, IInv, TargetsSound
  <2>2. \A u \in DOMAIN compiled' : TargetSound(u)'
    BY <1>0, <2>1 DEF IInv, TargetsSound, TargetSound, Visible
  <2>3. TargetsSound' /\ RecordedIsCompiled'
    BY <1>0, <2>1, <2>2 DEF TargetsSound, TargetSound, RecordedIsCompiled
  <2>4. TypeSound' /\ ListsSound' /\ RequestsSound'
    BY <1>0, <2>1 DEF IInv, TypeSound, ListsSound, RequestsSound, Visible
  <2> QED BY <2>3, <2>4 DEF IInv
<1> QED BY <1>1, <1>3, <1>4, <1>5

\* Every step keeps the invariant.
LEMMA IInvInductive ==
    ASSUME IInv, [Next]_vars
    PROVE  IInv'
<1>1. CASE Generate
  BY <1>1 DEF Generate, cached, IInv, TypeSound, ListsSound, RequestsSound, TargetsSound,
              RecordedIsCompiled, Checked
<1>2. CASE UNCHANGED vars
  <2>1. TargetsSound' /\ RecordedIsCompiled'
    BY <1>2 DEF vars, IInv, TargetsSound, TargetSound, RecordedIsCompiled, Visible
  <2> QED BY <1>2, <2>1 DEF vars, IInv, TypeSound, ListsSound, RequestsSound, Visible
<1>3. CASE SetOption \/ Configure \/ CheckSettings
  BY <1>3, BetweenKeeps, BeginKeeps
<1>4. ASSUME NEW k \in Kinds,
             ResolveRequest(k) \/ \E value \in RequestInputs[k] : SetRequest(k, value)
      PROVE  IInv'
  BY <1>4, BetweenKeeps, ResolveKeeps
<1>5. CASE SelectAdaptive \/ SelectRelease \/ SelectCpuOnly \/ CheckToolchain
  BY <1>5, SelectKeeps
<1>6. ASSUME NEW t \in Targets,
             \/ RecordSolverInfo(t)
             \/ \E caps \in CapsGiven : AddOptionalCuda(t, caps) \/ ApplyReleaseCodegen(t, caps)
      PROVE  IInv'
  BY <1>6, TargetsKeep
<1> QED BY <1>1, <1>2, <1>3, <1>4, <1>5, <1>6 DEF Next

-----------------------------------------------------------------------------
(* The newest architecture of a list.  A list is finite, and a finite set of  *)
(* numbers has a greatest one: by induction on how many numbers there are.    *)

\* Any numbers have a least one.
LEMMA NatLeast ==
    ASSUME NEW T \in SUBSET Nat, T # {}
    PROVE  \E m \in T : \A k \in T : m <= k
<1> DEFINE R == OpToRel(<, Nat)
<1>1. IsWellFoundedOn(R, Nat)
  BY NatLessThanWellFounded
<1>2. PICK m \in T : \A k \in T : <<k, m>> \notin R
  <2> HIDE DEF R
  <2> QED BY <1>1, WFMin
<1>3. \A k \in T : k \in Nat /\ m \in Nat /\ ~(k < m)
  BY <1>2 DEF OpToRel
<1> QED BY <1>3

HasGreatest(S) == \E n \in S : \A m \in S : n >= m

\* Finitely many numbers have a greatest one: by induction on how many they are.
LEMMA FiniteHasGreatest ==
    ASSUME NEW S \in SUBSET Int, IsFiniteSet(S), S # {}
    PROVE  HasGreatest(S)
<1> DEFINE Without(n) == \E U \in SUBSET Int : /\ IsFiniteSet(U) /\ U # {}
                                              /\ Cardinality(U) = n /\ ~HasGreatest(U)
           Bad == {n \in Nat : Without(n)}
<1>1. SUFFICES ASSUME ~HasGreatest(S) PROVE FALSE
  OBVIOUS
<1>2. Cardinality(S) \in Bad
  BY <1>1, FS_CardinalityType
<1>3. PICK n \in Bad : \A k \in Bad : n <= k
  <2>1. Bad \in SUBSET Nat /\ Bad # {}
    BY <1>2
  <2> HIDE DEF Bad
  <2> QED BY <2>1, NatLeast
<1>4. PICK U \in SUBSET Int : /\ IsFiniteSet(U) /\ U # {}
                             /\ Cardinality(U) = n /\ ~HasGreatest(U)
  BY <1>3
<1>5. PICK x \in U : TRUE
  BY <1>4
<1>6. /\ IsFiniteSet(U \ {x}) /\ U \ {x} \in SUBSET Int
      /\ Cardinality(U \ {x}) = n - 1 /\ n \in Nat /\ n - 1 \in Nat
  <2>1. IsFiniteSet(U \ {x}) /\ Cardinality(U \ {x}) = n - 1
    BY <1>4, <1>5, FS_RemoveElement
  <2>2. Cardinality(U \ {x}) \in Nat
    BY <2>1, FS_CardinalityType
  <2>3. U \ {x} \in SUBSET Int /\ n \in Nat
    BY <1>3, <1>4
  <2> QED BY <2>1, <2>2, <2>3
<1>7. U \ {x} # {}
  <2>1. SUFFICES ASSUME U \ {x} = {} PROVE FALSE
    OBVIOUS
  <2>2. \A m \in U : m = x
    BY <2>1
  <2> QED BY <1>4, <1>5, <2>2 DEF HasGreatest
<1>8. PICK y \in U \ {x} : \A m \in U \ {x} : y >= m
  <2>1. n - 1 \notin Bad
    BY <1>3, <1>6
  <2>2. HasGreatest(U \ {x})
    BY <1>6, <1>7, <2>1
  <2> QED BY <2>2 DEF HasGreatest
<1>9. x \in Int /\ y \in Int /\ \A m \in U : m \in Int /\ (m = x \/ y >= m)
  BY <1>4, <1>5, <1>8
<1>10. CASE x >= y
  <2>1. \A m \in U : x >= m
    BY <1>9, <1>10
  <2> QED BY <1>4, <1>5, <2>1 DEF HasGreatest
<1>11. CASE ~(x >= y)
  <2>1. \A m \in U : y >= m
    BY <1>9, <1>11
  <2> QED BY <1>4, <1>8, <2>1 DEF HasGreatest
<1> QED BY <1>10, <1>11

\* The list of a source that is well formed has a greatest number.
LEMMA HighestIsGreatest ==
    ASSUME NEW list \in SUBSET Items, IsFiniteSet(list), Usable(list) # {}
    PROVE  /\ Numbers(list) \subseteq Int
           /\ Highest(Numbers(list)) \in Numbers(list)
           /\ \A n \in Numbers(list) : n <= Highest(Numbers(list))
<1>1. ASSUME NEW item \in list PROVE Number(item) \in Int
  <2>1. item.major \in Int /\ item.minor \in Int
    BY DEF Items, NoValue
  <2>2. item.major * 10 + item.minor \in Int
    BY <2>1
  <2> QED BY <2>1, <2>2 DEF Number
<1>2. Numbers(list) \in SUBSET Int /\ Numbers(list) # {}
  BY <1>1 DEF Numbers, Usable
<1>3. IsFiniteSet(Numbers(list))
  <2> DEFINE f == [item \in Usable(list) |-> Number(item)]
  <2>1. IsFiniteSet(Usable(list))
    BY FS_Subset DEF Usable
  <2>2. f \in Surjection(Usable(list), Numbers(list))
    BY DEF Surjection, Numbers
  <2> HIDE DEF f
  <2> QED BY <2>1, <2>2, FS_Surjection
<1>4. HasGreatest(Numbers(list))
  BY <1>2, <1>3, FiniteHasGreatest
<1>5. /\ Highest(Numbers(list)) \in Numbers(list)
      /\ \A m \in Numbers(list) : Highest(Numbers(list)) >= m
  BY <1>4 DEF HasGreatest, Highest
<1>6. \A m \in Numbers(list) : m \in Int /\ Highest(Numbers(list)) \in Int
  BY <1>2, <1>5
<1> QED BY <1>2, <1>5, <1>6

-----------------------------------------------------------------------------
(* The lists are those of the settings and of the GPUs of now *)

AdaptiveNow == options.mode = "CpuCuda" /\ options.policy = "Adaptive"

\* Since the architectures were selected the lists are the prepared ones of this
\* configure's source, or the release matrix; the user's lists stay as they are.
Selected ==
    /\ options.adaptive \in AdaptiveLists /\ options.fallback \in FallbackLists
    /\ probed \in Probes \cup {{}}
    /\ step \in {"toolchain", "targets"} =>
          IF AdaptiveNow
          THEN /\ WellFormed(Source(probed))
               /\ lists = Adapted(PreparedLists(Source(probed)))
          ELSE lists = ReleaseLists

\* A source is one of the lists that users, GPUs or the project give.
LEMMA SourceIsList ==
    ASSUME Selected
    PROVE  Source(probed) \in SUBSET Items /\ IsFiniteSet(Source(probed))
<1>1. Source(probed) \in AdaptiveLists \cup FallbackLists \cup Probes \cup {{}}
  BY DEF Selected, Source
<1> QED BY <1>1, CudaConfigurationAssumption, FS_EmptySet

\* Only the selection of this configure sets the lists once the options are settled.
LEMMA SelectedInductive ==
    ASSUME IInv, Selected, [Next]_vars
    PROVE  Selected'
<1>1. CASE UNCHANGED <<options, probed, lists, step>>
  BY <1>1 DEF Selected, AdaptiveNow, Source
<1>2. CASE step' \notin {"toolchain", "targets"} /\ UNCHANGED <<options, probed>>
  BY <1>2 DEF Selected
<1>3. CASE SetOption
  BY <1>3 DEF SetOption, Selected, IInv, TypeSound
<1>4. CASE Configure
  BY <1>4 DEF Configure, cached, Selected
<1>5. CASE CheckSettings
  BY <1>2, <1>5 DEF CheckSettings, Fail, cached
<1>6. ASSUME NEW k \in Kinds, ResolveRequest(k) PROVE Selected'
  BY <1>2, <1>6 DEF ResolveRequest, Fail
<1>7. ASSUME NEW k \in Kinds, NEW value \in RequestInputs[k], SetRequest(k, value)
      PROVE  Selected'
  BY <1>1, <1>7 DEF SetRequest
<1>8. CASE SelectAdaptive
  <2>1. CASE Fail
    BY <1>2, <1>8, <2>1 DEF SelectAdaptive, Fail
  <2>2. CASE ~Fail
    <3>1. PICK list \in IF options.adaptive = {} THEN Probes ELSE {{}} :
              /\ WellFormed(Source(list)) /\ lists' = Adapted(PreparedLists(Source(list)))
              /\ probed' = list /\ step' = "toolchain"
      BY <1>8, <2>2 DEF SelectAdaptive
    <3>2. options' = options /\ options.mode = "CpuCuda" /\ options.policy = "Adaptive"
      BY <1>8 DEF SelectAdaptive
    <3>3. Source(probed)' = Source(list)
      BY <3>1, <3>2 DEF Source
    <3>4. /\ WellFormed(Source(probed)') /\ lists' = Adapted(PreparedLists(Source(probed)'))
      BY <3>1, <3>3
    <3>5. /\ WellFormed(Source(probed))'
          /\ (lists = Adapted(PreparedLists(Source(probed))))'
      BY <3>4 DEF WellFormed, Usable, Adapted, PreparedLists, Numbers, Number, Highest, Real,
                  Virtual
    <3> QED BY <3>1, <3>2, <3>5 DEF Selected, AdaptiveNow
  <2> QED BY <2>1, <2>2
<1>9. CASE SelectRelease
  BY <1>9 DEF SelectRelease, cached, Selected, AdaptiveNow, IInv, ListsSound
<1>10. CASE SelectCpuOnly
  BY <1>10 DEF SelectCpuOnly, Selected, AdaptiveNow, IInv, ListsSound
<1>11. CASE CheckToolchain
  BY <1>2, <1>11 DEF CheckToolchain, Fail, Selected, AdaptiveNow, Source
<1>12. ASSUME NEW t, NEW caps,
              AddOptionalCuda(t, caps) \/ ApplyReleaseCodegen(t, caps) \/ RecordSolverInfo(t)
       PROVE  Selected'
  BY <1>1, <1>2, <1>12 DEF AddOptionalCuda, ApplyReleaseCodegen, RecordSolverInfo, Fail, cached
<1>13. CASE Generate
  BY <1>2, <1>13 DEF Generate, cached
<1>14. CASE UNCHANGED vars
  BY <1>1, <1>14 DEF vars
<1> QED BY <1>3, <1>4, <1>5, <1>6, <1>7, <1>8, <1>9, <1>10, <1>11, <1>12, <1>13, <1>14
        DEF Next

\* What was prepared from a source is an image for each of its numbers, and PTX for
\* the greatest.
LEMMA PreparedIsListed ==
    ASSUME NEW list \in SUBSET Items, IsFiniteSet(list), WellFormed(list)
    PROVE  LET images == PreparedLists(list)
               numbers == {i.number : i \in {j \in images : j.kind = "real"}}
               ptx == images \ {Real(n) : n \in numbers}
           IN  /\ numbers = Numbers(list) /\ Cardinality(ptx) = 1
               /\ \A i \in ptx : i.number \in numbers /\ \A n \in numbers : n <= i.number
<1> DEFINE images == PreparedLists(list)
           numbers == {i.number : i \in {j \in images : j.kind = "real"}}
           ptx == images \ {Real(n) : n \in numbers}
           top == Highest(Numbers(list))
<1>1. top \in Numbers(list) /\ \A n \in Numbers(list) : n <= top
  BY HighestIsGreatest DEF WellFormed
<1>2. images = {Real(n) : n \in Numbers(list)} \cup {Virtual(top)}
  BY DEF PreparedLists
<1>3. /\ \A n : Real(n).kind = "real" /\ Real(n).number = n
      /\ Virtual(top).kind = "virtual" /\ Virtual(top).number = top
  BY DEF Real, Virtual
<1> HIDE DEF images, top
<1>4. {j \in images : j.kind = "real"} = {Real(n) : n \in Numbers(list)}
  BY <1>2, <1>3
<1>5. numbers = Numbers(list)
  BY <1>3, <1>4
<1> HIDE DEF numbers
<1>6. ptx = {Virtual(top)}
  <2>1. \A n : Virtual(top) # Real(n)
    BY <1>3
  <2> QED BY <1>2, <1>5, <2>1
<1>7. Cardinality(ptx) = 1
  BY <1>6, FS_Singleton
<1> QED BY <1>1, <1>3, <1>5, <1>6, <1>7 DEF images, numbers

\* The source of a well formed list is the first that has any item.
LEMMA SourceIsFirst ==
    ASSUME WellFormed(Source(probed))
    PROVE  Source(probed) =
               CHOOSE l \in {options.adaptive, probed, options.fallback} :
                   \/ l = options.adaptive /\ l # {}
                   \/ options.adaptive = {} /\ l = probed /\ l # {}
                   \/ options.adaptive = {} /\ probed = {} /\ l = options.fallback
<1>1. \A l \in {options.adaptive, probed, options.fallback} :
          (\/ l = options.adaptive /\ l # {}
           \/ options.adaptive = {} /\ l = probed /\ l # {}
           \/ options.adaptive = {} /\ probed = {} /\ l = options.fallback)
              <=> l = Source(probed)
  BY DEF Source
<1>2. Source(probed) \in {options.adaptive, probed, options.fallback}
  BY DEF Source
<1> QED BY <1>1, <1>2

-----------------------------------------------------------------------------
(* The theorems *)

\* What a configure has settled holds at each of its steps, after any configures.
THEOREM Invariance == Spec => []IInv
<1>1. Init => IInv
  <2> SUFFICES ASSUME Init PROVE IInv
    OBVIOUS
  <2>1. step = "idle" /\ DOMAIN compiled = {} /\ normal \in [Kinds -> Int]
    BY CudaConfigurationAssumption DEF Init, NoTargets
  <2>2. TypeSound
    <3>1. -1 \in Int
      OBVIOUS
    <3>2. Absent \in Requests
      BY <3>1 DEF Requests, Absent, NoValue
    <3> QED BY <2>1, <3>2 DEF Init, TypeSound
  <2> QED BY <2>1, <2>2
          DEF IInv, ListsSound, RequestsSound, TargetsSound, RecordedIsCompiled, Checked
<1>2. IInv /\ [Next]_vars => IInv'
  BY IInvInductive
<1> QED BY <1>1, <1>2, PTL DEF Spec

\* The solver info of a target names the architectures the target is compiled for:
\* every configure that comes to its targets has replaced all the lists together.
THEOREM RecordedCorrect == Spec => []RecordedIsCompiled
<1>1. IInv => RecordedIsCompiled
  BY DEF IInv
<1> QED BY <1>1, Invariance, PTL

\* A target has CUDA code exactly in the mode that asks for it: the entry of an
\* earlier configure is overwritten on each way to the targets.
THEOREM ModeCorrect == Spec => []TargetsFollowTheMode
<1>1. IInv => TargetsFollowTheMode
  BY DEF IInv, TargetsSound, TargetSound, TargetsFollowTheMode
<1> QED BY <1>1, Invariance, PTL

\* nvcc gets at least one thread, and no more than the target's cap or than were
\* asked for.
THEOREM ThreadsCorrect == Spec => []ThreadsAreWithinCaps
<1>1. IInv => ThreadsAreWithinCaps
  BY DEF IInv, TargetsSound, TargetSound, ThreadsAreWithinCaps
<1> QED BY <1>1, Invariance, PTL

\* During a configure a cached request keeps its value, whatever the environment.
THEOREM RequestsCorrect == Spec => RequestsAreKept
<1> DEFINE Kept == \A k \in Kinds :
                      requests[k].type # "none" /\ normal[k] = NoValue /\ step # "idle"
                          => requests'[k].value = requests[k].value
<1>1. ASSUME IInv, [Next]_vars PROVE Kept
  <2> SUFFICES ASSUME NEW k \in Kinds, requests[k].type # "none", normal[k] = NoValue,
                      step # "idle"
               PROVE  requests'[k].value = requests[k].value
    OBVIOUS
  <2>1. CASE UNCHANGED requests
    BY <2>1
  <2>2. ASSUME NEW l \in Kinds, ResolveRequest(l)
        PROVE  requests'[k].value = requests[k].value
    <3>1. PICK env \in RequestInputs[l] \cup {NoValue} :
              requests' = [requests EXCEPT ![l] = SettledRequest(l, env)]
      BY <2>2 DEF ResolveRequest
    <3>2. CASE k = l
      <4>1. requests'[k] = SettledRequest(k, env)
        BY <1>1, <3>1, <3>2 DEF IInv, TypeSound
      <4> QED BY <1>1, <4>1, SettledKeeps DEF IInv
    <3>3. CASE k # l
      BY <1>1, <3>1, <3>3 DEF IInv, TypeSound
    <3> QED BY <3>2, <3>3
  <2> QED BY <1>1, <2>1, <2>2
          DEF Next, vars, cached, SetOption, SetRequest, Configure, CheckSettings, SelectAdaptive,
              SelectRelease, SelectCpuOnly, CheckToolchain, AddOptionalCuda,
              ApplyReleaseCodegen, RecordSolverInfo, Generate
<1>2. IInv /\ [Next]_vars => Kept
  BY <1>1
<1> QED BY <1>2, Invariance, PTL DEF Spec, RequestsAreKept

\* When targets are configured the lists are the release matrix, or under the
\* adaptive policy those of the first source that has any, whatever an earlier
\* configure selected or probed: PTX goes to the greatest number of a finite list.
THEOREM ListsCorrect == Spec => []ListsAreOfThisConfigure
<1>1. Init => Selected
  BY CudaConfigurationAssumption DEF Init, Selected
<1>2. IInv /\ Selected /\ [Next]_vars => Selected'
  BY SelectedInductive
<1>3. Selected => ListsAreOfThisConfigure
  <2> SUFFICES ASSUME Selected, step = "targets" PROVE ListsAreOfThisConfigure
    BY DEF ListsAreOfThisConfigure
  <2>1. CASE AdaptiveNow
    <3>1. /\ WellFormed(Source(probed))
          /\ lists.public = PreparedLists(Source(probed))
      BY <2>1 DEF Selected, Adapted
    <3>2. Source(probed) \in SUBSET Items /\ IsFiniteSet(Source(probed))
      BY SourceIsList
    <3> QED BY <2>1, <3>1, <3>2, PreparedIsListed, SourceIsFirst
            DEF ListsAreOfThisConfigure, AdaptiveNow
  <2>2. CASE ~AdaptiveNow
    BY <2>2 DEF Selected, AdaptiveNow, ListsAreOfThisConfigure
  <2> QED BY <2>1, <2>2
<1> QED BY <1>1, <1>2, <1>3, Invariance, PTL DEF Spec

=============================================================================
