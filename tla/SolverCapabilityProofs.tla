------------------------ MODULE SolverCapabilityProofs ------------------------
(***************************************************************************)
(* For every set of targets, aliases and links: a target's solver info     *)
(* never contradicts the capability the target publishes, and the walk at  *)
(* the end of a directory refuses a solver exactly when it contradicts     *)
(* something it links.                                                     *)
(***************************************************************************)
EXTENDS SolverCapability, FiniteSetTheorems, WellFoundedInduction, TLAPS

(* Both the metadata and the published capability of a target are the      *)
(* value of one property, which no call changes once it is set.            *)
CapabilityDecides ==
    \A t \in Targets :
        /\ metadata[t] # NotSet => metadata[t] = capability[t]
        /\ published[t] # NotSet => published[t] = capability[t]

IInv == TypeOK /\ CapabilityDecides

(* Nothing is set before the first command. *)
LEMMA InitEstablishes == Init => IInv
<1> SUFFICES ASSUME Init PROVE IInv
    OBVIOUS
<1>1. TypeOK
    BY DEF Init, TypeOK, Running, NotSet
<1>2. CapabilityDecides
    BY DEF Init, CapabilityDecides
<1> QED BY <1>1, <1>2 DEF IInv

(* Each command keeps the types and the agreement: the two that set the    *)
(* property refuse to change a value that is already there.                *)
LEMMA NextPreserves == IInv /\ [Next]_vars => IInv'
<1> SUFFICES ASSUME IInv, [Next]_vars PROVE IInv'
    OBVIOUS
<1> USE DEF IInv, TypeOK, Running, Can, Here, Directories, NotSet
<1>1. ASSUME NEW t \in Targets, Create(t) PROVE IInv'
    BY <1>1 DEF Create, properties, CapabilityDecides
<1>2. ASSUME NEW t \in Targets, MarkRestricted(t) PROVE IInv'
    BY <1>2 DEF MarkRestricted, properties, CapabilityDecides
<1>3. ASSUME NEW t \in Targets, NEW item \in Items, TargetLinkLibraries(t, item)
      PROVE  IInv'
    BY <1>3 DEF TargetLinkLibraries, properties, CapabilityDecides
<1>4. ASSUME NEW how \in {"failed", "rejected"}, Abort(how) PROVE IInv'
    BY <1>4 DEF Abort, properties, CapabilityDecides
<1>5. ASSUME NEW t \in Targets, AddOptionalCuda(t) PROVE IInv'
  <2>1. CASE Abort("failed")
    BY <2>1, <1>4
  <2>2. CASE ~Abort("failed")
    <3>1. available[Here] \in {0, 1}
        OBVIOUS
    <3>2. TypeOK'
        BY <1>5, <2>2, <3>1 DEF AddOptionalCuda
    <3>3. CapabilityDecides'
        BY <1>5, <2>2, <3>1 DEF AddOptionalCuda, ConflictsWithOwn, CapabilityDecides
    <3> QED BY <3>2, <3>3
  <2> QED BY <2>1, <2>2
<1>6. ASSUME NEW t \in Targets, NEW hasCuda \in {0, 1}, ConfigureSolverInfo(t, hasCuda)
      PROVE  IInv'
  <2>1. CASE Abort("failed")
    BY <2>1, <1>4
  <2>2. CASE ~Abort("failed")
    <3>1. TypeOK'
        BY <1>6, <2>2 DEF ConfigureSolverInfo, DeferredCall
    <3>2. CapabilityDecides'
        BY <1>6, <2>2 DEF ConfigureSolverInfo, ConflictsWithOwn, CapabilityDecides
    <3> QED BY <3>1, <3>2
  <2> QED BY <2>1, <2>2
<1>7. CASE EnterChild
    BY <1>7 DEF EnterChild, properties, CapabilityDecides
<1>8. CASE EndDirectory
    BY <1>8 DEF EndDirectory, properties, CapabilityDecides
<1>9. CASE UNCHANGED vars
    BY <1>9 DEF vars, properties, CapabilityDecides
<1> QED BY <1>1, <1>2, <1>3, <1>5, <1>6, <1>7, <1>8, <1>9 DEF Next

(* In every configure, of any project: the types and the agreement. *)
THEOREM Invariance == Spec => []IInv
BY InitEstablishes, NextPreserves, PTL DEF Spec

(* A target that publishes a capability and declares solver info has the   *)
(* same capability in both, in whichever order and from whichever          *)
(* directories the two calls were made.                                    *)
THEOREM MetadataCorrect == Spec => []MetadataMatchesOwnCode
<1>1. IInv => MetadataMatchesOwnCode
    BY DEF IInv, CapabilityDecides, MetadataMatchesOwnCode
<1> QED BY <1>1, Invariance, PTL

------------------------------------------------------------------------------
(* A walk over a finite graph: T are the nodes, next[t] the successors of  *)
(* t, bad the nodes that are refused.  Each branch carries the nodes it    *)
(* has come through and stops at one of them.                              *)

(* The nodes where a branch that came through V is refused. *)
WalkStep(f, T, bad, next, V) ==
    {t \in T \ V : t \in bad \/ \E w \in next[t] : w \in f[V \cup {t}]}

IsWalk(f, T, bad, next) == f = [V \in SUBSET T |-> WalkStep(f, T, bad, next, V)]

(* Any numbers have a least one. *)
LEMMA NatLeast ==
    ASSUME NEW N \in SUBSET Nat, N # {}
    PROVE  \E m \in N : \A k \in N : m <= k
<1> DEFINE R == OpToRel(<, Nat)
<1>1. IsWellFoundedOn(R, Nat)
    BY NatLessThanWellFounded
<1>2. PICK m \in N : \A k \in N : <<k, m>> \notin R
  <2> HIDE DEF R
  <2> QED BY <1>1, WFMin
<1>3. \A k \in N : k \in Nat /\ m \in Nat /\ ~(k < m)
    BY <1>2 DEF OpToRel
<1> QED BY <1>3

(* How many nodes a branch has not come through, and one less after t. *)
LEMMA OneLess ==
    ASSUME NEW T, IsFiniteSet(T), NEW V \in SUBSET T, NEW t \in T \ V
    PROVE  /\ V \cup {t} \in SUBSET T
           /\ Cardinality(T \ V) \in Nat /\ Cardinality(T \ (V \cup {t})) \in Nat
           /\ Cardinality(T \ (V \cup {t})) = Cardinality(T \ V) - 1
<1>1. IsFiniteSet(T \ V)
    BY FS_Subset
<1>2. T \ (V \cup {t}) = (T \ V) \ {t}
    OBVIOUS
<1>3. /\ IsFiniteSet((T \ V) \ {t})
      /\ Cardinality((T \ V) \ {t}) = Cardinality(T \ V) - 1
    BY <1>1, FS_RemoveElement
<1> QED BY <1>1, <1>2, <1>3, FS_CardinalityType

(* There is such a walk, whatever cycles the graph has: each branch comes  *)
(* to its end, by induction on the nodes it has not come through.          *)
LEMMA WalkExists ==
    ASSUME NEW T, IsFiniteSet(T), NEW bad, NEW next
    PROVE  \E f : IsWalk(f, T, bad, next)
<1> DEFINE Left(n) == {V \in SUBSET T : Cardinality(T \ V) <= n}
           Upto(n) == \E f : f = [V \in Left(n) |-> WalkStep(f, T, bad, next, V)]
           Fails == {n \in Nat : ~Upto(n)}
<1>1. SUFFICES ASSUME Fails # {} PROVE FALSE
  <2>1. Cardinality(T) \in Nat
    BY FS_CardinalityType
  <2>2. Left(Cardinality(T)) = SUBSET T
    BY FS_Subset
  <2>3. Upto(Cardinality(T))
    BY <2>1
  <2> HIDE DEF Left, Fails
  <2> QED BY <2>2, <2>3 DEF IsWalk
<1>2. PICK n \in Fails : \A k \in Fails : n <= k
  <2>1. Fails \in SUBSET Nat
    OBVIOUS
  <2> HIDE DEF Fails
  <2> QED BY <1>1, <2>1, NatLeast
<1>3. n \in Nat
    BY <1>2
<1>4. PICK g : n # 0 => g = [V \in Left(n - 1) |-> WalkStep(g, T, bad, next, V)]
  <2>1. CASE n = 0
    BY <2>1
  <2>2. CASE n # 0
    <3>1. n - 1 \in Nat /\ ~(n <= n - 1)
      BY <1>3, <2>2
    <3>2. Upto(n - 1)
      BY <1>2, <3>1
    <3> QED BY <3>2
  <2> QED BY <2>1, <2>2
<1> DEFINE h == [V \in Left(n) |-> WalkStep(g, T, bad, next, V)]
<1>5. ASSUME NEW V \in Left(n), NEW t \in T \ V
      PROVE  h[V \cup {t}] = g[V \cup {t}]
  <2>1. /\ V \cup {t} \in SUBSET T
        /\ Cardinality(T \ V) \in Nat /\ Cardinality(T \ (V \cup {t})) \in Nat
        /\ Cardinality(T \ (V \cup {t})) = Cardinality(T \ V) - 1
    BY OneLess
  <2>2. Cardinality(T \ V) <= n
    OBVIOUS
  <2>3. /\ n # 0 /\ Cardinality(T \ (V \cup {t})) <= n - 1
        /\ Cardinality(T \ (V \cup {t})) <= n
    BY <1>3, <2>1, <2>2
  <2>4. V \cup {t} \in Left(n - 1) /\ V \cup {t} \in Left(n)
    BY <2>1, <2>3
  <2>5. h[V \cup {t}] = WalkStep(g, T, bad, next, V \cup {t})
    BY <2>4
  <2>6. g[V \cup {t}] = WalkStep(g, T, bad, next, V \cup {t})
    <3> HIDE DEF Left
    <3> QED BY <1>4, <2>3, <2>4
  <2> QED BY <2>5, <2>6
<1>6. ASSUME NEW V \in Left(n)
      PROVE  WalkStep(g, T, bad, next, V) = WalkStep(h, T, bad, next, V)
  <2> HIDE DEF h, Left
  <2> QED BY <1>5 DEF WalkStep
<1>7. h = [V \in Left(n) |-> WalkStep(h, T, bad, next, V)]
  <2> HIDE DEF Left
  <2> QED BY <1>6
<1>8. Upto(n)
  <2> HIDE DEF h, Left
  <2> QED BY <1>7
<1> QED BY <1>2, <1>8

(* A branch that is refused shows a refused node in every set that holds   *)
(* where it starts and the successors of its members.                      *)
LEMMA WalkSound ==
    ASSUME NEW T, IsFiniteSet(T), NEW bad, NEW next, NEW f, IsWalk(f, T, bad, next),
           NEW S \in SUBSET T, \A v \in S : next[v] \subseteq S, S \cap bad = {},
           NEW t \in S
    PROVE  t \notin f[{}]
<1> DEFINE Refuses(n) == \E V \in SUBSET T : /\ Cardinality(T \ V) = n
                                             /\ f[V] \cap S # {}
           Fails == {n \in Nat : Refuses(n)}
<1>1. SUFFICES ASSUME t \in f[{}] PROVE FALSE
    OBVIOUS
<1>2. Cardinality(T \ {}) \in Fails
  <2>1. T \ {} = T /\ {} \in SUBSET T
    OBVIOUS
  <2>2. Cardinality(T \ {}) \in Nat
    BY <2>1, FS_CardinalityType
  <2>3. f[{}] \cap S # {}
    BY <1>1
  <2> QED BY <2>1, <2>2, <2>3
<1>3. PICK n \in Fails : \A k \in Fails : n <= k
  <2>1. Fails \in SUBSET Nat /\ Fails # {}
    BY <1>2
  <2> HIDE DEF Fails
  <2> QED BY <2>1, NatLeast
<1>4. PICK V \in SUBSET T : Cardinality(T \ V) = n /\ f[V] \cap S # {}
    BY <1>3
<1>5. PICK u \in S : u \in f[V]
    BY <1>4
<1>6. f[V] = WalkStep(f, T, bad, next, V)
    BY DEF IsWalk
<1>7. u \in T \ V /\ \E w \in next[u] : w \in f[V \cup {u}]
    BY <1>5, <1>6 DEF WalkStep
<1>8. f[V \cup {u}] \cap S # {}
    BY <1>5, <1>7
<1>9. /\ V \cup {u} \in SUBSET T /\ n \in Nat
      /\ Cardinality(T \ (V \cup {u})) \in Nat
      /\ Cardinality(T \ (V \cup {u})) = n - 1
    BY <1>4, <1>7, OneLess
<1>10. n - 1 \in Fails
    BY <1>8, <1>9
<1> QED BY <1>3, <1>9, <1>10

(* A set without a refused node that holds the successors of its members,  *)
(* but for those a branch has come through.                                *)
Spares(S, bad, next, V) ==
    S \cap bad = {} /\ \A v \in S : next[v] \subseteq S \cup V

(* A branch that is not refused leaves such a set that holds its start:    *)
(* the branches it divides into do, and their sets together with the node  *)
(* where it divides are one.                                               *)
LEMMA WalkComplete ==
    ASSUME NEW T, IsFiniteSet(T), NEW bad, NEW next, NEW f, IsWalk(f, T, bad, next),
           \A v \in T : next[v] \subseteq T,
           NEW r \in T, r \notin f[{}]
    PROVE  \E S \in SUBSET T : r \in S /\ Spares(S, bad, next, {})
<1> DEFINE Spared(V, t) == \E S \in SUBSET T : t \in S /\ Spares(S, bad, next, V)
           Misses(n) == \E V \in SUBSET T : \E t \in T \ V :
                            /\ Cardinality(T \ V) = n
                            /\ t \notin f[V] /\ ~Spared(V, t)
           Fails == {n \in Nat : Misses(n)}
<1>1. SUFFICES ASSUME ~Spared({}, r) PROVE FALSE
    OBVIOUS
<1>2. Cardinality(T \ {}) \in Fails
  <2>1. T \ {} = T /\ {} \in SUBSET T
    OBVIOUS
  <2>2. Cardinality(T \ {}) \in Nat
    BY <2>1, FS_CardinalityType
  <2> HIDE DEF Spared
  <2> QED BY <1>1, <2>1, <2>2
<1>3. PICK n \in Fails : \A k \in Fails : n <= k
  <2>1. Fails \in SUBSET Nat /\ Fails # {}
    BY <1>2
  <2> HIDE DEF Fails
  <2> QED BY <2>1, NatLeast
<1> HIDE DEF Spared
<1>4. PICK V \in SUBSET T : \E t \in T \ V :
          Cardinality(T \ V) = n /\ t \notin f[V] /\ ~Spared(V, t)
    BY <1>3
<1>5. PICK t \in T \ V : Cardinality(T \ V) = n /\ t \notin f[V] /\ ~Spared(V, t)
    BY <1>4
<1> USE DEF Spared
<1>6. f[V] = WalkStep(f, T, bad, next, V)
    BY DEF IsWalk
<1>7. t \notin bad /\ \A w \in next[t] : w \notin f[V \cup {t}]
    BY <1>5, <1>6 DEF WalkStep
<1>8. /\ V \cup {t} \in SUBSET T /\ n \in Nat
      /\ Cardinality(T \ (V \cup {t})) \in Nat
      /\ Cardinality(T \ (V \cup {t})) = n - 1
    BY <1>5, OneLess
<1>9. \A w \in next[t] : w \in V \cup {t} \/ Spared(V \cup {t}, w)
  <2> SUFFICES ASSUME NEW w \in next[t], w \notin V \cup {t}, ~Spared(V \cup {t}, w)
               PROVE  FALSE
    OBVIOUS
  <2>1. w \in T \ (V \cup {t}) /\ w \notin f[V \cup {t}]
    BY <1>5, <1>7
  <2> HIDE DEF Spared
  <2>2. n - 1 \in Fails
    BY <1>8, <2>1
  <2> HIDE DEF Fails
  <2> QED BY <1>3, <1>8, <2>2
<1> DEFINE G == UNION {S \in SUBSET T : Spares(S, bad, next, V \cup {t})}
<1>10. G \in SUBSET T /\ G \cap bad = {} /\ \A v \in G : next[v] \subseteq G \cup V \cup {t}
  <2>1. ASSUME NEW v \in G
        PROVE  v \in T /\ v \notin bad /\ next[v] \subseteq G \cup V \cup {t}
    <3>1. PICK S \in SUBSET T : Spares(S, bad, next, V \cup {t}) /\ v \in S
      OBVIOUS
    <3>2. S \subseteq G
      BY <3>1
    <3>3. v \notin bad /\ next[v] \subseteq S \cup V \cup {t}
      BY <3>1 DEF Spares
    <3> HIDE DEF G
    <3> QED BY <3>1, <3>2, <3>3
  <2> HIDE DEF G
  <2> QED BY <2>1
<1>11. next[t] \subseteq G \cup V \cup {t}
    BY <1>9
<1> HIDE DEF G
<1>12. /\ G \cup {t} \in SUBSET T /\ Spares(G \cup {t}, bad, next, V)
    BY <1>5, <1>7, <1>10, <1>11 DEF Spares
<1>13. Spared(V, t)
    BY <1>12
<1> QED BY <1>5, <1>13

------------------------------------------------------------------------------
(* The walk of a configure *)

(* What a solver's walk refuses, and where it goes on from a target. *)
BadFor(expected, isRestricted) == {u \in Targets : Refused(u, expected, isRestricted)}
NextOf == [v \in Targets |-> TargetsOf(InterfaceLinkLibraries(v))]

(* What link items name, said twice. *)
LEMMA TargetsOfItems ==
    ASSUME TypeOK, NEW items \in SUBSET Items
    PROVE  /\ TargetsOf(items) \subseteq created
           /\ \A w : w \in TargetsOf(items) <=>
                  \E i \in items : IsTarget(ItemName(i)) /\ w = Resolve(ItemName(i))
BY DEF TargetsOf, IsTarget, ItemName, Items

(* The deferred validation of a linked target is such a walk. *)
LEMMA DependencyWalk ==
    ASSUME TypeOK, NEW expected, NEW isRestricted
    PROVE  \E f : /\ IsWalk(f, Targets, BadFor(expected, isRestricted), NextOf)
                  /\ \A name : DependencyRefused(name, expected, isRestricted) <=>
                                   IsTarget(name) /\ Resolve(name) \in f[{}]
<1> DEFINE Body(f) == [visited \in SUBSET Targets |->
              {t \in Targets \ visited :
                  \/ Refused(t, expected, isRestricted)
                  \/ \E item \in InterfaceLinkLibraries(t) :
                         /\ IsTarget(ItemName(item))
                         /\ Resolve(ItemName(item)) \in f[visited \cup {t}]}]
           refusing == CHOOSE f : f = Body(f)
           bad == BadFor(expected, isRestricted)
<1>1. \A name : DependencyRefused(name, expected, isRestricted) <=>
                    IsTarget(name) /\ Resolve(name) \in refusing[{}]
    BY DEF DependencyRefused
<1>2. ASSUME NEW f PROVE IsWalk(f, Targets, bad, NextOf) <=> f = Body(f)
  <2>1. ASSUME NEW V \in SUBSET Targets
        PROVE  WalkStep(f, Targets, bad, NextOf, V) = Body(f)[V]
    <3>1. ASSUME NEW t \in Targets
          PROVE  (\E w \in NextOf[t] : w \in f[V \cup {t}]) <=>
                     \E item \in InterfaceLinkLibraries(t) :
                         /\ IsTarget(ItemName(item))
                         /\ Resolve(ItemName(item)) \in f[V \cup {t}]
      <4>1. InterfaceLinkLibraries(t) \in SUBSET Items
        BY DEF InterfaceLinkLibraries, TypeOK
      <4>2. NextOf[t] = TargetsOf(InterfaceLinkLibraries(t))
        BY DEF NextOf
      <4> QED BY <4>1, <4>2, TargetsOfItems
    <3>2. \A t \in Targets : t \in bad <=> Refused(t, expected, isRestricted)
      BY DEF BadFor
    <3> HIDE DEF bad
    <3> QED BY <3>1, <3>2 DEF WalkStep
  <2>2. Body(f) = [V \in SUBSET Targets |-> Body(f)[V]]
    OBVIOUS
  <2> HIDE DEF Body
  <2>3. Body(f) = [V \in SUBSET Targets |-> WalkStep(f, Targets, bad, NextOf, V)]
    BY <2>1, <2>2
  <2> QED BY <2>3 DEF IsWalk
<1>3. \E f : IsWalk(f, Targets, bad, NextOf)
    BY WalkExists, SolverCapabilityAssumption
<1> HIDE DEF Body, bad
<1>4. refusing = Body(refusing)
    BY <1>2, <1>3
<1> HIDE DEF refusing
<1>5. IsWalk(refusing, Targets, bad, NextOf)
    BY <1>2, <1>4
<1> QED BY <1>1, <1>5 DEF bad

(* The validation of a solver refuses exactly what contradicts the least   *)
(* set of targets that it links.                                           *)
LEMMA WalkDecides ==
    ASSUME TypeOK, NEW t \in Targets, NEW expected
    PROVE  LinkedRefused(t, expected) <=>
               \E u \in Linked(t) : Refused(u, expected, t \in restricted)
<1> DEFINE bad == BadFor(expected, t \in restricted)
           roots == TargetsOf(LinkLibraries(t))
           HoldsAll(S) == /\ roots \subseteq S
                          /\ \A v \in S : TargetsOf(InterfaceLinkLibraries(v)) \subseteq S
<1>1. PICK f : /\ IsWalk(f, Targets, bad, NextOf)
               /\ \A name : DependencyRefused(name, expected, t \in restricted) <=>
                                IsTarget(name) /\ Resolve(name) \in f[{}]
    BY DependencyWalk
<1>2. LinkedRefused(t, expected) <=> \E r \in roots : r \in f[{}]
  <2>1. LinkLibraries(t) \in SUBSET Items
    BY DEF LinkLibraries, TypeOK
  <2> QED BY <1>1, <2>1, TargetsOfItems DEF LinkedRefused
<1>3. Linked(t) = {u \in created : \A S \in SUBSET created : HoldsAll(S) => u \in S}
    BY DEF Linked
<1>4. /\ created \subseteq Targets /\ roots \subseteq created
      /\ \A v \in Targets : /\ NextOf[v] = TargetsOf(InterfaceLinkLibraries(v))
                             /\ NextOf[v] \subseteq created
    BY DEF TypeOK, TargetsOf, NextOf
<1>5. \A u \in Targets : u \in bad <=> Refused(u, expected, t \in restricted)
    BY DEF BadFor
<1> HIDE DEF bad, roots
<1>6. Linked(t) \in SUBSET created /\ HoldsAll(Linked(t))
  <2>1. roots \subseteq Linked(t)
    BY <1>3, <1>4
  <2>2. ASSUME NEW v \in Linked(t), NEW w \in TargetsOf(InterfaceLinkLibraries(v))
        PROVE  w \in Linked(t)
    <3>1. w \in created
      BY DEF TargetsOf
    <3>2. ASSUME NEW S \in SUBSET created, HoldsAll(S) PROVE w \in S
      <4>1. v \in S
        BY <1>3, <3>2
      <4> QED BY <3>2, <4>1
    <3> HIDE DEF HoldsAll
    <3> QED BY <1>3, <3>1, <3>2
  <2> QED BY <1>3, <2>1, <2>2
<1>7. ASSUME NEW r \in roots, r \in f[{}]
      PROVE  \E u \in Linked(t) : Refused(u, expected, t \in restricted)
  <2>1. /\ Linked(t) \in SUBSET Targets /\ r \in Linked(t)
        /\ \A v \in Linked(t) : NextOf[v] \subseteq Linked(t)
    BY <1>4, <1>6
  <2>2. Linked(t) \cap bad # {}
    BY <1>1, <1>7, <2>1, WalkSound, SolverCapabilityAssumption
  <2> QED BY <1>5, <2>1, <2>2
<1>8. ASSUME \A r \in roots : r \notin f[{}],
             NEW u \in Linked(t), Refused(u, expected, t \in restricted)
      PROVE  FALSE
  <2> DEFINE G == UNION {S \in SUBSET Targets : Spares(S, bad, NextOf, {})}
  <2>1. ASSUME NEW v \in G PROVE v \in Targets /\ v \notin bad /\ NextOf[v] \subseteq G
    <3>1. PICK S \in SUBSET Targets : Spares(S, bad, NextOf, {}) /\ v \in S
      OBVIOUS
    <3>2. S \subseteq G
      BY <3>1
    <3>3. v \notin bad /\ NextOf[v] \subseteq S
      BY <3>1 DEF Spares
    <3> HIDE DEF G
    <3> QED BY <3>1, <3>2, <3>3
  <2>2. ASSUME NEW r \in roots PROVE r \in G
    <3>1. r \in Targets /\ r \notin f[{}] /\ \A v \in Targets : NextOf[v] \subseteq Targets
      BY <1>4, <1>8
    <3>2. \E S \in SUBSET Targets : r \in S /\ Spares(S, bad, NextOf, {})
      BY <1>1, <3>1, WalkComplete, SolverCapabilityAssumption
    <3> QED BY <3>2
  <2> HIDE DEF G
  <2>3. G \cap created \in SUBSET created /\ HoldsAll(G \cap created)
    BY <1>4, <2>1, <2>2
  <2>4. u \in G
    <3> HIDE DEF HoldsAll
    <3> QED BY <1>3, <1>8, <2>3
  <2>5. u \in bad
    BY <1>4, <1>5, <1>6, <1>8
  <2> QED BY <2>1, <2>4, <2>5
<1> QED BY <1>2, <1>7, <1>8

(* What the README allows is what the validation does not refuse. *)
LEMMA CompatibleIsNotRefused ==
    ASSUME TypeOK, NEW t \in Targets, NEW u \in Targets, NEW declared \in {0, 1}
    PROVE  Compatible(t, declared, u) <=> ~Refused(u, declared, t \in restricted)
BY DEF Compatible, Refused, TypeOK, NotSet

(* A directory ends well exactly when none of its solvers contradicts what *)
(* it links.                                                               *)
LEMMA DirectoryEnds ==
    ASSUME TypeOK, NEW d \in Directories
    PROVE  (\E call \in deferred[d] : LinkedRefused(call.target, call.expected)) <=>
               \E call \in deferred[d] : \E u \in Linked(call.target) :
                   ~Compatible(call.target, call.expected, u)
<1> SUFFICES ASSUME NEW call \in deferred[d]
             PROVE  LinkedRefused(call.target, call.expected) <=>
                        \E u \in Linked(call.target) :
                            ~Compatible(call.target, call.expected, u)
    OBVIOUS
<1>1. call.target \in Targets /\ call.expected \in {0, 1}
    BY DEF TypeOK
<1>2. Linked(call.target) \subseteq Targets
    BY DEF Linked, TypeOK
<1>3. \A u \in Linked(call.target) :
          Compatible(call.target, call.expected, u) <=>
              ~Refused(u, call.expected, call.target \in restricted)
    BY <1>1, <1>2, CompatibleIsNotRefused
<1> QED BY <1>1, <1>3, WalkDecides

(* The steps that end a directory, or a configure. *)
LEMMA StageChanges ==
    ASSUME TypeOK, [Next]_vars, stage' # stage
    PROVE  \/ EndDirectory
           \/ stage' = "child" \/ stage' = "failed"
BY DEF Next, vars, Create, MarkRestricted, AddOptionalCuda, TargetLinkLibraries,
       ConfigureSolverInfo, Abort, EnterChild

(* No solver whose declared capability contradicts a target that it links, *)
(* over any links, aliases and cycles, gets past the end of the directory  *)
(* that declared it.                                                       *)
THEOREM MismatchesCorrect == Spec => MismatchesAreRejected
<1>1. ASSUME IInv, [Next]_vars, stage' # stage, stage' \in {"after", "configured"}
      PROVE  \A call \in deferred[Here] : \A u \in Linked(call.target) :
                Compatible(call.target, call.expected, u)
  <2>1. EndDirectory /\ TypeOK /\ Here \in Directories
    BY <1>1, StageChanges DEF IInv, Here, Directories
  <2>2. ~\E call \in deferred[Here] : LinkedRefused(call.target, call.expected)
    BY <1>1, <2>1 DEF EndDirectory
  <2> QED BY <2>1, <2>2, DirectoryEnds
<1>2. IInv /\ [Next]_vars =>
        (stage' # stage /\ stage' \in {"after", "configured"}
            => \A call \in deferred[Here] : \A u \in Linked(call.target) :
                  Compatible(call.target, call.expected, u))
    BY <1>1
<1> QED BY <1>2, Invariance, PTL DEF Spec, MismatchesAreRejected

(* The end of a directory refuses a configure only for a solver of that    *)
(* directory that does contradict a target that it links.                  *)
THEOREM OnlyMismatchesCorrect == Spec => OnlyMismatchesAreRejected
<1>1. ASSUME IInv, [Next]_vars, stage' = "rejected", stage # "rejected"
      PROVE  \E call \in deferred[Here] : \E u \in Linked(call.target) :
                ~Compatible(call.target, call.expected, u)
  <2>1. EndDirectory /\ TypeOK /\ Here \in Directories
    BY <1>1, StageChanges DEF IInv, Here, Directories
  <2>2. \E call \in deferred[Here] : LinkedRefused(call.target, call.expected)
    BY <1>1, <2>1 DEF EndDirectory
  <2> QED BY <2>1, <2>2, DirectoryEnds
<1>2. IInv /\ [Next]_vars =>
        (stage' = "rejected" /\ stage # "rejected"
            => \E call \in deferred[Here] : \E u \in Linked(call.target) :
                  ~Compatible(call.target, call.expected, u))
    BY <1>1
<1> QED BY <1>2, Invariance, PTL DEF Spec, OnlyMismatchesAreRejected
==============================================================================
