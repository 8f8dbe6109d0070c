------------------------ MODULE PartitionPlanProofs ------------------------
(***************************************************************************)
(* Proofs about PartitionPlan, for any plan files and ranks, with ranges   *)
(* that end anywhere below the limit of size_t.                            *)
(***************************************************************************)
EXTENDS PartitionPlan, FiniteSetTheorems, WellFoundedInduction, TLAPS

-----------------------------------------------------------------------------
(* The inductive invariant: what is loaded is the file's, entry by entry. *)

\* The assignment that an entry of the file stands for.
AssignmentOf(raw) == [kind |-> raw.kind, rank |-> raw.rank, range |-> RangeOf(raw)]

Assignments == [kind : Kinds, rank : Int, range : [start : Int, end : Int]]

PlanType ==
    /\ text \in Texts /\ text \in Fields
    /\ status \in {"loading", "loaded", "rejected"}
    /\ plan \in Seq(Assignments)

\* Entries are loaded in order, each of them accepted before it is.
LoadedSoFar ==
    \A i \in 1 .. Len(plan) : IsValid(Raw(i)) /\ plan[i] = AssignmentOf(Raw(i))

IInv ==
    /\ PlanType
    /\ LoadedSoFar
    /\ Loaded => text.assignmentCount \in Int /\ Len(plan) = text.assignmentCount

-----------------------------------------------------------------------------

\* Whatever the index, there is an entry: of the file, or the absent one.
LEMMA RawType ==
    ASSUME PlanType, NEW i \in Nat \ {0}
    PROVE  Raw(i) \in Raws
<1>1. Absent \in Raws
  <2>1. -1 \in Numbers /\ 0 \in Numbers
    BY DEF Numbers
  <2>2. "" \in Kinds
    BY DEF Kinds
  <2> QED BY <2>1, <2>2 DEF Absent, Raws
<1>2. CASE i <= Len(text.assignments)
  <2>1. text.assignments \in Seq(Raws)
    BY DEF PlanType, Fields
  <2>2. i \in 1 .. Len(text.assignments)
    BY <1>2, <2>1
  <2>3. text.assignments[i] \in Raws
    BY <2>1, <2>2
  <2> QED BY <1>2, <2>3 DEF Raw
<1>3. CASE ~(i <= Len(text.assignments))
  BY <1>1, <1>3 DEF Raw
<1> QED BY <1>2, <1>3

\* What is tested of an entry makes its fields numbers, and its range whole.
LEMMA ValidEntry ==
    ASSUME PlanType, NEW i \in Nat \ {0}, IsValid(Raw(i))
    PROVE  /\ Raw(i).rank \in Int /\ Raw(i).start \in Int /\ Raw(i).end \in Int
           /\ {Raw(i).start, Raw(i).end} = {-1} \/ (0 <= Raw(i).start /\ Raw(i).start <= Raw(i).end)
           /\ AssignmentOf(Raw(i)) \in Assignments
<1>1. Raw(i) \in Raws
  BY RawType
<1>2. Raw(i).rank \in Int /\ Raw(i).start \in Int /\ Raw(i).end \in Int
  BY <1>1 DEF IsValid, Number, Raws, Numbers
<1>3. RangeOf(Raw(i)) \in [start : Int, end : Int]
  BY <1>2 DEF RangeOf
<1> QED BY <1>1, <1>2, <1>3 DEF IsValid, AssignmentOf, Assignments, Raws

\* Nothing is loaded yet.
LEMMA InitEstablishes == Init => IInv
BY PlanAssumption DEF Init, IInv, PlanType, LoadedSoFar, Loaded

\* A header that is refused, an assignment that is loaded or refused, and the end of
\* the file keep the invariant.
LEMMA NextPreserves == IInv /\ [Next]_vars => IInv'
<1> SUFFICES ASSUME IInv, [Next]_vars PROVE IInv'
  OBVIOUS
<1> USE DEF IInv
<1>1. CASE RejectHeader
  BY <1>1 DEF RejectHeader, PlanType, LoadedSoFar, Loaded, IsValid, Raw
<1>2. CASE LoadAssignment
  <2> DEFINE i == Len(plan) + 1
  <2>1. i \in Nat \ {0}
    BY DEF PlanType
  <2>2. CASE IsValid(Raw(i))
    <3>1. plan' = Append(plan, AssignmentOf(Raw(i))) /\ UNCHANGED <<text, status>> /\ ~Loaded
      BY <1>2, <2>2 DEF LoadAssignment, AssignmentOf, Loaded
    <3>2. PlanType'
      BY <2>1, <2>2, <3>1, ValidEntry DEF PlanType
    <3>3. Len(plan') = i /\ plan'[i] = AssignmentOf(Raw(i))
          /\ \A j \in 1 .. Len(plan) : plan'[j] = plan[j]
      BY <3>1 DEF PlanType
    <3>4. LoadedSoFar'
      BY <2>1, <2>2, <3>1, <3>3 DEF LoadedSoFar, IsValid, Raw
    <3> QED BY <3>1, <3>2, <3>4 DEF Loaded
  <2>3. CASE ~IsValid(Raw(i))
    <3>1. status' = "rejected" /\ UNCHANGED <<text, plan>>
      BY <1>2, <2>3 DEF LoadAssignment
    <3> QED BY <3>1 DEF PlanType, LoadedSoFar, Loaded, IsValid, Raw
  <2> QED BY <2>2, <2>3
<1>3. CASE FinishLoading
  <2>1. text.assignmentCount \in Int
    BY <1>3 DEF FinishLoading, HeaderIsValid, Number, PlanType, Fields, Numbers
  <2> QED BY <1>3, <2>1 DEF FinishLoading, PlanType, LoadedSoFar, IsValid, Raw
<1>4. CASE UNCHANGED vars
  BY <1>4 DEF vars, PlanType, LoadedSoFar, Loaded, IsValid, Raw
<1> QED BY <1>1, <1>2, <1>3, <1>4 DEF Next

-----------------------------------------------------------------------------
(* Counting the items of some assignments *)

\* Any numbers have a least one.
LEMMA NatLeast ==
    ASSUME NEW N \in SUBSET Nat, N # {}
    PROVE  \E m \in N : \A k \in N : m <= k
<1> DEFINE R == OpToRel(<, Nat)
<1>1. IsWellFoundedOn(R, Nat)
  BY NatLessThanWellFounded
<1>2. PICK m \in N : \A k \in N : <<k, m>> \notin R
  <2> HIDE DEF R
  <2> QED BY <1>1, WFMin
<1>3. \A k \in N : k \in Nat /\ m \in Nat /\ ~(k < m)
  BY <1>2 DEF OpToRel
<1> QED BY <1>3

\* The lengths of the assignments of s are added up one after the other.
SumStep(f, s) ==
    IF s = {} THEN 0
    ELSE Length(CHOOSE x \in s : TRUE) + f[s \ {CHOOSE x \in s : TRUE}]

IsSum(f, owned) == f = [s \in SUBSET owned |-> SumStep(f, s)]

\* An element that is taken from a set leaves one element less.
LEMMA OneLess ==
    ASSUME NEW owned, IsFiniteSet(owned), NEW s \in SUBSET owned, NEW x \in s
    PROVE  /\ s \ {x} \in SUBSET owned
           /\ Cardinality(s) \in Nat /\ Cardinality(s \ {x}) \in Nat
           /\ Cardinality(s \ {x}) = Cardinality(s) - 1
<1>1. IsFiniteSet(s)
  BY FS_Subset
<1>2. IsFiniteSet(s \ {x}) /\ Cardinality(s \ {x}) = Cardinality(s) - 1
  BY <1>1, FS_RemoveElement
<1> QED BY <1>1, <1>2, FS_CardinalityType

\* The additions of the assignments that a rank owns come to an end.
LEMMA SumExists ==
    ASSUME NEW owned, IsFiniteSet(owned)
    PROVE  \E f : IsSum(f, owned)
<1> DEFINE Small(n) == {s \in SUBSET owned : Cardinality(s) <= n}
           Upto(n) == \E f : f = [s \in Small(n) |-> SumStep(f, s)]
           Fails == {n \in Nat : ~Upto(n)}
<1>1. SUFFICES ASSUME Fails # {} PROVE FALSE
  <2>1. Cardinality(owned) \in Nat
    BY FS_CardinalityType
  <2>2. Small(Cardinality(owned)) = SUBSET owned
    BY FS_Subset
  <2>3. Upto(Cardinality(owned))
    BY <2>1
  <2> HIDE DEF Small, Fails
  <2> QED BY <2>2, <2>3 DEF IsSum
<1>2. PICK n \in Fails : \A k \in Fails : n <= k
  <2>1. Fails \in SUBSET Nat
    OBVIOUS
  <2> HIDE DEF Fails
  <2> QED BY <1>1, <2>1, NatLeast
<1>3. n \in Nat
  BY <1>2
<1>4. PICK g : n # 0 => g = [s \in Small(n - 1) |-> SumStep(g, s)]
  <2>1. CASE n = 0
    BY <2>1
  <2>2. CASE n # 0
    <3>1. n - 1 \in Nat /\ ~(n <= n - 1)
      BY <1>3, <2>2
    <3>2. Upto(n - 1)
      BY <1>2, <3>1
    <3> QED BY <3>2
  <2> QED BY <2>1, <2>2
<1> DEFINE h == [s \in Small(n) |-> SumStep(g, s)]
<1>5. ASSUME NEW s \in Small(n), NEW x \in s
      PROVE  h[s \ {x}] = g[s \ {x}]
  <2>1. /\ s \ {x} \in SUBSET owned
        /\ Cardinality(s) \in Nat /\ Cardinality(s \ {x}) \in Nat
        /\ Cardinality(s \ {x}) = Cardinality(s) - 1
    BY OneLess
  <2>2. Cardinality(s) <= n
    OBVIOUS
  <2>3. n # 0 /\ Cardinality(s \ {x}) <= n - 1 /\ Cardinality(s \ {x}) <= n
    BY <1>3, <2>1, <2>2
  <2>4. s \ {x} \in Small(n - 1) /\ s \ {x} \in Small(n)
    BY <2>1, <2>3
  <2>5. h[s \ {x}] = SumStep(g, s \ {x})
    BY <2>4
  <2>6. g[s \ {x}] = SumStep(g, s \ {x})
    <3> HIDE DEF Small
    <3> QED BY <1>4, <2>3, <2>4
  <2> QED BY <2>5, <2>6
<1>6. ASSUME NEW s \in Small(n) PROVE SumStep(g, s) = SumStep(h, s)
  <2> HIDE DEF h, Small
  <2>1. CASE s = {}
    BY <2>1 DEF SumStep
  <2>2. CASE s # {}
    <3>1. (CHOOSE x \in s : TRUE) \in s
      BY <2>2
    <3> QED BY <1>5, <3>1 DEF SumStep
  <2> QED BY <2>1, <2>2
<1>7. h = [s \in Small(n) |-> SumStep(h, s)]
  <2> HIDE DEF Small
  <2> QED BY <1>6
<1>8. Upto(n)
  <2> HIDE DEF h, Small
  <2> QED BY <1>7
<1> QED BY <1>2, <1>8

\* ownedItemCount is such a sum.
LEMMA CountIsSum ==
    ASSUME NEW owned, IsFiniteSet(owned)
    PROVE  \E f : IsSum(f, owned) /\ Total(owned) = f[owned]
<1> DEFINE Body(f) == [s \in SUBSET owned |->
                IF s = {} THEN 0
                ELSE Length(CHOOSE x \in s : TRUE) + f[s \ {CHOOSE x \in s : TRUE}]]
           sum == CHOOSE f : f = Body(f)
<1>1. Total(owned) = sum[owned]
  BY DEF Total, MapThenSumSet, MapThenFoldSet
<1>2. \A f : IsSum(f, owned) <=> f = Body(f)
  BY DEF IsSum, SumStep
<1>3. \E f : IsSum(f, owned)
  BY SumExists
<1> HIDE DEF Body
<1>4. sum = Body(sum)
  BY <1>2, <1>3
<1> HIDE DEF sum
<1>5. IsSum(sum, owned)
  BY <1>2, <1>4
<1> QED BY <1>1, <1>5

\* The ranges of some assignments, and the items they hold.
RangeType(s) ==
    \A i \in s : /\ plan[i].range.start \in Int /\ plan[i].range.end \in Int
                 /\ 0 <= plan[i].range.start
                 /\ plan[i].range.start < plan[i].range.end
                 /\ plan[i].range.end <= MaxItem + 1

Apart(i, j) ==
    \/ plan[i].range.end <= plan[j].range.start
    \/ plan[j].range.end <= plan[i].range.start

AllApart(s) == \A i, j \in s : i # j => Apart(i, j)

Held(s) == {item \in Items : Contains(s, item)}

ItemsOf(i) == plan[i].range.start .. plan[i].range.end - 1

\* Two ranges that are not apart share the item where the later one starts.
LEMMA RangesMeet ==
    ASSUME NEW s, RangeType(s), NEW i \in s, NEW j \in s
    PROVE  Apart(i, j) <=> ItemsOf(i) \cap ItemsOf(j) = {}
<1> DEFINE a == plan[i].range.start
           b == plan[i].range.end
           c == plan[j].range.start
           d == plan[j].range.end
<1>1. a \in Int /\ b \in Int /\ c \in Int /\ d \in Int /\ a < b /\ c < d
  BY DEF RangeType
<1>2. Apart(i, j) <=> b <= c \/ d <= a
  BY DEF Apart
<1>3. ItemsOf(i) = a .. b - 1 /\ ItemsOf(j) = c .. d - 1
  BY DEF ItemsOf
<1> HIDE DEF a, b, c, d
<1>4. ASSUME b <= c \/ d <= a PROVE (a .. b - 1) \cap (c .. d - 1) = {}
  BY <1>1, <1>4
<1>5. ASSUME ~(b <= c), ~(d <= a), a <= c PROVE c \in (a .. b - 1) \cap (c .. d - 1)
  BY <1>1, <1>5
<1>6. ASSUME ~(b <= c), ~(d <= a), ~(a <= c) PROVE a \in (a .. b - 1) \cap (c .. d - 1)
  BY <1>1, <1>6
<1> QED BY <1>2, <1>3, <1>4, <1>5, <1>6

\* One assignment more brings the items of its range that were not held before.
LEMMA OneMore ==
    ASSUME NEW s, RangeType(s), NEW x \in s
    PROVE  LET rest == s \ {x}
           IN  /\ Held(s) = ItemsOf(x) \cup Held(rest)
               /\ IsFiniteSet(ItemsOf(x)) /\ Cardinality(ItemsOf(x)) = Length(x)
               /\ Length(x) \in Int
               /\ AllApart(s) <=> AllApart(rest) /\ ItemsOf(x) \cap Held(rest) = {}
<1> DEFINE rest == s \ {x}
<1>1. MaxItem \in Nat
  BY PlanAssumption
<1>2. ASSUME NEW i \in s
      PROVE  /\ ItemsOf(i) \subseteq Items
             /\ \A item \in Items : item \in ItemsOf(i) <=>
                    item >= plan[i].range.start /\ item < plan[i].range.end
  <2>1. /\ plan[i].range.start \in Int /\ plan[i].range.end \in Int
        /\ 0 <= plan[i].range.start /\ plan[i].range.end <= MaxItem + 1
    BY DEF RangeType
  <2> QED BY <1>1, <2>1 DEF ItemsOf, Items
<1>3. Held(s) = {item \in Items : \E i \in s : item \in ItemsOf(i)}
  BY <1>2 DEF Held, Contains
<1>4. Held(rest) = {item \in Items : \E i \in rest : item \in ItemsOf(i)}
  BY <1>2 DEF Held, Contains
<1>5. Held(s) = ItemsOf(x) \cup Held(rest)
  BY <1>2, <1>3, <1>4
<1>6. IsFiniteSet(ItemsOf(x)) /\ Cardinality(ItemsOf(x)) = Length(x) /\ Length(x) \in Int
  <2>1. /\ plan[x].range.start \in Int /\ plan[x].range.end - 1 \in Int
        /\ ~(plan[x].range.start > plan[x].range.end - 1)
        /\ plan[x].range.end - 1 - plan[x].range.start + 1 = Length(x)
        /\ Length(x) \in Int
    BY DEF RangeType, Length
  <2> QED BY <2>1, FS_Interval DEF ItemsOf
<1>7. ItemsOf(x) \cap Held(rest) = {} <=> \A j \in rest : ItemsOf(x) \cap ItemsOf(j) = {}
  BY <1>2, <1>4
<1>8. ItemsOf(x) \cap Held(rest) = {} <=> \A j \in rest : Apart(x, j)
  BY <1>7, RangesMeet
<1>9. AllApart(s) <=> AllApart(rest) /\ \A j \in rest : Apart(x, j)
  BY DEF AllApart, Apart
<1> QED BY <1>5, <1>6, <1>8, <1>9

\* The sum of the lengths is never less than the number of the items, and the
\* same exactly when no item is held twice: by induction on the assignments.
LEMMA SumCounts ==
    ASSUME NEW owned, IsFiniteSet(owned), RangeType(owned),
           NEW f, IsSum(f, owned)
    PROVE  /\ f[owned] \in Int
           /\ f[owned] >= Cardinality(Held(owned))
           /\ AllApart(owned) <=> f[owned] = Cardinality(Held(owned))
<1> DEFINE Right(s) == /\ f[s] \in Int
                       /\ f[s] >= Cardinality(Held(s))
                       /\ AllApart(s) <=> f[s] = Cardinality(Held(s))
           Wrong(n) == \E s \in SUBSET owned : Cardinality(s) = n /\ ~Right(s)
           Fails == {n \in Nat : Wrong(n)}
<1>1. SUFFICES ASSUME ~Right(owned) PROVE FALSE
  OBVIOUS
<1>2. Cardinality(owned) \in Fails
  <2>1. Cardinality(owned) \in Nat /\ owned \in SUBSET owned
    BY FS_CardinalityType
  <2> HIDE DEF Right
  <2> QED BY <1>1, <2>1
<1>3. PICK n \in Fails : \A k \in Fails : n <= k
  <2>1. Fails \in SUBSET Nat /\ Fails # {}
    BY <1>2
  <2> HIDE DEF Fails
  <2> QED BY <2>1, NatLeast
<1> HIDE DEF Right
<1>4. PICK s \in SUBSET owned : Cardinality(s) = n /\ ~Right(s)
  BY <1>3
<1>5. \A t \in SUBSET owned : IsFiniteSet(Held(t)) /\ Cardinality(Held(t)) \in Nat
  <2>1. IsFiniteSet(Items)
    BY PlanAssumption, FS_Interval DEF Items
  <2>2. \A t : Held(t) \in SUBSET Items
    BY DEF Held
  <2> QED BY <2>1, <2>2, FS_Subset, FS_CardinalityType
<1>6. CASE s = {}
  <2>1. f[s] = 0
    BY <1>4, <1>6 DEF IsSum, SumStep
  <2>2. Held(s) = {} /\ AllApart(s)
    BY <1>6 DEF Held, Contains, AllApart
  <2>3. Cardinality(Held(s)) = 0
    BY <2>2, FS_EmptySet
  <2>4. Right(s)
    BY <2>1, <2>2, <2>3 DEF Right
  <2> QED BY <1>4, <2>4
<1>7. CASE s # {}
  <2> DEFINE x == CHOOSE y \in s : TRUE
             rest == s \ {x}
  <2>1. x \in s
    BY <1>7
  <2>2. f[s] = Length(x) + f[rest]
    BY <1>4, <1>7 DEF IsSum, SumStep
  <2> HIDE DEF x
  <2>3. /\ rest \in SUBSET owned /\ n \in Nat
        /\ Cardinality(rest) \in Nat /\ Cardinality(rest) = n - 1
    BY <1>4, <2>1, OneLess
  <2>4. Right(rest)
    <3>1. Cardinality(rest) \notin Fails
      BY <1>3, <2>3
    <3> QED BY <2>3, <3>1
  <2>5. RangeType(s)
    BY <1>4 DEF RangeType
  <2>6. /\ Held(s) = ItemsOf(x) \cup Held(rest)
        /\ IsFiniteSet(ItemsOf(x)) /\ Cardinality(ItemsOf(x)) = Length(x)
        /\ Length(x) \in Int
        /\ AllApart(s) <=> AllApart(rest) /\ ItemsOf(x) \cap Held(rest) = {}
    BY <2>1, <2>5, OneMore
  <2>7. IsFiniteSet(Held(rest)) /\ Cardinality(Held(rest)) \in Nat
    BY <1>5, <2>3
  <2> DEFINE both == ItemsOf(x) \cap Held(rest)
  <2>8. /\ IsFiniteSet(both) /\ Cardinality(both) \in Nat
        /\ both = {} <=> Cardinality(both) = 0
    <3>1. IsFiniteSet(both)
      BY <2>6, FS_Subset
    <3> HIDE DEF both
    <3> QED BY <3>1, FS_CardinalityType, FS_EmptySet
  <2>9. Cardinality(Held(s)) = Length(x) + Cardinality(Held(rest)) - Cardinality(both)
    BY <2>6, <2>7, FS_Union
  <2>10. /\ f[rest] \in Int /\ f[rest] >= Cardinality(Held(rest))
         /\ AllApart(rest) <=> f[rest] = Cardinality(Held(rest))
    BY <2>4 DEF Right
  <2>11. AllApart(s) <=> AllApart(rest) /\ Cardinality(both) = 0
    BY <2>6, <2>8
  <2> HIDE DEF rest, both
  <2>12. /\ f[s] \in Int /\ f[s] >= Cardinality(Held(s))
         /\ f[s] = Cardinality(Held(s)) <=>
               f[rest] = Cardinality(Held(rest)) /\ Cardinality(both) = 0
    BY <2>2, <2>6, <2>7, <2>8, <2>9, <2>10
  <2>13. Right(s)
    BY <2>10, <2>11, <2>12 DEF Right
  <2> QED BY <1>4, <2>13
<1> QED BY <1>6, <1>7

\* What a rank owns are finitely many whole ranges.
LEMMA OwnedRanges ==
    ASSUME IInv, NEW rank, NEW location
    PROVE  IsFiniteSet(BuildOwnership(rank, location)) /\ RangeType(BuildOwnership(rank, location))
<1> DEFINE owned == BuildOwnership(rank, location)
<1>1. Len(plan) \in Nat /\ DOMAIN plan = 1 .. Len(plan)
  BY DEF IInv, PlanType
<1>2. owned \in SUBSET (1 .. Len(plan))
  BY <1>1 DEF BuildOwnership
<1>3. IsFiniteSet(owned)
  <2>1. IsFiniteSet(1 .. Len(plan))
    BY <1>1, FS_Interval
  <2> HIDE DEF owned
  <2> QED BY <1>2, <2>1, FS_Subset
<1>4. ASSUME NEW i \in owned
      PROVE  /\ plan[i].range.start \in Int /\ plan[i].range.end \in Int
             /\ 0 <= plan[i].range.start
             /\ plan[i].range.start < plan[i].range.end
             /\ plan[i].range.end <= MaxItem + 1
  <2>1. i \in Nat \ {0} /\ i \in 1 .. Len(plan) /\ HasRange(plan[i])
    BY <1>2 DEF BuildOwnership
  <2>2. IsValid(Raw(i)) /\ plan[i].range = RangeOf(Raw(i))
    <3>1. IsValid(Raw(i)) /\ plan[i] = AssignmentOf(Raw(i))
      BY <2>1 DEF IInv, LoadedSoFar
    <3>2. AssignmentOf(Raw(i)).range = RangeOf(Raw(i))
      BY DEF AssignmentOf
    <3> QED BY <3>1, <3>2
  <2>3. Raw(i).start \in Int /\ Raw(i).end \in Int /\ Number(Raw(i).end)
    BY <2>1, <2>2, ValidEntry DEF IInv, IsValid
  <2>4. Raw(i).start >= 0 /\ Raw(i).end > Raw(i).start
        /\ plan[i].range = [start |-> Raw(i).start, end |-> Raw(i).end]
    BY <2>1, <2>2, <2>3 DEF RangeOf, HasRange
  <2>5. Raw(i).end <= MaxItem + 1
    <3>1. CASE i <= Len(text.assignments)
      <4>1. text \in Texts /\ i \in 1 .. Len(text.assignments)
        BY <2>1, <3>1 DEF IInv, PlanType, Fields
      <4>2. Raw(i) = text.assignments[i]
        BY <3>1 DEF Raw
      <4> QED BY <2>3, <4>1, <4>2, PlanAssumption DEF Number
    <3>2. CASE ~(i <= Len(text.assignments))
      BY <3>2, PlanAssumption DEF Raw, Absent
    <3> QED BY <3>1, <3>2
  <2> QED BY <2>3, <2>4, <2>5
<1> QED BY <1>3, <1>4 DEF RangeType

\* The items a rank contains are fewer than size_t can count.
LEMMA HeldFit ==
    ASSUME NEW owned
    PROVE  Cardinality(Held(owned)) \in Nat /\ Cardinality(Held(owned)) < SizeLimit
<1>1. MaxItem \in Nat /\ SizeLimit \in Nat /\ MaxItem + 1 < SizeLimit
  BY PlanAssumption
<1>2. IsFiniteSet(Items) /\ Cardinality(Items) = MaxItem + 1
  BY <1>1, FS_Interval DEF Items
<1>3. Held(owned) \in SUBSET Items
  BY DEF Held
<1> QED BY <1>1, <1>2, <1>3, FS_Subset, FS_CardinalityType

\* What is counted below the limit is counted right.
LEMMA SmallRemainder ==
    ASSUME NEW limit \in Nat, NEW n \in Nat, n < limit
    PROVE  n % limit = n
OBVIOUS

-----------------------------------------------------------------------------
(* The theorems *)

\* The invariant holds in every run.
THEOREM Invariance == Spec => []IInv
BY InitEstablishes, NextPreserves, PTL DEF Spec

\* BuildOwnership and Contains give a rank the items that the file assigns to
\* it, and no others, at every location.
THEOREM OwnershipCorrect == Spec => []OwnershipIsWhatTheFileSays
<1>1. ASSUME IInv PROVE OwnershipIsWhatTheFileSays
  <2> SUFFICES ASSUME Loaded, NEW rank \in Ranks, NEW location \in Locations, NEW item \in Items
               PROVE  Contains(BuildOwnership(rank, location), item)
                          <=> item \in Assigned(rank, location)
    BY DEF OwnershipIsWhatTheFileSays
  <2>1. item \in Nat
    BY PlanAssumption DEF Items
  <2>2. Len(plan) \in Nat /\ DOMAIN plan = 1 .. Len(plan) /\ Len(plan) = text.assignmentCount
    BY <1>1 DEF IInv, PlanType
  <2>3. Len(text.assignments) \in Nat
    BY <1>1 DEF IInv, PlanType, Fields
  <2> DEFINE Holds(i) == /\ plan[i].rank = rank
                         /\ LocationForAssignmentKind(plan[i].kind) = location
                         /\ item >= plan[i].range.start /\ item < plan[i].range.end
             Assigns(i) == /\ Raw(i).rank = rank
                           /\ LocationForAssignmentKind(Raw(i).kind) = location
                           /\ Raw(i).start <= item /\ item < Raw(i).end
  <2>4. Contains(BuildOwnership(rank, location), item) <=> \E i \in 1 .. Len(plan) : Holds(i)
    <3>1. ASSUME NEW i \in 1 .. Len(plan), Holds(i) PROVE HasRange(plan[i])
      <4>1. plan[i] \in Assignments
        BY <1>1 DEF IInv, PlanType
      <4> QED BY <2>1, <3>1, <4>1 DEF HasRange, Assignments
    <3> QED BY <2>2, <3>1 DEF Contains, BuildOwnership
  <2>5. ASSUME NEW i \in 1 .. Len(plan) PROVE Holds(i) <=> Assigns(i)
    <3>1. i \in Nat \ {0} /\ IsValid(Raw(i)) /\ plan[i] = AssignmentOf(Raw(i))
      BY <1>1 DEF IInv, LoadedSoFar, PlanType
    <3>2. /\ Raw(i).start \in Int /\ Raw(i).end \in Int
          /\ {Raw(i).start, Raw(i).end} = {-1} \/ (0 <= Raw(i).start /\ Raw(i).start <= Raw(i).end)
      BY <1>1, <3>1, ValidEntry DEF IInv
    <3>3. plan[i].rank = Raw(i).rank /\ plan[i].kind = Raw(i).kind
          /\ plan[i].range = RangeOf(Raw(i))
      BY <3>1 DEF AssignmentOf
    <3> QED BY <2>1, <3>2, <3>3 DEF RangeOf
  <2>6. item \in Assigned(rank, location) <=> \E i \in 1 .. Len(plan) : Assigns(i)
    <3>1. ASSUME NEW i \in 1 .. Len(plan), Assigns(i) PROVE i <= Len(text.assignments)
      <4>1. ~(i <= Len(text.assignments)) => Raw(i).end = -1
        BY DEF Raw, Absent
      <4> QED BY <2>1, <3>1, <4>1
    <3>2. ASSUME NEW i \in 1 .. Len(plan), i <= Len(text.assignments)
          PROVE  Raw(i) = text.assignments[i]
      BY <3>2 DEF Raw
    <3>3. item \in Assigned(rank, location) <=>
             \E i \in 1 .. Len(text.assignments) :
                /\ i <= text.assignmentCount /\ Assigns(i)
      BY DEF Assigned, Raw
    <3> HIDE DEF Assigns
    <3> QED BY <2>2, <2>3, <3>1, <3>3
  <2> QED BY <2>4, <2>5, <2>6
<1> QED BY <1>1, Invariance, PTL

\* ownedItemCount is the number of the items a rank contains when the plan gives
\* it none of them twice, and otherwise more, up to the limit of size_t.
THEOREM CountCorrect == Spec => []CountIsOfItems
<1>1. ASSUME IInv PROVE CountIsOfItems
  <2> SUFFICES ASSUME NEW rank \in Ranks, NEW location \in Locations
               PROVE  LET owned == BuildOwnership(rank, location)
                      IN  /\ AllApart(owned) =>
                                 OwnedItemCount(owned) = Cardinality(Held(owned))
                          /\ ~AllApart(owned) /\ Total(owned) < SizeLimit =>
                                 OwnedItemCount(owned) > Cardinality(Held(owned))
    BY DEF CountIsOfItems, Held, AllApart, Apart
  <2> DEFINE owned == BuildOwnership(rank, location)
  <2>1. IsFiniteSet(owned) /\ RangeType(owned)
    BY <1>1, OwnedRanges
  <2> HIDE DEF owned
  <2>2. PICK f : IsSum(f, owned) /\ Total(owned) = f[owned]
    BY <2>1, CountIsSum
  <2>3. /\ Total(owned) \in Int
        /\ Total(owned) >= Cardinality(Held(owned))
        /\ AllApart(owned) <=> Total(owned) = Cardinality(Held(owned))
    BY <2>1, <2>2, SumCounts
  <2>4. Cardinality(Held(owned)) \in Nat /\ Cardinality(Held(owned)) < SizeLimit
    BY HeldFit
  <2>5. Total(owned) < SizeLimit => OwnedItemCount(owned) = Total(owned)
    BY <2>3, <2>4, PlanAssumption, SmallRemainder DEF OwnedItemCount
  <2> QED BY <2>3, <2>4, <2>5 DEF owned
<1> QED BY <1>1, Invariance, PTL

=============================================================================
