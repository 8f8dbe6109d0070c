--------------------------- MODULE PartitionPlan ---------------------------
(***************************************************************************)
(* PartitionPlan.h and DistributedOwnership.h: a plan file is loaded, one  *)
(* assignment after the other, and every rank derives from it the items it *)
(* owns.  The file is given by its fields (ReadKeyValueFile has split the  *)
(* lines): a field that is absent has its default value here, one that     *)
(* stoi or stoll refuses, or does not consume, is Garbage.                 *)
(***************************************************************************)
EXTENDS Integers, Sequences, FiniteSetsExt

CONSTANTS
    Texts,      \* the plan files
    Ranks,      \* the ranks that ask for their part
    Garbage,    \* a number field that is not a number, or out of range
    MaxItem,    \* bound: items looked at, ranges end there
    SizeLimit   \* 2^64: size_t counts modulo this

Locations == {"Files", "Points", "Cells"}
PointKinds == {"point", "point_block", "point_adjacency"}
CellKinds == {"cell", "cell_block", "cell_adjacency"}
Items == 0 .. MaxItem

\* What a number field may hold, an assignment (its kind any text, or empty), and
\* a file.
Numbers == Int \cup {Garbage}
Kinds == STRING \cup {""}
Raws == [kind : Kinds, rank : Numbers, bytes : Numbers, start : Numbers, end : Numbers]
Fields == [rankCount : Numbers, ghostLayers : Numbers, assignmentCount : Numbers,
           assignments : Seq(Raws), fieldCount : Nat]

ASSUME PlanAssumption ==
    /\ Garbage \notin Int
    /\ MaxItem \in Nat
    /\ SizeLimit \in Nat
    /\ MaxItem + 1 < SizeLimit
    /\ \A fields \in Texts :
           /\ fields \in Fields
           /\ \A i \in 1 .. Len(fields.assignments) :
                  LET end == fields.assignments[i].end
                  IN  end = Garbage \/ end <= MaxItem + 1

VARIABLES
    text,       \* the fields of the file
    plan,       \* the assignments loaded so far
    status      \* "loading", "loaded", or "rejected" by an exception

vars == <<text, plan, status>>

-----------------------------------------------------------------------------
(* LoadPlan *)

Number(x) == x # Garbage

\* What is tested before the first assignment is read.
HeaderIsValid ==
    /\ Number(text.rankCount) /\ text.rankCount >= 1
    /\ Number(text.ghostLayers) /\ text.ghostLayers >= 0
    /\ Number(text.assignmentCount) /\ text.assignmentCount >= 0
    /\ text.assignmentCount <= text.fieldCount

\* assignment.<index>.*; all of it may be absent.
Absent == [kind |-> "", rank |-> 0, bytes |-> 0, start |-> -1, end |-> -1]

Raw(index) ==
    IF index <= Len(text.assignments) THEN text.assignments[index] ELSE Absent

\* The pair -1/-1 says that there is no range.
IsValid(raw) ==
    /\ Number(raw.rank) /\ Number(raw.bytes) /\ Number(raw.start) /\ Number(raw.end)
    /\ raw.rank >= 0 /\ raw.rank < text.rankCount
    /\ raw.bytes >= 0
    /\ (raw.start # -1 \/ raw.end # -1) => raw.start >= 0 /\ raw.end >= raw.start

\* An empty range becomes 0..0, as an absent one.
RangeOf(raw) ==
    IF raw.start >= 0 /\ raw.end > raw.start
    THEN [start |-> raw.start, end |-> raw.end]
    ELSE [start |-> 0, end |-> 0]

RejectHeader ==
    /\ status = "loading" /\ plan = <<>> /\ ~HeaderIsValid
    /\ status' = "rejected"
    /\ UNCHANGED <<text, plan>>

LoadAssignment ==
    LET raw == Raw(Len(plan) + 1)
    IN  /\ status = "loading" /\ HeaderIsValid
        /\ Len(plan) < text.assignmentCount
        /\ IF IsValid(raw)
           THEN /\ plan' = Append(plan, [kind |-> raw.kind, rank |-> raw.rank,
                                         range |-> RangeOf(raw)])
                /\ UNCHANGED status
           ELSE status' = "rejected" /\ UNCHANGED plan
        /\ UNCHANGED text

FinishLoading ==
    /\ status = "loading" /\ HeaderIsValid
    /\ Len(plan) = text.assignmentCount
    /\ status' = "loaded"
    /\ UNCHANGED <<text, plan>>

Init == text \in Texts /\ plan = <<>> /\ status = "loading"
Next == RejectHeader \/ LoadAssignment \/ FinishLoading
Spec == Init /\ [][Next]_vars

-----------------------------------------------------------------------------
(* BuildOwnership, Contains and ownedItemCount *)

HasRange(assignment) == assignment.range.end > assignment.range.start

LocationForAssignmentKind(kind) ==
    IF kind \in PointKinds THEN "Points"
    ELSE IF kind \in CellKinds THEN "Cells" ELSE "Files"

\* Mutated form: a rank also takes what belongs to the ranks before it.
BuildOwnershipCumulative(rank, location) ==
    {i \in DOMAIN plan :
        /\ plan[i].rank <= rank
        /\ HasRange(plan[i])
        /\ LocationForAssignmentKind(plan[i].kind) = location}

\* The assignments whose ranges rank owns (ownedRanges holds the ranges of
\* these sorted, which neither query below depends on).
BuildOwnership(rank, location) ==
    {i \in DOMAIN plan :
        /\ plan[i].rank = rank
        /\ HasRange(plan[i])
        /\ LocationForAssignmentKind(plan[i].kind) = location}

Contains(owned, item) ==
    \E i \in owned : item >= plan[i].range.start /\ item < plan[i].range.end

\* Mutated form: the end counts.
LengthInclusive(i) == plan[i].range.end - plan[i].range.start + 1

Length(i) == plan[i].range.end - plan[i].range.start

\* The lengths are added up in size_t, in a loop.
Total(owned) == MapThenSumSet(Length, owned)
OwnedItemCount(owned) == Total(owned) % SizeLimit

-----------------------------------------------------------------------------
(* Properties *)

Loaded == status = "loaded"

\* The items the file assigns to a rank, at one location.
Assigned(rank, location) ==
    {item \in Items : \E i \in 1 .. Len(text.assignments) :
        LET raw == text.assignments[i]
        IN  /\ i <= text.assignmentCount
            /\ raw.rank = rank
            /\ LocationForAssignmentKind(raw.kind) = location
            /\ raw.start <= item /\ item < raw.end}

\* From the file to the query nothing is lost, added or moved to another rank:
\* a rank contains exactly the items the file gives it, and a rank without
\* work contains none.
OwnershipIsWhatTheFileSays ==
    Loaded => \A rank \in Ranks, location \in Locations, item \in Items :
        Contains(BuildOwnership(rank, location), item)
            <=> item \in Assigned(rank, location)

\* The count a rank reports is the number of the items it contains, unless the
\* plan, which nobody checks for that, gives it an item twice.  Then it is more,
\* as long as the lengths add up to a size_t; beyond that, which overlapping
\* ranges can reach, the count starts again at zero and says nothing.
CountIsOfItems ==
    Loaded => \A rank \in Ranks, location \in Locations :
        LET owned == BuildOwnership(rank, location)
            items == {item \in Items : Contains(owned, item)}
            disjoint == \A i, j \in owned : i # j =>
                            \/ plan[i].range.end <= plan[j].range.start
                            \/ plan[j].range.end <= plan[i].range.start
        IN  /\ disjoint => OwnedItemCount(owned) = Cardinality(items)
            /\ ~disjoint /\ Total(owned) < SizeLimit
                  => OwnedItemCount(owned) > Cardinality(items)

=============================================================================
