--------------------------- MODULE MCPartitionPlan ---------------------------
(***************************************************************************)
(* Plans of up to two assignments, of every kind of location, with ranges  *)
(* that are whole, absent, half absent, empty, backward, equal, nested,    *)
(* overlapping or adjacent; header fields that are wrong; and plans of     *)
(* three assignments, enough to count beyond size_t.  Numbers have three   *)
(* bits here: long long has -4 .. 3, and size_t 0 .. 7.                    *)
(***************************************************************************)
EXTENDS PartitionPlan

MCNumbers == -2 .. 3
MCRaws == [kind : {"point_block", "cell", "file"}, rank : {0, 1, 2}, bytes : {0},
           start : MCNumbers, end : MCNumbers]
MCRanged == {raw \in MCRaws : raw.start >= -1 /\ raw.end >= -1 /\ raw.rank < 2}

Text(rankCount, ghostLayers, assignmentCount, assignments) ==
    [rankCount |-> rankCount, ghostLayers |-> ghostLayers,
     assignmentCount |-> assignmentCount, assignments |-> assignments,
     fieldCount |-> 3 + 6 * Len(assignments)]

\* One assignment: every value of every field.
MCSingle ==
    {Text(rankCount, 0, count, <<raw>>) :
        rankCount \in {1, 2}, count \in {0, 1, 2}, raw \in MCRaws}
\* Two assignments with the same kind or not, on the same rank or not.
MCPairs ==
    {Text(2, 0, 2, <<r, s>>) : r \in {q \in MCRanged : q.rank = 0}, s \in MCRanged}
\* Three assignments to one rank.
MCLong == {raw \in MCRanged : /\ raw.kind = "cell" /\ raw.rank = 0
                             /\ raw.start \in {0, 1} /\ raw.end \in {2, 3}}
MCTriples == {Text(2, 0, 3, <<r, s, t>>) : r \in MCLong, s \in MCLong, t \in MCLong}
\* One field that is wrong.
MCWrong ==
    {Text(n, g, count, <<[Absent EXCEPT !.bytes = b, !.end = e]>>) :
        n \in {0, 1, Garbage}, g \in {-1, 0, Garbage}, count \in {-1, 1, 10, Garbage},
        b \in {-1, 0, Garbage}, e \in {-1, Garbage}}

MCTexts == MCSingle \cup MCPairs \cup MCTriples \cup MCWrong
=============================================================================
