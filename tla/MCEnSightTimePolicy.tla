------------------------ MODULE MCEnSightTimePolicy ------------------------
(***************************************************************************)
(* A tick is a quarter of the last printed digit.  Uniform runs of three   *)
(* or four frames, steps around 100 quanta and around the limit of 1.1 %,  *)
(* rounded to the nearest value or down; runs with a missing frame or an   *)
(* early one; times printed with one digit less from some frame on, as     *)
(* exponents make it; and the ways in which a file may, or may not, say    *)
(* how its times were rounded.  The file is replaced once.                 *)
(***************************************************************************)
EXTENDS EnSightTimePolicy

Round(time, quantum, mode) ==
    ((time + (IF mode = "nearest" THEN quantum \div 2 ELSE 0)) \div quantum) * quantum

\* The tokens of a run: from frame coarseFrom on they lack the last digit.
PrintedTokens(truth, mode, coarseFrom) ==
    [i \in 1 .. Len(truth) |->
        LET exponent == IF i >= coarseFrom THEN 1 ELSE 0
            quantum == Quantum * 10^exponent
        IN  [time |-> Round(truth[i], quantum, mode), decimal |-> TRUE,
             fraction |-> Digits, exponent |-> exponent]]

Attribute(value) == [quantum |-> TRUE, wellFormed |-> TRUE, value |-> value]
OtherAttribute == [quantum |-> FALSE, wellFormed |-> TRUE, value |-> 0]
Item(kind, vtkfile, attributes) ==
    [kind |-> kind, closed |-> TRUE, vtkfile |-> vtkfile, attributes |-> attributes]
Root(attributes) == Item("element", TRUE, attributes)
Head1 == Item("instruction", FALSE, <<>>)

Pvd(tokens, truth, xml) == [tokens |-> tokens, truth |-> truth, pvd |-> TRUE, xml |-> xml]
Hdf(tokens, truth, group) ==
    [tokens |-> tokens, truth |-> truth, pvd |-> FALSE, group |-> group]

\* A writer that declares what it printed.
Declared(tokens, truth) ==
    LET quantum == DecimalTimeQuantum(tokens)
    IN  Pvd(tokens, truth, <<Head1, Root(<<OtherAttribute, Attribute(quantum)>>)>>)

Line(origin, step, frames) == [i \in 1 .. frames |-> origin + (i - 1) * step]

MCUniform ==
    {Declared(PrintedTokens(truth, mode, 9), truth) :
        mode \in {"nearest", "down"},
        truth \in {Line(origin, step, frames) :
            origin \in {0, 1}, step \in {401, 402, 403}, frames \in {3, 4}}}
MCLimit ==
    {Declared(PrintedTokens(truth, "nearest", 9), truth) :
        truth \in {Line(0, step, 4) : step \in {5, 361, 362, 363, 365, 366}}}
MCUneven ==
    {Declared(PrintedTokens(truth, "nearest", coarseFrom), truth) :
        coarseFrom \in {3, 9},
        truth \in {<<0, 401, 1203>>, <<0, 401, 802, 1604>>, <<0, 392, 802, 1203>>,
                   <<0, 402, 804, 1206>>, <<0, 402, 801, 1209>>, <<0, 401>>, <<7>>}}

Truth == Line(0, 402, 4)
Printed == PrintedTokens(Truth, "nearest", 9)
Q == DecimalTimeQuantum(Printed)
Said == Attribute(Q)

MCDocuments ==
    {Pvd(Printed, Truth, xml) : xml \in
        {<<>>, <<Root(<<>>)>>, <<Root(<<Said, Said>>)>>, <<Root(<<Attribute(NotFinite)>>)>>,
         <<Root(<<[OtherAttribute EXCEPT !.wellFormed = FALSE], Said>>)>>,
         <<[Root(<<Said>>) EXCEPT !.closed = FALSE]>>,
         <<Item("element", FALSE, <<Said>>)>>,
         <<Item("comment", TRUE, <<Said>>), Root(<<>>)>>,
         <<[Head1 EXCEPT !.closed = FALSE], Root(<<Said>>)>>,
         <<Root(<<>>), Root(<<Said>>)>>,
         <<Item("comment", TRUE, <<Said>>), Root(<<Said>>)>>}}

Group == [readable |-> TRUE, present |-> TRUE, scalarDouble |-> TRUE, value |-> Q]
MCGroups ==
    {Hdf(Printed, Truth, group) : group \in
        {Group, [Group EXCEPT !.readable = FALSE], [Group EXCEPT !.present = FALSE],
         [Group EXCEPT !.scalarDouble = FALSE], [Group EXCEPT !.value = 0]}}

\* A time that is no number, and one that is, in a form which is not decimal.
MCNumbers ==
    {Declared([Printed EXCEPT ![2].time = NotFinite, ![2].decimal = FALSE], Truth),
     Declared([Printed EXCEPT ![2].decimal = FALSE], Truth),
     Hdf([Printed EXCEPT ![3].time = NotFinite, ![3].decimal = FALSE], Truth, Group)}

MCSources == MCUniform \cup MCLimit \cup MCUneven \cup MCDocuments \cup MCGroups \cup MCNumbers
=============================================================================
