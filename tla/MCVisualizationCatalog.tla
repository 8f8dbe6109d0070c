----------------------- MODULE MCVisualizationCatalog -----------------------
(***************************************************************************)
(* Catalogs of two axes, a numeric one and a fixed one that share a key,   *)
(* with two variants of all selector tuples, complete, sparse and wrong;   *)
(* and catalogs that differ from a sound one in one field.  Two files, one *)
(* change.                                                                 *)
(***************************************************************************)
EXTENDS VisualizationCatalog

Value(key, number) == [key |-> key, number |-> number]
Re == [id |-> "re", texts |-> {}, kind |-> "numeric", default |-> "1",
       values |-> <<Value("1", Missing), Value("inlet", 2)>>]
Part == [id |-> "part", texts |-> {}, kind |-> "fixed", default |-> "",
         values |-> <<Value("inlet", Missing), Value("wall", Missing)>>]
Quantity(id) == [id |-> id, texts |-> {}, array |-> "", association |-> "point"]
Mapping(id) == [quantity |-> id, array |-> "p", association |-> "cell"]
Path(file) == [text |-> "data", absolute |-> FALSE, escapes |-> FALSE, file |-> file]
Variant(selectors, file, step) ==
    [selectors |-> selectors, path |-> Path(file), step |-> step, time |-> Missing,
     quantities |-> <<Mapping("p")>>, texts |-> {}]

\* All maps from some of "re", "part" and an axis that is not declared.
Selectors(ids) == UNION {[D -> {"1", "inlet", "wall"}] : D \in SUBSET ids}

Base(v) ==
    [name |-> [family |-> "dft", raw |-> TRUE], family |-> "", variant |-> "", runId |-> "",
     axes |-> <<Re, Part>>, quantities |-> <<Quantity("p"), Quantity("u")>>, variants |-> v]

MCTuples ==
    {Base(<<Variant(s, "a", 0), Variant(t, f, 1)>>) :
        s \in Selectors({"re", "part"}), t \in Selectors({"re", "time"}), f \in {"a", "b"}}

One == Variant([re |-> "inlet"], "a", -1)
Good == Base(<<One>>)
BadTexts == {"", NotUtf8, Padded, WithNul}
WithAxis(axis) == [Good EXCEPT !.axes = <<axis, Part>>]
WithVariant(variant) == [Good EXCEPT !.variants = <<variant>>]
WithQuantity(quantity) == [Good EXCEPT !.quantities = <<Quantity("p"), quantity>>]

MCSound ==
    {Good, Base(<<>>), WithVariant([One EXCEPT !.time = 3]),
     [Base(<<Variant(<<>>, "b", 0)>>) EXCEPT !.axes = <<>>],
     [Good EXCEPT !.family = "dft", !.variant = "custom", !.runId = "r", !.axes[2].values = <<>>],
     WithVariant([One EXCEPT !.quantities = <<Mapping("u"), Mapping("p")>>]),
     WithVariant([One EXCEPT !.quantities = <<>>])}
MCUnsound ==
    {[Good EXCEPT !.name.family = ""], [Good EXCEPT !.family = Padded],
     [Good EXCEPT !.runId = NotUtf8], [Good EXCEPT !.variant = Padded]}
    \cup {WithAxis([Re EXCEPT !.id = text]) : text \in {"", Padded, "part"}}
    \cup {WithAxis(axis) : axis \in
            {[Re EXCEPT !.kind = "other"], [Re EXCEPT !.default = "2"],
             [Re EXCEPT !.texts = {NotUtf8}], [Re EXCEPT !.values[2].key = "1"],
             [Re EXCEPT !.values[2].number = Missing], [Re EXCEPT !.values[2].number = Infinite],
             [Re EXCEPT !.values[2].key = ""]}}
    \cup {WithVariant([One EXCEPT !.path.text = text]) : text \in BadTexts}
    \cup {WithVariant(variant) : variant \in
            {[One EXCEPT !.path.absolute = TRUE], [One EXCEPT !.path.escapes = TRUE],
             [One EXCEPT !.step = -2], [One EXCEPT !.time = Infinite],
             [One EXCEPT !.texts = {NotUtf8}],
             [One EXCEPT !.quantities = <<Mapping("p"), Mapping("p")>>],
             [One EXCEPT !.quantities = <<Mapping("q")>>],
             [One EXCEPT !.quantities[1].association = "field"]}}
    \cup {WithVariant([One EXCEPT !.quantities[1].array = text]) : text \in BadTexts}
    \cup {WithQuantity(quantity) : quantity \in
            {Quantity("p"), Quantity(""), [Quantity("v") EXCEPT !.association = "field"],
             [Quantity("v") EXCEPT !.array = WithNul]}}

MCCatalogs == MCTuples \cup MCSound \cup MCUnsound
=============================================================================
