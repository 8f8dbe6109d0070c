------------------------- MODULE MCVtkHdfTimeSteps -------------------------
(***************************************************************************)
(* A file with up to two steps, names that are tokens of it or look like   *)
(* one, a file whose name has a marker and ends in .vtkhdf, with a token   *)
(* of it, and texts that are no step; three changes of these files.        *)
(***************************************************************************)
EXTENDS VtkHdfTimeSteps, TLC

MCDigits == (0 :> "000000000000") @@ (1 :> "000000000001") @@ (2 :> "000000000002")
MCTexts == {MCDigits[i] : i \in 0 .. 2} \cup {"1", "huge", "x.vtkhdf"}
MCValue == [t \in MCTexts |->
    IF t = "1" THEN 1 ELSE IF t = "huge" THEN 14 ELSE IF t = "x.vtkhdf" THEN NoStep
    ELSE CHOOSE i \in 0 .. 2 : MCDigits[i] = t]
MCPaths ==
    {<<"a.vtkhdf">>, <<"", MCDigits[0]>>,
     <<"a.vtkhdf", MCDigits[0]>>, <<"a.vtkhdf", "1">>, <<"a.vtkhdf", "huge">>,
     <<"a.vtkhdf", "x.vtkhdf">>, <<"a.vtkhdf", "x.vtkhdf", MCDigits[1]>>}
=============================================================================
