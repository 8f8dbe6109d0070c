-------------------------- MODULE MCCudaConfiguration -------------------------
(***************************************************************************)
(* One target configured any number of times; thread values above, at and  *)
(* below a cap, zero and none of the choices; lists that are empty, blank, *)
(* garbage, or name one architecture twice in two spellings.               *)
(***************************************************************************)
EXTENDS CudaConfiguration

Plain(n) == [form |-> "plain", major |-> n, minor |-> 0]
Dotted(m, n) == [form |-> "dotted", major |-> m, minor |-> n]
Blank == [form |-> "blank", major |-> 0, minor |-> 0]
Garbage == [form |-> "garbage", major |-> NoValue, minor |-> 0]

MCAdaptiveLists == {{}, {Plain(120), Dotted(8, 9), Plain(89)}, {Blank}}
MCFallbackLists == {{}, {Plain(90)}}
MCProbes == {{}, {Dotted(7, 5), Dotted(12, 0)}, {Garbage, Dotted(7, 5)}}
MCRequestInputs == [split |-> {0, 4, 5}, architecture |-> {0, 3, 12}]
MCCapInputs == [split |-> {NoValue, 0, 8}, architecture |-> {NoValue, 8}]
MCNormals == {[split |-> v, architecture |-> NoValue] : v \in {NoValue, 1}}
==============================================================================
