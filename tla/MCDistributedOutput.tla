------------------------ MODULE MCDistributedOutput ------------------------
(***************************************************************************)
(* Two ranks, and a second job under the same run identity or another one; *)
(* and one job of three ranks, in which a rank can throw while one other   *)
(* is in a collective and one is in a library call.                        *)
(***************************************************************************)
EXTENDS DistributedOutput

MCTwoRankJobs == {[runId |-> "a", label |-> "p", world |-> 2],
                  [runId |-> "b", label |-> "p", world |-> 2]}

MCThreeRankJobs == {[runId |-> "a", label |-> "p", world |-> 3]}
=============================================================================
