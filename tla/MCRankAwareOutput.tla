------------------------- MODULE MCRankAwareOutput -------------------------
(***************************************************************************)
(* Two ranks with one payload file each.  The second job may repeat the    *)
(* first one's run identity or not, with two ranks or one; one job has no  *)
(* run identity.                                                           *)
(***************************************************************************)
EXTENDS RankAwareOutput

MCJobs == {[runId |-> "a", label |-> "p", world |-> 2],
           [runId |-> "b", label |-> "p", world |-> 2],
           [runId |-> "a", label |-> "p", world |-> 1],
           [runId |-> "",  label |-> "p", world |-> 1]}
=============================================================================
