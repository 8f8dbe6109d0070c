------------------------ MODULE MCDistributedRuntime ------------------------
(***************************************************************************)
(* One, two or three ranks; two solver calls in a process, with MPI owned  *)
(* by the SDK or by the host, and with the host finalizing it after,       *)
(* between or before them.  Ranks are dealt to two nodes in turn; their    *)
(* environments are empty, an allocation's that started them with another  *)
(* launcher, or partly garbage; nodes show none, one, two or three devices.*)
(***************************************************************************)
EXTENDS DistributedRuntime, TLC

MCScripts == {<<"solve", "solve">>,
              <<"solve", "hostFinalize", "solve">>,
              <<"hostInit", "solve", "solve", "hostFinalize">>,
              <<"hostInit", "hostFinalize", "solve">>}
MCNode == [r \in Ranks |-> IF r % 2 = 0 THEN "a" ELSE "b"]

Nothing == [size |-> Unset, rank |-> Unset, localRank |-> Unset]
Silent == [launcher \in {"ompi", "pmix", "pmi", "mv2", "slurm"} |-> Nothing]
MCEnvironments ==
    {Silent,
     [Silent EXCEPT !["slurm"] = [size |-> 8, rank |-> 0, localRank |-> 0]],
     [Silent EXCEPT !["ompi"] = [size |-> 2, rank |-> 1, localRank |-> 1],
                    !["slurm"] = [size |-> 1, rank |-> Garbage, localRank |-> Unset]]}
MCDeviceLists == {<<>>, <<"NoDevFiles">>, <<"0">>, <<"0", "">>, <<"1", "0">>, <<"0", "1", "2">>}
=============================================================================
