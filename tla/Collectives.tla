---------------------------- MODULE Collectives ----------------------------
(***************************************************************************)
(* What the SDK relies on in the MPI library (external, modelled from its  *)
(* use in DistributedRuntime.h): blocking collectives over MPI_COMM_WORLD, *)
(* and the end of a job by MPI_Abort.                                      *)
(*                                                                         *)
(* The n-th collective a rank posts is matched with the n-th one of every  *)
(* other rank; collectives of different kinds never complete.              *)
(***************************************************************************)
EXTENDS Naturals, Sequences

CONSTANT Ranks

VARIABLES
    posted,     \* posted[r]: the kinds of the collectives rank r entered so far
    inside,     \* inside[r]: rank r has not left the last one yet
    aborted,    \* some rank called MPI_Abort, or its process died
    alive       \* the processes that still run

mpi == <<posted, inside, aborted, alive>>

\* A broadcast from rank 0, and three that need everybody.
Kinds == {"bcast", "barrier", "sum", "split", "finalize"}

MpiInit ==
    /\ posted = [r \in Ranks |-> <<>>]
    /\ inside = [r \in Ranks |-> FALSE]
    /\ aborted = FALSE
    /\ alive = Ranks

Post(r, kind) ==
    /\ r \in alive
    /\ ~inside[r]
    /\ posted' = [posted EXCEPT ![r] = Append(@, kind)]
    /\ inside' = [inside EXCEPT ![r] = TRUE]
    /\ UNCHANGED <<aborted, alive>>

\* Rank q has entered the collective rank r is in.
Joined(q, r) ==
    LET n == Len(posted[r])
    IN  Len(posted[q]) >= n /\ posted[q][n] = posted[r][n]

\* Rank r, in a job of the ranks in world, has what it needs to leave.
Complete(r, world) ==
    /\ r \in alive
    /\ inside[r]
    /\ IF posted[r][Len(posted[r])] = "bcast"
       THEN Joined(0, r)
       ELSE \A q \in world : Joined(q, r)
    /\ inside' = [inside EXCEPT ![r] = FALSE]
    /\ UNCHANGED <<posted, aborted, alive>>

\* MPI_Abort: the caller does not go on, and the others are killed.
Abort(r) ==
    /\ r \in alive
    /\ aborted' = TRUE
    /\ alive' = alive \ {r}
    /\ UNCHANGED <<posted, inside>>

\* The launcher's signal reaches another process of an aborted job.
Killed(r) ==
    /\ aborted
    /\ r \in alive
    /\ alive' = alive \ {r}
    /\ UNCHANGED <<posted, inside, aborted>>

=============================================================================
