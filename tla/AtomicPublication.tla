------------------------- MODULE AtomicPublication -------------------------
(***************************************************************************)
(* What a manifest writer promises its readers, without saying how: at     *)
(* every place there is no document at all or one whole document, and what *)
(* is there changes only when a writer swaps in, in one step, the document *)
(* it had set out to publish.  A writer that fails or is killed leaves     *)
(* every place as it was.                                                  *)
(*                                                                         *)
(* RankAwareOutput (one writer per rank, one place per shard directory)    *)
(* and OutputManifest (many writers, one place) implement this module.     *)
(***************************************************************************)

CONSTANTS
    Writers,    \* who publishes
    Places,     \* the paths at which readers look
    Documents,  \* the whole documents
    Nothing     \* what a reader finds where nothing was ever published; it is
                \* not one of the Documents

VARIABLES
    published,  \* published[p]: what a reader finds at place p
    offer       \* offer[w]: the document w is about to publish, if any

vars == <<published, offer>>

Offers == [place : Places, doc : Documents]
NoOffer == [place |-> Nothing, doc |-> Nothing]

Init ==
    /\ published = [p \in Places |-> Nothing]
    /\ offer = [w \in Writers |-> NoOffer]

Offer(w) ==
    /\ offer[w] = NoOffer
    /\ offer'[w] \in Offers
    /\ offer' = [offer EXCEPT ![w] = offer'[w]]
    /\ UNCHANGED published

\* The only step a reader can see.
Publish(w) ==
    /\ offer[w] # NoOffer
    /\ published' = [published EXCEPT ![offer[w].place] = offer[w].doc]
    /\ offer' = [offer EXCEPT ![w] = NoOffer]

\* Some writers give up, all at once when their job is killed.
Withdraw(W) ==
    /\ offer' = [w \in Writers |-> IF w \in W THEN NoOffer ELSE offer[w]]
    /\ UNCHANGED published

Next ==
    \/ \E w \in Writers : Offer(w) \/ Publish(w)
    \/ \E W \in SUBSET Writers : Withdraw(W)

Spec == Init /\ [][Next]_vars

=============================================================================
