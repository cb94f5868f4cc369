-------------------------- MODULE OutboxRefinement --------------------------
(* The outbox implements the promise of OneCopy when a rejection is a proof. *)
EXTENDS OutboxDispatch

Created == {c \in Commands : state[c] # "absent"}

(* Copies the customer got, told apart up to the first one too many. *)
Copies ==
    IF \A c \in Commands : accepted[c] = 0 THEN 0
    ELSE IF \E c \in Commands : /\ accepted[c] = 1
                               /\ \A d \in Commands \ {c} : accepted[d] = 0
         THEN 1 ELSE 2

Promise == INSTANCE OneCopy WITH
    MaxOffers <- MaxLineage,
    offers <- Cardinality(Created),
    open   <- \E c \in Commands : state[c] \in Sendable,
    doubt  <- unproven # {},
    copies <- Copies

(* However workers, receipts, crashes and operators interleave, the lineage of a
   message behaves as the one-copy promise says: it is dispatched again only
   after every earlier dispatch was refused (queue.py, _job_process and resend). *)
ImplementsOneCopy == Promise!Spec
=============================================================================
