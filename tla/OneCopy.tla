------------------------------ MODULE OneCopy ------------------------------
(***************************************************************************)
(* What the outbound path promises about one message: however often it is   *)
(* offered again, the customer gets at most one copy, because it is         *)
(* dispatched again only after every earlier dispatch was refused.          *)
(***************************************************************************)
EXTENDS Naturals

CONSTANT MaxOffers      \* the send and its manual retries

VARIABLES
    offers,     \* times the message was offered for sending
    open,       \* the last offer may still be dispatched
    doubt,      \* a dispatch was not refused: the provider may have taken it
    copies      \* copies the provider took

vars == <<offers, open, doubt, copies>>

Init ==
    /\ offers = 0
    /\ open = FALSE
    /\ doubt = FALSE
    /\ copies = 0

(* An agent sends the message, or sends it again after a refusal. *)
Offer ==
    /\ offers < MaxOffers
    /\ ~open /\ ~doubt
    /\ offers' = offers + 1
    /\ open' = TRUE
    /\ UNCHANGED <<doubt, copies>>

(* The offer is given up before any dispatch. *)
Withdraw ==
    /\ open
    /\ open' = FALSE
    /\ UNCHANGED <<offers, doubt, copies>>

Dispatch ==
    /\ open /\ ~doubt
    /\ open' = FALSE
    /\ doubt' = TRUE
    /\ UNCHANGED <<offers, copies>>

(* The provider takes the message... *)
Take ==
    /\ doubt
    /\ copies = 0
    /\ copies' = 1
    /\ UNCHANGED <<offers, open, doubt>>

(* ... or refuses it, and the same offer may be open again. *)
Refuse ==
    /\ doubt
    /\ copies = 0
    /\ doubt' = FALSE
    /\ open' \in BOOLEAN
    /\ UNCHANGED <<offers, copies>>

Next == Offer \/ Withdraw \/ Dispatch \/ Take \/ Refuse

Spec == Init /\ [][Next]_vars
=============================================================================
