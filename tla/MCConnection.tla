---------------------------- MODULE MCConnection ----------------------------
(* Model-checking instances of Connection. *)
EXTENDS Connection

Pairs == conn.pairing # "none" \/ \E r \in Reconnects : reconnect[r].phase # "absent"
Sends == \E c \in Commands : cmd[c] # "absent"

(* Bound: a behaviour that opens a pairing sends nothing and has one health job,
   one that sends hears no report, and those and one with a report have one
   change at most.                                                             *)
Focus ==
    \/ ~Pairs /\ ~Sends /\ (changes <= 1 \/ Stored = {})
    \/ Pairs /\ ~Sends /\ changes <= 1 /\ \A j \in Probes : j > 1 => probe[j].phase = "absent"
    \/ Sends /\ ~Pairs /\ changes <= 1 /\ Stored = {}
=============================================================================
