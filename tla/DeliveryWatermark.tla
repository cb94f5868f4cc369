------------------------- MODULE DeliveryWatermark -------------------------
(***************************************************************************)
(* What an agent sees of the delivery of the messages of one direct         *)
(* conversation.  The provider tells it by receipts that name messages, by   *)
(* receipts that cover every message up to a date, and by echoes of messages *)
(* sent from the phone.  A message may be covered before it is known under   *)
(* the provider's name, so the highest date is kept for each state, and       *)
(* replayed when the name becomes known.                                      *)
(*                                                                            *)
(* Receipts are inbox jobs, names are learned by outbox jobs and by echoes:   *)
(* all of them transactions with a snapshot of the database, taken when they  *)
(* begin.  At REPEATABLE READ a transaction cannot lock a row that was        *)
(* written since, but an advisory lock, or the lock of a row that nobody      *)
(* writes, does not refresh what it reads.  Messages are numbered by date.    *)
(***************************************************************************)
EXTENDS Integers, FiniteSetsExt

CONSTANTS
    LastMessage,    \* bound: messages of the conversation
    Events,         \* inbox events: receipts and echoes
    MaxTries,       \* QUEUE_ATTEMPT_CEILING
    ClientIds       \* does the provider name messages by the client's id?

ASSUME MessageAssumption == LastMessage \in Nat \ {0}
ASSUME CeilingAssumption == MaxTries \in Nat \ {0}
ASSUME FlagsAssumption   == ClientIds \in BOOLEAN

VARIABLES
    db,         \* the committed rows: message bindings, outbox, watermarks
    worker,     \* outbox job of a message: where it is at the provider
    event,      \* what an inbox event says
    evState,    \* inbox event: state, and whether its transaction is open
    tries,      \* inbox event: attempts
    snap,       \* the snapshots of open transactions
    last,       \* provider and agents: messages so far
    accepted,   \* provider: messages it accepted
    overlapped  \* history: transactions of the conversation were open at once

vars == <<db, worker, event, evState, tries, snap, last, accepted, overlapped>>

Messages == 1 .. LastMessage
Covering == {"delivered", "read"}
Ranks    == [queued |-> 0, sent |-> 1, delivered |-> 2, read |-> 3]
Silence  == [state |-> "sent", names |-> {}, mark |-> 0, echo |-> FALSE]

Empty ==
    [delivery |-> [m \in Messages |-> "absent"],
     ext      |-> [m \in Messages |-> FALSE],
     outbox   |-> [m \in Messages |-> "none"],
     cursor   |-> [s \in Covering |-> 0]]

Send(m)  == <<"send", m>>
Inbox(e) == <<"event", e>>
Transactions == {Send(m) : m \in Messages} \cup {Inbox(e) : e \in Events}

Open == {Send(m) : m \in {n \in Messages : worker[n] # "none"}}
            \cup {Inbox(e) : e \in {f \in Events : evState[f] = "open"}}

(* Mutant: one attempt too many. *)
ExhaustedLate(n) == n > MaxTries

Exhausted(n) == n >= MaxTries

Attempted(e) == tries[e] + 1

(* A row of message m was written since the snapshot of transaction t. *)
Written(t, m) ==
    \/ snap[t].delivery[m] # db.delivery[m]
    \/ snap[t].ext[m] # db.ext[m]
    \/ snap[t].outbox[m] # db.outbox[m]

-----------------------------------------------------------------------------
(* _contact_center_apply_delivery *)

(* Mutant: the last receipt wins. *)
AdvanceAlways(d, s) == s

(* Evidence never moves a state back, and is stronger than a local failure. *)
Advance(d, s) ==
    IF d = "failed" \/ Ranks[s] > Ranks[d] THEN s ELSE d

(* Mutant: a watermark covers the messages before its date only. *)
CoversBefore(mark, m) == mark > m

(* Mutant: a watermark covers every message. *)
CoversEvery(mark, m) == mark > 0

Covers(mark, m) == mark >= m

(* _apply_to_binding: the watermarks, of those a transaction sees, that cover a
   message. *)
Replay(d, m, cursor) ==
    LET heard == IF Covers(cursor["delivered"], m) THEN Advance(d, "delivered") ELSE d
    IN  IF Covers(cursor["read"], m) THEN Advance(heard, "read") ELSE heard

Deliver(d, s, m, cursor) == Replay(Advance(d, s), m, cursor)

-----------------------------------------------------------------------------
Init ==
    /\ db = Empty
    /\ worker = [m \in Messages |-> "none"]
    /\ event = [e \in Events |-> Silence]
    /\ evState = [e \in Events |-> "none"]
    /\ tries = [e \in Events |-> 0]
    /\ snap = [t \in Transactions |-> Empty]
    /\ last = 0
    /\ accepted = {}
    /\ overlapped = FALSE

Begin(t, rows) == snap' = [snap EXCEPT ![t] = rows]
End(t)         == snap' = [snap EXCEPT ![t] = Empty]

(* What a send reads: the rows of its message, and the watermarks. *)
RowsOf(m, rows) ==
    [Empty EXCEPT !.delivery[m] = rows.delivery[m], !.ext[m] = rows.ext[m],
                  !.outbox[m] = rows.outbox[m], !.cursor = rows.cursor]

-----------------------------------------------------------------------------
(* Messages and their outbox jobs *)

(* An agent sends a message... *)
Compose ==
    /\ last < LastMessage
    /\ last' = last + 1
    /\ db' = [db EXCEPT !.delivery[last'] = "queued", !.outbox[last'] = "pending"]
    /\ UNCHANGED <<worker, event, evState, tries, snap, accepted, overlapped>>

(* ... or somebody sends one from the phone. *)
SendFromPhone ==
    /\ last < LastMessage
    /\ last' = last + 1
    /\ accepted' = accepted \cup {last'}
    /\ UNCHANGED <<db, worker, event, evState, tries, snap, overlapped>>

(* The boundary is committed, and the transaction of the outcome begins. *)
BeginSend(m) ==
    /\ db.outbox[m] = "pending"
    /\ overlapped' = (overlapped \/ Open # {})
    /\ db' = [db EXCEPT !.outbox[m] = "processing"]
    /\ worker' = [worker EXCEPT ![m] = "calling"]
    /\ Begin(Send(m), RowsOf(m, db'))
    /\ UNCHANGED <<event, evState, tries, last, accepted>>

(* The provider accepts the message, refuses it, or its answer is lost. *)
CallProvider(m) ==
    /\ worker[m] = "calling"
    /\ \/ /\ worker' = [worker EXCEPT ![m] = "answered"]
          /\ accepted' = accepted \cup {m}
       \/ /\ worker' = [worker EXCEPT ![m] = "refused"]
          /\ UNCHANGED accepted
       \/ /\ worker' = [worker EXCEPT ![m] = "lost"]
          /\ accepted' \in {accepted, accepted \cup {m}}
    /\ UNCHANGED <<db, event, evState, tries, snap, last, overlapped>>

(* The job of the message ends, and its rows are written. *)
EndSend(m, rows) ==
    /\ db' = rows
    /\ worker' = [worker EXCEPT ![m] = "none"]
    /\ End(Send(m))
    /\ UNCHANGED <<event, evState, tries, last, accepted, overlapped>>

(* _finalize_dispatch_success, and the reconciliation of a success that could
   not be written at first: the message is sent, and its name may be known. *)
FinishSend(m) ==
    /\ worker[m] \in {"answered", "repairing"}
    /\ snap[Send(m)].outbox[m] \in {"processing", "uncertain"}
    /\ ~Written(Send(m), m)
    /\ \E named \in {worker[m] = "repairing", TRUE} :
          EndSend(m, [db EXCEPT
              !.delivery[m] =
                  IF named THEN Deliver(@, "sent", m, snap[Send(m)].cursor)
                  ELSE Advance(@, "sent"),
              !.ext[m] = named,
              !.outbox[m] = "done"])

(* A refusal may be for now only. *)
PostponeSend(m) ==
    /\ worker[m] = "refused"
    /\ ~Written(Send(m), m)
    /\ EndSend(m, [db EXCEPT !.outbox[m] = "pending"])

(* A refusal: the message failed. *)
RefuseSend(m) ==
    /\ worker[m] = "refused"
    /\ ~Written(Send(m), m)
    /\ EndSend(m, [db EXCEPT !.delivery[m] = IF @ = "queued" THEN "failed" ELSE @,
                             !.outbox[m] = "dead"])

(* No answer: the command is uncertain. *)
DoubtSend(m) ==
    /\ worker[m] = "lost"
    /\ ~Written(Send(m), m)
    /\ EndSend(m, [db EXCEPT !.outbox[m] = "uncertain"])

(* An answer that could not be written makes it uncertain too, and is written by a
   transaction of its own, begun again after a conflict, a few times at most. *)
RetryOutcome(m) ==
    /\ worker[m] = "answered"
    /\ ~Written(Send(m), m)
    /\ db' = [db EXCEPT !.outbox[m] = "uncertain"]
    /\ worker' = [worker EXCEPT ![m] = "repairing"]
    /\ Begin(Send(m), RowsOf(m, db'))
    /\ UNCHANGED <<event, evState, tries, last, accepted, overlapped>>

RestartRepair(m) ==
    /\ worker[m] = "repairing"
    /\ Begin(Send(m), RowsOf(m, db))
    /\ UNCHANGED <<db, worker, event, evState, tries, last, accepted, overlapped>>

GiveUpRepair(m) ==
    /\ worker[m] = "repairing"
    /\ EndSend(m, db)

-----------------------------------------------------------------------------
(* Inbox events *)

(* The provider tells something it knows: a receipt that names a message it
   accepted, or covers the messages up to a date, or both; or the echo of a
   message sent from the phone. *)
Receipts ==
    {r \in [state : {"sent"} \cup Covering,
            names : {{}} \cup {{m} : m \in accepted},
            mark : 0 .. last, echo : {FALSE}] :
        /\ r.names # {} \/ r.mark > 0
        /\ r.mark > 0 => r.state \in Covering}

Echoes ==
    {[state |-> "sent", names |-> {m}, mark |-> 0, echo |-> TRUE] :
        m \in {n \in accepted : /\ db.delivery[n] = "absent"
                                /\ \A e \in Events :
                                      ~(event[e].echo /\ n \in event[e].names)}}

Arrive(e) ==
    /\ evState[e] = "none"
    /\ accepted # {}
    /\ \E r \in Receipts \cup Echoes : event' = [event EXCEPT ![e] = r]
    /\ evState' = [evState EXCEPT ![e] = "queued"]
    /\ UNCHANGED <<db, worker, tries, snap, last, accepted, overlapped>>

BeginEvent(e) ==
    /\ evState[e] = "queued"
    /\ overlapped' = (overlapped \/ Open # {})
    /\ evState' = [evState EXCEPT ![e] = "open"]
    /\ Begin(Inbox(e), db)
    /\ UNCHANGED <<db, worker, event, tries, last, accepted>>

Seen(e) == snap[Inbox(e)]

(* The named messages that the transaction finds. *)
Found(e) ==
    {m \in event[e].names : /\ Seen(e).delivery[m] # "absent"
                            /\ Seen(e).ext[m] \/ ClientIds}

(* The messages that the watermark covers, of those it knows by name. *)
Covered(e) ==
    {m \in Messages : /\ Covers(event[e].mark, m)
                      /\ Seen(e).ext[m] \/ m \in Found(e)}

(* A named message is unknown, or its send still waits for its outcome. *)
Premature(e) ==
    \/ event[e].mark = 0 /\ ~event[e].echo /\ Found(e) # event[e].names
    \/ \E m \in Found(e) : /\ Seen(e).outbox[m] = "processing"
                           /\ ~Written(Inbox(e), m)

(* Mutant: watermarks are written whoever wrote them since. *)
NeverDisplaced(e) == FALSE

(* The watermark row was written since the snapshot. *)
Displaced(e) ==
    LET s == event[e].state IN
    event[e].mark > 0 /\ Seen(e).cursor[s] # db.cursor[s]

(* Mutant: rows are written whoever wrote them since. *)
NeverContended(e) == FALSE

(* A row of a message it applies to was written since. *)
Contended(e) == \E m \in Found(e) \cup Covered(e) : Written(Inbox(e), m)

(* _record: the watermark of the state only advances. *)
Recorded(e) ==
    LET v == event[e] IN
    IF v.mark = 0 THEN db.cursor
    ELSE [db.cursor EXCEPT ![v.state] = Max({Seen(e).cursor[v.state], v.mark})]

(* What the event makes of the delivery of message m: a named one hears the event
   and the watermarks it sees, then the covered ones hear the watermark. *)
Heard(e, m) ==
    LET s     == event[e].state
        named == IF m \in Found(e)
                 THEN Deliver(Seen(e).delivery[m], s, m, Seen(e).cursor)
                 ELSE Seen(e).delivery[m]
    IN  IF m \in Covered(e) THEN Advance(named, s) ELSE named

(* The message of an echo is new; it is made, and hears the watermarks. *)
New(e) == IF event[e].echo THEN event[e].names \ Found(e) ELSE {}

Leave(e, s) ==
    /\ evState' = [evState EXCEPT ![e] = s]
    /\ End(Inbox(e))
    /\ UNCHANGED <<worker, event, last, accepted, overlapped>>

(* _apply_delivery_event, _reconcile_from_me *)
ApplyEvent(e) ==
    /\ evState[e] = "open"
    /\ ~Premature(e) /\ ~Displaced(e) /\ ~Contended(e)
    /\ db' =
        [delivery |-> [m \in Messages |->
            IF m \in New(e) THEN Deliver("queued", "sent", m, Seen(e).cursor)
            ELSE IF m \in Found(e) \cup Covered(e) THEN Heard(e, m)
            ELSE db.delivery[m]],
         ext      |-> [m \in Messages |-> db.ext[m] \/ m \in Found(e) \cup New(e)],
         outbox   |-> [m \in Messages |->
            IF m \in Found(e) /\ Seen(e).outbox[m] \in {"pending", "uncertain"}
            THEN "done" ELSE db.outbox[m]],
         cursor   |-> Recorded(e)]
    /\ Leave(e, "done")
    /\ UNCHANGED tries

(* A conflict with another transaction costs no attempt... *)
RestartEvent(e) ==
    /\ evState[e] = "open"
    /\ ~Premature(e)
    /\ \/ Contended(e)
       \/ Displaced(e) /\ Seen(e).cursor[event[e].state] # 0
    /\ Leave(e, "queued")
    /\ UNCHANGED <<db, tries>>

(* ... but an event that came too early pays one, and so does the loser of two
   that insert the same watermark. *)
RetryEvent(e) ==
    /\ evState[e] = "open"
    /\ Premature(e) \/ (Displaced(e) /\ Seen(e).cursor[event[e].state] = 0)
    /\ tries' = [tries EXCEPT ![e] = Attempted(e)]
    /\ Leave(e, IF Exhausted(tries'[e]) THEN "dead" ELSE "queued")
    /\ UNCHANGED db

-----------------------------------------------------------------------------
SendStep(m) ==
    \/ CallProvider(m)
    \/ FinishSend(m)
    \/ PostponeSend(m)
    \/ RefuseSend(m)
    \/ DoubtSend(m)
    \/ RetryOutcome(m)
    \/ RestartRepair(m)
    \/ GiveUpRepair(m)

EventStep(e) ==
    \/ BeginEvent(e)
    \/ ApplyEvent(e)
    \/ RestartEvent(e)
    \/ RetryEvent(e)

Next ==
    \/ Compose \/ SendFromPhone
    \/ \E m \in Messages : BeginSend(m) \/ SendStep(m)
    \/ \E e \in Events : Arrive(e) \/ EventStep(e)

Spec == Init /\ [][Next]_vars

-----------------------------------------------------------------------------
TypeOK ==
    /\ db.delivery \in [Messages -> {"absent", "failed"} \cup DOMAIN Ranks]
    /\ db.ext \in [Messages -> BOOLEAN]
    /\ db.outbox \in [Messages -> {"none", "pending", "processing", "uncertain",
                                   "done", "dead"}]
    /\ db.cursor \in [Covering -> 0 .. LastMessage]
    /\ worker \in [Messages -> {"none", "calling", "answered", "refused", "lost",
                                "repairing"}]
    /\ event \in [Events -> [state : {"sent"} \cup Covering,
                             names : SUBSET Messages, mark : 0 .. LastMessage,
                             echo : BOOLEAN]]
    /\ evState \in [Events -> {"none", "queued", "open", "done", "dead"}]
    /\ tries \in [Events -> 0 .. MaxTries]
    /\ last \in 0 .. LastMessage
    /\ accepted \subseteq Messages
    /\ overlapped \in BOOLEAN

(* Between transactions, a message known by the provider's name shows at least
   what every watermark that covers it says, in whatever order the receipt and the
   name were committed (message.py, _contact_center_apply_delivery: either
   transaction observes and applies the other's committed evidence). *)
WatermarksReachAll ==
    \A m \in Messages, s \in Covering :
        db.ext[m] /\ db.cursor[s] >= m =>
            db.delivery[m] # "failed" /\ Ranks[db.delivery[m]] >= Ranks[s]

(* When no two transactions of the conversation were ever open at once, they do: it
   takes an overlap to lose a watermark.                                           *)
ReachAllInTurn == ~overlapped => WatermarksReachAll

(* A message is shown delivered or read only if a receipt of that kind names it or
   covers its date. *)
ShownIsTold ==
    \A m \in Messages : db.delivery[m] \in Covering =>
        \E e \in Events : /\ event[e].state = db.delivery[m]
                          /\ m \in event[e].names \/ event[e].mark >= m

(* What a processed receipt said stands, whatever was committed since: on the message
   it names, unless something stronger is shown, and in the watermark of its state,
   which is the highest of all those said, neither lowered nor invented by a race.  *)
ReceiptsStand ==
    /\ \A e \in Events : evState[e] = "done" /\ event[e].mark = 0 =>
          \A m \in event[e].names :
              /\ db.delivery[m] \in DOMAIN Ranks
              /\ Ranks[db.delivery[m]] >= Ranks[event[e].state]
    /\ \A s \in Covering :
          db.cursor[s] = Max({0} \cup {event[e].mark : e \in
                                {f \in Events : evState[f] = "done" /\ event[f].state = s}})

(* What is shown never moves back: positive states only advance, and a local
   failure yields to evidence only. *)
ShownNeverMovesBack ==
    [][\A m \in Messages :
          /\ db.delivery[m] \in DOMAIN Ranks /\ db'.delivery[m] \in DOMAIN Ranks =>
                Ranks[db'.delivery[m]] >= Ranks[db.delivery[m]]
          /\ db.delivery[m] \in {"sent"} \cup Covering => db'.delivery[m] # "failed"
          /\ db.delivery[m] = "failed" => db'.delivery[m] # "queued"]_vars
=============================================================================
