---------------------------- MODULE ReadReceipts ----------------------------
(***************************************************************************)
(* What the agents of one direct conversation have read, and what the customer *)
(* is told of it: the read pointers, the batches of read receipts queued when   *)
(* an agent opens the conversation, their dispatch, and the bulk read that moves *)
(* a pointer and tells the customer nothing.                                      *)
(*                                                                                *)
(* Messages are numbered by date; born says in which order they became rows.  A    *)
(* request of an agent takes its snapshot when it begins: at REPEATABLE READ it    *)
(* fails, and is made again, when it locks a row written since.                     *)
(***************************************************************************)
EXTENDS Integers, FiniteSets

CONSTANTS
    Agents,
    Attendants,         \* those who keep coming back to it, and mark it from the list
    LastMessage,        \* bound: messages of the customer
    Imported,           \* those of older history, which may become rows at any time
    Garbled,            \* those whose provider id cannot be used
    Batch,              \* ids of one receipt: _MARK_READ_BATCH_SIZE
    MaxBatches,         \* receipts of one read: _MARK_READ_MAX_BATCHES_PER_POINTER
    MaxDisruptions      \* bound: what disturbs reading, see Disrupt

ASSUME BoundsAssumption ==
    /\ LastMessage \in Nat \ {0} /\ Batch \in Nat \ {0} /\ MaxBatches \in Nat \ {0}
    /\ MaxDisruptions \in Nat
ASSUME SetsAssumption ==
    Attendants \subseteq Agents /\ Garbled \cup Imported \subseteq 1 .. LastMessage

VARIABLES
    born,           \* when a message became a row: 0 for not yet
    deleted,        \* messages their sender deleted
    seen,           \* the read pointer of an agent: 0 for none
    command,        \* the receipts: by the set of their messages
    admitted,       \* receipts are enabled, and the primary connection sends them
    request,        \* the request of an agent that is under way
    prepared,       \* the bulk read an agent prepared
    pause,          \* the administrator's transaction that stops receipts
    opened, late,   \* history: the furthest read; arrivals behind a receipt
    disruptions

vars == <<born, deleted, seen, command, admitted, request, prepared, pause, opened, late,
          disruptions>>

Messages == 1 .. LastMessage
Batches  == {ids \in SUBSET Messages : Cardinality(ids) \in 1 .. Batch}
Pointers == 0 .. LastMessage

MaxOf(S) == CHOOSE m \in S : \A o \in S : o <= m
MinOf(S) == CHOOSE m \in S : \A o \in S : m <= o
Higher(m, o) == IF m >= o THEN m ELSE o

Target(ids) == MaxOf(ids)

Arrived == {m \in Messages : born[m] # 0}
Newest  == MaxOf(Arrived)

-----------------------------------------------------------------------------
(* Snapshots *)

Idle      == [kind |-> "idle"]
NoBulk    == [at |-> 0, max |-> 0]
NoPause   == [kind |-> "none"]

Terminals(cmd) == {ids \in DOMAIN cmd : cmd[ids].state \in {"dead", "cancelled"}}

(* Of a receipt a read only needs to know whether it ended without being sent. *)
Reading(m) ==
    [kind |-> "read", at |-> m, born |-> born, deleted |-> deleted, stale |-> {},
     command |-> [ids \in DOMAIN command |->
                    IF ids \in Terminals(command) THEN [command[ids] EXCEPT !.state = "dead"]
                    ELSE [command[ids] EXCEPT !.state = "pending"]]]

Marking == [kind |-> "bulk", born |-> born]

(* The rows that a transaction will lock, and somebody wrote since its snapshot *)
Locks(t) == CASE t.kind = "read" -> Terminals(t.command)
              [] t.kind = "pause" -> t.found
              [] OTHER -> {}

Stale(t, rows) ==
    IF Locks(t) \cap rows = {} THEN t ELSE [t EXCEPT !.stale = @ \cup (Locks(t) \cap rows)]

(* Mutant: nothing writes the rows that a request locks. *)
Unfenced(requests) == requests

(* Every message writes the row of its conversation, every change of the policy or of
   the connection its own, and the requests under way will lock them. *)
Fenced(requests) == [a \in DOMAIN requests |-> Idle]

(* Bounds: visits, refusals and lost answers may meet; a deletion, a pause, or an act on
   the list, comes alone. *)
Disrupt      == disruptions < MaxDisruptions /\ disruptions' = disruptions + 1
DisruptAlone == disruptions = 0 /\ disruptions' = MaxDisruptions

(* A receipt written by somebody else *)
Write(ids, state) ==
    /\ command' = [command EXCEPT ![ids].state = state]
    /\ request' = [a \in Agents |-> Stale(request[a], {ids})]
    /\ pause' = Stale(pause, {ids})

-----------------------------------------------------------------------------
(* Progress: how far receipts go without a gap, and the first of those that ended
   without being sent, which must be sent again before any later one. *)

Before(cmd, ids, other) ==
    \/ Target(ids) < Target(other)
    \/ Target(ids) = Target(other) /\ cmd[ids].no <= cmd[other].no

(* Mutant: a receipt that was never sent counts as told. *)
NoBarrier(cmd) == {}

Barrier(cmd) ==
    IF Terminals(cmd) = {} THEN {}
    ELSE CHOOSE ids \in Terminals(cmd) : \A other \in Terminals(cmd) : Before(cmd, ids, other)

Watermark(cmd) ==
    LET barrier == Barrier(cmd)
        covered == {Target(ids) : ids \in DOMAIN cmd \ Terminals(cmd)}
    IN  MaxOf({0} \cup {m \in covered : barrier = {} \/ m < Target(barrier)})

(* The first of a set, in the order of their dates *)
FirstOf(S) == {m \in S : Cardinality({o \in S : o < m}) < Batch}

Readable(b, d) == {m \in Messages : b[m] # 0} \ d

-----------------------------------------------------------------------------
(* One read queues receipts up to its message: _queue_direct_mark_read.  mine is what
   the transaction reads of the receipts, wrote those it wrote. *)

Last(ids) == Cardinality({k \in DOMAIN command : Target(k) = Target(ids)}) + 1

Persist(s, ids) ==
    CASE ids \in Terminals(s.mine) ->
            [s EXCEPT !.mine[ids].state = "pending", !.wrote = @ \cup {ids}]
      [] ids \notin Terminals(s.mine) /\ ids \in DOMAIN s.mine \cup DOMAIN command ->
            s       \* it stands, or the unique key refuses another
      [] OTHER ->
            [s EXCEPT !.wrote = @ \cup {ids},
                      !.mine = [k \in DOMAIN @ \cup {ids} |->
                                  IF k = ids THEN [state |-> "pending", no |-> Last(ids)] ELSE @[k]]]

(* Once the gap is closed, go on from where receipts now stand. *)
Refreshed(s, barrier) ==
    LET after == Barrier(s.mine)
    IN  IF after = barrier
        THEN [s EXCEPT !.stop = TRUE]
        ELSE [s EXCEPT !.barrier = after, !.mark = Higher(@, Watermark(s.mine))]

OneBatch(t, s) ==
    LET gap     == s.barrier # {} /\ Target(s.barrier) <= t.at
        through == IF gap THEN Target(s.barrier) ELSE t.at
        targets == FirstOf({m \in Readable(t.born, t.deleted) : s.mark < m /\ m <= through})
        ids     == targets \ Garbled
        next    == [s EXCEPT !.mark = Target(targets)]
    IN  CASE s.stop -> s
          [] ~s.stop /\ targets = {} -> [s EXCEPT !.stop = TRUE]
          [] ~s.stop /\ targets # {} /\ ids = {} -> [next EXCEPT !.stop = gap]
          [] ~s.stop /\ ids # {} /\ gap /\ ids # s.barrier -> [next EXCEPT !.stop = TRUE]
          [] ~s.stop /\ ids # {} /\ gap /\ ids = s.barrier ->
                Refreshed(Persist(next, ids), s.barrier)
          [] OTHER -> [Persist(next, ids) EXCEPT !.stop = Cardinality(targets) < Batch]

Queued(t) ==
    LET start == [mine |-> t.command, wrote |-> {}, stop |-> FALSE,
                  barrier |-> Barrier(t.command), mark |-> Watermark(t.command)]
        loop[n \in 0 .. MaxBatches] == IF n = 0 THEN start ELSE OneBatch(t, loop[n - 1])
    IN  loop[MaxBatches]

-----------------------------------------------------------------------------
Init ==
    /\ born = [m \in Messages |-> 0]
    /\ deleted = {}
    /\ seen = [a \in Attendants |-> 0]
    /\ command = [ids \in {} |-> [state |-> "pending", no |-> 0]]
    /\ admitted = TRUE
    /\ request = [a \in Agents |-> Idle]
    /\ prepared = [a \in Attendants |-> NoBulk]
    /\ pause = NoPause
    /\ opened = 0
    /\ late = {}
    /\ disruptions = 0

-----------------------------------------------------------------------------
(* The customer *)

Arrive(m) ==
    /\ born[m] = 0
    /\ m \in Imported \/ \A o \in Messages \ Imported : o < m => born[o] # 0
    /\ born' = [born EXCEPT ![m] = Cardinality(Arrived) + 1]
    /\ late' = IF \E ids \in DOMAIN command : m < Target(ids) THEN late \cup {m} ELSE late
    /\ request' = Fenced(request)
    /\ UNCHANGED <<deleted, seen, command, admitted, prepared, pause, opened, disruptions>>

(* A deletion locks the row of the conversation and does not write it. *)
Revoke(m) ==
    /\ m \in Arrived \ deleted
    /\ DisruptAlone
    /\ deleted' = deleted \cup {m}
    /\ UNCHANGED <<born, seen, command, admitted, request, prepared, pause, opened, late>>

-----------------------------------------------------------------------------
(* The agents *)

BeginSeen(a, m) ==
    /\ request[a].kind = "idle"
    /\ m \in Arrived
    /\ IF a \in Attendants THEN UNCHANGED disruptions ELSE Disrupt /\ m = Newest
    /\ request' = [request EXCEPT ![a] = Reading(m)]
    /\ UNCHANGED <<born, deleted, seen, command, admitted, prepared, pause, opened, late>>

(* _mark_member_pointer, and the receipts where they are admitted *)
MarkSeen(a) ==
    LET t == request[a]
        q == Queued(t)
    IN  /\ t.kind = "read"
        /\ seen' = IF a \in Attendants THEN [seen EXCEPT ![a] = Higher(@, t.at)] ELSE seen
        /\ opened' = Higher(opened, t.at)
        /\ IF admitted
           THEN /\ q.wrote \cap t.stale = {}
                /\ command' = [ids \in DOMAIN command \cup q.wrote |->
                                 IF ids \in q.wrote THEN q.mine[ids] ELSE command[ids]]
                /\ request' = [o \in Agents |->
                                 IF o = a THEN Idle ELSE Stale(request[o], q.wrote)]
                /\ pause' = Stale(pause, q.wrote)
           ELSE /\ request' = [request EXCEPT ![a] = Idle]
                /\ UNCHANGED <<command, pause>>
        /\ UNCHANGED <<born, deleted, admitted, prepared, late, disruptions>>

(* A conflict, or a client that went away: nothing was written. *)
Abandon(a) ==
    /\ request[a].kind # "idle"
    /\ request' = [request EXCEPT ![a] = Idle]
    /\ UNCHANGED <<born, deleted, seen, command, admitted, prepared, pause, opened, late,
                   disruptions>>

(* Mutant: the message before the newest by number, be there one or not. *)
NewestButOne == Newest - 1

SecondNewest == MaxOf({0} \cup (Arrived \ {Newest}))

(* mark_conversation_unread: the newest message becomes unread again. *)
MarkUnread(a) ==
    /\ Arrived # {}
    /\ seen[a] >= Newest
    /\ DisruptAlone
    /\ seen' = [seen EXCEPT ![a] = SecondNewest]
    /\ request' = [request EXCEPT ![a] = Idle]
    /\ UNCHANGED <<born, deleted, command, admitted, prepared, pause, opened, late>>

(* prepare_mark_conversations_read, of an unread conversation *)
PrepareBulk(a) ==
    /\ Arrived # {}
    /\ seen[a] < Newest
    /\ DisruptAlone
    /\ prepared' = [prepared EXCEPT ![a] = [at |-> Newest, max |-> Cardinality(Arrived)]]
    /\ UNCHANGED <<born, deleted, seen, command, admitted, request, pause, opened, late>>

BeginBulk(a) ==
    /\ request[a].kind = "idle"
    /\ prepared[a] # NoBulk
    /\ request' = [request EXCEPT ![a] = Marking]
    /\ UNCHANGED <<born, deleted, seen, command, admitted, prepared, pause, opened, late,
                   disruptions>>

(* Mutant: everything up to the target is read. *)
WholeLimit(b, p) == p.at

(* _bulk_read_limit: before the first message that arrived after the preparation *)
BulkLimit(b, p) ==
    LET arrivals == {m \in Messages : b[m] > p.max /\ m <= p.at}
    IN  IF arrivals = {} THEN p.at
        ELSE MaxOf({0} \cup {m \in Messages : b[m] \in 1 .. p.max /\ m < MinOf(arrivals)})

MarkBulk(a) ==
    LET limit == BulkLimit(request[a].born, prepared[a])
    IN  /\ request[a].kind = "bulk"
        /\ seen' = [seen EXCEPT ![a] = Higher(@, limit)]
        /\ request' = [request EXCEPT ![a] = Idle]
        /\ prepared' = [prepared EXCEPT ![a] = NoBulk]
        /\ UNCHANGED <<born, deleted, command, admitted, pause, opened, late, disruptions>>

-----------------------------------------------------------------------------
(* The outbox *)

(* Mutant: the pause cancelled them all, so the policy need not be looked at. *)
TrustingDispatch(ids) ==
    /\ ids \in DOMAIN command
    /\ command[ids].state = "pending"
    /\ Write(ids, IF ids \cap deleted # {} THEN "dead" ELSE "processing")
    /\ UNCHANGED <<born, deleted, seen, admitted, prepared, opened, late, disruptions>>

(* _cancel_obsolete_mark_read, then _mark_read_scope_mismatches, then the boundary *)
Dispatch(ids) ==
    /\ ids \in DOMAIN command
    /\ command[ids].state = "pending"
    /\ Write(ids, IF ~admitted THEN "cancelled"
                  ELSE IF ids \cap deleted # {} THEN "dead" ELSE "processing")
    /\ UNCHANGED <<born, deleted, seen, admitted, prepared, opened, late, disruptions>>

InCall(ids) == ids \in DOMAIN command /\ command[ids].state = "processing"

Accept(ids) ==
    /\ InCall(ids)
    /\ Write(ids, "done")
    /\ UNCHANGED <<born, deleted, seen, admitted, prepared, opened, late, disruptions>>

Refuse(ids) ==
    /\ InCall(ids)
    /\ Disrupt
    /\ Write(ids, "dead")
    /\ UNCHANGED <<born, deleted, seen, admitted, prepared, opened, late>>

(* Transient errors, and providers that ask to wait *)
Postpone(ids) ==
    /\ InCall(ids)
    /\ Write(ids, "pending")
    /\ UNCHANGED <<born, deleted, seen, admitted, prepared, opened, late, disruptions>>

(* No usable answer, or a worker that died during the call *)
Doubt(ids) ==
    /\ InCall(ids)
    /\ Disrupt
    /\ Write(ids, "uncertain")
    /\ UNCHANGED <<born, deleted, seen, admitted, prepared, opened, late>>

-----------------------------------------------------------------------------
(* The administrators *)

BeginPause ==
    /\ pause.kind = "none"
    /\ admitted
    /\ DisruptAlone
    /\ pause' = [kind |-> "pause", stale |-> {},
                 found |-> {ids \in DOMAIN command : command[ids].state = "pending"}]
    /\ UNCHANGED <<born, deleted, seen, command, admitted, request, prepared, opened, late>>

(* It cancels the receipts its snapshot shows; the dispatch cancels the others. *)
CommitPause ==
    /\ pause.kind = "pause"
    /\ pause.found \cap pause.stale = {}
    /\ admitted' = FALSE
    /\ command' = [ids \in DOMAIN command |->
                     IF ids \in pause.found THEN [command[ids] EXCEPT !.state = "cancelled"]
                     ELSE command[ids]]
    /\ request' = Fenced(request)
    /\ pause' = NoPause
    /\ UNCHANGED <<born, deleted, seen, prepared, opened, late, disruptions>>

LosePause ==
    /\ pause.kind = "pause"
    /\ pause.found \cap pause.stale # {}
    /\ pause' = NoPause
    /\ UNCHANGED <<born, deleted, seen, command, admitted, request, prepared, opened, late,
                   disruptions>>

Readmit ==
    /\ ~admitted
    /\ admitted' = TRUE
    /\ request' = Fenced(request)
    /\ UNCHANGED <<born, deleted, seen, command, prepared, pause, opened, late, disruptions>>

-----------------------------------------------------------------------------
Next ==
    \/ \E m \in Messages : Arrive(m) \/ Revoke(m)
    \/ \E a \in Agents :
          \/ \E m \in Messages : BeginSeen(a, m)
          \/ MarkSeen(a) \/ Abandon(a)
    \/ \E a \in Attendants : MarkUnread(a) \/ PrepareBulk(a) \/ BeginBulk(a) \/ MarkBulk(a)
    \/ \E ids \in Batches :
          \/ Dispatch(ids) \/ Accept(ids) \/ Doubt(ids) \/ Refuse(ids) \/ Postpone(ids)
    \/ BeginPause \/ CommitPause \/ LosePause \/ Readmit

Uncontended(a) ==
    /\ request[a].kind = "read" /\ request[a].at = Newest
    /\ admitted => Queued(request[a]).wrote \cap request[a].stale = {}

SeeNewest(a) ==
    request[a].kind = "read" /\ request[a].at = Newest /\ request'[a] = Idle /\ MarkSeen(a)

(* No request hangs; the attendants come back to the newest message again and again, and
   are through when nothing keeps contending with them: strong fairness of SeeNewest,
   written out because its guard is costly as an ENABLED.  Workers dispatch, and no
   provider postpones for ever. *)
Fairness ==
    /\ \A a \in Attendants :
          /\ WF_vars(Abandon(a))
          /\ SF_vars(Arrived # {} /\ BeginSeen(a, Newest))
          /\ []<>Uncontended(a) => []<><<SeeNewest(a)>>_vars
    /\ WF_vars(\E ids \in Batches : Dispatch(ids))
    /\ SF_vars(\E ids \in Batches : Accept(ids))

Spec == Init /\ [][Next]_vars /\ Fairness

-----------------------------------------------------------------------------
States == {"pending", "processing", "done", "uncertain", "dead", "cancelled"}

TypeOK ==
    /\ born \in [Messages -> Pointers]
    /\ \A m, o \in Arrived : born[m] = born[o] => m = o
    /\ deleted \subseteq Arrived
    /\ seen \in [Attendants -> {0} \cup Arrived]
    /\ DOMAIN command \subseteq Batches
    /\ \A ids \in DOMAIN command :
          /\ command[ids].state \in States
          /\ ids \subseteq Arrived \ Garbled
    /\ \A ids, other \in DOMAIN command :
          Target(ids) = Target(other) /\ command[ids].no = command[other].no => ids = other
    /\ late \subseteq Arrived
    /\ admitted \in BOOLEAN
    /\ opened \in Pointers
    /\ \A a \in Agents : request[a].kind \in {"idle", "read", "bulk"}
    /\ prepared \in [Attendants -> [at : Pointers, max : Pointers]]
    /\ pause.kind \in {"none", "pause"}
    /\ disruptions \in 0 .. MaxDisruptions

(* Receipts follow reading, whoever read and on whatever snapshot: none goes past what
   an agent opened, a bulk read makes none, and none leaves out a message before it,
   unless that was deleted, has no usable id or arrived behind a receipt.            *)
ReceiptsFollowReading ==
    \A ids \in DOMAIN command :
        /\ Target(ids) <= opened
        /\ \A m \in Arrived \ (deleted \cup Garbled \cup late) :
              m < Target(ids) => \E other \in DOMAIN command : m \in other

(* A bulk read never moves a pointer over a message that arrived after it was
   prepared, and never backwards.                                               *)
BulkStopsShort == [][
    \A a \in Attendants :
        MarkBulk(a) =>
            /\ seen'[a] >= seen[a]
            /\ \A m \in Messages :
                  born[m] > prepared[a].max => ~(seen[a] < m /\ m <= seen'[a])]_vars

(* The receipt that must be sent first is not one that can be made again: a message of it
   was deleted, or one arrived before it. *)
Blocked ==
    LET barrier == Barrier(command)
        mark    == Watermark(command)
    IN  /\ barrier # {}
        /\ FirstOf({m \in Readable(born, deleted) : mark < m /\ m <= Target(barrier)})
              \ Garbled # barrier

Decided(m) ==
    \/ m \in deleted \cup Garbled \cup late
    \/ \E ids \in DOMAIN command : m \in ids /\ command[ids].state \in {"done", "uncertain"}

(* While receipts are admitted, the customer is told again and again of every message an
   agent opened, whatever was refused, cancelled or lost on the way, or a person must
   look at it; while they are not, no receipt is sent, not even one that the transaction
   which stopped them did not see.                                                     *)
SeenIsTold ==
    /\ []<>(admitted /\ ~Blocked => \A m \in Arrived : m <= opened => Decided(m))
    /\ [][\A ids \in Batches : InCall(ids)' => InCall(ids) \/ admitted]_vars
=============================================================================
