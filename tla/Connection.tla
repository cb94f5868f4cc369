----------------------------- MODULE Connection -----------------------------
(***************************************************************************)
(* What is believed of one provider connection, and who may change it: the   *)
(* health job that reads the provider, the reconnect job that reads it too    *)
(* and opens pairing epochs, the lifecycle reports of the provider, hints of   *)
(* failed sends, and administrators.  Sends are let through only while the     *)
(* session is verified; those that find it is not are parked, and resumed in    *)
(* pages when it is again.  Messages received while a pairing is not verified   *)
(* are held until an administrator confirms their origin.                       *)
(*                                                                              *)
(* Every writer locks the row of the connection.  The health job read it in a   *)
(* snapshot taken before it called the provider: at REPEATABLE READ it cannot   *)
(* lock the row when somebody wrote it since, and queue_job runs it again.  The *)
(* reconnect job drops its snapshot before it locks.  Instants are seconds of   *)
(* the database clock, 0 where the column is empty.                              *)
(***************************************************************************)
EXTENDS Integers, FiniteSets

CONSTANTS
    LastInstant,    \* bound: the clock stops there
    LastProbe,      \* bound: health jobs
    LastReconnect,  \* bound: reconnect requests
    LastReport,     \* bound: lifecycle reports stored
    Kinds,          \* kinds of lifecycle reports the provider sends
    Findings,       \* answers the provider gives to a health read
    LastHeld,       \* bound: messages that arrive while pairing
    LastCommand,    \* bound: commands admitted
    PageSize,       \* _OUTBOX_RECOVERY_BATCH_SIZE
    MaxChanges,     \* bound: changes made by administrators, and hints
    Lease, Jitter, Interval, Backoff, RetryAfter, EventDelay    \* durations

ASSUME BoundsAssumption ==
    /\ LastInstant \in Nat \ {0} /\ LastProbe \in Nat /\ LastReconnect \in Nat
    /\ LastReport \in Nat /\ LastHeld \in Nat /\ LastCommand \in Nat
    /\ MaxChanges \in Nat /\ PageSize \in Nat \ {0}
ASSUME DurationsAssumption ==
    /\ \A d \in {Lease, Interval, Backoff, RetryAfter, EventDelay} : d \in Nat \ {0}
    /\ Jitter \in Nat

VARIABLES
    clock,      \* the database clock
    conn,       \* the row of the connection
    probe,      \* health jobs
    outdated,   \* health jobs whose snapshot of the row is not the last
    reconnect,  \* reconnect requests and their jobs
    report,     \* lifecycle reports in the inbox ledger
    held,       \* inbox events blocked as pairing_unverified
    cmd,        \* commands of the outbox
    pages,      \* recovery jobs
    changes,    \* how many changes were made
    heard       \* history: what the processed answers and reports said

vars == <<clock, conn, probe, outdated, reconnect, report, held, cmd, pages, changes, heard>>

Probes     == 1 .. LastProbe
Reconnects == 1 .. LastReconnect
Reports    == 1 .. LastReport
Held       == 1 .. LastHeld
Commands   == 1 .. LastCommand

Later(a, b)  == IF a >= b THEN a ELSE b
Sooner(a, b) == IF a <= b THEN a ELSE b

SafetyRank == [connected |-> 0, degraded |-> 1, disconnected |-> 2, authentication_required |-> 3]
States     == DOMAIN SafetyRank

-----------------------------------------------------------------------------
(* What the provider may say *)

Answer(state, detail, match) ==
    [state |-> state, detail |-> detail, match |-> match, conclusive |-> TRUE, retry |-> FALSE]

Doubt(state, detail) ==
    [state |-> state, detail |-> detail, match |-> "none", conclusive |-> FALSE, retry |-> FALSE]

Answers ==
    [match       |-> Answer("connected", "healthy", "yes"),
     mismatch    |-> Answer("degraded", "identity_mismatch", "no"),
     unverified  |-> Answer("degraded", "identity_unverified", "no"),
     inactive    |-> Answer("disconnected", "session_inactive", "none"),
     waiting     |-> Answer("authentication_required", "pairing_required", "none"),
     unreachable |-> Doubt("disconnected", "unreachable"),
     limited     |-> [Doubt("degraded", "rate_limited") EXCEPT !.retry = TRUE],
     matchLater  |-> [Answer("connected", "healthy", "yes") EXCEPT !.retry = TRUE]]

(* pairing_required is said of a session that waits for its QR code only *)
Said(pairing) == {f \in Findings : f = "waiting" => pairing = "qr"}

Target ==
    [Connected |-> "connected", Disconnected |-> "disconnected", KeepAliveTimeout |-> "degraded",
     LoggedOut |-> "disconnected", QRTimeout |-> "disconnected"]

(* _process_event: a session that connected is not yet a proof of whose it is *)
Reported(k) == IF Target[k] = "connected" THEN "degraded" ELSE Target[k]

(* Reports and answers of these kinds are all that a provider says *)
ASSUME KindsAssumption == Kinds \subseteq DOMAIN Target /\ Findings \subseteq DOMAIN Answers

Pending == {"qr", "expired", "mismatch"}

-----------------------------------------------------------------------------
(* What the row says *)

Diagnosed(c) == c.detail # "none" /\ c.healthAt # 0 /\ c.healthAt >= c.at

Verified(c) ==
    /\ c.state = "connected" /\ c.at # 0 /\ c.source # "none"
    /\ ~c.latched
    /\ ~(Diagnosed(c) /\ c.detail # "rate_limited")

Available(c) == c.role = "primary" /\ c.outbound /\ Verified(c)

FreshOnTie(c, o, s) == c.at = 0 \/ o.at >= c.at

(* An observation older than the state is not fresh; at the same second the
   later report of two wins, and otherwise the less permissive state.        *)
Fresh(c, o, s) ==
    \/ c.at = 0 \/ o.at > c.at
    \/ /\ o.at = c.at
       /\ IF o.source = "event" /\ c.source = "event"
          THEN o.seq > c.lastEvent
          ELSE /\ ~(o.source = "event" /\ o.seq <= c.lastEvent)
               /\ SafetyRank[s] > SafetyRank[c.state]

Against(o) == o.source = "probe" /\ o.match = "no"
Proof(o)   == o.source = "probe" /\ o.state = "connected" /\ o.match = "yes"

(* The latch: only an explicit match of a probe says connected once it is set *)
Guarded(c, o) ==
    IF (c.latched \/ Against(o)) /\ o.state = "connected" /\ ~Proof(o) THEN "degraded" ELSE o.state

Settled(c, o) == Fresh(c, o, Guarded(c, o)) /\ o.conclusive
Sampled(c, o) == o.probe /\ (c.healthAt = 0 \/ o.at >= c.healthAt)

Latch(c, o) ==
    IF Against(o) THEN TRUE ELSE IF Proof(o) /\ Settled(c, o) THEN FALSE ELSE c.latched

LatchCleared(c, o) == IF Against(o) THEN TRUE ELSE IF Proof(o) THEN FALSE ELSE c.latched

DeadlineOfLast(c, o) == o.at + RetryAfter
Deadline(c, o)       == Later(o.at + RetryAfter, c.cooldown)

Cooldown(c, o) ==
    CASE ~o.probe -> c.cooldown
      [] o.probe /\ o.retry -> Deadline(c, o)
      [] OTHER -> IF c.cooldown <= o.at THEN 0 ELSE c.cooldown

-----------------------------------------------------------------------------
(* _apply_normalized_health: one observation o of the row c *)

ScheduleStacked(c, o) == c.next + Interval

(* when the next check is due, after the observation *)
Schedule(c, o) ==
    LET s     == Guarded(c, o)
        fresh == Fresh(c, o, s)
        lost  == IF o.owns /\ ~fresh THEN o.at ELSE c.next
        due   == IF Sampled(c, o) /\ fresh
                 THEN o.at + (IF s = "connected" /\ o.conclusive THEN Interval ELSE Backoff)
                 ELSE lost
        told  == IF o.probe /\ o.retry THEN Later(due, Deadline(c, o)) ELSE due
        kept  == IF o.probe /\ c.cooldown > o.at THEN Later(told, c.cooldown) ELSE told
    IN  IF o.source = "event" /\ fresh /\ s # "connected"
        THEN Later(IF kept = 0 THEN o.at + EventDelay ELSE Sooner(kept, Later(o.at + EventDelay, c.cooldown)),
                   IF c.cooldown = 0 THEN o.at ELSE c.cooldown)
        ELSE kept

(* the pairing of a WuzAPI session, by a probe and by a report of its epoch *)
PairingOfProbe(c, o) ==
    CASE ~(Sampled(c, o) /\ Settled(c, o)) -> c.pairing
      [] Sampled(c, o) /\ Settled(c, o) /\ Proof(o) /\ c.pairing \in Pending ->
            IF c.pairing = "mismatch" THEN "rejected" ELSE "verified"
      [] Sampled(c, o) /\ Settled(c, o) /\ o.detail = "identity_mismatch" /\ c.pairing \in {"qr", "expired"} ->
            "mismatch"
      [] Sampled(c, o) /\ Settled(c, o) /\ o.detail = "session_inactive" /\ c.pairing = "qr" -> "expired"
      [] OTHER -> c.pairing

PairingOfReport(c, o) ==
    CASE o.kind = "LoggedOut" -> IF c.pairing \in {"verified", "rejected"} THEN "rejected" ELSE "mismatch"
      [] o.kind = "QRTimeout" /\ c.pairing = "qr" -> "expired"
      [] OTHER -> c.pairing

Unpaired(phase) == phase \in {"qr", "expired"}

Pairing(c, o) ==
    CASE c.role # "primary" -> c.pairing
      [] c.role = "primary" /\ o.source = "probe" -> PairingOfProbe(c, o)
      [] OTHER -> IF o.epoch = c.epoch /\ Unpaired(o.phase) THEN PairingOfReport(c, o) ELSE c.pairing

DetailKept(c, o) == o.detail

(* last_probe_detail: only what left the state in doubt, and a throttle is no
   evidence that the incident before it is over                                *)
Detail(c, o) ==
    CASE o.conclusive -> "none"
      [] ~o.conclusive /\ o.detail = "rate_limited" /\ Diagnosed(c) -> c.detail
      [] OTHER -> o.detail

Applied(c, o) ==
    [c EXCEPT
        !.latched  = Latch(c, o),
        !.lastEvent = IF o.source = "event" /\ (Settled(c, o) \/ (o.at = c.at /\ o.seq > @)) THEN o.seq ELSE @,
        !.healthEvent = IF o.source = "probe" /\ Settled(c, o) THEN c.lastEvent ELSE @,
        !.owner    = IF o.owns THEN 0 ELSE @,
        !.pending  = IF o.owns THEN FALSE ELSE @,
        !.healthAt = IF Sampled(c, o) THEN o.at ELSE @,
        !.detail   = IF Sampled(c, o) THEN Detail(c, o) ELSE @,
        !.unhealthy = IF Sampled(c, o) THEN ~(Guarded(c, o) = "connected" /\ o.conclusive) ELSE @,
        !.next     = Schedule(c, o),
        !.cooldown = Cooldown(c, o),
        !.pairing  = Pairing(c, o),
        !.state    = IF Settled(c, o) THEN Guarded(c, o) ELSE @,
        !.at       = IF Settled(c, o) THEN o.at ELSE @,
        !.source   = IF Settled(c, o) THEN o.source ELSE @]

Eligible == {c \in Commands : cmd[c] \in {"ready", "parked"}}

HighestOf(S) == CHOOSE c \in S : \A d \in S : d <= c

(* _recover_outbox_after_health: a wave begins when sends are let through again *)
RegainedState(before, after) == before.state # "connected" /\ Available(after)
Regained(before, after) == ~Available(before) /\ Available(after)

Recovered(before, after) ==
    IF Regained(before, after) THEN [after EXCEPT !.wave = @ + 1] ELSE after

Wave(before, after) ==
    IF Regained(before, after) /\ Eligible # {}
    THEN {[wave |-> before.wave + 1, after |-> 0, cutoff |-> HighestOf(Eligible)]}
    ELSE {}

Reading == {j \in Probes : probe[j].phase = "reading"}

(* The row gets the value c: whoever reads it in an older snapshot is outdated *)
Store(c) ==
    /\ conn' = c
    /\ outdated' = IF c = conn THEN outdated ELSE Reading

Hear(base, past, o) ==
    heard' = [match   |-> IF Proof(o) THEN Later(past.match, o.at) ELSE past.match,
              against |-> IF o.conclusive /\ Guarded(base, o) # "connected"
                          THEN Later(past.against, o.at) ELSE past.against,
              retry   |-> IF o.retry THEN Later(past.retry, o.at + RetryAfter) ELSE past.retry]

(* The whole of _apply_normalized_health on the row base, with its recovery wave *)
Observe(base, past, o) ==
    LET c == Recovered(base, Applied(base, o))
    IN  /\ Store(c)
        /\ pages' = pages \cup Wave(base, c)
        /\ Hear(base, past, o)

-----------------------------------------------------------------------------
(* _enqueue_health_check *)

Live(j)  == probe[j].phase \in {"queued", "reading"}
Absent   == {j \in Probes : probe[j].phase = "absent"}
FirstOf(S) == CHOOSE j \in S : \A k \in S : j <= k

(* _health_job_record: the job the row names, or else any live one *)
JobOf(c) == CHOOSE j \in Probes : Live(j) /\ (c.owner \in {k \in Probes : Live(k)} => j = c.owner)

Adopted(c, j) ==
    [c EXCEPT !.pending = TRUE, !.owner = j,
              !.next = IF @ = 0 \/ @ <= clock \/ @ > clock + Lease THEN clock + Lease ELSE @]

(* Enqueue for the row c a check that may start at eta: the live job is adopted,
   a cooldown postpones the check, and only otherwise is a job created.          *)
Enqueue(c, eta) ==
    IF c.role = "historical" THEN Store(c) /\ UNCHANGED probe
    ELSE IF \E j \in Probes : Live(j)
    THEN Store(Adopted(c, JobOf(c))) /\ UNCHANGED probe
    ELSE IF c.cooldown > clock
    THEN /\ Store([c EXCEPT !.pending = FALSE, !.owner = 0, !.next = Later(c.cooldown, eta)])
         /\ UNCHANGED probe
    ELSE /\ Absent # {}
         /\ probe' = [probe EXCEPT ![FirstOf(Absent)] = [phase |-> "queued", eta |-> eta, at |-> 0]]
         /\ Store([c EXCEPT !.pending = TRUE, !.owner = FirstOf(Absent), !.next = eta + Lease])

(* The cron takes the connections that are due and have no live job *)
ScheduleCheck ==
    /\ conn.role # "historical"
    /\ conn.next <= clock
    /\ ~\E j \in Probes : Live(j)
    /\ \E d \in {0, Jitter} : Enqueue(conn, clock + d)
    /\ UNCHANGED <<clock, reconnect, report, held, cmd, pages, changes, heard>>

(* action_check_health, by a supervisor *)
RequestCheck ==
    /\ changes < MaxChanges /\ changes' = changes + 1
    /\ Enqueue(conn, clock)
    /\ UNCHANGED <<clock, reconnect, report, held, cmd, pages, heard>>

(* _request_health_after_send: a failed send asks for a check, and may bring a
   Retry-After of the provider                                                 *)
HintAfterSend(retry) ==
    LET cooldown == Later(IF retry THEN clock + RetryAfter ELSE clock, conn.cooldown)
        due == IF conn.unhealthy /\ conn.next # 0
               THEN Later(cooldown, conn.next)
               ELSE Later(cooldown, IF conn.healthAt # 0 THEN conn.healthAt + EventDelay ELSE clock)
    IN  /\ changes < MaxChanges /\ changes' = changes + 1
        /\ conn.role # "historical"
        /\ IF due > clock
           THEN /\ Store([conn EXCEPT !.next = due, !.cooldown = IF cooldown > clock THEN cooldown ELSE @])
                /\ UNCHANGED probe
           ELSE Enqueue(conn, clock)
        /\ heard' = [heard EXCEPT !.retry = IF retry THEN Later(@, clock + RetryAfter) ELSE @]
        /\ UNCHANGED <<clock, reconnect, report, held, cmd, pages>>

-----------------------------------------------------------------------------
(* _job_check_health *)

Ready(j) == probe[j].phase = "queued" /\ clock >= probe[j].eta

SetProbe(j, phase) == probe' = [probe EXCEPT ![j].phase = phase]

(* a job that the row does not name leaves without a probe *)
SkipProbe(j) ==
    /\ Ready(j) /\ conn.owner # j
    /\ SetProbe(j, "done")
    /\ UNCHANGED <<clock, conn, outdated, reconnect, report, held, cmd, pages, changes, heard>>

CompleteInactive(j) ==
    /\ Ready(j) /\ conn.owner = j /\ conn.role = "historical"
    /\ SetProbe(j, "done")
    /\ Store([conn EXCEPT !.pending = FALSE, !.owner = 0])
    /\ UNCHANGED <<clock, reconnect, report, held, cmd, pages, changes, heard>>

BeginProbe(j) ==
    /\ Ready(j) /\ conn.owner = j /\ conn.role # "historical"
    /\ probe' = [probe EXCEPT ![j].phase = "reading", ![j].at = clock]
    /\ outdated' = outdated \ {j}
    /\ UNCHANGED <<clock, conn, reconnect, report, held, cmd, pages, changes, heard>>

ProbeDated(a, at, owns) ==
    [source |-> "probe", at |-> at, seq |-> 0, owns |-> owns, probe |-> TRUE,
     state |-> a.state, detail |-> a.detail, match |-> a.match,
     conclusive |-> a.conclusive, retry |-> a.retry]

(* the observation is dated at the start of the read *)
DatedAtEnd(p)   == clock
DatedAtStart(p) == p.at

EndProbe(j) ==
    /\ probe[j].phase = "reading" /\ j \notin outdated
    /\ SetProbe(j, "done")
    /\ \E f \in Said(conn.pairing) : Observe(conn, heard, ProbeDated(Answers[f], DatedAtStart(probe[j]), TRUE))
    /\ UNCHANGED <<clock, reconnect, report, held, cmd, changes>>

(* could not serialize access: queue_job runs the job again *)
RestartProbe(j) ==
    /\ probe[j].phase = "reading" /\ j \in outdated
    /\ SetProbe(j, "queued")
    /\ outdated' = outdated \ {j}
    /\ UNCHANGED <<clock, conn, reconnect, report, held, cmd, pages, changes, heard>>

(* it fails or is cancelled: the row still names it *)
LoseProbe(j) ==
    /\ Live(j)
    /\ changes < MaxChanges /\ changes' = changes + 1
    /\ SetProbe(j, "dead")
    /\ outdated' = outdated \ {j}
    /\ UNCHANGED <<clock, conn, reconnect, report, held, cmd, pages, heard>>

(* and may be queued again by hand, after another took its place *)
RequeueProbe(j) ==
    /\ probe[j].phase = "dead"
    /\ SetProbe(j, "queued")
    /\ UNCHANGED <<clock, conn, outdated, reconnect, report, held, cmd, pages, changes, heard>>

-----------------------------------------------------------------------------
(* The reconnect wizard and its job *)

Running(r) == reconnect[r].phase \in {"queued", "reading"}

Token(c) == <<c.config, c.epoch, c.pairing>>

(* action_start *)
StartReconnect(r) ==
    /\ reconnect[r].phase = "absent" /\ \A q \in 1 .. r - 1 : reconnect[q].phase # "absent"
    /\ conn.role = "primary"
    /\ ~\E q \in Reconnects : Running(q)
    /\ reconnect' = [reconnect EXCEPT ![r] =
            [phase |-> "queued", eta |-> Later(clock, conn.cooldown), at |-> 0,
             config |-> conn.config, token |-> <<0, 0, "none">>]]
    /\ Store([conn EXCEPT !.wizard = r])
    /\ UNCHANGED <<clock, probe, report, held, cmd, pages, changes, heard>>

IsCurrent(r) == conn.wizard = r /\ conn.role = "primary" /\ conn.config = reconnect[r].config

EndReconnect(r) == reconnect' = [reconnect EXCEPT ![r].phase = "done"]

(* _finish_error: the request is no longer current *)
AbandonReconnect(r) ==
    /\ \/ reconnect[r].phase = "queued" /\ clock >= reconnect[r].eta /\ ~IsCurrent(r)
       \/ reconnect[r].phase = "reading" /\ (~IsCurrent(r) \/ Token(conn) # reconnect[r].token)
    /\ EndReconnect(r)
    /\ UNCHANGED <<clock, conn, probe, outdated, report, held, cmd, pages, changes, heard>>

(* _read_reconnect *)
BeginReconnect(r) ==
    /\ reconnect[r].phase = "queued" /\ clock >= reconnect[r].eta /\ IsCurrent(r)
    /\ reconnect' = [reconnect EXCEPT ![r].phase = "reading", ![r].at = clock, ![r].token = Token(conn)]
    /\ UNCHANGED <<clock, conn, probe, outdated, report, held, cmd, pages, changes, heard>>

MayFinish(r) == reconnect[r].phase = "reading" /\ IsCurrent(r) /\ Token(conn) = reconnect[r].token

(* _wuzapi_begin_pairing_epoch, once a QR code could be read *)
Epoch(c) == [c EXCEPT !.epoch = @ + 1, !.pairing = "qr", !.latched = TRUE]

Released(c) == [c EXCEPT !.wizard = 0]

ShowCode(r) ==
    /\ MayFinish(r) /\ Said(conn.pairing) \cap {"inactive", "waiting"} # {}
    /\ EndReconnect(r)
    /\ Observe(Epoch(Released(conn)), [heard EXCEPT !.match = 0], ProbeDated(Answers["waiting"], clock, FALSE))
    /\ UNCHANGED <<clock, probe, report, held, cmd, changes>>

(* without a code the answer is applied; a session that is not logged in is
   asked again later                                                         *)
ReadSession(r) ==
    /\ MayFinish(r)
    /\ EndReconnect(r)
    /\ \E f \in Said(conn.pairing) :
          LET a == Answers[f]
          IN  Observe(Released(conn), heard,
                  ProbeDated([a EXCEPT !.retry = @ \/ f \in {"inactive", "waiting"}],
                             DatedAtStart(reconnect[r]), FALSE))
    /\ UNCHANGED <<clock, probe, report, held, cmd, changes>>

-----------------------------------------------------------------------------
(* Lifecycle reports: the webhook, and the inbox job that applies them *)

Stored == {n \in Reports : report[n].state # "absent"}

(* _pairing_receipt_metadata *)
Receipt(c) ==
    IF c.role = "primary" /\ c.pairing # "none" THEN [epoch |-> c.epoch, phase |-> c.pairing]
    ELSE [epoch |-> 0, phase |-> "none"]

(* _inbox_dedupe_key: a repeated report is the same event, unless health has
   seen another state since it accepted the event                              *)
Repeats(k) ==
    /\ Stored # {}
    /\ LET n == HighestOf(Stored)
       IN  /\ report[n].kind = k
           /\ [epoch |-> report[n].epoch, phase |-> report[n].phase] = Receipt(conn)
           /\ \/ report[n].state = "pending"
              \/ ~(conn.source = "probe" /\ conn.state # Target[k] /\ conn.healthEvent >= n)

StoreReport(n, k) ==
    /\ n \notin Stored /\ \A i \in 1 .. n - 1 : i \in Stored
    /\ conn.role = "primary"
    /\ ~Repeats(k)
    /\ report' = [report EXCEPT ![n] =
            [kind |-> k, state |-> "pending", at |-> clock,
             epoch |-> Receipt(conn).epoch, phase |-> Receipt(conn).phase]]
    /\ UNCHANGED <<clock, conn, probe, outdated, reconnect, held, cmd, pages, changes, heard>>

ReportDated(n) ==
    [source |-> "event", at |-> report[n].at, seq |-> n, owns |-> FALSE, probe |-> FALSE,
     kind |-> report[n].kind, epoch |-> report[n].epoch, phase |-> report[n].phase,
     state |-> Reported(report[n].kind), detail |-> "none", match |-> "none",
     conclusive |-> TRUE, retry |-> FALSE]

(* _apply_provider_state_event, and a check when the session says it connected *)
ProcessReport(n) ==
    /\ report[n].state = "pending"
    /\ report' = [report EXCEPT ![n].state = "done"]
    /\ IF conn.role = "historical"
       THEN UNCHANGED <<conn, probe, outdated, heard>>
       ELSE /\ Hear(conn, heard, ReportDated(n))
            /\ IF Target[report[n].kind] = "connected"
               THEN Enqueue(Applied(conn, ReportDated(n)), clock)
               ELSE Store(Applied(conn, ReportDated(n))) /\ UNCHANGED probe
    /\ UNCHANGED <<clock, reconnect, held, cmd, pages, changes>>

-----------------------------------------------------------------------------
(* Messages held while the pairing is not verified *)

HoldMessage(m) ==
    /\ held[m].state = "absent" /\ \A i \in 1 .. m - 1 : held[i].state # "absent"
    /\ conn.role = "primary" /\ conn.pairing \in Pending
    /\ held' = [held EXCEPT ![m] = [state |-> "blocked", at |-> clock, epoch |-> conn.epoch, config |-> conn.config]]
    /\ UNCHANGED <<clock, conn, probe, outdated, reconnect, report, cmd, pages, changes, heard>>

ProcessedLogout(epoch) ==
    \E n \in Stored : /\ report[n].kind = "LoggedOut" /\ report[n].epoch = epoch
                      /\ Unpaired(report[n].phase) /\ report[n].state = "done"

LoggedOutIn(epoch) ==
    \E n \in Stored : report[n].kind = "LoggedOut" /\ report[n].epoch = epoch /\ Unpaired(report[n].phase)

OfThisEpoch(h) == h.epoch = conn.epoch /\ h.config = conn.config

(* _contact_center_pairing_release_status = "verified" *)
Releasable(h) ==
    /\ OfThisEpoch(h)
    /\ conn.pairing = "verified" /\ conn.role = "primary"
    /\ conn.source = "probe" /\ Verified(conn)
    /\ h.at < conn.at
    /\ ~LoggedOutIn(conn.epoch)

(* _contact_center_confirm_pairing_origin, by an administrator *)
ConfirmOrigin(m) ==
    /\ held[m].state = "blocked" /\ Releasable(held[m])
    /\ held' = [held EXCEPT ![m].state = "released"]
    /\ UNCHANGED <<clock, conn, probe, outdated, reconnect, report, cmd, pages, changes, heard>>

-----------------------------------------------------------------------------
(* Commands of the outbox, and the waves that resume them *)

(* _contact_center_record_outbound_admission: a send is admitted to an active
   route, verified or not, and writes the row                                  *)
AdmitCommand(c) ==
    /\ cmd[c] = "absent" /\ \A i \in 1 .. c - 1 : cmd[i] # "absent"
    /\ conn.role = "primary" /\ conn.outbound
    /\ cmd' = [cmd EXCEPT ![c] = "ready"]
    /\ outdated' = Reading
    /\ UNCHANGED <<clock, conn, probe, reconnect, report, held, pages, changes, heard>>

(* _prepare_dispatch: through, or back to the queue for minutes *)
DispatchCommand(c) ==
    /\ c \in Eligible
    /\ cmd' = [cmd EXCEPT ![c] = IF Available(conn) THEN "sent" ELSE "parked"]
    /\ UNCHANGED <<clock, conn, probe, outdated, reconnect, report, held, pages, changes, heard>>

Between(p)  == {c \in Eligible : p.after < c /\ c <= p.cutoff}
BatchOf(p)  == {c \in Between(p) : Cardinality({d \in Between(p) : d <= c}) <= PageSize}
RestOf(p)   == Between(p) \ BatchOf(p)

Follow(p) == IF RestOf(p) = {} THEN {} ELSE {[p EXCEPT !.after = HighestOf(BatchOf(p))]}
FollowNone(p) == {}

(* _job_recover_outbox_commands *)
RunPage(p) ==
    /\ p \in pages
    /\ IF p.wave = conn.wave /\ Available(conn)
       THEN /\ cmd' = [c \in Commands |-> IF c \in BatchOf(p) THEN "ready" ELSE cmd[c]]
            /\ pages' = (pages \ {p}) \cup Follow(p)
            /\ outdated' = IF BatchOf(p) # {} THEN Reading ELSE outdated
       ELSE /\ pages' = pages \ {p}
            /\ UNCHANGED <<cmd, outdated>>
    /\ UNCHANGED <<clock, conn, probe, reconnect, report, held, changes, heard>>

-----------------------------------------------------------------------------
(* Administrators *)

Change == changes < MaxChanges /\ changes' = changes + 1

NoneActive == \A c \in Commands : cmd[c] \notin {"ready", "parked"}

(* The URL, the token or the expected identity change: nothing proved stands *)
Configure ==
    /\ Change
    /\ conn.role = "historical" \/ ~conn.outbound
    /\ Enqueue([conn EXCEPT !.state = "degraded", !.latched = TRUE, !.cooldown = 0,
                            !.next = clock, !.config = @ + 1], clock)
    /\ heard' = [heard EXCEPT !.match = 0, !.retry = 0]
    /\ UNCHANGED <<clock, reconnect, report, held, cmd, pages>>

(* _contact_center_activation_blockers, of a WuzAPI connection *)
Activatable ==
    /\ conn.state = "connected" /\ conn.source = "probe"
    /\ ~conn.pending /\ conn.detail = "none" /\ ~conn.latched

EnableOutbound ==
    /\ Change
    /\ conn.role = "primary" /\ ~conn.outbound /\ Activatable
    /\ Store([conn EXCEPT !.outbound = TRUE])
    /\ UNCHANGED <<clock, probe, reconnect, report, held, cmd, pages, heard>>

DisableOutbound ==
    /\ Change
    /\ conn.outbound /\ NoneActive
    /\ Store([conn EXCEPT !.outbound = FALSE])
    /\ UNCHANGED <<clock, probe, reconnect, report, held, cmd, pages, heard>>

(* action_set_historical, action_set_standby, action_use_as_primary *)
SetRole(role) ==
    /\ Change
    /\ role # conn.role
    /\ conn.role = "primary" => NoneActive
    /\ conn.role = "historical" => role = "standby"
    /\ role = "primary" => Activatable
    /\ Store([conn EXCEPT !.role = role, !.outbound = FALSE])
    /\ UNCHANGED <<clock, probe, reconnect, report, held, cmd, pages, heard>>

Tick ==
    /\ clock < LastInstant
    /\ clock' = clock + 1
    /\ UNCHANGED <<conn, probe, outdated, reconnect, report, held, cmd, pages, changes, heard>>

-----------------------------------------------------------------------------
(* A connection verified at the first instant, in service or not yet *)
Init ==
    /\ clock = 1
    /\ \E outbound \in BOOLEAN : conn =
              [role |-> "primary", outbound |-> outbound,
               state |-> "connected", at |-> 1, source |-> "probe", lastEvent |-> 0, healthEvent |-> 0,
               latched |-> FALSE, detail |-> "none", healthAt |-> 1, unhealthy |-> FALSE,
               pending |-> FALSE, owner |-> 0, next |-> 1 + Interval, cooldown |-> 0,
               config |-> 1, epoch |-> 0, pairing |-> "none", wave |-> 0, wizard |-> 0]
    /\ probe = [j \in Probes |-> [phase |-> "absent", eta |-> 0, at |-> 0]]
    /\ outdated = {}
    /\ reconnect = [r \in Reconnects |->
            [phase |-> "absent", eta |-> 0, at |-> 0, config |-> 0, token |-> <<0, 0, "none">>]]
    /\ report = [n \in Reports |->
            [kind |-> "Connected", state |-> "absent", at |-> 0, epoch |-> 0, phase |-> "none"]]
    /\ held = [m \in Held |-> [state |-> "absent", at |-> 0, epoch |-> 0, config |-> 0]]
    /\ cmd = [c \in Commands |-> "absent"]
    /\ pages = {}
    /\ changes = 0
    /\ heard = [match |-> 1, against |-> 0, retry |-> 0]

ProbeStep(j) ==
    \/ SkipProbe(j) \/ CompleteInactive(j) \/ BeginProbe(j)
    \/ EndProbe(j) \/ RestartProbe(j) \/ LoseProbe(j) \/ RequeueProbe(j)

ReconnectStep(r) ==
    \/ StartReconnect(r) \/ AbandonReconnect(r) \/ BeginReconnect(r)
    \/ ShowCode(r) \/ ReadSession(r)

Administer ==
    \/ RequestCheck \/ Configure \/ EnableOutbound \/ DisableOutbound
    \/ \E role \in {"primary", "standby", "historical"} : SetRole(role)

Next ==
    \/ Tick \/ ScheduleCheck \/ Administer
    \/ \E retry \in BOOLEAN : HintAfterSend(retry)
    \/ \E j \in Probes : ProbeStep(j)
    \/ \E r \in Reconnects : ReconnectStep(r)
    \/ \E n \in Reports : ProcessReport(n) \/ \E k \in Kinds : StoreReport(n, k)
    \/ \E m \in Held : HoldMessage(m) \/ ConfirmOrigin(m)
    \/ \E c \in Commands : AdmitCommand(c) \/ DispatchCommand(c)
    \/ \E p \in pages : RunPage(p)

Spec == Init /\ [][Next]_vars

-----------------------------------------------------------------------------
Instants == 0 .. LastInstant
Horizon  == LET durations == {Lease + Jitter, Interval, Backoff, RetryAfter, EventDelay}
            IN  CHOOSE d \in durations : \A e \in durations : e <= d
Due      == 0 .. LastInstant + Horizon
Pairings == Pending \cup {"none", "verified", "rejected"}

(* Every variable keeps its type. *)
TypeOK ==
    /\ clock \in 1 .. LastInstant
    /\ conn \in [role : {"primary", "standby", "historical"}, outbound : BOOLEAN,
                 state : States, at : Instants, source : {"probe", "event"},
                 lastEvent : 0 .. LastReport, healthEvent : 0 .. LastReport,
                 latched : BOOLEAN, detail : {"none", "rate_limited", "unreachable"},
                 healthAt : Instants, unhealthy : BOOLEAN,
                 pending : BOOLEAN, owner : 0 .. LastProbe, next : Due, cooldown : Due,
                 config : 1 .. 1 + MaxChanges, epoch : 0 .. LastReconnect,
                 pairing : Pairings, wave : Nat, wizard : 0 .. LastReconnect]
    /\ probe \in [Probes -> [phase : {"absent", "queued", "reading", "done", "dead"},
                             eta : Due, at : Instants]]
    /\ outdated \in SUBSET Probes
    /\ reconnect \in [Reconnects -> [phase : {"absent", "queued", "reading", "done"}, eta : Due,
                         at : Instants, config : 0 .. 1 + MaxChanges,
                         token : (0 .. 1 + MaxChanges) \X (0 .. LastReconnect) \X Pairings]]
    /\ report \in [Reports -> [kind : Kinds \cup {"Connected"}, state : {"absent", "pending", "done"},
                               at : Instants, epoch : 0 .. LastReconnect, phase : Pairings]]
    /\ held \in [Held -> [state : {"absent", "blocked", "released"}, at : Instants,
                          epoch : 0 .. LastReconnect, config : 0 .. 1 + MaxChanges]]
    /\ cmd \in [Commands -> {"absent", "ready", "parked", "sent"}]
    /\ pages \subseteq [wave : Nat, after : 0 .. LastCommand, cutoff : Commands]
    /\ changes \in 0 .. MaxChanges
    /\ heard \in [match : Instants, against : Instants, retry : Due]

(* Sends go through only on a proof: while the session counts as verified, a
   probe of this configuration and of this pairing epoch has matched the identity,
   and no answer or report read or received at the same second or later spoke
   against it, in whatever order they were processed.                          *)
OpenOnlyOnLatest == Verified(conn) => heard.match > heard.against

(* A Retry-After of the provider stands until it is over, whoever was told it and
   whatever was processed since: no later answer, report, hint or dead job makes a
   check that starts before it, unless the connection was configured anew.        *)
CooldownHonoured ==
    [][\A j \in Probes : probe[j].phase = "absent" /\ probe'[j].phase # "absent" =>
            heard'.retry <= clock]_vars

(* No sequence of lost races, cooldowns, dead jobs and hints pushes the next check
   of a connection further away than the longest single delay.                 *)
NextCheckIsNear == conn.next <= clock + Horizon

(* A command that was parked or not yet tried when sends are let through again is
   ahead of a recovery page of the present wave, unless its own job may run.    *)
ParkedIsCovered ==
    Available(conn) =>
        \A c \in Commands : cmd[c] = "parked" =>
            \E p \in pages : p.wave = conn.wave /\ p.after < c /\ c <= p.cutoff

(* What the release of a held message rests on. *)
Proven ==
    \A m \in Held : held[m].state = "blocked" /\ held'[m].state = "released" =>
        /\ heard.match > held[m].at
        /\ held[m].epoch = conn.epoch /\ held[m].config = conn.config
        /\ ~\E n \in Stored : /\ report[n].kind = "LoggedOut" /\ report[n].epoch = held[m].epoch
                              /\ report[n].phase \in {"qr", "expired"}

(* A held message is released only after the identity was matched by a read that
   began after its receipt, in the epoch and configuration it was held in, and only
   if the provider never said, processed or not, that a session of that epoch was
   logged out before it was verified.                                          *)
ReleasedOnProof == [][Proven]_vars

(* A report of a later cycle is not taken for a repetition of the last one: never
   while the state shown was read by a probe after the last report was received,
   and differs from what that kind of report says.                             *)
LaterCycleIsStored ==
    \A k \in Kinds : Repeats(k) =>
        LET n == HighestOf(Stored)
        IN  ~(/\ report[n].state = "done" /\ conn.source = "probe"
              /\ conn.at > report[n].at /\ conn.state # Target[k])
=============================================================================
