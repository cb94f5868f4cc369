--------------------------- MODULE OutboxDispatch ---------------------------
(***************************************************************************)
(* One outbound message of the contact center and the retries an agent     *)
(* asks for: the outbox commands of a retry lineage, the queue jobs that    *)
(* execute them, the workers that run the jobs, the provider, and everyone  *)
(* who writes the same rows meanwhile (delivery receipts and echoes, the    *)
(* recovery cron, the administrator, the queue operator).                   *)
(*                                                                          *)
(* Command 1 is the send itself; command n + 1 is the manual retry of       *)
(* command n (retry_of_id is unique, so a lineage is a chain).  Each        *)
(* database transaction is one action: the code locks every row it reads    *)
(* and writes, and PostgreSQL at REPEATABLE READ aborts the loser of a      *)
(* write conflict.  The one transaction that spans provider I/O is split,   *)
(* and carries the age of its snapshot.                                     *)
(***************************************************************************)
EXTENDS Integers, FiniteSets

CONSTANTS
    Workers,            \* queue_job worker processes
    MaxLineage,         \* commands of one lineage: the send and its retries
    JobSlots,           \* queue jobs that may ever exist for one command
    MaxAttempts,        \* QUEUE_ATTEMPT_CEILING
    MaxCopies,          \* bound: copies the provider may accept per command
    MaxDisruptions,     \* bound: crashes, unexpected failures, operator acts
    RejectionIsProof,   \* does a rejection prove the provider sent nothing?
    LiveReset           \* may a job be reset while its worker is still alive?

ASSUME LineageAssumption == MaxLineage \in Nat \ {0}
ASSUME SlotsAssumption   == JobSlots \in Nat \ {0}
ASSUME CeilingAssumption == MaxAttempts \in Nat \ {0}
ASSUME CopiesAssumption  == MaxCopies \in Nat \ {0}
ASSUME FlagsAssumption   == RejectionIsProof \in BOOLEAN /\ LiveReset \in BOOLEAN
ASSUME DisruptAssumption == MaxDisruptions \in Nat

VARIABLES
    state,          \* contact.center.outbox.command: state ("absent" before create)
    attempts,       \* attempts
    owner,          \* queue_job_uuid, as a slot of the command (0: none)
    mark,           \* dispatch_job_uuid and dispatch_started_at (0: none)
    evidence,       \* provider_response_json: what a lost finalization recorded
    resolution,     \* resolution of an uncertain command
    delivery,       \* contact.center.message.binding: delivery_state
    ext,            \* external_message_id is known
    contentDeleted, \* message_state of the source, or of the message it replies to
    gate,           \* what the connection row says of dispatching now
    jobState,       \* queue.job: state
    pc, cmd, slot,  \* worker: where it is, and the job it runs
    answer,         \* worker: the provider's answer, then the verdict on the job
    rowStale,       \* worker: its snapshot predates the command row
    accepted,       \* provider: copies of the message it accepted
    unproven,       \* history: commands dispatched without a proven rejection since
    disruptions     \* bound: disruptions so far

rowVars    == <<state, attempts, owner, mark, evidence, resolution>>
bindVars   == <<delivery, ext>>
workerVars == <<pc, cmd, slot, answer>>
envVars    == <<contentDeleted, gate>>
vars == <<rowVars, bindVars, envVars, jobState, workerVars, rowStale, accepted,
          unproven, disruptions>>

Commands    == 1..MaxLineage
Slots       == 1..JobSlots
States      == {"absent", "pending", "retry", "processing", "done", "uncertain",
                "dead", "cancelled"}
(* Mutant: a job that finds its command beyond the boundary sends it again. *)
SendableOrBegun == {"pending", "retry", "processing"}
Sendable    == {"pending", "retry"}
Final       == {"done", "uncertain", "dead", "cancelled"}
Deliveries  == {"queued", "sent", "delivered", "read", "failed"}
Positive    == {"sent", "delivered", "read"}
JobStates   == {"none", "pending", "started", "done", "failed", "cancelled"}
Active      == {"pending", "started"}
Rejections  == {"paused", "transient", "permanent"}
Answers     == Rejections \cup {"success", "ambiguous", "malformed"}
Verdicts    == {"finished", "again"}
InFlight    == {"boundary", "calling", "answered"}

-----------------------------------------------------------------------------
(* Helpers *)

(* _contact_center_apply_delivery: failed only over queued, positive evidence
   over failed, otherwise the higher rank. *)
Rank == [queued |-> 0, sent |-> 1, delivered |-> 2, read |-> 3, failed |-> 0]
Advance(d, s) ==
    IF s = "failed" THEN IF d = "queued" THEN "failed" ELSE d
    ELSE IF d = "failed" \/ Rank[s] > Rank[d] THEN s ELSE d

(* Mutant: one attempt too many. *)
ExhaustedLate(n) == n > MaxAttempts

(* The attempt ceiling is reached with the n-th attempt. *)
Exhausted(n) == n >= MaxAttempts

(* A committed write of command c outdates every snapshot taken before it. *)
Touch(c) ==
    rowStale' = [v \in Workers |->
                    rowStale[v] \/ (cmd[v] = c /\ pc[v] \in {"calling", "answered"})]

(* canonical_queue_job: the newest job of the command in one of some states. *)
Newest(c, among, i) ==
    /\ jobState[c][i] \in among
    /\ \A k \in Slots : k > i => jobState[c][k] \notin among

HasJob(c, among) == \E i \in Slots : jobState[c][i] \in among

(* _reuse_queue_job, then _enqueue: adopt the active job, else revive the newest
   failed one, else create the job in the next free slot. *)
EnsureJob(c) ==
    \/ \E i \in Slots :
          /\ Newest(c, Active, i)
          /\ owner' = [owner EXCEPT ![c] = i]
          /\ UNCHANGED jobState
    \/ \E i \in Slots :
          /\ ~HasJob(c, Active)
          /\ \/ Newest(c, {"failed"}, i)
             \/ /\ ~HasJob(c, {"failed"})
                /\ jobState[c][i] = "none"
                /\ \A k \in Slots : k < i => jobState[c][k] # "none"
          /\ owner' = [owner EXCEPT ![c] = i]
          /\ jobState' = [jobState EXCEPT ![c][i] = "pending"]

(* Mutant: the outcome of the message is written where that of the command goes. *)
BuryAsFailed(c) ==
    /\ state' = [state EXCEPT ![c] = "failed"]
    /\ delivery' = [delivery EXCEPT ![c] = Advance(@, "failed")]

(* _finish_failure("dead"): a still queued message becomes failed. *)
Bury(c) ==
    /\ state' = [state EXCEPT ![c] = "dead"]
    /\ delivery' = [delivery EXCEPT ![c] = Advance(@, "failed")]

(* Mutant: an ambiguous dispatch is taken for a failed one. *)
DoubtAsFailure(c) == state' = [state EXCEPT ![c] = "dead"]

(* _finish_failure("uncertain"). *)
Doubt(c) == state' = [state EXCEPT ![c] = "uncertain"]

(* _persist_safe_retry: the dispatch fields are cleared. *)
PersistSafeRetry(c, s) ==
    /\ state' = [state EXCEPT ![c] = s]
    /\ mark' = [mark EXCEPT ![c] = 0]

Disrupt == disruptions < MaxDisruptions /\ disruptions' = disruptions + 1

(* Mutant: the source of a retry is not looked at again before the dispatch. *)
RetrySourceAssumed(c) == TRUE

(* _lock_and_validate_retry_source_for_dispatch, for the retry c. *)
RetrySourceSafe(c) ==
    c > 1 => /\ state[c - 1] = "dead" /\ resolution[c - 1] = "none"
             /\ delivery[c - 1] = "failed" /\ ~ext[c - 1]
             /\ ~contentDeleted

-----------------------------------------------------------------------------
Init ==
    /\ state = [c \in Commands |-> "absent"]
    /\ attempts = [c \in Commands |-> 0]
    /\ owner = [c \in Commands |-> 0]
    /\ mark = [c \in Commands |-> 0]
    /\ evidence = [c \in Commands |-> "none"]
    /\ resolution = [c \in Commands |-> "none"]
    /\ delivery = [c \in Commands |-> "queued"]
    /\ ext = [c \in Commands |-> FALSE]
    /\ contentDeleted = FALSE
    /\ gate = "open"
    /\ jobState = [c \in Commands |-> [i \in Slots |-> "none"]]
    /\ pc = [w \in Workers |-> "idle"]
    /\ cmd = [w \in Workers |-> 0]
    /\ slot = [w \in Workers |-> 0]
    /\ answer = [w \in Workers |-> "none"]
    /\ rowStale = [w \in Workers |-> FALSE]
    /\ accepted = [c \in Commands |-> 0]
    /\ unproven = {}
    /\ disruptions = 0

-----------------------------------------------------------------------------
(* The agent *)

(* One transaction creates message, binding, outbox command and job. *)
Create(c) ==
    /\ state[c] = "absent"
    /\ state' = [state EXCEPT ![c] = "pending"]
    /\ owner' = [owner EXCEPT ![c] = 1]
    /\ jobState' = [jobState EXCEPT ![c][1] = "pending"]
    /\ UNCHANGED <<attempts, mark, evidence, resolution, bindVars, envVars,
                   workerVars, rowStale, accepted, unproven, disruptions>>

(* _send_message; a repeated client_request_id finds the command and changes
   nothing. *)
SendMessage == Create(1)

(* _resend_message of the failed command c, once: unique(retry_of_id). *)
ResendMessage(c) ==
    /\ c + 1 \in Commands
    /\ state[c] = "dead" /\ resolution[c] = "none"
    /\ delivery[c] = "failed" /\ ~ext[c]
    /\ ~contentDeleted
    /\ gate # "paused"
    /\ Create(c + 1)

-----------------------------------------------------------------------------
(* The worker: ContactCenterOutboxCommand._job_process *)

(* The runner hands a pending job to an idle worker. *)
StartJob(w, c, i) ==
    /\ pc[w] = "idle"
    /\ jobState[c][i] = "pending"
    /\ jobState' = [jobState EXCEPT ![c][i] = "started"]
    /\ pc' = [pc EXCEPT ![w] = "run"]
    /\ cmd' = [cmd EXCEPT ![w] = c]
    /\ slot' = [slot EXCEPT ![w] = i]
    /\ UNCHANGED <<rowVars, bindVars, envVars, answer, rowStale, accepted,
                   unproven, disruptions>>

(* The worker leaves a transaction with a verdict for queue_job. *)
Leave(w, verdict) ==
    /\ pc' = [pc EXCEPT ![w] = "ending"]
    /\ answer' = [answer EXCEPT ![w] = verdict]
    /\ UNCHANGED <<cmd, slot>>

Owns(w) == owner[cmd[w]] = slot[w]

(* Neither the owner of the command nor of a command left to send. *)
SkipJob(w) ==
    /\ pc[w] = "run"
    /\ ~Owns(w) \/ state[cmd[w]] \in Final
    /\ Leave(w, "finished")
    /\ UNCHANGED <<rowVars, bindVars, envVars, jobState, rowStale, accepted,
                   unproven, disruptions>>

(* A job that meets its command beyond the durable boundary gives up on it. *)
ObserveBoundary(w) ==
    LET c == cmd[w] IN
    /\ pc[w] = "run"
    /\ Owns(w)
    /\ state[c] = "processing"
    /\ Doubt(c)
    /\ Touch(c)
    /\ Leave(w, "finished")
    /\ UNCHANGED <<attempts, owner, mark, evidence, resolution, bindVars, envVars,
                   jobState, accepted, unproven, disruptions>>

MayPrepare(w) ==
    /\ pc[w] = "run"
    /\ Owns(w)
    /\ state[cmd[w]] \in Sendable

(* RetrySourceInvalidatedError: the retry is cancelled, never sent. *)
CancelRetry(w) ==
    LET c == cmd[w] IN
    /\ MayPrepare(w)
    /\ ~RetrySourceSafe(c)
    /\ state' = [state EXCEPT ![c] = "cancelled"]
    /\ Touch(c)
    /\ Leave(w, "finished")
    /\ UNCHANGED <<attempts, owner, mark, evidence, resolution, bindVars, envVars,
                   jobState, accepted, unproven, disruptions>>

(* OutboundThrottleError, ProviderPausedError: wait, without counting an attempt. *)
PostponeDispatch(w) ==
    LET c == cmd[w] IN
    /\ MayPrepare(w)
    /\ RetrySourceSafe(c)
    /\ gate # "open"
    /\ PersistSafeRetry(c, "pending")
    /\ Touch(c)
    /\ Leave(w, "again")
    /\ UNCHANGED <<attempts, owner, evidence, resolution, bindVars, envVars,
                   jobState, accepted, unproven, disruptions>>

(* AdapterError, DTOValidationError or ValidationError while preparing. *)
RejectBeforeDispatch(w) ==
    LET c == cmd[w] IN
    /\ MayPrepare(w)
    /\ RetrySourceSafe(c)
    /\ gate = "open"
    /\ Bury(c)
    /\ Touch(c)
    /\ Leave(w, "finished")
    /\ UNCHANGED <<attempts, owner, mark, evidence, resolution, ext, envVars,
                   jobState, accepted, unproven, disruptions>>

(* Any other exception while preparing: retried up to the ceiling. *)
FailBeforeDispatch(w) ==
    LET c == cmd[w] IN
    /\ MayPrepare(w)
    /\ attempts' = [attempts EXCEPT ![c] = @ + 1]
    /\ \/ /\ Exhausted(attempts[c] + 1)
          /\ Bury(c)
          /\ Leave(w, "finished")
          /\ UNCHANGED mark
       \/ /\ ~Exhausted(attempts[c] + 1)
          /\ PersistSafeRetry(c, "retry")
          /\ Leave(w, "again")
          /\ UNCHANGED delivery
    /\ Touch(c)
    /\ UNCHANGED <<owner, evidence, resolution, ext, envVars, jobState, accepted,
                   unproven, disruptions>>

(* _reserve_outbound_dispatch and _start_dispatch: the durable boundary, with the
   pacing interval reserved in the same transaction. *)
StartDispatch(w) ==
    LET c == cmd[w] IN
    /\ MayPrepare(w)
    /\ RetrySourceSafe(c)
    /\ gate = "open"
    /\ gate' \in {"open", "throttled"}
    /\ state' = [state EXCEPT ![c] = "processing"]
    /\ attempts' = [attempts EXCEPT ![c] = @ + 1]
    /\ mark' = [mark EXCEPT ![c] = slot[w]]
    /\ unproven' = unproven \cup {c}
    /\ pc' = [pc EXCEPT ![w] = "boundary"]
    /\ Touch(c)
    /\ UNCHANGED <<owner, evidence, resolution, bindVars, contentDeleted, jobState,
                   cmd, slot, answer, accepted, disruptions>>

(* The first read after the boundary commit fixes the snapshot of the transaction
   that will record the outcome. *)
OpenCall(w) ==
    /\ pc[w] = "boundary"
    /\ pc' = [pc EXCEPT ![w] = "calling"]
    /\ rowStale' = [rowStale EXCEPT ![w] = FALSE]
    /\ UNCHANGED <<rowVars, bindVars, envVars, jobState, cmd, slot, answer,
                   accepted, unproven, disruptions>>

(* adapter.execute_command: the provider accepts the message or not, and the
   worker learns something of it. *)
CallProvider(w) ==
    LET c == cmd[w] IN
    /\ pc[w] = "calling"
    /\ \E a \in Answers, copies \in {0, 1} :
          /\ a = "success" => copies = 1
          /\ a \in Rejections /\ RejectionIsProof => copies = 0
          /\ accepted[c] + copies <= MaxCopies
          /\ accepted' = [accepted EXCEPT ![c] = @ + copies]
          /\ answer' = [answer EXCEPT ![w] = a]
    /\ pc' = [pc EXCEPT ![w] = "answered"]
    /\ UNCHANGED <<rowVars, bindVars, envVars, jobState, cmd, slot, rowStale,
                   unproven, disruptions>>

(* The outcome can be written: no one wrote the command since the snapshot. *)
MaySettle(w, among) ==
    /\ pc[w] = "answered"
    /\ answer[w] \in among
    /\ ~rowStale[w]

(* SerializationFailure on the command, the connection or the message: nothing is
   written, and queue_job runs the job again. *)
LoseOutcome(w) ==
    /\ pc[w] = "answered"
    /\ Leave(w, "again")
    /\ UNCHANGED <<rowVars, bindVars, envVars, jobState, rowStale, accepted,
                   unproven, disruptions>>

(* _finalize_dispatch_success; some providers name no external message ID. *)
SettleSuccess(w) ==
    LET c == cmd[w] IN
    /\ MaySettle(w, {"success"})
    /\ state' = [state EXCEPT ![c] = "done"]
    /\ delivery' = [delivery EXCEPT ![c] = Advance(@, "sent")]
    /\ \E named \in BOOLEAN : ext' = [ext EXCEPT ![c] = @ \/ named]
    /\ Touch(c)
    /\ Leave(w, "finished")
    /\ UNCHANGED <<attempts, owner, mark, evidence, resolution, envVars, jobState,
                   accepted, unproven, disruptions>>

(* PostDispatchPersistenceError: the provider answered, the database refused (or
   the answer had no shape).  The ambiguity is committed first; only a
   serialization failure of a named success is repaired afterwards. *)
KeepUncertain(w) ==
    LET c == cmd[w] IN
    /\ MaySettle(w, {"success", "malformed"})
    /\ Doubt(c)
    /\ \E kind \in {"conflict", "other"} :
          /\ kind = "conflict" => answer[w] = "success"
          /\ evidence' = [evidence EXCEPT ![c] = kind]
          /\ IF kind = "conflict"
             THEN /\ pc' = [pc EXCEPT ![w] = "repair"]
                  /\ UNCHANGED <<cmd, slot, answer>>
             ELSE Leave(w, "finished")
    /\ Touch(c)
    /\ UNCHANGED <<attempts, owner, mark, resolution, bindVars, envVars, jobState,
                   accepted, unproven, disruptions>>

(* ProviderPausedError after the boundary: back to the queue, attempt refunded.
   A Retry-After extends the deadline of the connection. *)
ExtendDeadline == gate' \in {gate} \cup (IF gate = "open" THEN {"throttled"} ELSE {})

SettlePaused(w) ==
    LET c == cmd[w] IN
    /\ MaySettle(w, {"paused"})
    /\ PersistSafeRetry(c, "pending")
    /\ attempts' = [attempts EXCEPT ![c] = IF @ > 0 THEN @ - 1 ELSE 0]
    /\ unproven' = unproven \ {c}
    /\ ExtendDeadline
    /\ Touch(c)
    /\ Leave(w, "again")
    /\ UNCHANGED <<owner, evidence, resolution, bindVars, contentDeleted, jobState,
                   accepted, disruptions>>

(* TransientAdapterError: retried until the ceiling. *)
SettleTransient(w) ==
    LET c == cmd[w] IN
    /\ MaySettle(w, {"transient"})
    /\ \/ /\ Exhausted(attempts[c])
          /\ Bury(c)
          /\ Leave(w, "finished")
          /\ UNCHANGED mark
       \/ /\ ~Exhausted(attempts[c])
          /\ PersistSafeRetry(c, "retry")
          /\ Leave(w, "again")
          /\ UNCHANGED delivery
    /\ unproven' = unproven \ {c}
    /\ ExtendDeadline
    /\ Touch(c)
    /\ UNCHANGED <<attempts, owner, evidence, resolution, ext, contentDeleted,
                   jobState, accepted, disruptions>>

(* AdapterError: the provider refused for good. *)
SettlePermanent(w) ==
    LET c == cmd[w] IN
    /\ MaySettle(w, {"permanent"})
    /\ Bury(c)
    /\ unproven' = unproven \ {c}
    /\ Touch(c)
    /\ Leave(w, "finished")
    /\ UNCHANGED <<attempts, owner, mark, evidence, resolution, ext, envVars,
                   jobState, accepted, disruptions>>

(* AmbiguousTimeoutError, or any unexpected exception after the boundary. *)
SettleAmbiguous(w) ==
    LET c == cmd[w] IN
    /\ MaySettle(w, {"ambiguous"})
    /\ Doubt(c)
    /\ evidence' = [evidence EXCEPT ![c] = "other"]
    /\ Touch(c)
    /\ Leave(w, "finished")
    /\ UNCHANGED <<attempts, owner, mark, resolution, bindVars, envVars, jobState,
                   accepted, unproven, disruptions>>

(* _provider_success_reconciliation_evidence. *)
Provable(c) ==
    /\ state[c] = "uncertain"
    /\ evidence[c] = "conflict"
    /\ resolution[c] = "none"
    /\ mark[c] # 0 /\ owner[c] = mark[c]
    /\ attempts[c] > 0

(* _contact_center_reconcile_provider_success: project a named success whose
   finalization lost a race.  Never calls the provider. *)
Reconcile(c) ==
    /\ Provable(c)
    /\ state' = [state EXCEPT ![c] = "done"]
    /\ delivery' = [delivery EXCEPT ![c] = Advance(@, "sent")]
    /\ ext' = [ext EXCEPT ![c] = TRUE]
    /\ Touch(c)
    /\ UNCHANGED <<attempts, owner, mark, evidence, resolution, envVars, jobState,
                   accepted, unproven, disruptions>>

(* The worker repairs right after the commit, in a fresh snapshot... *)
RepairSuccess(w) ==
    /\ pc[w] = "repair"
    /\ Reconcile(cmd[w])
    /\ Leave(w, "finished")

(* ... or gives up: three conflicts, an ID conflict, or nothing left to repair. *)
GiveUpRepair(w) ==
    /\ pc[w] = "repair"
    /\ Leave(w, "finished")
    /\ UNCHANGED <<rowVars, bindVars, envVars, jobState, rowStale, accepted,
                   unproven, disruptions>>

Rest(w) ==
    /\ pc' = [pc EXCEPT ![w] = "idle"]
    /\ cmd' = [cmd EXCEPT ![w] = 0]
    /\ slot' = [slot EXCEPT ![w] = 0]
    /\ answer' = [answer EXCEPT ![w] = "none"]
    /\ rowStale' = [rowStale EXCEPT ![w] = FALSE]

SetJob(w, s) == jobState' = [jobState EXCEPT ![cmd[w]][slot[w]] = s]

(* queue_job records the verdict in a transaction of its own. *)
EndJob(w) ==
    /\ pc[w] = "ending"
    /\ SetJob(w, IF answer[w] = "again" THEN "pending" ELSE "done")
    /\ Rest(w)
    /\ UNCHANGED <<rowVars, bindVars, envVars, accepted, unproven, disruptions>>

(* An exception nobody expects fails the job where it stands. *)
FailJob(w) ==
    /\ pc[w] \in {"run", "answered"}
    /\ SetJob(w, "failed")
    /\ Rest(w)
    /\ Disrupt
    /\ UNCHANGED <<rowVars, bindVars, envVars, accepted, unproven>>

Crash(w) ==
    /\ pc[w] # "idle"
    /\ Rest(w)
    /\ Disrupt
    /\ UNCHANGED <<rowVars, bindVars, envVars, jobState, accepted, unproven>>

-----------------------------------------------------------------------------
(* queue_job and its operator *)

(* A started job whose worker is gone becomes pending again; with LiveReset also
   one whose worker still runs (another node, a manual requeue). *)
ResetJob(c, i) ==
    LET live == \E w \in Workers : cmd[w] = c /\ slot[w] = i IN
    /\ jobState[c][i] = "started"
    /\ jobState' = [jobState EXCEPT ![c][i] = "pending"]
    /\ IF live THEN LiveReset /\ Disrupt ELSE UNCHANGED disruptions
    /\ UNCHANGED <<rowVars, bindVars, envVars, workerVars, rowStale, accepted,
                   unproven>>

(* The operator cancels a job that is not running, or runs an ended one again. *)
OperateJob(c, i) ==
    /\ \/ /\ jobState[c][i] \in {"pending", "failed"}
          /\ jobState' = [jobState EXCEPT ![c][i] = "cancelled"]
       \/ /\ jobState[c][i] \in {"failed", "done", "cancelled"}
          /\ jobState' = [jobState EXCEPT ![c][i] = "pending"]
    /\ Disrupt
    /\ UNCHANGED <<rowVars, bindVars, envVars, workerVars, rowStale, accepted,
                   unproven>>

-----------------------------------------------------------------------------
(* Those who put a command back to work *)

Requeueable(c) == state[c] \in Sendable /\ mark[c] = 0

Requeue(c) ==
    /\ Requeueable(c)
    /\ EnsureJob(c)
    /\ IF owner' = owner THEN UNCHANGED rowStale ELSE Touch(c)
    /\ UNCHANGED <<state, attempts, mark, evidence, resolution, bindVars, envVars,
                   workerVars, accepted, unproven, disruptions>>

(* Mutant: only commands that never had a job are looked for. *)
NeverOwned(c) == owner[c] = 0

(* _lock_orphaned_queue_record_ids: the owner job is not active. *)
Orphaned(c) == owner[c] # 0 => jobState[c][owner[c]] \notin Active

(* _cron_recover_orphaned_queue_jobs. *)
RecoverOrphan(c) == Orphaned(c) /\ Requeue(c)

(* action_requeue of the administrator. *)
RequeueByAdmin(c) == Requeue(c)

(* _job_recover_outbox_commands, once the connection is available again. *)
ResumeAfterHealth(c) == gate # "paused" /\ Requeue(c)

-----------------------------------------------------------------------------
(* Evidence, administration, environment *)

(* Mutant: the receipt updates the message and leaves its command alone. *)
CompleteNothing(c) == UNCHANGED <<state, rowStale>>

(* _complete_send_outboxes_from_positive_evidence. *)
CompleteFromEvidence(c) ==
    IF state[c] \in Sendable \cup {"uncertain"}
    THEN state' = [state EXCEPT ![c] = "done"] /\ Touch(c)
    ELSE UNCHANGED <<state, rowStale>>

(* An authenticated receipt or from_me echo of an accepted copy.  While the
   command is processing the inbox event is retried later, and changes nothing. *)
ReceiveEvidence(c, s) ==
    /\ accepted[c] > 0
    /\ state[c] # "processing"
    /\ CompleteFromEvidence(c)
    /\ delivery' = [delivery EXCEPT ![c] = Advance(@, s)]
    /\ ext' = [ext EXCEPT ![c] = TRUE]
    /\ UNCHANGED <<attempts, owner, mark, evidence, resolution, envVars, jobState,
                   workerVars, accepted, unproven, disruptions>>

Resolvable(c) == state[c] = "uncertain" /\ resolution[c] = "none"

(* _resolve_uncertain, by an administrator who looked at the provider. *)
ConfirmDelivery(c) ==
    /\ Resolvable(c)
    /\ state' = [state EXCEPT ![c] = "done"]
    /\ resolution' = [resolution EXCEPT ![c] = "delivered"]
    /\ delivery' = [delivery EXCEPT ![c] = Advance(@, "delivered")]
    /\ Touch(c)
    /\ UNCHANGED <<attempts, owner, mark, evidence, ext, envVars, jobState,
                   workerVars, accepted, unproven, disruptions>>

CloseWithoutSend(c) ==
    /\ Resolvable(c)
    /\ delivery[c] \notin Positive
    /\ state' = [state EXCEPT ![c] = "cancelled"]
    /\ resolution' = [resolution EXCEPT ![c] = "closed"]
    /\ Touch(c)
    /\ UNCHANGED <<attempts, owner, mark, evidence, bindVars, envVars, jobState,
                   workerVars, accepted, unproven, disruptions>>

(* action_reconcile_provider_success. *)
ReconcileByAdmin(c) == Reconcile(c) /\ UNCHANGED workerVars

(* Health, role, pacing and Retry-After of the connection, as other
   conversations and the health job move them; time passes. *)
ChangeGate ==
    /\ gate' \in {"open", "throttled", "paused"} \ {gate}
    /\ UNCHANGED <<rowVars, bindVars, contentDeleted, jobState, workerVars,
                   rowStale, accepted, unproven, disruptions>>

(* A revoke deletes the message a retry would repeat or reply to. *)
DeleteContent ==
    /\ ~contentDeleted
    /\ contentDeleted' = TRUE
    /\ UNCHANGED <<rowVars, bindVars, gate, jobState, workerVars, rowStale,
                   accepted, unproven, disruptions>>

-----------------------------------------------------------------------------
PrepareStep(w) ==
    \/ SkipJob(w)
    \/ ObserveBoundary(w)
    \/ CancelRetry(w)
    \/ PostponeDispatch(w)
    \/ RejectBeforeDispatch(w)
    \/ FailBeforeDispatch(w)
    \/ StartDispatch(w)

SettleStep(w) ==
    \/ LoseOutcome(w)
    \/ SettleSuccess(w)
    \/ KeepUncertain(w)
    \/ SettlePaused(w)
    \/ SettleTransient(w)
    \/ SettlePermanent(w)
    \/ SettleAmbiguous(w)

WorkerStep(w) ==
    \/ PrepareStep(w)
    \/ OpenCall(w)
    \/ CallProvider(w)
    \/ SettleStep(w)
    \/ RepairSuccess(w)
    \/ GiveUpRepair(w)
    \/ EndJob(w)

Next ==
    \/ SendMessage
    \/ \E c \in Commands : ResendMessage(c)
    \/ \E w \in Workers, c \in Commands, i \in Slots : StartJob(w, c, i)
    \/ \E w \in Workers : WorkerStep(w) \/ FailJob(w) \/ Crash(w)
    \/ \E c \in Commands, i \in Slots : ResetJob(c, i) \/ OperateJob(c, i)
    \/ \E c \in Commands : RecoverOrphan(c) \/ RequeueByAdmin(c)
                            \/ ResumeAfterHealth(c)
    \/ \E c \in Commands, s \in Positive : ReceiveEvidence(c, s)
    \/ \E c \in Commands : ConfirmDelivery(c) \/ CloseWithoutSend(c)
                            \/ ReconcileByAdmin(c)
    \/ ChangeGate
    \/ DeleteContent

Spec == Init /\ [][Next]_vars

(* The scheduler of queue_job and the recovery cron never stop. *)
Fairness ==
    /\ \A w \in Workers : WF_vars(WorkerStep(w))
    /\ \A c \in Commands, i \in Slots :
          /\ WF_vars(\E w \in Workers : StartJob(w, c, i))
          /\ WF_vars(ResetJob(c, i) /\ disruptions' = disruptions)
    /\ \A c \in Commands : WF_vars(RecoverOrphan(c))

FairSpec == Spec /\ Fairness

-----------------------------------------------------------------------------
TypeOK ==
    /\ state \in [Commands -> States]
    /\ attempts \in [Commands -> Nat]
    /\ owner \in [Commands -> Slots \cup {0}]
    /\ mark \in [Commands -> Slots \cup {0}]
    /\ evidence \in [Commands -> {"none", "conflict", "other"}]
    /\ resolution \in [Commands -> {"none", "delivered", "closed"}]
    /\ delivery \in [Commands -> Deliveries]
    /\ ext \in [Commands -> BOOLEAN]
    /\ contentDeleted \in BOOLEAN
    /\ gate \in {"open", "throttled", "paused"}
    /\ jobState \in [Commands -> [Slots -> JobStates]]
    /\ pc \in [Workers -> {"idle", "run", "boundary", "calling", "answered",
                           "repair", "ending"}]
    /\ cmd \in [Workers -> Commands \cup {0}]
    /\ slot \in [Workers -> Slots \cup {0}]
    /\ answer \in [Workers -> Answers \cup Verdicts \cup {"none"}]
    /\ rowStale \in [Workers -> BOOLEAN]
    /\ accepted \in [Commands -> Nat]
    /\ unproven \in SUBSET Commands
    /\ disruptions \in Nat

(* The customer never gets the same message twice: over the whole lineage the
   provider accepts at most one copy, when its rejections are proofs. *)
AtMostOneCopy ==
    RejectionIsProof =>
        /\ \A c \in Commands : accepted[c] <= 1
        /\ \A c, d \in Commands : accepted[c] > 0 /\ accepted[d] > 0 => c = d

(* A message shown as failed, or as cancelled by nobody, was never accepted: an
   agent who sees it failed may send it again. *)
FailureIsFinal ==
    RejectionIsProof =>
        \A c \in Commands :
            state[c] = "dead" \/ (state[c] = "cancelled" /\ resolution[c] = "none")
            => accepted[c] = 0

(* Two workers are never at the provider for one lineage. *)
OneCallInFlight ==
    \A v, w \in Workers : pc[v] \in InFlight /\ pc[w] \in InFlight => v = w

Crosses(c) == state[c] # "processing" /\ state'[c] = "processing"

(* A command crosses the boundary only when the provider has refused, in so many
   words, every earlier dispatch of the whole lineage. *)
NeverBlindlyResent == [][\A c \in Commands : Crosses(c) => unproven = {}]_vars

(* A command never crosses the boundary once it, or the message it repeats, has
   positive evidence of delivery, even from a provider whose refusals lie. *)
EvidenceFence ==
    [][\A c \in Commands : Crosses(c) =>
            /\ delivery[c] \notin Positive
            /\ c > 1 => delivery[c - 1] \notin Positive]_vars

(* The same for every earlier attempt of the lineage: late evidence on the
   original makes any send unsafe. *)
LineageFence ==
    [][\A c \in Commands : Crosses(c) =>
            \A d \in Commands : d < c => delivery[d] \notin Positive]_vars

(* No attempt beyond the ceiling, and none left to a command that used them up. *)
CeilingHolds ==
    \A c \in Commands :
        /\ attempts[c] <= MaxAttempts
        /\ state[c] \in Sendable => attempts[c] < MaxAttempts

Agrees(c) ==
    /\ state[c] = "done" => delivery[c] \in Positive
    /\ state[c] = "dead" => delivery[c] \in {"failed"} \cup Positive
    /\ delivery[c] = "failed" => state[c] = "dead"
    /\ state[c] \in Sendable \cup {"processing", "uncertain"} => delivery[c] = "queued"
    /\ resolution[c] = "delivered" =>
          state[c] = "done" /\ delivery[c] \in {"delivered", "read"}
    /\ resolution[c] = "closed" => state[c] = "cancelled"

(* What the agent sees on the message, and what the administrator found, agree with the
   command: failed when it is dead, unless later evidence says otherwise, and only
   then; positive when it is done; queued while it is not decided.                   *)
ProjectionAgrees == \A c \in Commands : Agrees(c)

(* Once the connection stays open and the provider stops pausing, a command is
   settled, or its job failed behind the boundary and waits for an operator. *)
Settled(c) ==
    \/ state[c] \in Final
    \/ state[c] = "processing" /\ jobState[c][owner[c]] \in {"failed", "cancelled"}

Quiet == gate = "open" /\ \A w \in Workers : answer[w] # "paused"

EventuallySettled ==
    <>[]Quiet => \A c \in Commands : state[c] \in Sendable \cup {"processing"}
                                      ~> Settled(c)

-----------------------------------------------------------------------------
(* The inductive invariant behind OneCallInFlight, AtMostOneCopy, FailureIsFinal
   and NeverBlindlyResent.  It says nothing of snapshots, of job ownership or of
   the attempt count: exclusion rests on the state of the command alone. *)

Unsent(c) ==
    \/ state[c] \in {"absent", "pending", "retry", "dead"}
    \/ state[c] = "cancelled" /\ resolution[c] = "none"

(* Jobs and running workers belong to commands that were created. *)
WorkIsCreated ==
    /\ \A c \in Commands, i \in Slots :
          jobState[c][i] # "none" => state[c] # "absent"
    /\ \A w \in Workers : pc[w] # "idle" =>
          cmd[w] \in Commands /\ state[cmd[w]] # "absent"

(* A retry exists only over dead predecessors. *)
ChainIsDead ==
    \A c, d \in Commands : c < d /\ state[d] # "absent" => state[c] = "dead"

(* A command with a call in flight is never one that may be sent again. *)
CallIsHeld == \A w \in Workers : pc[w] \in InFlight => ~Unsent(cmd[w])

(* A dispatch nobody disproved is never taken for one that sent nothing. *)
DoubtIsHeld == \A c \in unproven : state[c] \notin {"absent", "pending", "retry", "dead"}

(* Nothing was accepted of a command that looks unsent, before the call of the
   dispatch in flight, or after a call that was refused. *)
AcceptanceIsSeen ==
    RejectionIsProof =>
        /\ \A c \in Commands : accepted[c] <= 1
        /\ \A c \in Commands : Unsent(c) => accepted[c] = 0
        /\ \A w \in Workers :
              \/ pc[w] \in {"boundary", "calling"}
              \/ pc[w] = "answered" /\ answer[w] \in Rejections
              => accepted[cmd[w]] = 0

ExclusionInv ==
    /\ TypeOK
    /\ WorkIsCreated
    /\ ChainIsDead
    /\ CallIsHeld
    /\ OneCallInFlight
    /\ DoubtIsHeld
    /\ AcceptanceIsSeen
=============================================================================
