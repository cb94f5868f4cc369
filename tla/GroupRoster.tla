---------------------------- MODULE GroupRoster ----------------------------
(***************************************************************************)
(* A group delete sent by an administrator of the group may be carried out  *)
(* only after the provider confirmed who administers the group, in a read   *)
(* made after the delete was received.  This module has the inbox events    *)
(* that wait for such a read, the profile of the group, the queue job that  *)
(* pulls it, the workers that run the job, and all who write the profile    *)
(* meanwhile: metadata hints, agents who open the conversation, the         *)
(* administrator, the recovery cron, the operator of the queue.             *)
(*                                                                          *)
(* Two kinds of transaction stay open while others commit: the pull, whose  *)
(* snapshot is as old as its start, and the inbox event, which reads the    *)
(* profile before it locks it.  PostgreSQL at REPEATABLE READ lets neither  *)
(* lock a row that was written since its snapshot.  Every other transaction *)
(* is one step.  Revisions are compared for equality only, so a pair of     *)
(* them is a Boolean; times are compared only between the receipt of events *)
(* and the reads, so the clock moves with the receipts.                     *)
(***************************************************************************)
EXTENDS Integers

CONSTANTS
    Events,             \* group deletes that need a confirmed roster
    Workers,            \* queue_job worker processes
    MaxAttempts,        \* QUEUE_ATTEMPT_CEILING
    MaxDisruptions,     \* bound: crashes, operator acts, hints, outages, expiries
    SameSecond,         \* may a read and a later receipt share a second?
    LiveReset           \* may a job be reset while its worker is still alive?

ASSUME CeilingAssumption == MaxAttempts \in Nat \ {0}
ASSUME BoundAssumption   == MaxDisruptions \in Nat
ASSUME FlagsAssumption   == SameSecond \in BOOLEAN /\ LiveReset \in BOOLEAN

VARIABLES
    clock,          \* the current second, of those in which events were received
    received,       \* inbox event: create_date, cut to the second (0: not yet)
    evState,        \* inbox event: state
    evTries,        \* inbox event: attempts
    wait,           \* inbox event: waiting_group_roster_after (0: none)
    evJob,          \* inbox event: its job, and whether its transaction is open
    view,           \* inbox event: what its transaction read of the profile
    profile,        \* contact.center.group.profile
    job,            \* the queue job named by queue_job_uuid
    link,           \* what the connection allows: to read, to wait, nothing
    pc,             \* worker: where it is in _job_sync_metadata
    mine,           \* worker: its job is the one the profile names
    begun,          \* worker: contact_center_metadata_read_started_at
    sees,           \* worker: the waiters of its snapshot
    late,           \* open transactions whose snapshot predates the profile
    known,          \* history: events received before the applied read began
    reading,        \* history, per worker: the same for its read
    hinted,         \* history: a hint was processed since the applied read began
    hintedSince,    \* history, per worker: the same for its read
    proven,         \* history: events decided on a read made after their receipt
    disruptions     \* bound: disruptions so far

eventVars  == <<received, evState, evTries, wait, evJob, view>>
callVars   == <<pc, begun, sees, reading, hintedSince>>
workerVars == <<callVars, mine>>
proofVars  == <<known, hinted, proven>>
vars == <<clock, eventVars, profile, job, link, workerVars, late, proofVars,
          disruptions>>

Terminal  == {"decided", "dead", "unsupported"}
Active    == {"pending", "started"}
NoJob     == [state |-> "none", current |-> FALSE, retry |-> 0]
NewJob    == [state |-> "pending", current |-> TRUE, retry |-> 0]

-----------------------------------------------------------------------------
(* The profile *)

(* Mutant: when the read began is not looked at, only when it was answered. *)
AnsweredSince(p, r) ==
    /\ p.state = "ready" /\ p.complete /\ p.current
    /\ p.synced >= r

(* _group_roster_authority_status, _group_roster_wait_is_satisfied: a complete
   roster, read no earlier than second r, that nothing invalidated since. *)
Covers(p, r) ==
    /\ p.state = "ready" /\ p.complete /\ p.current
    /\ p.requested # 0 /\ p.requested >= r
    /\ p.synced # 0 /\ p.synced >= r

Waiters == {e \in Events : evState[e] = "pending" /\ wait[e] # 0}

(* _uncovered_roster_waiters, among the waiters a snapshot shows. *)
Uncovered(p, among) == {e \in among : ~Covers(p, received[e])}

(* A failure holds back the next request for some hours. *)
Cooling(p) == p.error # "none" /\ p.next = "ahead"

(* _metadata_sync_due *)
Due(p) ==
    IF p.error # "none" THEN ~Cooling(p)
    ELSE p.next # "ahead" \/ p.synced = 0 \/ ~p.current

(* Mutant: a cancelled job is not noticed. *)
AbandonedByFailure(j) == j.state = "failed"

(* _finish_abandoned_metadata_job: the job ended without an outcome. *)
Abandoned(j) == j.state \in {"failed", "cancelled"}

(* Mutant: the failure is filed under the state of the events. *)
FailedAsDead(p, tries) ==
    [p EXCEPT !.state = "dead", !.tries = tries, !.next = "ahead",
              !.error = "failure"]

(* _finish_failure *)
Failed(p, tries) ==
    [p EXCEPT !.state = "failed", !.tries = tries, !.next = "ahead",
              !.error = "failure"]

(* _finish_unavailable *)
Unavailable(p, tries) ==
    [p EXCEPT !.state = IF p.synced # 0 THEN "stale" ELSE "unavailable",
              !.tries = tries, !.next = "ahead", !.error = "unsupported"]

(* _start_metadata_request, below the ceiling. *)
Requested(p, continuing, advance) ==
    [p EXCEPT !.state = IF p.synced # 0 THEN "stale" ELSE "pending",
              !.requested = clock,
              !.current = @ /\ ~advance,
              !.tries = IF continuing THEN @ ELSE 0,
              !.error = "none"]

(* _apply_snapshot of the read that worker w began. *)
Applied(p, w, complete, tries) ==
    [p EXCEPT !.state = IF complete THEN "ready" ELSE "stale",
              !.complete = complete, !.requested = begun[w], !.synced = clock,
              !.current = TRUE, !.tries = tries, !.next = "ahead",
              !.error = "none"]

-----------------------------------------------------------------------------
(* Commits *)

Disrupt == disruptions < MaxDisruptions /\ disruptions' = disruptions + 1

Open == {w \in Workers : pc[w] = "reading"} \cup {e \in Events : evJob[e] = "open"}

(* A transaction wrote the profile, or left it alone. *)
Written == late' = Open'
Kept    == late' = late \cap Open'

(* The profile names another job, or none: nobody runs its job any more. *)
Disown == mine' = [v \in Workers |-> FALSE]

(* Events put back to work, and events given up: a transaction open on one of
   them loses its row, and its job runs again. *)
Dispose(released, ended, verdict) ==
    /\ evState' = [e \in Events |-> IF e \in ended THEN verdict ELSE evState[e]]
    /\ wait' = [e \in Events |-> IF e \in released \cup ended THEN 0 ELSE wait[e]]
    /\ evJob' = [e \in Events |->
                    IF e \in released \/ (e \in ended /\ evJob[e] = "open")
                    THEN "queued" ELSE evJob[e]]
    /\ view' = [e \in Events |-> IF evJob'[e] = "open" THEN view[e] ELSE "none"]

(* _finish_failure and _finish_unavailable: the profile, then the waiters the
   transaction sees, best effort: locked ones are skipped. *)
FailPull(tries, visible) ==
    /\ profile' = Failed(profile, tries)
    /\ job' = NoJob
    /\ Disown
    /\ \E ended \in SUBSET (visible \cap Waiters) : Dispose({}, ended, "dead")

AbandonPull(tries, visible) ==
    /\ profile' = Unavailable(profile, tries)
    /\ job' = NoJob
    /\ Disown
    /\ \E ended \in SUBSET (visible \cap Waiters) :
          Dispose({}, ended, "unsupported")

(* _request_sync: a technical request continues the cycle of an uncovered waiter
   that no read has served yet, or of a read made a short while ago. *)
MayContinue(continuing, visible) ==
    LET unfinished == \E e \in Uncovered(profile, visible) :
            \/ ~profile.current \/ profile.synced = 0
            \/ received[e] <= profile.synced
    IN  /\ continuing =>
              profile.error = "none" /\ (unfinished \/ profile.synced # 0)
        /\ profile.error = "none" /\ unfinished => continuing

(* _start_metadata_request, with the ceiling of a cycle that continues. *)
StartPull(p, continuing, advance) ==
    /\ ~(continuing /\ p.tries >= MaxAttempts)
    /\ profile' = Requested(p, continuing, advance)
    /\ job' = NewJob
    /\ Disown

-----------------------------------------------------------------------------
Init ==
    /\ clock = 1
    /\ received = [e \in Events |-> 0]
    /\ evState = [e \in Events |-> "absent"]
    /\ evTries = [e \in Events |-> 0]
    /\ wait = [e \in Events |-> 0]
    /\ evJob = [e \in Events |-> "none"]
    /\ view = [e \in Events |-> "none"]
    /\ profile = [state |-> "unavailable", complete |-> FALSE, requested |-> 0,
                  synced |-> 0, current |-> TRUE, tries |-> 0,
                  error |-> "none", next |-> "unset"]
    /\ job = NoJob
    /\ link = "ready"
    /\ pc = [w \in Workers |-> "idle"]
    /\ mine = [w \in Workers |-> FALSE]
    /\ begun = [w \in Workers |-> 0]
    /\ sees = [w \in Workers |-> {}]
    /\ late = {}
    /\ known = {}
    /\ reading = [w \in Workers |-> {}]
    /\ hinted = FALSE
    /\ hintedSince = [w \in Workers |-> FALSE]
    /\ proven = {}
    /\ disruptions = 0

-----------------------------------------------------------------------------
(* The inbox event: ContactCenterInboxEvent._job_process *)

(* The webhook stores the event and its job. *)
ReceiveEvent(e) ==
    /\ received[e] = 0
    /\ \E later \in IF SameSecond THEN BOOLEAN ELSE {TRUE} :
          clock' = IF later THEN clock + 1 ELSE clock
    /\ received' = [received EXCEPT ![e] = clock']
    /\ evState' = [evState EXCEPT ![e] = "pending"]
    /\ evJob' = [evJob EXCEPT ![e] = "queued"]
    /\ UNCHANGED <<evTries, wait, view, profile, job, link, workerVars, late,
                   proofVars, disruptions>>

(* What the event finds in the snapshot of its transaction, in the order in which
   _validate_group_delete_actor, _defer_for_group_roster and _request_sync look. *)
ViewOf(e) ==
    CASE Covers(profile, received[e])        -> "covered"
      [] link = "gone"                       -> "gone"
      [] evTries[e] + 1 >= MaxAttempts       -> "exhausted"
      [] Cooling(profile)                    -> "cooling"
      [] job.state \in Active                -> "pulling"
      [] Abandoned(job)                      -> "abandoned"
      [] OTHER                               -> "idle"

BeginEvent(e) ==
    /\ evJob[e] = "queued"
    /\ evState[e] = "pending"
    /\ evJob' = [evJob EXCEPT ![e] = "open"]
    /\ view' = [view EXCEPT ![e] = ViewOf(e)]
    /\ proven' = IF view'[e] = "covered" /\ e \in known
                 THEN proven \cup {e} ELSE proven \ {e}
    /\ UNCHANGED <<clock, received, evState, evTries, wait, profile, job, link,
                   workerVars, late, known, hinted, disruptions>>

(* The job of an event that was settled meanwhile. *)
SkipEvent(e) ==
    /\ evJob[e] = "queued"
    /\ evState[e] \in Terminal
    /\ evJob' = [evJob EXCEPT ![e] = "none"]
    /\ UNCHANGED <<clock, received, evState, evTries, wait, view, profile, job,
                   link, workerVars, late, proofVars, disruptions>>

(* The transaction of the event commits, and its job is done. *)
Conclude(e, s) ==
    /\ evJob' = [evJob EXCEPT ![e] = "none"]
    /\ evState' = [evState EXCEPT ![e] = s]
    /\ evTries' = [evTries EXCEPT ![e] = @ + 1]
    /\ wait' = [wait EXCEPT ![e] = IF s = "pending" THEN received[e] ELSE 0]
    /\ view' = [view EXCEPT ![e] = "none"]
    /\ UNCHANGED <<clock, received, link, callVars, proofVars, disruptions>>

(* The roster says who administers the group: the delete is carried out, or
   refused for good. *)
DecideEvent(e) ==
    /\ evJob[e] = "open"
    /\ view[e] = "covered"
    /\ Conclude(e, "decided")
    /\ UNCHANGED <<profile, job, mine>>
    /\ Kept

(* Out of scope, out of attempts, or the profile failed a short while ago. *)
GiveUpEvent(e) ==
    /\ evJob[e] = "open"
    /\ view[e] \in {"gone", "exhausted", "cooling"}
    /\ Conclude(e, "dead")
    /\ UNCHANGED <<profile, job, mine>>
    /\ Kept

(* A pull is under way in the snapshot: the event waits for it.  Nothing is
   locked, so the pull may have ended since. *)
JoinPull(e) ==
    /\ evJob[e] = "open"
    /\ view[e] = "pulling"
    /\ Conclude(e, "pending")
    /\ UNCHANGED <<profile, job, mine>>
    /\ Kept

(* No pull: the event asks for one and waits for it. *)
RequestPull(e) ==
    /\ evJob[e] = "open"
    /\ view[e] = "idle"
    /\ e \notin late
    /\ \E continuing \in BOOLEAN :
          /\ MayContinue(continuing, Waiters \ {e})
          /\ StartPull(profile, continuing, TRUE)
    /\ Conclude(e, "pending")
    /\ Written

(* The pull was abandoned, or the cycle it continues is exhausted: the profile
   fails, and with it this event and the others it finds waiting. *)
RequestFails(e) ==
    LET exhausted == profile.tries >= MaxAttempts
                     /\ MayContinue(TRUE, Waiters \ {e})
    IN
    /\ evJob[e] = "open"
    /\ e \notin late
    /\ \/ view[e] = "abandoned"
       \/ view[e] = "idle" /\ exhausted
    /\ profile' = Failed(profile, profile.tries + job.retry)
    /\ job' = NoJob
    /\ \E others \in SUBSET (Waiters \ {e}) :
          /\ evState' = [f \in Events |->
                            IF f \in others \cup {e} THEN "dead" ELSE evState[f]]
          /\ wait' = [f \in Events |->
                         IF f \in others \cup {e} THEN 0 ELSE wait[f]]
          /\ evJob' = [f \in Events |->
                          IF f = e THEN "none"
                          ELSE IF f \in others /\ evJob[f] = "open" THEN "queued"
                          ELSE evJob[f]]
    /\ evTries' = [evTries EXCEPT ![e] = @ + 1]
    /\ view' = [view EXCEPT ![e] = "none"]
    /\ Disown
    /\ UNCHANGED <<clock, received, link, callVars, proofVars, disruptions>>
    /\ Written

(* A row the event needs was written since its snapshot, or its worker died: the
   job runs again.  Neither consumes an attempt. *)
LoseEvent(e) ==
    /\ evJob[e] = "open"
    /\ IF e \in late THEN UNCHANGED disruptions ELSE Disrupt
    /\ evJob' = [evJob EXCEPT ![e] = "queued"]
    /\ view' = [view EXCEPT ![e] = "none"]
    /\ UNCHANGED <<clock, received, evState, evTries, wait, profile, job, link,
                   workerVars, proofVars>>
    /\ Kept

(* action_requeue of an event without a job: it waits no longer, and a dead letter
   starts over. *)
RequeueEvent(e) ==
    /\ evState[e] \in {"pending", "dead", "unsupported"}
    /\ evJob[e] = "none"
    /\ evState' = [evState EXCEPT ![e] = "pending"]
    /\ evTries' = [evTries EXCEPT ![e] = IF evState[e] = "pending" THEN @ ELSE 0]
    /\ wait' = [wait EXCEPT ![e] = 0]
    /\ evJob' = [evJob EXCEPT ![e] = "queued"]
    /\ Disrupt
    /\ UNCHANGED <<clock, received, view, profile, job, link, workerVars, late,
                   proofVars>>

-----------------------------------------------------------------------------
(* The pull: ContactCenterGroupProfile._job_sync_metadata *)

TakeJob(w) ==
    /\ pc[w] = "idle"
    /\ job.state = "pending"
    /\ job' = [job EXCEPT !.state = "started"]
    /\ pc' = [pc EXCEPT ![w] = "taken"]
    /\ mine' = [mine EXCEPT ![w] = TRUE]
    /\ UNCHANGED <<clock, eventVars, profile, link, begun, sees, reading,
                   hintedSince, late, proofVars, disruptions>>

(* The worker has no job any more. *)
Rest(w) ==
    /\ pc' = [pc EXCEPT ![w] = "idle"]
    /\ begun' = [begun EXCEPT ![w] = 0]
    /\ sees' = [sees EXCEPT ![w] = {}]
    /\ reading' = [reading EXCEPT ![w] = {}]
    /\ hintedSince' = [hintedSince EXCEPT ![w] = FALSE]

Leave(w) == Rest(w) /\ mine' = [mine EXCEPT ![w] = FALSE]

(* RetryableJobError: everything is rolled back, the job waits for its turn. *)
Postpone(w, counts) ==
    /\ Leave(w)
    /\ job' = IF mine[w] THEN [job EXCEPT !.state = "pending",
                                          !.retry = IF counts THEN @ + 1 ELSE @]
              ELSE job
    /\ UNCHANGED <<clock, eventVars, profile, link, proofVars>>
    /\ Kept

(* The attempt the worker is at: _job_attempt. *)
Attempt == profile.tries + job.retry + 1

(* Not the job the profile names. *)
SkipPull(w) ==
    /\ pc[w] = "taken"
    /\ ~mine[w]
    /\ Leave(w)
    /\ UNCHANGED <<clock, eventVars, profile, job, link, proofVars, disruptions>>
    /\ Kept

(* _schedule_latest_after_superseded: a hint moved the revision under the job, and
   a new job is made for it, with what is left of the attempts. *)
Supersede(w) ==
    LET p == [profile EXCEPT !.tries = Attempt - 1] IN
    /\ pc[w] = "taken"
    /\ mine[w] /\ ~job.current
    /\ \/ StartPull(p, TRUE, FALSE) /\ UNCHANGED eventVars
       \/ /\ p.tries >= MaxAttempts
          /\ FailPull(p.tries, Waiters)
          /\ UNCHANGED <<received, evTries>>
    /\ Rest(w)
    /\ UNCHANGED <<clock, link, proofVars, disruptions>>
    /\ Written

(* _provider_read_preflight: nobody may read, for good or for now. *)
RefuseScope(w) ==
    /\ pc[w] = "taken"
    /\ mine[w] /\ job.current
    /\ link = "gone"
    /\ AbandonPull(Attempt, Waiters)
    /\ Rest(w)
    /\ UNCHANGED <<clock, received, evTries, link, proofVars, disruptions>>
    /\ Written

PausePull(w) ==
    /\ pc[w] = "taken"
    /\ mine[w] /\ job.current
    /\ link = "down"
    /\ Postpone(w, FALSE)
    /\ UNCHANGED disruptions

(* The read begins, in the snapshot of the transaction. *)
BeginRead(w) ==
    /\ pc[w] = "taken"
    /\ mine[w] /\ job.current
    /\ link = "ready"
    /\ pc' = [pc EXCEPT ![w] = "reading"]
    /\ begun' = [begun EXCEPT ![w] = clock]
    /\ sees' = [sees EXCEPT ![w] = Waiters]
    /\ reading' = [reading EXCEPT ![w] = {e \in Events : received[e] # 0}]
    /\ hintedSince' = [hintedSince EXCEPT ![w] = FALSE]
    /\ UNCHANGED <<clock, eventVars, profile, job, mine, link, proofVars,
                   disruptions>>
    /\ Kept

(* The profile or the connection was written since: the job runs again. *)
LoseRead(w) ==
    /\ pc[w] = "reading"
    /\ w \in late
    /\ Postpone(w, TRUE)
    /\ UNCHANGED disruptions

(* The provider answers, and nobody wrote the profile since the read began. *)
MayAnswer(w) == pc[w] = "reading" /\ w \notin late

(* ProviderPausedError of the read itself. *)
PauseRead(w) == pc[w] = "reading" /\ Postpone(w, FALSE) /\ Disrupt

(* _retry_transient, _retry_unexpected: also a partial roster that is not enough. *)
RetryRead(w) ==
    \/ /\ pc[w] = "reading"
       /\ Attempt < MaxAttempts
       /\ Postpone(w, TRUE)
       /\ UNCHANGED disruptions
    \/ /\ MayAnswer(w)
       /\ Attempt >= MaxAttempts
       /\ FailPull(Attempt, sees[w])
       /\ Rest(w)
       /\ UNCHANGED <<clock, received, evTries, link, proofVars, disruptions>>
       /\ Written

(* AdapterError or ValidationError; UnsupportedEventError. *)
RefuseRead(w) ==
    /\ MayAnswer(w)
    /\ FailPull(Attempt, sees[w]) \/ AbandonPull(Attempt, sees[w])
    /\ Rest(w)
    /\ UNCHANGED <<clock, received, evTries, link, proofVars, disruptions>>
    /\ Written

(* A complete roster is applied, and the waiters it covers are released, as many
   as the transaction sees and gets hold of.  If it sees others, the next pull
   follows in the same transaction, or the cycle is exhausted. *)
ApplyRoster(w) ==
    LET p       == Applied(profile, w, TRUE, Attempt)
        left    == Uncovered(p, sees[w])
        covered == (sees[w] \ left) \cap Waiters
    IN
    /\ MayAnswer(w)
    /\ \E released \in SUBSET covered :
          \/ /\ left = {}
             /\ profile' = p
             /\ job' = NoJob
             /\ Disown
             /\ Dispose(released, {}, "dead")
          \/ /\ left # {}
             /\ StartPull(p, TRUE, TRUE)
             /\ Dispose(released, {}, "dead")
          \/ /\ left # {} /\ Attempt >= MaxAttempts
             /\ profile' = Failed(p, Attempt)
             /\ job' = NoJob
             /\ Disown
             /\ \E ended \in SUBSET ((sees[w] \cap Waiters) \ released) :
                   Dispose(released, ended, "dead")
    /\ known' = reading[w]
    /\ hinted' = hintedSince[w]
    /\ Rest(w)
    /\ UNCHANGED <<clock, received, evTries, link, proven, disruptions>>
    /\ Written

(* A partial roster is applied as stale, when no waiter needs a complete one. *)
ApplyPartial(w) ==
    /\ MayAnswer(w)
    /\ Uncovered(profile, sees[w]) = {}
    /\ profile' = Applied(profile, w, FALSE, Attempt)
    /\ job' = NoJob
    /\ Disown
    /\ known' = reading[w]
    /\ hinted' = hintedSince[w]
    /\ Rest(w)
    /\ UNCHANGED <<clock, eventVars, link, proven, disruptions>>
    /\ Written

-----------------------------------------------------------------------------
(* The queue and its operator *)

(* A started job whose worker is gone is pending again; with LiveReset also one
   whose worker still runs. *)
ResetJob ==
    /\ job.state = "started"
    /\ IF \E w \in Workers : mine[w] THEN LiveReset /\ Disrupt
       ELSE UNCHANGED disruptions
    /\ job' = [job EXCEPT !.state = "pending"]
    /\ UNCHANGED <<clock, eventVars, profile, link, workerVars, late, proofVars>>

(* The operator cancels a job, deletes it, or runs an ended one again. *)
OperateJob ==
    /\ \/ /\ job.state \in {"pending", "failed"}
          /\ job' = [job EXCEPT !.state = "cancelled"]
       \/ /\ job.state \in {"failed", "cancelled"}
          /\ job' \in {[job EXCEPT !.state = "pending"],
                       [NoJob EXCEPT !.state = "gone"]}
    /\ Disrupt
    /\ UNCHANGED <<clock, eventVars, profile, link, workerVars, late, proofVars>>

(* An exception nobody expects fails the job; a crash leaves it started. *)
FailJob(w) ==
    /\ pc[w] # "idle"
    /\ job' = IF mine[w] THEN [job EXCEPT !.state = "failed"] ELSE job
    /\ Leave(w)
    /\ Disrupt
    /\ UNCHANGED <<clock, eventVars, profile, link, proofVars>>
    /\ Kept

Crash(w) ==
    /\ pc[w] # "idle"
    /\ Leave(w)
    /\ Disrupt
    /\ UNCHANGED <<clock, eventVars, profile, job, link, proofVars>>
    /\ Kept

-----------------------------------------------------------------------------
(* Those who want the profile fresh *)

(* Mutant: a hint is dropped while a pull is under way. *)
HintCountsWhenIdle == profile.error = "none" /\ job.state \notin Active

HintCounts == profile.error = "none"

(* _process_group_metadata_hint, _invalidate_metadata: the cache is out of date,
   and a pull that has started no longer serves. *)
ProcessHint ==
    LET started == job.state = "started" IN
    /\ link # "gone"
    /\ IF HintCounts
       THEN /\ profile' = [profile EXCEPT !.next = "unset",
                                          !.current = @ /\ ~started]
            /\ job' = [job EXCEPT !.current = @ /\ ~started]
       ELSE UNCHANGED <<profile, job>>
    /\ hinted' = TRUE
    /\ hintedSince' = [w \in Workers |-> pc[w] = "reading"]
    /\ Disrupt
    /\ UNCHANGED <<clock, eventVars, link, pc, mine, begun, sees, reading, known,
                   proven>>
    /\ IF HintCounts THEN Written ELSE UNCHANGED late

(* _request_sync by an agent who opens the conversation. *)
OpenConversation ==
    /\ link # "gone"
    /\ job.state \notin Active
    /\ Due(profile)
    /\ IF Abandoned(job)
       THEN FailPull(profile.tries + job.retry, Waiters)
       ELSE StartPull(profile, FALSE, TRUE)
            /\ UNCHANGED <<evState, wait, evJob, view>>
    /\ UNCHANGED <<clock, received, evTries, link, callVars, proofVars,
                   disruptions>>
    /\ Written

(* action_retry_metadata_sync of the administrator. *)
RetryByAdmin ==
    /\ link # "gone"
    /\ job.state \notin Active
    /\ profile.state \in {"failed", "unavailable", "stale"}
    /\ StartPull(profile, FALSE, TRUE)
    /\ Disrupt
    /\ UNCHANGED <<clock, eventVars, link, callVars, proofVars>>
    /\ Written

-----------------------------------------------------------------------------
(* _cron_recover_orphaned_queue_jobs *)

(* Waiters that are not locked at the moment, as many as the batch takes. *)
Batches == (SUBSET Waiters) \ {{}}

(* _finalize_failed_group_roster_waiters *)
FinalizeFailed ==
    /\ profile.state = "failed"
    /\ \E ended \in Batches : Dispose({}, ended, "dead")
    /\ UNCHANGED <<clock, received, evTries, profile, job, link, workerVars,
                   proofVars, disruptions>>
    /\ Kept

(* _finalize_invalid_group_roster_waiters: nobody will pull the roster, or the
   scope of the waiters was archived. *)
FinalizeInvalid ==
    /\ profile.error = "unsupported" \/ link = "gone"
    /\ \E ended \in Batches : Dispose({}, ended, "unsupported")
    /\ UNCHANGED <<clock, received, evTries, profile, job, link, workerVars,
                   proofVars, disruptions>>
    /\ Kept

(* _lock_orphaned_queue_record_ids, inbox lane: a waiter without a job that the
   roster covers; it keeps its wait. *)
ReleaseCovered(e) ==
    /\ e \in Waiters
    /\ Covers(profile, received[e])
    /\ evJob[e] = "none"
    /\ evJob' = [evJob EXCEPT ![e] = "queued"]
    /\ UNCHANGED <<clock, received, evState, evTries, wait, view, profile, job,
                   link, workerVars, late, proofVars, disruptions>>

(* Mutant: only requests that lost their job are looked for. *)
LostRequest == job.state # "none"

(* A request that lost its job, or a waiter that nobody serves. *)
Unserved == job.state # "none" \/ Uncovered(profile, Waiters) # {}

(* _recover_metadata_requests *)
RecoverRequest ==
    LET serve == Uncovered(profile, Waiters) # {} IN
    /\ job.state \notin Active
    /\ Unserved
    /\ \/ /\ Abandoned(job)
          /\ FailPull(profile.tries + job.retry, Waiters)
       \/ /\ ~Abandoned(job)
          /\ link = "gone"
          /\ AbandonPull(profile.tries, Waiters)
       \/ /\ ~Abandoned(job)
          /\ link # "gone"
          /\ ~Cooling(profile)
          /\ job.state = "gone"
          /\ job' = NewJob
          /\ Disown
          /\ UNCHANGED <<profile, evState, wait, evJob, view>>
       \/ /\ job.state = "none"
          /\ link # "gone"
          /\ ~Cooling(profile)
          /\ serve
          /\ \E continuing \in BOOLEAN :
                /\ MayContinue(continuing, Waiters)
                /\ \/ /\ StartPull(profile, continuing, TRUE)
                      /\ UNCHANGED <<evState, wait, evJob, view>>
                   \/ /\ continuing /\ profile.tries >= MaxAttempts
                      /\ FailPull(profile.tries, Waiters)
    /\ UNCHANGED <<clock, received, evTries, link, callVars, proofVars,
                   disruptions>>
    /\ Written

-----------------------------------------------------------------------------
(* The environment *)

(* The health job and the administrator move the connection. *)
ChangeLink ==
    /\ link' \in {"ready", "down", "gone"} \ {link}
    /\ IF link' = "ready" THEN UNCHANGED disruptions ELSE Disrupt
    /\ UNCHANGED <<clock, eventVars, profile, job, workerVars, proofVars>>
    /\ Written

(* The cache, or the delay after a failure, runs out. *)
Expire ==
    /\ profile.next = "ahead"
    /\ profile' = [profile EXCEPT !.next = "past"]
    /\ Disrupt
    /\ UNCHANGED <<clock, eventVars, job, link, workerVars, late, proofVars>>

-----------------------------------------------------------------------------
EventStep(e) ==
    \/ BeginEvent(e)
    \/ SkipEvent(e)
    \/ DecideEvent(e)
    \/ GiveUpEvent(e)
    \/ JoinPull(e)
    \/ RequestPull(e)
    \/ RequestFails(e)
    \/ LoseEvent(e)

PullStep(w) ==
    \/ SkipPull(w)
    \/ Supersede(w)
    \/ RefuseScope(w)
    \/ PausePull(w)
    \/ BeginRead(w)
    \/ LoseRead(w)
    \/ PauseRead(w)
    \/ RetryRead(w)
    \/ RefuseRead(w)
    \/ ApplyRoster(w)
    \/ ApplyPartial(w)

Next ==
    \/ \E e \in Events : ReceiveEvent(e) \/ EventStep(e) \/ RequeueEvent(e)
                          \/ ReleaseCovered(e)
    \/ \E w \in Workers : TakeJob(w) \/ PullStep(w) \/ FailJob(w) \/ Crash(w)
    \/ ResetJob \/ OperateJob
    \/ ProcessHint \/ OpenConversation \/ RetryByAdmin
    \/ FinalizeFailed \/ FinalizeInvalid \/ RecoverRequest
    \/ ChangeLink \/ Expire

Spec == Init /\ [][Next]_vars

(* The queue hands out, runs and resets jobs; a reset under a live worker is a
   disruption, not a duty. *)
QueueStep ==
    \/ \E w \in Workers : TakeJob(w) \/ PullStep(w)
    \/ ResetJob /\ disruptions' = disruptions

(* The recovery cron works through its parts in each of its runs. *)
CronStep == FinalizeFailed \/ FinalizeInvalid \/ RecoverRequest

(* Neither the queue nor the recovery cron ever stops; nothing is said of which
   worker or which part of the cron comes next. *)
Fairness ==
    /\ \A e \in Events : WF_vars(EventStep(e) \/ ReleaseCovered(e))
    /\ WF_vars(QueueStep)
    /\ WF_vars(CronStep)

FairSpec == Spec /\ Fairness

-----------------------------------------------------------------------------
TypeOK ==
    /\ clock \in Nat
    /\ received \in [Events -> Nat]
    /\ evState \in [Events -> {"absent", "pending"} \cup Terminal]
    /\ evTries \in [Events -> Nat]
    /\ wait \in [Events -> Nat]
    /\ evJob \in [Events -> {"none", "queued", "open"}]
    /\ view \in [Events -> {"none", "covered", "gone", "exhausted", "cooling",
                            "pulling", "abandoned", "idle"}]
    /\ profile \in
          [state : {"unavailable", "pending", "ready", "stale", "failed"},
           complete : BOOLEAN, requested : Nat, synced : Nat, current : BOOLEAN,
           tries : Nat, error : {"none", "failure", "unsupported"},
           next : {"unset", "ahead", "past"}]
    /\ job \in [state : {"none", "pending", "started", "failed", "cancelled",
                         "gone"},
                current : BOOLEAN, retry : Nat]
    /\ link \in {"ready", "down", "gone"}
    /\ pc \in [Workers -> {"idle", "taken", "reading"}]
    /\ mine \in [Workers -> BOOLEAN]
    /\ begun \in [Workers -> Nat]
    /\ sees \in [Workers -> SUBSET Events]
    /\ late \subseteq Events \cup Workers
    /\ known \subseteq Events
    /\ reading \in [Workers -> SUBSET Events]
    /\ hinted \in BOOLEAN
    /\ hintedSince \in [Workers -> BOOLEAN]
    /\ proven \subseteq Events
    /\ disruptions \in Nat

(* A group delete is decided only from a roster whose provider read began after
   the delete was received (application.py, _validate_group_mutation: one complete
   provider read at or after local receipt). *)
DecidedOnLaterRead == \A e \in Events : evState[e] = "decided" => e \in proven

(* A hint that the group changed is never lost: the profile is due, or a pull is
   under way, or the last one failed, until a read that began after the hint. *)
HintsAreHonoured ==
    hinted => Due(profile) \/ job.state # "none" \/ profile.error # "none"

(* While the connection may be read, every event is settled in the end: no wait is
   forgotten, whichever transaction did not see it. *)
EventsSettle ==
    <>[](link = "ready") =>
        \A e \in Events : evState[e] = "pending" ~> evState[e] \in Terminal

(* And every pull ends: it is applied, superseded or given up. *)
PullsEnd ==
    <>[](link = "ready") => (job.state # "none" ~> job.state = "none")
=============================================================================
