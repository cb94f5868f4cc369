# Contact center: specifications, model checking and proofs

The repository is a contact center for Odoo 16: addons that receive provider
webhooks (WuzAPI, Meta, WhatsApp Cloud), project them into conversations, and
send what agents write.  All of it runs as Odoo transactions at REPEATABLE READ
and as background jobs of `queue_job`.  What is hard about it is not any single
method, it is that many of them write the same rows: workers, webhooks, agents,
administrators, the recovery cron, the operator of the queue.  This directory
has TLA+ models of that, checked by TLC, and proofs checked by TLAPS.

    tlc -workers 2 -config OutboxOneCopy.cfg MCOutboxRefinement
    tlapm OutboxDispatchProofs.tla

`PROJECT.json` lists the runs, the lines of code each definition stands for, the
mutants that show each property can fail, the findings, the hazards and the
theorems.

## The system

The main flows:

* inbound: webhook -> `contact.center.inbox.event` (durable, deduplicated) ->
  queue job -> adapter's DTO -> identity, conversation and message projection ->
  UI bus;
* outbound: message + message binding + `contact.center.outbox.command` in one
  transaction -> queue job -> commit of the dispatch boundary -> provider call ->
  outcome transaction; receipts and echoes of the own message come back inbound.

Locks are taken in one order: account (SHARE), connection (UPDATE), retry source,
outbox, message bindings.  A statement that locks a row written since the
snapshot of its transaction fails, and the job runs again.

| component | state | operations | what is hard | what makes it correct |
|---|---|---|---|---|
| Outbox dispatch (`models/queue.py`, `application_outbound.py`) | command state, attempts, owning job, dispatch mark, provider evidence, resolution | send, resend, job, boundary, settle, repair, recover, requeue, resolve | the provider call lies between two commits; jobs are reset, cancelled, lost; evidence arrives meanwhile | at most one copy; no blind resend; outcomes stand; the agent sees the truth; every command settles |
| Inbox ledger (`models/queue.py`) | event state, attempts, job, roster wait | receive, process, wait, release, dead-letter, recover, requeue | retries roll back the ledger, waits must not | each event is stored once and settled |
| Group roster (`models/group.py`) | metadata state, revisions, read times, job, error | request, join, pull, apply, invalidate, fail, recover | a read as old as its transaction; waits nobody's snapshot shows | a privileged delete is decided on a later read; hints and waits are not lost |
| Projection (`models/application.py`, `group_delivery.py`) | identities, conversations, messages | one transaction per event, positive evidence | first observation of a person from two inboxes | one identity, one message; evidence completes the command |
| Message ledger and watermarks (`message.py`, `delivery_watermark.py`) | delivery state, cumulative receipts | apply a receipt, replay | a receipt before the message it covers | delivery never moves back and no receipt is lost |
| Mutations (`mutation.py`) | edits, deletes, reactions, projection revision | record, apply, resolve, send one's own | arrival out of order; the echo of one's own mutation before its outcome | every order of arrival shows the same; a deleted message stays deleted |
| Connections (`account.py`, `control_events.py`, `wuzapi/models/reconnect.py`) | observed and desired state, health job, cooldown, held inbound, parked sends | health job, lifecycle report, pause, reconnect, recovery wave, release of what is held | a probe's answer is older than a report; its snapshot older than both | sends are open on the newest observation only; checks go on; what is parked is resumed |
| Identity and channels (`identity.py`, `channel.py`, `resolution.py`) | addresses, merges | match, merge, conflict | advisory locks do not refresh a snapshot | one person per portable address |
| Avatars, media, previews, transcription | revision or state of a download | pull, discard | a delete during a download | deleted content is not stored |
| Read receipts (`read_receipt.py`, `bulk_read.py`) | read pointer of each agent, receipt commands | open a conversation, mark a list as read, queue, revive, cancel, dispatch | two agents on overlapping snapshots; messages imported late; a receipt refused in the middle | receipts leave no gap and go no further than reading; the customer is told in the end |
| Attendance, follow-ups, productivity | episodes, timers, scheduled messages | claim, close, fire | a timer racing an answer | one open episode; one send per schedule |
| Retention, payload expiry (`retention.py`, `retention_ingress.py`) | erasure plans, evidence of what was erased | erase, replay guard | a message or a mutation delivered again after its erasure | erased stays erased |
| Attribution, onboarding, UI API | evidence rows, wizard state, read models | append, activate, query | little of their own; the pages of a timeline are read on a snapshot | what a page leaves out is where its cursors lead |
| Web client (`contact_center_ui/static/src`) | the list of conversations, the window of the open one, the read under way | select, page back and forth, refresh, recover a gap, purge | answers to superseded reads; a refresh that overtakes the first read; messages that arrive behind others | what is shown belongs to the open conversation and is not erased; the window catches up |
| WuzAPI, Meta, WhatsApp Cloud | webhook ingress, subscriptions, reconnection | verify, dedupe, subscribe, reconnect | repeated callbacks, secret rotation | one event per callback |
| Kanban, CRM, sale | cases, stages, leads, links | two-way stage sync, intake | each side writes the other | stages agree; one lead per conversation |

`PROJECT.json` says of every component whether it is modelled, partly modelled or
planned, and lists the hazards by line.

## Modules

| module | contents |
|---|---|
| `OutboxDispatch` | one outbound message, its manual retries, their jobs, workers, the provider, and everyone else who writes the rows |
| `OneCopy` | the abstract promise: a message is dispatched again only after a refusal, and taken at most once |
| `OutboxRefinement` | the refinement mapping from the first to the second |
| `MCOutboxDispatch`, `MCOutboxRefinement` | instances for TLC |
| `OutboxDispatchProofs` | theorems of the outbox: types, exclusion, the ceiling, the projection of outcomes |
| `OutboxRefinementProofs` | that the outbox implements `OneCopy` |
| `GroupRosterProofs`, `DeliveryWatermarkProofs`, `ConnectionProofs`, `MessageContentProofs`, `ReadReceiptsProofs`, `TimelineProofs` | theorems of the modules they are named after |
| `GroupRoster` | group deletes that wait for a confirmed roster, the profile, the pull and its job |
| `MCGroupRoster` | instances for TLC |
| `DeliveryWatermark` | the messages of one direct conversation, receipts that name them or cover a date, echoes, under overlapping transactions |
| `Connection` | one connection: its probes and their schedule, the provider's reports, pairing and reconnection, held inbound, parked sends |
| `MessageContent` | one message: the mutations others and we make of it, its media, preview and transcription jobs, its erasure |
| `ReadReceipts` | one conversation: the agents' read pointers, bulk reads, and the receipts they queue |
| `Timeline` | the history one browser tab shows of a conversation, the pages the server answers, refreshes and the recovery of gaps |
| `MCDeliveryWatermark`, `MCConnection`, `MCMessageContent`, `MCReadReceipts`, `MCTimeline` | instances for TLC |

### OutboxDispatch

Command 1 of a lineage is the send, command n + 1 the manual retry of command n:
`retry_of_id` is unique, so a lineage is a chain.  `state`, `attempts`, `owner`
(`queue_job_uuid`), `mark` (`dispatch_job_uuid` with its start), `evidence`
(`provider_response_json`), `resolution` are the command; `delivery` and `ext`
the message binding; `jobState` the jobs of a command, by slot; `gate` what the
connection says of dispatching now.

A transaction is one action, since the code locks every row it reads and writes
and the loser of a conflict is aborted.  The exception is the job itself, which
commits twice and calls the provider in between:

| action | code |
|---|---|
| `StartDispatch` | `_reserve_outbound_dispatch`, `_start_dispatch`: the boundary is committed |
| `OpenCall` | the outcome transaction begins; its snapshot is taken here |
| `CallProvider` | `_execute_adapter`: an acceptance, or one of the errors, or no answer |
| `Settle...`, `KeepUncertain` | the outcome is written and committed |
| `LoseOutcome` | a row was written since the snapshot: the outcome is lost, the command becomes `uncertain` |

`rowStale` says that a worker's snapshot predates the row.  Other actions are the
job that finds nothing to do (`SkipJob`), or finds a boundary somebody crossed
(`ObserveBoundary`), the refusals before the boundary, the repair of a lost
finalization (`RepairSuccess`, `GiveUpRepair`), the recovery cron, requeue and
resume after health, evidence from the provider, and the administrator.
`queue_job` (with `max_retries=0`, so it retries without limit), PostgreSQL and
the provider are external and modelled from the way the code uses them.

`RejectionIsProof` is the adapter contract: an answer the adapter reports as a
rejection proves that nothing was sent.  With FALSE, the provider may have
accepted what it says it refused.  `LiveReset` lets a job be reset while its
worker lives, as happens when a worker is taken for dead.

### GroupRoster

An administrator of a group may delete the message of somebody else.  Whether the
sender of the delete is an administrator is known only to the provider, so the
inbox event waits for a complete roster, read at or after its receipt.  The event
asks for a pull, or joins one under way; the pull applies its roster, releases
the waiters it covers, and starts the next pull for the others.

Two transactions stay open while others commit: the pull (`BeginRead` to
`ApplyRoster`, `ApplyPartial`, `RefuseRead`, `RetryRead`) and the inbox event
(`BeginEvent`, whose `view` is what it read of the profile, to the action that
commits).  `late` has the open transactions whose snapshot predates the profile
row: they fail when they lock it (`LoseRead`, `LoseEvent`).  An event that sees a
pull under way takes no lock (`JoinPull`: `_request_sync` returns before
`_lock_metadata_request`), so its wait may be committed after the pull's snapshot
(`sees`) was taken, and then only the recovery cron finds it.

Abstractions: revisions are only compared for equality, so `profile.current` is
`applied_revision = sync_revision` and `job.current` is the job's revision
against `sync_revision`; the clock moves with receipts, because times are compared
only between receipts and reads; delays are left out, since any number of
steps may pass; `next` says whether `next_sync_at` is unset, ahead or past; jobs
that the profile does not name do nothing and are only seen as workers without
`mine`.  Releases and dead-lettering inside a pull are best effort in the code,
so any subset of the visible waiters is possible.  `known`, `reading`, `hinted`,
`hintedSince` and `proven` are history variables that only the properties read.

### DeliveryWatermark

A provider says that messages were delivered or read by naming them, or by a date
that covers every message up to it.  A covering receipt may be processed before
the message is known by the provider's name, so the highest date of each state is
kept as a row (`contact.center.delivery.watermark`), and replayed on a message when
its name becomes known: by the outcome of its send, or by an echo.

Here it matters what a transaction reads, so `db` is the committed rows and
`snap` what an open transaction reads of them: of an inbox event, from `BeginEvent` to
`ApplyEvent`, `RestartEvent` or `RetryEvent`; of a send, from `BeginSend`, which
commits the boundary, over the provider call, to the action that ends it.  At
REPEATABLE READ a transaction that locks or writes a row written since its
snapshot fails (`Contended`, `Displaced`, `Written`); an advisory lock, and the lock
of a row nobody writes, such as the account's, let it go on with what it read.
The inserts of two first watermarks collide on the unique key and cost the loser
an attempt; other conflicts cost none.

`ClientIds` says whether the provider calls a message by the id the client gave it
(WuzAPI) or by one of its own, learned with its answer (Meta).  Messages are
numbered by date.  `overlapped` is a history variable: two transactions of the
conversation were open at once.  Left out: what else an echo carries, receipts of groups, which
are kept by participant, and the retries of an outbox command, which are those of
`OutboxDispatch`: here a refused message may be postponed, and is then sent again.
An echo is only made for a message the contact center does not know; the code
also drops, without a word to delivery, an echo it finds twice.

### Connection

The state of a connection has three writers: the health job, the reports of the
provider (inbox events), and administrators.  A probe holds a snapshot while it
asks the provider; `outdated` says that the row changed since, and then its
outcome transaction fails (`RestartProbe`).  An observation is dated at the START
of its request; what was observed before the row's `observed` instant is dropped.
A reconnection ends its snapshot before it calls the provider and takes another
afterwards.  Inbound that arrives while the origin is in doubt is held until an
administrator or a matching observation releases it; sends that found the
connection closed are parked, and the observation that reopens them starts a wave
that resumes them page by page.

Time is a small clock.  Only the order of the durations matters, and the module
assumes what the defaults give: the report's delay, the backoff and the lease are
no longer than `RetryAfter` and the interval.  Whether an activation is fresh is a
choice, `wizard` stands for the onboarding job that may activate.  The constraint
`Focus` of the run excludes states in which more than the listed changes pile up.
`CooldownHonoured` speaks of the checks a step makes: a job queued before the
provider asked for a pause still runs in it, and the code lets it.  `heard` is a
history variable.

### MessageContent

Mutations are numbered by creation; their instants, and with some providers their
revisions, come from the provider (revision 0 says none), and our own never go
back among themselves.  One that arrives before its target waits in the inbox and
is not stored, so here every mutation has its message.  A projection locks and
writes the binding (`Revision`).  Jobs and dispatches keep a snapshot: `stale` says
which rows a job will lock were written since, and `seen` is what the worker of a
command read (`Now`), as long as nobody wrote the binding since.  The outcome of a
command is decided on `seen`, so a projection that did not write the binding, as a
reaction would not if it wrote only what it changes, would go unnoticed by it
(`OnlyChanges`).  A command of ours whose binding was written during the provider call
ends uncertain even if the provider accepted: the repair of a lost finalization exists
only for `send_message`.  An
echo waits while the command is processing.  Retention protects the jobs of media
and previews that are running, and commands that are not terminal; it does not
protect transcriptions.  `receipt` stands for what keeps erased messages from
coming back: id receipts and `retention_expired_before`.

What a deletion leaves, its tombstone, is only dated anew: edits, reactions, previews
and transcripts are refused or fail (`LeftGone`).  Two kinds of jobs still write under
it.  Where deleted content is hidden a download discards the file, and where it is
struck through the file is still stored, may fail and may be asked for again, as
`_deleted_content_is_hidden` allows; and a transcription that gives up is marked
skipped or failed.

`LatestIsShown` is claimed of streams of a person's mutations that all have
revisions, or none: with both, the code's order is not total (revision 2 at 1, none
at 2, revision 1 at 3).  The database's counter of a transcription job is one
behind that of `queue_job`, so the last attempt raises once more and the row stays
`pending` under a failed job; readers see that as failed, and `SpinnersEnd` counts
it so.

### ReadReceipts

An agent's request (opening the conversation, or marking a list as read) reads a
snapshot, moves its pointer, and queues receipts for what it read, in batches; a
batch is named by its set of messages, and the unique name makes the second of
two equal ones yield.  A message, a change of policy and a change of the connection
write rows that the request locks, so they fail it (`Fenced`); a deletion does not.
A receipt that ended unsent is revived in place when all its messages are
still there.  Of a receipt, a snapshot needs only whether it ended unsent; `pending` stands for
pending and retry; `no` is the order among receipts with one target.

Messages are numbered by date and `born` is the order of their rows, in which an
import from history may come late.  `Attendants` are the agents whose coming back
liveness relies on; visits of others are disturbances.  `opened` and `late` are
history variables.  Left out: resolving an uncertain receipt by hand (it stays
uncertain), and more than one open request of an agent.

What the model showed and no document denies: agents on overlapping snapshots
queue overlapping batches; a receipt that cannot be rebuilt, because one of its
messages is gone, stops all later ones of its conversation (a test asks for it,
`test_changed_terminal_snapshot_does_not_create_a_partial_batch`); a message
imported below what was already receipted is never receipted.

### Timeline

One tab of the web client and the conversation it has open.  Messages are numbered
by date and shown by date; `born` is the order of their rows, which is that of
their ids.  A message of an older date may become a row late (`Behind`): a
provider dates what it delivers.  The write fence of the channel makes the ids of
one conversation commit in order.

| state | code (`contact_center_store.esm.js`) |
|---|---|
| `window.before`, `window.after` | `nextBeforeMessageId`, `nextAfterChronologicalMessageId` (0 for null) |
| `window.received` | `timelineContiguousCursor`: the id up to which all is accounted for |
| `window.forward`, `window.pages` | `timelineForwardCursor`, `timelineForwardPageCount` |
| `request` | the read whose token is current; a new token makes the answer to an older one void (`Ask`) |
| `cycle`, `wants` | `runSynchronization` under way, and the timeline refresh scheduled in `pendingSynchronization` |
| `reload` | the list is read after the word of a purge, before the timeline is |

The server's part is `Serve`, the snapshot a read sees, and `Items`, `More`,
`HasUnloaded`, `CursorGone`, which translate `get_timeline` and its page builders.
A read is asked, served and answered in three steps, and anything may happen
between them; a superseded answer only ends the synchronization that waits for it
(`EndCycle`).  Retention erases the oldest messages once (`Purge`); its word comes
over the bus later.  `answers` are the messages which the answers to sends, edits
and reactions of the agent will bring, whenever they come, if they do.

`ghosts` and `missed` are history variables: the erased messages that an answer
brought back, and the messages the code knowingly or unknowingly leaves to nobody
(`Overlooked`, `Blind`; see the limits below), which `CatchesUp` excepts.  Left
out: the list and its details, filters and preferences, several tabs, the bus
itself (a notification is `Schedule`, and any number may be lost, since the timer
schedules too), and the wording of errors.

## Runs

| run | bounds | what it shows |
|---|---|---|
| `outbox_one_copy` | 2 workers, a send and a retry, 1 job per command, 2 attempts, 1 disruption, live resets | types; at most one copy; one call in flight; no blind resend; a failure is final; the attempt ceiling; the inductive invariant of the proofs; the outbox implements `OneCopy` |
| `outbox_settles` | 1 worker, a send and a retry, 2 jobs per command, rejections prove nothing | the message agrees with its command and resolutions stand; evidence on the command or its direct source stops a send; every command settles |
| `outbox_lineage` (violation) | 1 worker, 3 attempts of a message | evidence on an older attempt of the lineage does not stop a send |
| `roster_safety` | 2 deletes, 2 workers, 2 attempts, 2 disruptions, live resets | types; deletes are decided on later reads; hints are honoured |
| `roster_liveness` | 2 deletes, 1 worker, 2 attempts, 1 disruption, live resets | every delete is settled, every pull ends |
| `watermark_safety` | 2 messages, 2 events, 1 attempt, client ids | types; what is shown was told; receipts stand; nothing moves back; unless transactions overlapped, a watermark reaches every message it covers, in any order |
| `watermark_lost` (violation) | 1 message, 1 event, overlapping transactions | a watermark may miss a message |
| `connection_health` | 4 instants, 2 probes, 1 reconnection, 1 report, 1 held event, 2 sends, 2 changes | types; sends are open on the newest observation only; a check is always near, and none is made in a cooldown; what is parked is covered by a wave; what is held is released on proof |
| `connection_cycle` (violation) | 2 probes, 1 kind of report, 1 change | a later cycle of the same report is dropped as a repetition |
| `message_content` | 3 mutations (2 of mixed makers, audio or another's), 2 instants, revisions 0 to 2, 2 attempts | types; every order shows the latest; what is hidden stays hidden, what is erased erased, a deletion stands with all it left; our commands end as the provider did; no spinner spins for ever |
| `read_receipts` | 2 agents, 3 messages, the second imported at any time, batches of 2, 2 batches a read, 2 disturbances | types; receipts leave no gap and go no further than reading; a bulk read stops before what arrived meanwhile; what is seen is told, and nothing is while receipts are not admitted |
| `timeline` | 3 messages of the open conversation and 1 of another, one of them late, pages of 1, recoveries of 2 pages, 2 acts of the agent, 1 failed read | types; what is shown belongs to the open conversation and was not purged; the window catches up |

Why the bounds are enough.  Two workers are needed for a job that runs twice and
for the second lineage member to meet the first; a third would have to wait on the
same rows.  A lineage of two has every interaction of a retry with its source;
three are needed only for the transitive fence, which has its own run.  Two
attempts reach the ceiling after one retry.  A disruption is a crash, an
unexpected failure, an act of the operator or, in the roster, also a hint, an
outage, an expiry, a requeue; one or two of them meet every step of the rest.
Two messages and two events give every order of two dates, and of a receipt
against another, a name and an echo; one attempt is enough for safety, since
another only begins the event again.  Two probes are one older and one newer than
a report; two sends with pages of one are a wave that must continue itself.  Three
mutations give every order of an edit, its successor and a delete; three
everywhere (10 million states) were checked once for safety and held.  Three messages in
batches of two are a full batch and a rest, and the imported one falls inside
either; in `ReadReceipts` a deletion, pause or list act comes alone, while visits,
refusals and lost answers pair, and a pause paired with a refusal, and messages
without a usable id (`Garbled`), were checked once and held.  In `Timeline`, three
messages in pages of one are a gap of two forward pages, which is all a recovery
may ask before it starts anew, and the late one falls before, inside or after the
window; two late messages, four messages, and five in pages of two were checked
once and held.
`MaxCopies` bounds what the provider counts, and is one more than may ever happen
where the property is about copies.  Deadlock is checked where the system has no
end; a run whose system may stop when all is done says so.

Each property of a passing run has a mutant in `PROJECT.json`: an operator of the
module that changes one definition the way a slip would, and under which the run
fails.

### Fairness

`outbox_settles` assumes that a worker that has a step takes it, that the runner
starts pending jobs and resets started jobs whose worker is gone, and that the
recovery cron keeps running: the first two are what `queue_job` is for, the cron
is in `data/`.  Nothing is assumed of agents, administrators, operators, evidence
or the connection.  The property says: if the connection stays open and the
provider stops pausing, then a command that is pending, in retry or processing
settles, with one exception.  A `processing` command whose job failed or was
cancelled is in no recovery lane (`queue.py:77-86` takes pending and retry only);
it waits for an operator, and the property says so.

`roster_liveness` assumes less: of each event that its job runs, of the queue only
that it does something while it can (it may favour one worker, but may not reset a
job under a live one for ever, which is a bounded disruption), and of the recovery
cron that it does not stop, whichever of its parts has something to do.  It says
that, once the connection stays readable, every pending delete is decided or
given up and every pull ends.

`message_content` assumes that `queue_job` runs its jobs again, and that the
connection is ready again and again: finishing a download or a transcription is
strongly fair.

`read_receipts` assumes that a request ends, that an attendant comes back (strong,
on the visit to the newest message), that jobs are dispatched, and that the
provider does not postpone for ever.  That reading at last succeeds when it is
again and again uncontended is written out, since TLC is slow to decide when a
whole request is enabled.

`timeline` assumes that reads are answered or fail, that the timer of half a minute
(`startConsistencySynchronization`) goes on, and that the word of a purge reaches
the tab, which is not hidden for ever.  Nothing is assumed of the agent, nor that
an answer to a send comes.  The property says of each message, again and again, that
it is in reach if it belongs to the open conversation: the agent may open another
one at any time.

## Findings

* `outbox_lineage`: `_lock_and_validate_retry_source_for_dispatch`
  (`queue.py:2919`) looks only at the direct source.  The original fails, its
  retry fails, late evidence reaches the original, the retry is sent again and
  crosses the boundary.  The comment at `queue.py:2631-2634` says that late
  evidence on the original attempt makes any send unsafe.
* `watermark_lost`: a covering receipt is processed while the send it covers is at
  the provider.  The search for covered messages (`application.py:1646`) does not
  see the name, which is not committed; the replay (`delivery_watermark.py:225`)
  does not see the watermark, because the outcome transaction took its snapshot
  before the call.  The advisory lock orders the two and refreshes neither, and no
  row is locked by one and written by the other.  The message stays `sent` until a
  later receipt.  The comment at `message.py:688-690` says that either transaction
  observes and applies the other's committed evidence.  `ReachAllInTurn`, in
  `watermark_safety`, shows that nothing but the overlap is to blame.
* `connection_cycle`: the ingress of WuzAPI takes a lifecycle report for a
  repetition of the latest one while the connection still shows its state
  (`wuzapi/controllers/webhook.py:433`).  A health read applied between two cycles
  can leave the connection as the first report did, and then the report of the
  second cycle is not stored, although the docstring (line 394) says that later
  lifecycle cycles stay distinct.

Limits that are no findings:

* `_group_roster_authority_status` (`application.py:584-593`) cuts the receipt of
  a delete to the second, and a read's start has whole seconds too.  A read begun
  at .2 authorises a delete received at .8 of one second.  `GroupRoster` has a
  constant for it, `SameSecond`; its runs set it to FALSE, and `DecidedOnLaterRead`
  is what the comment at lines 763-764 asks for otherwise.
* With live resets an outcome may be overwritten: between the commit of the
  boundary and the first read of the outcome transaction a second worker may write
  `uncertain`, and `_dispatch_after_boundary` (`queue.py:2745`) does not look at
  the state again.  `outbox_one_copy` and the proofs show that at most one copy is
  sent all the same; `outbox_settles`, where outcomes stand, has no live resets.
* The first read of a conversation longer than a page may be overtaken by a refresh,
  or fail, or be preceded by the answer to a send.  Then messages are shown but no
  contiguous cursor is known; every refresh finds that a recovery is needed, and
  `beginTimelineForwardRecovery` (`contact_center_store.esm.js:4738-4750`) throws,
  without a word to the agent, until an older page is loaded or the conversation is
  opened again (`Blind`).
* A message that arrives behind others of a later date, while the end of the window
  is not loaded, or between the last page of a recovery and the page of the newest
  that ends it, is asked for by no later read: the ending page does not look at
  `has_unloaded_received` (`Overlooked`).  The comment at lines 4692-4693 of the
  store speaks of late messages, but only of the page a recovery begins with.
* The answer to an edit or a reaction may come after the purge of its message, and
  shows it again until the next reload (`ghosts`).

## Proofs

Every theorem holds for every value of the constants that the module's assumptions
allow: any number of workers, events, messages, mutations, jobs, attempts and
disruptions.  A premise of a theorem, where it has one, is in the last column.

| module | theorem | statement | premise |
|---|---|---|---|
| `OutboxDispatchProofs` | `TypeCorrect` | `TypeOK` | |
| | `Exclusion` | `ExclusionInv`, the inductive invariant | |
| | `NoConcurrentCalls` | `OneCallInFlight`: no two workers are at the provider for one lineage | |
| | `OneCopyAccepted` | `AtMostOneCopy` | in the property |
| | `FailureProvesUnsent` | `FailureIsFinal` | in the property |
| | `NoBlindResend` | `NeverBlindlyResent` | |
| | `CeilingIsKept` | `CeilingHolds` | |
| | `MessageShowsCommand` | `ProjectionAgrees` | `~LiveReset` |
| | `EvidenceStopsDispatch` | `EvidenceFence` | `~LiveReset` |
| `OutboxRefinementProofs` | `OutboxImplementsOneCopy` | `ImplementsOneCopy` | `RejectionIsProof` |
| `GroupRosterProofs` | `RosterTypes` | `TypeOK` | |
| | `DeletesFollowTheirRead` | `DecidedOnLaterRead` | `~SameSecond` |
| | `HintsSurvive` | `HintsAreHonoured` | |
| `DeliveryWatermarkProofs` | `WatermarkTypes` | `TypeOK` | |
| | `ShownAdvances` | `ShownNeverMovesBack` | |
| | `ShownWasTold` | `ShownIsTold` | |
| | `WhatWasSaidStands` | `ReceiptsStand` | |
| | `TurnsReachAll` | `ReachAllInTurn` | |
| `ConnectionProofs` | `ConnectionTypes` | `TypeOK` | |
| | `NextCheckStaysNear` | `NextCheckIsNear` | |
| | `CooldownStands` | `CooldownHonoured` | |
| | `OpensOnProof` | `OpenOnlyOnLatest` | |
| | `ReleasesOnProof` | `ReleasedOnProof` | |
| | `ParkedAreCovered` | `ParkedIsCovered` | |
| `MessageContentProofs` | `ContentTypes` | `TypeOK` | |
| | `LastIsShown` | `LatestIsShown` | |
| | `HiddenForGood` | `HiddenStaysHidden` | |
| | `CommandsAreSettled` | `OwnOutcome` | |
| | `GoneForGood` | `GoneStaysGone` | |
| `ReadReceiptsProofs` | `ReceiptTypes` | `TypeOK` | |
| | `ReceiptsFollow` | `ReceiptsFollowReading` | |
| | `BulkReadsStopShort` | `BulkStopsShort` | |
| `TimelineProofs` | `TimelineTypes` | `TypeOK` | |
| | `CurrentIsShown` | `OnlyCurrentIsShown` | |

The assumptions are those of the modules: sizes are naturals, the durations of the
connection are ordered as its defaults are, and the reports and answers it may meet
are among those the code knows (`KindsAssumption`).  Premises are constants of the
model that a run also gives the value of the premise: the adapter contract
(`RejectionIsProof`), no reset of a job under a live worker (`LiveReset`), and times
that are not compared within one second (`SameSecond`).  With the other values the
properties are false, and TLC shows it; see the limits above.

### Exclusion

`OneCallInFlight` is not inductive: nothing in it keeps a second worker from
crossing the boundary.  `ExclusionInv` adds

* `CallIsHeld`: a command with a call in flight is not one that looks unsent;
* `ChainIsDead`: a retry exists only over dead predecessors;
* `DoubtIsHeld`: a dispatch nobody disproved is not pending, in retry or dead;
* `AcceptanceIsSeen`: what looks unsent was not accepted;
* `WorkIsCreated`: jobs and workers belong to commands that exist.

Crossing the boundary needs a pending or retry command (`OnlyTheUnsentCross`, from
the lemma `OnlyDispatchCrosses`).  Its predecessors are dead, so by `CallIsHeld` none
of them has a call in flight, and neither has the command itself: the new call is
the only one.  Nothing is said of job ownership, snapshots or attempts; exclusion does
not rest on them, which is why it survives a live reset.  The proof has one step per
action, and lemmas for the moves many actions share (`UnsentMove`, `HeldMove`,
`RefusedMove`, `Creation`, `Boundary`, `Call`).

### Ceiling, projection, refinement

The ceiling adds `UncreatedIsUntried`, since a manual retry begins at no attempts.

That the message shows its command does rest on ownership.  `OwnerInv` says that a
running worker holds a started job which no other worker runs (`RunnersHold`), and
that a worker with a call in flight runs the job its command names, and the command
still is `processing` (`CallIsOwned`).  A job reset under a live worker breaks the first, which is why the
theorem has its premise and why the module states the property for runs without it.
`UncreatedIsUnseen` says that the message of a retry not yet made shows nothing.

The refinement maps the lineage to one abstract sender.  The mapping forgets which
command does something; what makes that sound is `OneLive`, that two live commands of a
lineage are the same, and `DoubtIsLive`, that a dispatch in doubt belongs to that one.
`CallIsDoubted` says that a call in flight is such a dispatch.  Every action of the
outbox then is an action of `OneCopy` or leaves it as it is.

### Roster

A delete is decided on the profile, which says when the applied read began; the clock
is ahead of every instant written anywhere (`ClockLeads`), and moves with each receipt.
So an event received by the second a read began was there when it began
(`ReadersKnow`), unless both fall in one second, and the profile knows the events of
the read it shows (`ProfileKnows`).  A delete that found itself covered has the proof
of it (`CoverIsProven`).  No property of the jobs is needed: whichever worker applies
its roster, the profile says when that one was read.

Hints rest on the snapshots instead.  An open read under which nobody wrote the profile
has seen no hint and no failure since it began (`Fresh`), and only such a read commits;
a hint that finds a pull under way makes it be followed by another, which needs that a
worker whose job the profile names has one, and that there is no error while one is
named (`NamedJob`).

### Watermarks

`OrderInv` has the types of the rows; that a message not yet sent is not shown, nor at
the provider (`Unsent`); what the send of a message owns (`Owned`); that events name what the
provider accepted (`EventsKnow`); that an echo is of a message nobody has shown
(`EchoIsNew`); and that an event which may be tried has tries left (`Tried`).
`ShownAdvances` follows since every write is of a row unchanged since the snapshot, and
forward (`Forward`).  `CursorsTold` says that a watermark, committed or seen in a
snapshot, was said by an event.  `CursorStands` says that a watermark is one that was
processed, and the highest: two first watermarks collide on the unique key, and a
later one that was displaced fails.  `NamedStands` says the same of a message that was
named.  `TurnsReachAll` adds that, as long as nobody overlapped, the open transaction
is alone and sees the watermarks there are (`InTurn`), and that the messages known by
name are as far as these say (`AllReached`).

### Connection

Types already need an argument: instants and epochs stay within their bounds because a
check is queued no further than the longest delay (`Near`), and because requests to
reconnect come one after the other.  `RowSteps` sorts what a step does to the row into
a few kinds (hints, probes, reports, configuration, waves), and each later theorem goes
over the kinds instead of over the actions.  `RetryStands`: a pause the provider asked for
that is not over is in the row.  `Latest`: the row is as late as all that was heard against it
and as every report that was applied; it is `connected` only if it is later, and
without the latch only by a probe that matched.  `ParkedInv`: only a primary connection
sends, one that does not send has no active command (`InUse`), and what is parked while
sends are let through is ahead of a page of the wave; a page that ends resumes its
batch, and by the lemma `Batches` the rest is after the last of it.

### Message content

A step projects a mutation, moves a command, does the work of a job, receives the
message or erases it (`Kinds`); `Effects` says what the projection does to the message.
`RowsInv` has the types, that a command and its mutation agree (`Owned`), that what is shown
of a mutation was applied (`ShownIsApplied`), and that a snapshot a worker may still decide on is that
of now (`SeenIsNow`): whoever changes what it shows writes the binding, and voids it.

`HiddenStaysHidden` is not inductive: a job under way could write.  `LateJobs` says that
a download that runs under a hidden message, and a transcription that runs under one
that is hidden or gone, miss the media in their snapshot, and a transcription under any
deleted message misses its binding; projections that delete the message age them, and
the guard of what a job stores is that it does not miss them.

`LatestIsShown` needs, for each order, that a mutation ignored because something newer
was applied is not newer than the last (`LastIsKept`, `EditIsKept`): transitivity
of (instant, number), and of (revision, instant, number) where revisions are
uniform.  Where they are not, the second fails, and so would the property.  That the
last of a set is unique (`OneLast`) makes the `CHOOSE` of the property the one
the rows show.

`GoneStaysGone` holds step by step: jobs under a deletion change neither the message nor
what is heard in it (`Silence`, from `LateJobs`).  Its second part holds since an erased message has
left a receipt, which stays and admits nothing (`ReceiptNext`).

### Read receipts

What a request reads is a snapshot, and `RequestInv` says what is left of it: whatever
writes a row that the request locks fails it, so its rows are those there are, and the
receipts it knows still exist, under the same numbers (`Snapshot`).  Deletions may have
gone on meanwhile.  `LedgerInv` says that receipts to one message have numbers of their
own, which makes the first that ended unsent (`Barrier`) one, and that none of them
has a message that did not arrive.

The loop over batches (`Queued`) is a recursive function of the number of rounds, and
its length depends on the ledger.  What a round keeps is `Base`: receipts follow
reading, in what is stored together with what the request wrote.  While the loop goes
on, `Ahead` says that all is told up to where it is, and that nothing it made lies
beyond.  If some number of rounds broke that there would be a least one (`Induction`,
from the well-foundedness of the naturals), and one round keeps it (`RoundKeeps`).  Then
the invariant of the ledger is the end of the loop (`QueuedLaws`).

`BulkReadsStopShort` follows from what the limit of a bulk read is (`BulkLaws`), where
the prepared newest id is an id of rows, and the rows the request reads are the present
ones.

### Timeline

`OnlyCurrentIsShown` is not inductive: an answer could bring anything.  `ReadStands`
says of the read under way that its rows belong to the open conversation, and are
purged only while the word of the purge is still out: whatever changes the
conversation, closes it or purges it ends the read.  So do its types need an argument:
a recovery asks for a page only while it has pages left, and what a page answers is
rows (`Answers`), whose ids are numbers of rows (`RowIds`) because no message becomes
a row twice (`BornOnce`).  Only one of the conversations is ever purged, so that a
tab with the other one open shows nothing purged when the word comes.

### Only model-checked

Every invariant and every action property of the passing runs is proved, some of them
under the premises above, which the runs share.  Liveness under fairness stays with TLC, since the prover
knows neither `ENABLED` nor fairness: `EventuallySettled`, `EventsSettle`, `PullsEnd`,
`SpinnersEnd`, `SeenIsTold` and `CatchesUp`.  The refinement is proved for the safety
part of `OneCopy`, which has no other.  The limits that the violation runs show are
counterexamples, and there is nothing to prove of them.

## Not modelled

Left out of the outbox: the contents and validation of DTOs, pacing as a clock, and
a `ValidationError` raised while the browser is notified of a success
(`queue.py:2802-2803`), for which we found no cause on that path.
Left out of the roster: the switch of a profile to another connection, the
participants and the avatar it carries, scheduled messages as a reason to need a
complete roster, and every inbox event that is not a privileged group delete.
Left out of the watermarks: groups, and that a message is dated when it is
composed, so that one sent late may be covered by a date before anybody saw it;
that every receipt is in the end applied or given up is not checked either (for the
events of the roster it is).
Left out of the connection: roles and the switch of primary, the activation
itself.  Left out of message content: who may change what in a group, capabilities
of providers.  Left out of the web client: the list, preferences, optimistic rows
of messages on their way.  All leave out access rights, wording and UI notifications.

Kanban: every operation of the bridge to the CRM writes one global row
(`contact.center.crm.catalog.authority`) and touches the rows of pipeline, case and
lead, so that its transactions are in effect serial; what is left is mapping of
stages without interleavings.  Attribution, onboarding, the sale link and the rest
of the read API keep little state of their own.

## Plan

Done: the outbox and its refinement, the roster, the watermarks, connections,
message content, read receipts and the timeline, with the proofs of their safety
properties.  Left, in this order:

1. Resolution of identities: first observation of a person by two inboxes, merges.
2. The consumers of shared webhooks (Meta, WhatsApp Cloud), ingress, rotation of
   secrets.
3. Attendance, follow-ups, scheduled messages; intake of leads; avatars.
4. The rest of the web store: the list, preferences, optimistic sends.
