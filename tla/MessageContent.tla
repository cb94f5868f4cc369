--------------------------- MODULE MessageContent ---------------------------
(***************************************************************************)
(* What is shown of one message, and who may still change it: edits, deletes  *)
(* and reactions that arrive from the provider or are asked for at the desk,   *)
(* in any order; the jobs that download its media, transcribe it and preview   *)
(* its links, which end long after they read it; the echo or the administrator  *)
(* that settles an uncertain command; and the retention that erases it.          *)
(*                                                                              *)
(* Every projection locks and writes the binding of the message.  A job, and the *)
(* worker that dispatches a command, take their snapshot when they begin: at       *)
(* REPEATABLE READ they can neither lock nor write a row that was written since.   *)
(* Instants are those of the mutations; mutations are numbered as they are created. *)
(***************************************************************************)
EXTENDS Integers, FiniteSets

CONSTANTS
    Shapes,         \* what the message is: a received audio, or a text of the desk
    Types,          \* the mutations that may happen to it
    LastMutation,   \* bound: mutations
    LastMixed,      \* bound: those of an audio, and of what the desk changes too
    LastInstant,    \* bound: the instants a provider may date them
    Revisions,      \* provider revisions of an edit; 0 for an edit without one
    MaxAttempts,    \* attempts of a job
    MaxRequests     \* bound: media, transcriptions and previews people ask for

ASSUME DomainsAssumption ==
    /\ Shapes \subseteq {"audio", "text"} /\ Shapes # {}
    /\ Types \subseteq {"react", "edit", "delete"}
    /\ Revisions \subseteq Nat
ASSUME BoundsAssumption ==
    /\ LastMutation \in Nat /\ LastMixed \in Nat /\ LastInstant \in Nat \ {0}
    /\ MaxAttempts \in Nat \ {0} /\ MaxRequests \in Nat

VARIABLES
    shape,       \* what the message is
    message,     \* the message, its binding, and what hangs from the message
    media,       \* its media, and their transcription
    mutation,    \* the mutations of the message
    command,     \* the outbox commands of those the desk asked for
    taken,       \* the commands the provider carried out
    download, transcribe,   \* jobs
    preview,     \* jobs, one for each text
    receipt,     \* the message expired, and a receipt of it is kept
    requests     \* how many requests people made

jobs == <<download, transcribe, preview>>
vars == <<shape, message, media, mutation, command, taken, jobs, receipt, requests>>

Mutations == 1 .. LastMutation
Sides     == {"self", "contact"}
Modes     == {"redact", "strike"}
First     == 0      \* the text the message came with; text m is that of edit m
Notice    == -1     \* "Message deleted"
None      == -2
Texts     == {First} \cup Mutations

Max(a, b) == IF a >= b THEN a ELSE b

-----------------------------------------------------------------------------
(* Snapshots *)

Idle    == [phase |-> "none", tries |-> 0, stale |-> {}]
Queued  == [phase |-> "queued", tries |-> 0, stale |-> {}]
Again(j) == [j EXCEPT !.phase = "queued", !.stale = {}]
Run(j)   == [j EXCEPT !.phase = "running"]

Aged(j, rows) == IF j.phase = "running" THEN [j EXCEPT !.stale = @ \cup rows] ELSE j

Fresh(j, rows) == j.stale \cap rows = {}

(* What a worker saw is of no use to it once the binding is written. *)
AgedCommand(c, rows) == IF "binding" \in rows THEN [c EXCEPT !.seen = {}] ELSE c

AgePreviews(rows) == preview' = [t \in Texts |-> Aged(preview[t], rows \cap {"text"})]

(* What a transaction wrote is missing from the snapshots of the jobs under way. *)
Age(rows) ==
    /\ download' = Aged(download, rows \cap {"binding", "media"})
    /\ transcribe' = Aged(transcribe, rows \cap {"binding", "media"})
    /\ AgePreviews(rows)

-----------------------------------------------------------------------------
(* The order of mutations *)

Precedes(o, m, d) == mutation[o].at > d.at \/ (mutation[o].at = d.at /\ o >= m)

Applied == {o \in Mutations : mutation[o].state = "applied"}

AppliedTo(type) == {o \in Applied : mutation[o].type = type}

(* What a projection decides on: of now, or of the snapshot of its transaction *)
Now == [state |-> message.state, text |-> message.text, deletedAt |-> message.deletedAt,
        applied |-> Applied]

(* Two edits with a provider revision are ordered by it. *)
Supersedes(o, m, d) ==
    IF d.rev # 0 /\ mutation[o].rev # 0 /\ mutation[o].rev # d.rev
    THEN mutation[o].rev > d.rev
    ELSE Precedes(o, m, d)

(* Mutant: the last edit to arrive is the last edit. *)
SupersededOnArrival(s, m, d) == \E o \in s.applied : mutation[o].type = "edit" /\ o > m

SupersededEdit(s, m, d) ==
    \E o \in s.applied : mutation[o].type = "edit" /\ Supersedes(o, m, d)

Lane(side) == {o \in AppliedTo("react") : mutation[o].side = side}

SupersededReaction(s, m, d) ==
    \E o \in s.applied :
        mutation[o].type = "react" /\ mutation[o].side = d.side /\ Precedes(o, m, d)

-----------------------------------------------------------------------------
(* Projection of one mutation d, numbered m, decided on the snapshot s *)

Deleted == message.state = "deleted"
Hidden  == Deleted /\ message.mode # "strike"

(* Mutant: a reaction writes what it changes, and the binding is not of it. *)
OnlyChanges(d) == IF d.type = "react" THEN {} ELSE {"binding"}

(* mutation_projection_revision: every projection writes the row it locked *)
Revision(d) == {"binding"}

(* Mutant: a reaction is refused only where deleted content is hidden. *)
ReactUnderStrike(s, m, d) ==
    /\ message' = IF Hidden \/ SupersededReaction(s, m, d) THEN message
                  ELSE [message EXCEPT !.reaction[d.side] = IF d.add THEN m ELSE None]
    /\ UNCHANGED media
    /\ Age(Revision(d))

React(s, m, d) ==
    /\ message' = IF s.state = "deleted" \/ SupersededReaction(s, m, d) THEN message
                  ELSE [message EXCEPT !.reaction[d.side] = IF d.add THEN m ELSE None]
    /\ UNCHANGED media
    /\ Age(Revision(d))

Edit(s, m, d) ==
    LET effective == s.state # "deleted" /\ ~SupersededEdit(s, m, d)
    IN  /\ message' = IF ~effective THEN message
                      ELSE [message EXCEPT
                              !.state = "edited", !.text = m,
                              !.original = IF s.state = "active" THEN s.text ELSE @]
        /\ UNCHANGED media
        /\ Age(IF effective THEN {"binding", "text"} ELSE Revision(d))

Redacted(msg) ==
    [msg EXCEPT !.reaction = [s \in Sides |-> None], !.links = None, !.previewed = None]

(* Mutant: the purge of the attachments forgets the transcript. *)
DiscardedFile(x) ==
    IF x.state = "none" THEN x ELSE [x EXCEPT !.state = "discarded", !.file = FALSE]

(* _purge_redacted_operational_content, and what transcription adds to it *)
Discarded(x) ==
    IF x.state = "none" THEN x
    ELSE [x EXCEPT !.state = "discarded", !.file = FALSE,
                   !.speech = "skipped", !.transcript = FALSE]

(* Mutant: the text of an edit is kept for the original. *)
TombstoneAnew(s, d) ==
    [message EXCEPT
        !.state = "deleted", !.deletedAt = d.at, !.mode = d.mode, !.text = Notice,
        !.kept = IF d.mode = "strike" THEN s.text ELSE None,
        !.original = IF d.mode = "redact" THEN None ELSE s.text]

Tombstone(s, d) ==
    [message EXCEPT
        !.state = "deleted", !.deletedAt = d.at, !.mode = d.mode, !.text = Notice,
        !.kept = IF d.mode = "strike" THEN s.text ELSE None,
        !.original = IF d.mode = "redact" THEN None
                     ELSE IF s.state = "active" THEN s.text ELSE @]

Delete(s, m, d) ==
    IF s.state = "deleted"
    THEN /\ message' = [message EXCEPT !.deletedAt = Max(s.deletedAt, d.at)]
         /\ UNCHANGED media
         /\ Age({"binding"})
    ELSE IF d.mode = "redact"
    THEN /\ message' = Redacted(Tombstone(s, d))
         /\ media' = Discarded(media)
         /\ Age({"binding", "text", "media"})
    ELSE /\ message' = Tombstone(s, d)
         /\ UNCHANGED media
         /\ Age({"binding", "text"})

(* _apply_projection *)
Project(s, m, d) ==
    /\ mutation' = [mutation EXCEPT ![m] = [d EXCEPT !.state = "applied"]]
    /\ \/ d.type = "react" /\ React(s, m, d)
       \/ d.type = "edit" /\ Edit(s, m, d)
       \/ d.type = "delete" /\ Delete(s, m, d)

AgedCommands(cmd, d) == [o \in Mutations |-> AgedCommand(cmd[o], Revision(d))]

-----------------------------------------------------------------------------
NoMutation ==
    [type |-> "none", at |-> 0, rev |-> 0, side |-> "self", add |-> FALSE,
     mode |-> "redact", state |-> "absent"]

NoCommand == [state |-> "none", seen |-> {}]

NoMessage ==
    [state |-> "absent", text |-> None, original |-> None, kept |-> None, mode |-> "none",
     deletedAt |-> 0, reaction |-> [s \in Sides |-> None], previewed |-> None, links |-> None]

NoMedia == [state |-> "none", file |-> FALSE, speech |-> "idle", transcript |-> FALSE]

Init ==
    /\ shape \in Shapes
    /\ message = NoMessage
    /\ media = NoMedia
    /\ mutation = [m \in Mutations |-> NoMutation]
    /\ command = [m \in Mutations |-> NoCommand]
    /\ taken = {}
    /\ download = Idle
    /\ transcribe = Idle
    /\ preview = [t \in Texts |-> Idle]
    /\ receipt = FALSE
    /\ requests = 0

Exists == message.state # "absent"

(* _retention_route_is_expired *)
Admitted == ~receipt

(* A message is projected, with its media and the first jobs; an expired one is
   blocked with its content erased.                                             *)
Receive ==
    /\ ~Exists /\ Admitted
    /\ message' = [NoMessage EXCEPT !.state = "active", !.text = First]
    /\ IF shape = "audio"
       THEN /\ media' = [NoMedia EXCEPT !.state = "pending"]
            /\ download' = Queued
            /\ UNCHANGED preview
       ELSE /\ UNCHANGED <<media, download>>
            /\ preview' = [preview EXCEPT ![First] = Queued]
    /\ UNCHANGED <<shape, mutation, command, taken, transcribe, receipt, requests>>

-----------------------------------------------------------------------------
(* Mutations *)

OwnedBefore(m) == {o \in Mutations : o < m /\ command[o].state # "none"}

NextFree(m) ==
    /\ mutation[m].state = "absent"
    /\ \A o \in Mutations : o < m => mutation[o].state # "absent"
    /\ shape = "audio" \/ OwnedBefore(m) # {} => m <= LastMixed

Reactions(at) ==
    {[NoMutation EXCEPT !.type = "react", !.at = at, !.side = r.side, !.add = r.add,
                        !.state = "pending"] : r \in [side : Sides, add : BOOLEAN]}
Edits(at) ==
    {[NoMutation EXCEPT !.type = "edit", !.at = at, !.rev = r, !.state = "pending"] : r \in Revisions}
Deletes(at) ==
    {[NoMutation EXCEPT !.type = "delete", !.at = at, !.mode = k, !.state = "pending"] : k \in Modes}

Possible(at) == {d \in Reactions(at) \cup Edits(at) \cup Deletes(at) : d.type \in Types}

(* _apply_inbound_mutation: of a contact, or of the account on another device;
   one whose target is not there yet waits in the inbox.                        *)
RemoteMutation(m) ==
    /\ Exists /\ Admitted /\ NextFree(m)
    /\ \E at \in 1 .. LastInstant : \E d \in Possible(at) :
          Project(Now, m, d) /\ command' = AgedCommands(command, d)
    /\ UNCHANGED <<shape, taken, receipt, requests>>

(* _send_message_mutation: edits and deletes of texts the desk sent, without a
   revision; dated by the clock of the desk, which does not go back.            *)
RequestOwn(m) ==
    /\ Exists /\ ~Deleted /\ NextFree(m) /\ m <= LastMixed
    /\ \E at \in 1 .. LastInstant : \E d \in Possible(at) :
          /\ d.type = "react" => d.side = "self"
          /\ d.type \in {"edit", "delete"} => shape = "text"
          /\ d.rev = 0
          /\ \A o \in OwnedBefore(m) : mutation[o].at <= at
          /\ mutation' = [mutation EXCEPT ![m] = d]
    /\ command' = [command EXCEPT ![m].state = "queued"]
    /\ UNCHANGED <<shape, message, media, taken, jobs, receipt, requests>>

SetCommand(m, s) == [command EXCEPT ![m] = [state |-> s, seen |-> {}]]

(* The worker takes its snapshot. *)
Claim(m) ==
    /\ command[m].state = "queued"
    /\ command' = [command EXCEPT ![m] = [state |-> "processing", seen |-> {Now}]]
    /\ UNCHANGED <<shape, message, media, mutation, taken, jobs, receipt, requests>>

(* _persist_safe_retry *)
BackOff(m) ==
    /\ command[m].state = "processing"
    /\ command' = SetCommand(m, "queued")
    /\ UNCHANGED <<shape, message, media, mutation, taken, jobs, receipt, requests>>

(* _finish_failure: before the boundary or after it, refused for good *)
Refuse(m) ==
    /\ command[m].state \in {"queued", "processing"}
    /\ command' = SetCommand(m, "dead")
    /\ mutation' = [mutation EXCEPT ![m].state = "failed"]
    /\ UNCHANGED <<shape, message, media, taken, jobs, receipt, requests>>

(* The provider carried it out, and the binding is as the worker saw it. *)
Succeed(m) ==
    /\ command[m].state = "processing"
    /\ \E s \in command[m].seen : Project(s, m, mutation[m])
    /\ command' = AgedCommands(SetCommand(m, "done"), mutation[m])
    /\ taken' = taken \cup {m}
    /\ UNCHANGED <<shape, receipt, requests>>

(* A projection since the snapshot, no answer, or a worker that died: the
   success of a mutation is not repaired, only that of a message is.            *)
Doubt(m) ==
    /\ command[m].state = "processing"
    /\ command' = SetCommand(m, "uncertain")
    /\ taken' \in {taken, taken \cup {m}}
    /\ UNCHANGED <<shape, message, media, mutation, jobs, receipt, requests>>

(* Mutant: the echo does not wait for the worker. *)
EchoAtOnce(m) ==
    /\ m \in taken \/ command[m].state = "processing"
    /\ mutation[m].type = "edit" /\ mutation[m].state = "pending"
    /\ Project(Now, m, mutation[m])
    /\ command' = AgedCommands(IF command[m].state = "uncertain"
                               THEN SetCommand(m, "done") ELSE command, mutation[m])
    /\ UNCHANGED <<shape, taken, receipt, requests>>

(* _confirm_outbound_mutation_echo: it waits while a worker owns the outcome *)
Echo(m) ==
    /\ m \in taken
    /\ mutation[m].type = "edit"
    /\ command[m].state = "uncertain"
    /\ Project(Now, m, mutation[m])
    /\ command' = AgedCommands(SetCommand(m, "done"), mutation[m])
    /\ UNCHANGED <<shape, taken, receipt, requests>>

(* _resolve_uncertain: external_application_confirmed *)
Confirm(m) ==
    /\ command[m].state = "uncertain"
    /\ Project(Now, m, mutation[m])
    /\ command' = AgedCommands(SetCommand(m, "done"), mutation[m])
    /\ UNCHANGED <<shape, taken, receipt, requests>>

(* _resolve_uncertain: closed_without_send, refused once the mutation is applied *)
Close(m) ==
    /\ command[m].state = "uncertain" /\ mutation[m].state # "applied"
    /\ command' = SetCommand(m, "cancelled")
    /\ mutation' = [mutation EXCEPT ![m].state = "failed"]
    /\ UNCHANGED <<shape, message, media, taken, jobs, receipt, requests>>

-----------------------------------------------------------------------------
(* The media of the message *)

Rest == <<shape, mutation, command, taken, receipt>>

Eligible(msg, x) == x.state = "ready" /\ x.file /\ msg.state \notin {"deleted", "absent"}

(* _enqueue_transcription *)
Asked(x) == [x EXCEPT !.speech = "pending", !.transcript = FALSE]

(* _job_download_body: a file that is there or must not be shown is not read *)
BeginDownload ==
    /\ download.phase = "queued"
    /\ IF media.state = "ready" THEN download' = Idle /\ UNCHANGED media
       ELSE IF Hidden
       THEN download' = Idle /\ media' = [media EXCEPT !.state = "discarded"]
       ELSE download' = Run(download) /\ UNCHANGED media
    /\ UNCHANGED <<Rest, message, transcribe, preview, requests>>

(* _deleted_content_is_hidden(lock=True), and the write of the media *)
Storable == Fresh(download, {"binding", "media"})

(* The file is stored, and transcribed where that is automatic. *)
StoreFile ==
    /\ download.phase = "running" /\ Storable
    /\ LET stored == [media EXCEPT !.state = "ready", !.file = TRUE]
       IN  \/ media' = stored /\ UNCHANGED transcribe
           \/ /\ Eligible(message, stored) /\ media.speech = "idle"
              /\ media' = Asked(stored)
              /\ transcribe' = Queued
    /\ download' = Idle
    /\ UNCHANGED <<Rest, message, preview, requests>>

(* _finish_failure: the provider refuses the file, or the ceiling is reached *)
FailDownload ==
    /\ download.phase = "running" /\ Fresh(download, {"media"})
    /\ media' = [media EXCEPT !.state = "failed"]
    /\ download' = Idle
    /\ UNCHANGED <<Rest, message, transcribe, preview, requests>>

(* A transient error takes an attempt; a conflict or a pause takes none. *)
RetryDownload ==
    /\ download.phase = "running"
    /\ \/ /\ download.tries + 1 < MaxAttempts
          /\ download' = [Again(download) EXCEPT !.tries = @ + 1]
       \/ download' = Again(download)
    /\ UNCHANGED <<Rest, message, media, transcribe, preview, requests>>

(* action_retry_download *)
AskDownload ==
    /\ requests < MaxRequests /\ media.state = "failed"
    /\ media' = [media EXCEPT !.state = "pending"]
    /\ download' = Queued
    /\ requests' = requests + 1
    /\ UNCHANGED <<Rest, message, transcribe, preview>>

-----------------------------------------------------------------------------
(* Its transcription *)

Transcribing == transcribe.phase \in {"queued", "running"}

(* Mutant: the row is shown as it is. *)
RowSpeech == IF Hidden THEN "idle" ELSE media.speech

(* _transcription_descriptor: what the desk is told *)
ShownSpeech ==
    IF Hidden THEN "idle"
    ELSE IF media.speech = "pending" /\ ~Transcribing THEN "failed" ELSE media.speech

(* action_request_transcription *)
AskTranscript ==
    /\ requests < MaxRequests
    /\ Eligible(message, media)
    /\ media.speech # "done" /\ ~Transcribing
    /\ media' = Asked(media)
    /\ transcribe' = Queued
    /\ requests' = requests + 1
    /\ UNCHANGED <<Rest, message, download, preview>>

(* _job_transcribe_body: a message or settings that changed skip it *)
BeginTranscribe ==
    /\ transcribe.phase = "queued"
    /\ IF media.speech # "pending" THEN transcribe' = Idle /\ UNCHANGED media
       ELSE \/ /\ transcribe' = Idle
               /\ media' = [media EXCEPT !.speech = "skipped"]
            \/ /\ Eligible(message, media)
               /\ transcribe' = Run(transcribe)
               /\ UNCHANGED media
    /\ UNCHANGED <<Rest, message, download, preview, requests>>

StoreTranscript ==
    /\ transcribe.phase = "running" /\ Fresh(transcribe, {"binding", "media"})
    /\ media' = [media EXCEPT !.speech = "done", !.transcript = TRUE]
    /\ transcribe' = Idle
    /\ UNCHANGED <<Rest, message, download, preview, requests>>

FailTranscript ==
    /\ transcribe.phase = "running" /\ Fresh(transcribe, {"media"})
    /\ media' = [media EXCEPT !.speech = "failed"]
    /\ transcribe' = Idle
    /\ UNCHANGED <<Rest, message, download, preview, requests>>

(* queue_job counts the attempt and gives up at the last: the row does not learn it *)
RetryTranscript ==
    /\ transcribe.phase = "running"
    /\ \/ /\ transcribe.tries + 1 < MaxAttempts
          /\ transcribe' = [Again(transcribe) EXCEPT !.tries = @ + 1]
       \/ /\ transcribe.tries + 1 = MaxAttempts
          /\ transcribe' = [Idle EXCEPT !.phase = "failed"]
       \/ /\ ~Fresh(transcribe, {"binding", "media"})
          /\ transcribe' = Again(transcribe)
    /\ UNCHANGED <<Rest, message, media, download, preview, requests>>

-----------------------------------------------------------------------------
(* The previews of its links *)

(* _contact_center_request_link_previews, when the message is displayed *)
AskPreview ==
    /\ requests < MaxRequests
    /\ shape = "text" /\ Exists /\ ~Deleted
    /\ message.previewed # message.text
    /\ preview[message.text].phase = "none"
    /\ preview' = [preview EXCEPT ![message.text] = Queued]
    /\ requests' = requests + 1
    /\ UNCHANGED <<Rest, message, media, download, transcribe>>

Previewable(t) == Exists /\ ~Deleted /\ message.text = t /\ message.previewed # t

BeginPreview(t) ==
    /\ preview[t].phase = "queued"
    /\ preview' = [preview EXCEPT ![t] = IF Previewable(t) THEN Run(@) ELSE Idle]
    /\ UNCHANGED <<Rest, message, media, download, transcribe, requests>>

(* FOR UPDATE of the message after the pages were read *)
StoredFresh(t) == Fresh(preview[t], {"text"}) /\ Previewable(t)

StorePreview(t) ==
    /\ preview[t].phase = "running" /\ StoredFresh(t)
    /\ message' = [message EXCEPT !.links = t, !.previewed = t]
    /\ preview' = [o \in Texts |-> IF o = t THEN Idle ELSE Aged(preview[o], {"text"})]
    /\ UNCHANGED <<Rest, media, download, transcribe, requests>>

RestartPreview(t) ==
    /\ preview[t].phase = "running" /\ ~Fresh(preview[t], {"text"})
    /\ preview' = [preview EXCEPT ![t] = Again(@)]
    /\ UNCHANGED <<Rest, message, media, download, transcribe, requests>>

-----------------------------------------------------------------------------
(* Retention *)

(* _protect_inflight: an outcome that is owed and a job under way stop it *)
Erasable ==
    /\ \A m \in Mutations : command[m].state \in {"none", "done", "dead", "cancelled"}
    /\ download.phase # "running"
    /\ \A t \in Texts : preview[t].phase # "running"

(* Mutant: an erased message leaves no receipt. *)
ForgottenReceipt == receipt

(* _record_expired_messages *)
Receipt == TRUE

(* _purge_binding: the message and all that hangs from it goes, its queued jobs
   with it; a transcription is not looked for, and finds no media when it ends. *)
Erase ==
    /\ Exists /\ Erasable
    /\ receipt' = Receipt
    /\ message' = NoMessage
    /\ media' = NoMedia
    /\ mutation' = [m \in Mutations |-> NoMutation]
    /\ command' = [m \in Mutations |-> NoCommand]
    /\ taken' = {}
    /\ download' = Idle
    /\ transcribe' = Aged(transcribe, {"binding", "media"})
    /\ preview' = [t \in Texts |-> Idle]
    /\ UNCHANGED <<shape, requests>>

-----------------------------------------------------------------------------
Next ==
    \/ Receive \/ Erase
    \/ \E m \in Mutations :
          \/ RemoteMutation(m) \/ RequestOwn(m)
          \/ Claim(m) \/ BackOff(m) \/ Refuse(m) \/ Succeed(m) \/ Doubt(m)
          \/ Echo(m) \/ Confirm(m) \/ Close(m)
    \/ BeginDownload \/ StoreFile \/ FailDownload \/ RetryDownload \/ AskDownload
    \/ AskTranscript
    \/ BeginTranscribe \/ StoreTranscript \/ FailTranscript \/ RetryTranscript
    \/ AskPreview
    \/ \E t \in Texts : BeginPreview(t) \/ StorePreview(t) \/ RestartPreview(t)

(* Jobs are run again until they end, and the connection is ready again and again. *)
Fairness ==
    /\ WF_vars(BeginDownload) /\ SF_vars(StoreFile \/ FailDownload)
    /\ WF_vars(RetryDownload)
    /\ WF_vars(BeginTranscribe) /\ WF_vars(RetryTranscript)
    /\ SF_vars(StoreTranscript \/ FailTranscript)

Spec == Init /\ [][Next]_vars /\ Fairness

-----------------------------------------------------------------------------
Snapshots ==
    [state : {"absent", "active", "edited", "deleted"}, text : Texts \cup {Notice, None},
     deletedAt : 0 .. LastInstant, applied : SUBSET Mutations]

(* Every variable keeps its type, and a text is never that of another message. *)
TypeOK ==
    /\ shape \in Shapes
    /\ message \in [state : {"absent", "active", "edited", "deleted"},
                    text : Texts \cup {Notice, None}, original : {First, None},
                    kept : Texts \cup {None}, mode : Modes \cup {"none"},
                    deletedAt : 0 .. LastInstant, reaction : [Sides -> Mutations \cup {None}],
                    previewed : Texts \cup {None}, links : Texts \cup {None}]
    /\ media \in [state : {"none", "pending", "ready", "failed", "discarded"}, file : BOOLEAN,
                  speech : {"idle", "pending", "done", "failed", "skipped"}, transcript : BOOLEAN]
    /\ mutation \in [Mutations -> [type : Types \cup {"none"}, at : 0 .. LastInstant,
                    rev : Revisions \cup {0}, side : Sides, add : BOOLEAN, mode : Modes,
                    state : {"absent", "pending", "applied", "failed"}]]
    /\ command \in [Mutations -> [seen : SUBSET Snapshots, state :
          {"none", "queued", "processing", "done", "uncertain", "dead", "cancelled"}]]
    /\ taken \subseteq Mutations
    /\ \A j \in {download, transcribe} \cup {preview[t] : t \in Texts} :
          j \in [phase : {"none", "queued", "running", "failed"}, tries : 0 .. MaxAttempts,
                stale : SUBSET {"binding", "media", "text"}]
    /\ DOMAIN preview = Texts
    /\ receipt \in BOOLEAN /\ requests \in 0 .. MaxRequests

Uniform == \A o, e \in AppliedTo("edit") : (mutation[o].rev = 0) <=> (mutation[e].rev = 0)

LatestReaction(S) ==
    IF S = {} THEN None
    ELSE LET last == CHOOSE o \in S : \A e \in S \ {o} : ~Precedes(e, o, mutation[o])
         IN  IF mutation[last].add THEN last ELSE None

(* While a message stands, its text is that of the last of the edits applied to
   it and each side has the last of its reactions, in the order the provider gave
   them and whatever the order they were projected in; its first text is kept.    *)
LatestIsShown ==
    message.state \in {"active", "edited"} =>
        /\ (message.state = "active") <=> (AppliedTo("edit") = {})
        /\ message.state = "edited" =>
              /\ message.text \in AppliedTo("edit") /\ message.original = First
              /\ Uniform => \A o \in AppliedTo("edit") \ {message.text} :
                               ~Supersedes(o, message.text, mutation[message.text])
        /\ \A s \in Sides : message.reaction[s] = LatestReaction(Lane(s))

(* Of a message deleted where the inbox hides deleted content, nothing is left to
   read: no text, file, transcript, preview or reaction, whatever job ends late.    *)
HiddenStaysHidden ==
    Hidden =>
        /\ message.text = Notice /\ message.original = None /\ message.kept = None
        /\ message.links = None
        /\ \A s \in Sides : message.reaction[s] = None
        /\ ~media.file /\ ~media.transcript /\ media.state \in {"none", "discarded"}

(* A step from a message deleted to one deleted changes nothing of it but its date, and
   of what was said in it nothing is written; no step previews another text than the
   one shown.                                                                       *)
LeftGone ==
    /\ Deleted /\ message'.state # "absent" =>
          /\ message' = [message EXCEPT !.deletedAt = message'.deletedAt]
          /\ message'.deletedAt >= message.deletedAt
          /\ message'.text = Notice
          /\ media'.transcript = media.transcript
          /\ media'.speech \in {media.speech, "skipped", "failed"}
    /\ message'.links # message.links => message'.links \in {None, message.text}

(* What is gone is gone: after a deletion a later one only dates it anew, no edit and no
   reaction of either side changes what it left, no preview or transcript is stored and
   none is asked for.  What may still be written under it is the media: a transcription
   that gives up says so, and where the deletion strikes the content through, the file
   is still downloaded, fails or is asked for again.  Previews are only ever stored of
   the text then shown; and a message that retention erased does not come back, however
   late it is repeated.                                                               *)
GoneStaysGone ==
    /\ [][LeftGone]_vars
    /\ [](Exists => [](~Exists => []~Exists))

(* A command is done when its mutation is applied and only then; one refused or
   closed as not sent left no trace in the message.                               *)
OwnOutcome ==
    \A m \in Mutations :
        /\ command[m].state = "done" => mutation[m].state = "applied"
        /\ command[m].state \in {"queued", "processing", "uncertain"} =>
              mutation[m].state = "pending"
        /\ command[m].state \in {"dead", "cancelled"} =>
              /\ mutation[m].state = "failed"
              /\ message.text # m /\ m \notin {message.reaction[s] : s \in Sides}

(* No download and no transcription is shown under way for ever. *)
SpinnersEnd ==
    /\ media.state = "pending" ~> media.state # "pending"
    /\ ShownSpeech = "pending" ~> ShownSpeech # "pending"

=============================================================================
