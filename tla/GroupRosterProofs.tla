------------------------- MODULE GroupRosterProofs -------------------------
(***************************************************************************)
(* Theorems of GroupRoster, for any number of events, workers, attempts and *)
(* disruptions.  A delete is decided on a roster read begun after its       *)
(* receipt, and a hint is not forgotten before a read that began after it.  *)
(* The first rests on the clock alone: the profile says when the applied    *)
(* read began, whoever else writes it.  The second rests on the snapshots:  *)
(* an open read that nobody wrote under has seen every hint.                *)
(***************************************************************************)
EXTENDS GroupRoster, TLAPS

-----------------------------------------------------------------------------
(* Types *)

ProfileType ==
    [state : {"unavailable", "pending", "ready", "stale", "failed"},
     complete : BOOLEAN, requested : Nat, synced : Nat, current : BOOLEAN,
     tries : Nat, error : {"none", "failure", "unsupported"},
     next : {"unset", "ahead", "past"}]

JobType ==
    [state : {"none", "pending", "started", "failed", "cancelled", "gone"},
     current : BOOLEAN, retry : Nat]

(* Types of the events. *)
EventsOK ==
    /\ received \in [Events -> Nat]
    /\ evState \in [Events -> {"absent", "pending"} \cup Terminal]
    /\ evTries \in [Events -> Nat]
    /\ wait \in [Events -> Nat]
    /\ evJob \in [Events -> {"none", "queued", "open"}]
    /\ view \in [Events -> {"none", "covered", "gone", "exhausted", "cooling",
                            "pulling", "abandoned", "idle"}]

(* Types of the workers. *)
WorkersOK ==
    /\ pc \in [Workers -> {"idle", "taken", "reading"}]
    /\ mine \in [Workers -> BOOLEAN]
    /\ begun \in [Workers -> Nat]
    /\ sees \in [Workers -> SUBSET Events]
    /\ reading \in [Workers -> SUBSET Events]
    /\ hintedSince \in [Workers -> BOOLEAN]

(* Types of the history and of the bound. *)
HistoryOK ==
    /\ late \subseteq Events \cup Workers
    /\ known \subseteq Events
    /\ hinted \in BOOLEAN
    /\ proven \subseteq Events
    /\ disruptions \in Nat

(* The type invariant, by who the variables belong to. *)
LEMMA TypeParts ==
  TypeOK <=> /\ clock \in Nat /\ link \in {"ready", "down", "gone"}
             /\ profile \in ProfileType /\ job \in JobType
             /\ EventsOK /\ WorkersOK /\ HistoryOK
BY DEF TypeOK, ProfileType, JobType, EventsOK, WorkersOK, HistoryOK

(* The same after a step. *)
LEMMA TypePartsNext ==
  TypeOK' <=> /\ clock' \in Nat /\ link' \in {"ready", "down", "gone"}
              /\ profile' \in ProfileType /\ job' \in JobType
              /\ EventsOK' /\ WorkersOK' /\ HistoryOK'
BY DEF TypeOK, ProfileType, JobType, EventsOK, WorkersOK, HistoryOK

(* The jobs a profile may name are jobs. *)
LEMMA JobTypes ==
  /\ NoJob \in JobType /\ NewJob \in JobType
  /\ [NoJob EXCEPT !.state = "gone"] \in JobType
BY DEF NoJob, NewJob, JobType

(* A profile that fails, becomes unavailable, is asked for or gets a roster is a
   profile. *)
LEMMA ProfileTypes ==
  ASSUME NEW p \in ProfileType, clock \in Nat, WorkersOK, NEW tries \in Nat
  PROVE  /\ Failed(p, tries) \in ProfileType
         /\ Unavailable(p, tries) \in ProfileType
         /\ \A continuing, advance \in BOOLEAN :
               Requested(p, continuing, advance) \in ProfileType
         /\ \A w \in Workers, complete \in BOOLEAN :
               Applied(p, w, complete, tries) \in ProfileType
<1>1. Failed(p, tries) \in ProfileType
  BY DEF Failed, ProfileType
<1>2. Unavailable(p, tries) \in ProfileType
  BY DEF Unavailable, ProfileType
<1>3. ASSUME NEW continuing \in BOOLEAN, NEW advance \in BOOLEAN
      PROVE  Requested(p, continuing, advance) \in ProfileType
  BY DEF Requested, ProfileType
<1>4. ASSUME NEW w \in Workers, NEW complete \in BOOLEAN
      PROVE  Applied(p, w, complete, tries) \in ProfileType
  BY DEF Applied, ProfileType, WorkersOK
<1> QED
  BY <1>1, <1>2, <1>3, <1>4

(* Putting events back to work or giving them up keeps their types. *)
LEMMA DisposeTypes ==
  ASSUME EventsOK, NEW released, NEW ended, NEW verdict \in Terminal,
         Dispose(released, ended, verdict), UNCHANGED <<received, evTries>>
  PROVE  EventsOK'
<1>1. evJob' \in [Events -> {"none", "queued", "open"}]
  BY DEF Dispose, EventsOK
<1>2. view' \in [Events -> {"none", "covered", "gone", "exhausted", "cooling",
                            "pulling", "abandoned", "idle"}]
  BY DEF Dispose, EventsOK
<1>3. evState' \in [Events -> {"absent", "pending"} \cup Terminal]
  BY DEF Dispose, EventsOK
<1>4. wait' \in [Events -> Nat]
  BY DEF Dispose, EventsOK
<1> QED
  BY <1>1, <1>2, <1>3, <1>4 DEF EventsOK

(* A worker without a job has the type of one. *)
LEMMA WorkerTypes ==
  ASSUME WorkersOK, NEW w
  PROVE  /\ Rest(w) /\ UNCHANGED mine => WorkersOK'
         /\ Rest(w) /\ Disown => WorkersOK'
         /\ Leave(w) => WorkersOK'
         /\ Disown /\ UNCHANGED callVars => WorkersOK'
         /\ UNCHANGED workerVars => WorkersOK'
<1>1. ASSUME Rest(w), UNCHANGED mine PROVE WorkersOK'
  BY <1>1 DEF WorkersOK, Rest
<1>2. ASSUME Rest(w), Disown PROVE WorkersOK'
  BY <1>2 DEF WorkersOK, Rest, Disown
<1>3. ASSUME Leave(w) PROVE WorkersOK'
  BY <1>3 DEF WorkersOK, Rest, Leave
<1>4. ASSUME Disown, UNCHANGED callVars PROVE WorkersOK'
  BY <1>4 DEF WorkersOK, Disown, callVars
<1>5. ASSUME UNCHANGED workerVars PROVE WorkersOK'
  BY <1>5 DEF WorkersOK, callVars, workerVars
<1> QED
  BY <1>1, <1>2, <1>3, <1>4, <1>5

(* Open transactions belong to workers and events. *)
LEMMA LateTypes ==
  ASSUME late \subseteq Events \cup Workers
  PROVE  Written \/ Kept \/ UNCHANGED late => late' \subseteq Events \cup Workers
BY DEF Written, Kept, Open

(* An event that settles or gives way keeps the types of the events. *)
LEMMA ConcludeTypes ==
  ASSUME EventsOK, NEW e \in Events, NEW s \in {"pending"} \cup Terminal,
         Conclude(e, s)
  PROVE  EventsOK'
<1>1. received' = received
  BY DEF Conclude
<1>2. evState' \in [Events -> {"absent", "pending"} \cup Terminal]
  BY DEF Conclude, EventsOK
<1>3. evTries' \in [Events -> Nat]
  BY DEF Conclude, EventsOK
<1>4. wait' \in [Events -> Nat]
  BY DEF Conclude, EventsOK
<1>5. /\ evJob' \in [Events -> {"none", "queued", "open"}]
      /\ view' \in [Events -> {"none", "covered", "gone", "exhausted", "cooling",
                               "pulling", "abandoned", "idle"}]
  BY DEF Conclude, EventsOK
<1> QED
  BY <1>1, <1>2, <1>3, <1>4, <1>5 DEF EventsOK

(* A pull that fails, is abandoned or starts keeps the types of all it writes. *)
LEMMA PullTypes ==
  ASSUME profile \in ProfileType, job \in JobType, clock \in Nat, EventsOK,
         WorkersOK, NEW tries \in Nat, NEW visible,
         NEW continuing \in BOOLEAN, NEW advance \in BOOLEAN,
         NEW p \in ProfileType
  PROVE  /\ FailPull(tries, visible) \/ AbandonPull(tries, visible)
            \/ StartPull(p, continuing, advance) =>
               profile' \in ProfileType /\ job' \in JobType /\ Disown
         /\ (FailPull(tries, visible) \/ AbandonPull(tries, visible))
            /\ UNCHANGED <<received, evTries>> => EventsOK'
<1>1. {"dead", "unsupported"} \subseteq Terminal
  BY DEF Terminal
<1>2. ASSUME FailPull(tries, visible)
      PROVE  profile' \in ProfileType /\ job' \in JobType /\ Disown
  BY <1>2, JobTypes, ProfileTypes DEF FailPull
<1>3. ASSUME AbandonPull(tries, visible)
      PROVE  profile' \in ProfileType /\ job' \in JobType /\ Disown
  BY <1>3, JobTypes, ProfileTypes DEF AbandonPull
<1>4. ASSUME StartPull(p, continuing, advance)
      PROVE  profile' \in ProfileType /\ job' \in JobType /\ Disown
  BY <1>4, JobTypes, ProfileTypes DEF StartPull
<1>5. ASSUME FailPull(tries, visible), UNCHANGED <<received, evTries>>
      PROVE  EventsOK'
  BY <1>1, <1>5, DisposeTypes DEF FailPull
<1>6. ASSUME AbandonPull(tries, visible), UNCHANGED <<received, evTries>>
      PROVE  EventsOK'
  BY <1>1, <1>6, DisposeTypes DEF AbandonPull
<1> QED
  BY <1>2, <1>3, <1>4, <1>5, <1>6

(* A worker that gives its job back keeps all types. *)
LEMMA PostponeTypes ==
  ASSUME TypeOK, NEW w \in Workers, NEW counts \in BOOLEAN, Postpone(w, counts),
         disruptions' \in Nat
  PROVE  TypeOK'
<1>1. job' \in JobType
  <2>1. CASE mine[w]
    <3>1. job' = [job EXCEPT !.state = "pending",
                             !.retry = IF counts THEN @ + 1 ELSE @]
      BY <2>1 DEF Postpone
    <3>2. job \in JobType /\ job.retry + 1 \in Nat /\ job.retry \in Nat
      BY TypeParts DEF JobType
    <3>3. CASE counts
      BY <3>1, <3>2, <3>3 DEF JobType
    <3>4. CASE ~counts
      BY <3>1, <3>2, <3>4 DEF JobType
    <3> QED
      BY <3>3, <3>4
  <2>2. CASE ~mine[w]
    BY <2>2, TypeParts DEF Postpone
  <2> QED
    BY <2>1, <2>2
<1>2. WorkersOK'
  BY TypeParts, WorkerTypes DEF Postpone
<1>3. /\ clock' \in Nat /\ link' \in {"ready", "down", "gone"}
      /\ profile' \in ProfileType
  BY TypeParts DEF Postpone
<1>4. EventsOK'
  BY TypeParts DEF Postpone, EventsOK, eventVars
<1>5. HistoryOK'
  BY TypeParts, LateTypes DEF Postpone, HistoryOK, proofVars
<1> QED
  BY <1>1, <1>2, <1>3, <1>4, <1>5, TypePartsNext

(* The steps of an event, of those who look after it, and of the webhook. *)
LEMMA EventTypes ==
  ASSUME TypeOK, NEW e \in Events,
         ReceiveEvent(e) \/ EventStep(e) \/ RequeueEvent(e) \/ ReleaseCovered(e)
  PROVE  TypeOK'
<1> USE TypeParts, TypePartsNext
<1>w. ASSUME UNCHANGED workerVars PROVE WorkersOK'
  BY <1>w, WorkerTypes
<1>c. ASSUME UNCHANGED callVars, UNCHANGED mine \/ Disown PROVE WorkersOK'
  BY <1>c, WorkerTypes DEF workerVars
<1>h. ASSUME UNCHANGED proofVars, disruptions' \in Nat,
             Written \/ Kept \/ UNCHANGED late
      PROVE  HistoryOK'
  BY <1>h, LateTypes DEF HistoryOK, proofVars
<1>d. Disrupt \/ UNCHANGED disruptions => disruptions' \in Nat
  BY DEF Disrupt, HistoryOK
<1>1. CASE ReceiveEvent(e)
  <2>1. clock' \in Nat
    BY <1>1 DEF ReceiveEvent
  <2>2. EventsOK'
    BY <1>1, <2>1 DEF ReceiveEvent, EventsOK
  <2> QED
    BY <1>1, <1>w, <1>h, <1>d, <2>1, <2>2 DEF ReceiveEvent
<1>2. CASE BeginEvent(e)
  <2>1. ViewOf(e) \in {"covered", "gone", "exhausted", "cooling", "pulling",
                       "abandoned", "idle"}
    BY DEF ViewOf
  <2>2. EventsOK'
    BY <1>2, <2>1 DEF BeginEvent, EventsOK
  <2>3. HistoryOK'
    BY <1>2 DEF BeginEvent, HistoryOK
  <2> QED
    BY <1>2, <1>w, <2>2, <2>3 DEF BeginEvent
<1>3. CASE SkipEvent(e)
  <2>1. EventsOK'
    BY <1>3 DEF SkipEvent, EventsOK
  <2> QED
    BY <1>3, <1>w, <1>h, <1>d, <2>1 DEF SkipEvent
<1>4. CASE DecideEvent(e) \/ GiveUpEvent(e) \/ JoinPull(e)
  <2>1. PICK s \in {"pending"} \cup Terminal : Conclude(e, s)
    BY <1>4 DEF DecideEvent, GiveUpEvent, JoinPull, Terminal
  <2>2. UNCHANGED <<profile, job, mine>> /\ Kept
    BY <1>4 DEF DecideEvent, GiveUpEvent, JoinPull
  <2> QED
    BY <1>c, <1>h, <1>d, <2>1, <2>2, ConcludeTypes DEF Conclude
<1>5. CASE RequestPull(e)
  <2>1. PICK continuing \in BOOLEAN : StartPull(profile, continuing, TRUE)
    BY <1>5 DEF RequestPull
  <2>2. profile' \in ProfileType /\ job' \in JobType /\ Disown
    <3>1. 0 \in Nat
      OBVIOUS
    <3> QED
      BY <2>1, <3>1, PullTypes
  <2>3. Conclude(e, "pending") /\ Written
    BY <1>5 DEF RequestPull
  <2> QED
    BY <1>c, <1>h, <1>d, <2>2, <2>3, ConcludeTypes DEF Conclude
<1>6. CASE RequestFails(e)
  <2>1. profile.tries + job.retry \in Nat
    BY DEF ProfileType, JobType
  <2>2. profile' \in ProfileType /\ job' \in JobType
    BY <1>6, <2>1, ProfileTypes, JobTypes DEF RequestFails
  <2>3. PICK others \in SUBSET (Waiters \ {e}) :
          /\ evState' = [f \in Events |->
                            IF f \in others \cup {e} THEN "dead" ELSE evState[f]]
          /\ wait' = [f \in Events |->
                         IF f \in others \cup {e} THEN 0 ELSE wait[f]]
          /\ evJob' = [f \in Events |->
                          IF f = e THEN "none"
                          ELSE IF f \in others /\ evJob[f] = "open" THEN "queued"
                          ELSE evJob[f]]
    BY <1>6 DEF RequestFails
  <2>4. /\ evState' \in [Events -> {"absent", "pending"} \cup Terminal]
        /\ wait' \in [Events -> Nat]
        /\ evJob' \in [Events -> {"none", "queued", "open"}]
    BY <2>3 DEF EventsOK, Terminal
  <2>5. EventsOK'
    BY <1>6, <2>4 DEF RequestFails, EventsOK
  <2> QED
    BY <1>6, <1>c, <1>h, <1>d, <2>2, <2>5 DEF RequestFails
<1>7. CASE LoseEvent(e)
  <2>1. EventsOK'
    BY <1>7 DEF LoseEvent, EventsOK
  <2> QED
    BY <1>7, <1>w, <1>h, <1>d, <2>1 DEF LoseEvent
<1>8. CASE RequeueEvent(e)
  <2>1. EventsOK'
    BY <1>8 DEF RequeueEvent, EventsOK
  <2> QED
    BY <1>8, <1>w, <1>h, <1>d, <2>1 DEF RequeueEvent
<1>9. CASE ReleaseCovered(e)
  <2>1. EventsOK'
    BY <1>9 DEF ReleaseCovered, EventsOK
  <2> QED
    BY <1>9, <1>w, <1>h, <1>d, <2>1 DEF ReleaseCovered
<1> QED
  BY <1>1, <1>2, <1>3, <1>4, <1>5, <1>6, <1>7, <1>8, <1>9 DEF EventStep

(* The steps of a worker. *)
LEMMA WorkerStepTypes ==
  ASSUME TypeOK, NEW w \in Workers,
         TakeJob(w) \/ PullStep(w) \/ FailJob(w) \/ Crash(w)
  PROVE  TypeOK'
<1> USE TypeParts, TypePartsNext
<1>e. ASSUME UNCHANGED eventVars PROVE EventsOK'
  BY <1>e DEF EventsOK, eventVars
<1>h. ASSUME UNCHANGED proofVars, disruptions' \in Nat,
             Written \/ Kept \/ UNCHANGED late
      PROVE  HistoryOK'
  BY <1>h, LateTypes DEF HistoryOK, proofVars
<1>d. Disrupt \/ UNCHANGED disruptions => disruptions' \in Nat
  BY DEF Disrupt, HistoryOK
<1>a. Attempt \in Nat /\ Attempt - 1 \in Nat
  BY DEF Attempt, ProfileType, JobType
<1>1. CASE TakeJob(w)
  <2>1. job' \in JobType
    BY <1>1 DEF TakeJob, JobType
  <2>2. WorkersOK'
    BY <1>1 DEF TakeJob, WorkersOK
  <2> QED
    BY <1>1, <1>e, <1>h, <1>d, <2>1, <2>2 DEF TakeJob
<1>2. CASE SkipPull(w)
  BY <1>2, <1>e, <1>h, <1>d, WorkerTypes DEF SkipPull
<1>3. CASE Supersede(w)
  <2> DEFINE p == [profile EXCEPT !.tries = Attempt - 1]
  <2>1. p \in ProfileType /\ p.tries \in Nat
    BY <1>a DEF ProfileType
  <2>2. \/ StartPull(p, TRUE, FALSE) /\ UNCHANGED eventVars
        \/ FailPull(p.tries, Waiters) /\ UNCHANGED <<received, evTries>>
    BY <1>3 DEF Supersede
  <2>3. Rest(w) /\ UNCHANGED <<clock, link, proofVars, disruptions>> /\ Written
    BY <1>3 DEF Supersede
  <2> HIDE DEF p
  <2>4. profile' \in ProfileType /\ job' \in JobType /\ Disown
    BY <2>1, <2>2, PullTypes
  <2>5. EventsOK'
    BY <1>e, <2>1, <2>2, PullTypes
  <2> QED
    BY <1>h, <1>d, <2>3, <2>4, <2>5, WorkerTypes
<1>4. CASE RefuseScope(w) \/ RefuseRead(w) \/ (RetryRead(w) /\ UNCHANGED received
                                               /\ ~\E c \in BOOLEAN : Postpone(w, c))
  <2>1. PICK visible : FailPull(Attempt, visible) \/ AbandonPull(Attempt, visible)
    BY <1>4 DEF RefuseScope, RefuseRead, RetryRead
  <2>2. Rest(w) /\ UNCHANGED <<clock, received, evTries, link, proofVars,
                               disruptions>> /\ Written
    BY <1>4 DEF RefuseScope, RefuseRead, RetryRead
  <2>3. profile' \in ProfileType /\ job' \in JobType /\ Disown /\ EventsOK'
    BY <1>a, <2>1, <2>2, PullTypes
  <2> QED
    BY <1>h, <1>d, <2>2, <2>3, WorkerTypes
<1>5. CASE PausePull(w) \/ LoseRead(w) \/ PauseRead(w)
           \/ (RetryRead(w) /\ \E c \in BOOLEAN : Postpone(w, c))
  <2>1. PICK counts \in BOOLEAN : Postpone(w, counts)
    BY <1>5 DEF PausePull, LoseRead, PauseRead
  <2>2. disruptions' \in Nat
    BY <1>5, <1>d DEF PausePull, LoseRead, PauseRead, RetryRead
  <2> QED
    BY <2>1, <2>2, PostponeTypes
<1>6. CASE BeginRead(w)
  <2>1. WorkersOK'
    BY <1>6 DEF BeginRead, WorkersOK, Waiters
  <2> QED
    BY <1>6, <1>e, <1>h, <1>d, <2>1 DEF BeginRead
<1>7. CASE ApplyRoster(w)
  <2> DEFINE p       == Applied(profile, w, TRUE, Attempt)
             left    == Uncovered(p, sees[w])
             covered == (sees[w] \ left) \cap Waiters
  <2>1. p \in ProfileType
    BY <1>a, ProfileTypes
  <2>2. PICK released \in SUBSET covered :
          \/ /\ left = {}
             /\ profile' = p
             /\ job' = NoJob
             /\ Disown
             /\ Dispose(released, {}, "dead")
          \/ /\ left # {}
             /\ StartPull(p, TRUE, TRUE)
             /\ Dispose(released, {}, "dead")
          \/ /\ left # {} /\ Attempt >= MaxAttempts
             /\ profile' = Failed(p, Attempt)
             /\ job' = NoJob
             /\ Disown
             /\ \E ended \in SUBSET ((sees[w] \cap Waiters) \ released) :
                   Dispose(released, ended, "dead")
    BY <1>7 DEF ApplyRoster
  <2>3. /\ Rest(w) /\ UNCHANGED <<clock, received, evTries, link, proven,
                                  disruptions>> /\ Written
        /\ known' = reading[w] /\ hinted' = hintedSince[w]
    BY <1>7 DEF ApplyRoster
  <2> HIDE DEF p, left
  <2>4. profile' \in ProfileType /\ job' \in JobType /\ Disown
    BY <1>a, <2>1, <2>2, PullTypes, ProfileTypes, JobTypes
  <2>5. PICK ended : Dispose(released, ended, "dead")
    BY <2>2
  <2>6. EventsOK'
    BY <2>3, <2>5, DisposeTypes DEF Terminal
  <2>7. HistoryOK'
    BY <2>3, LateTypes DEF HistoryOK, WorkersOK
  <2> QED
    BY <2>3, <2>4, <2>6, <2>7, WorkerTypes
<1>8. CASE ApplyPartial(w)
  <2>1. profile' \in ProfileType /\ job' \in JobType
    BY <1>8, <1>a, ProfileTypes, JobTypes DEF ApplyPartial
  <2>2. HistoryOK'
    BY <1>8, LateTypes DEF ApplyPartial, HistoryOK, WorkersOK
  <2>3. WorkersOK'
    BY <1>8, WorkerTypes DEF ApplyPartial
  <2> QED
    BY <1>8, <1>e, <2>1, <2>2, <2>3 DEF ApplyPartial
<1>9. CASE FailJob(w) \/ Crash(w)
  <2>1. job' \in JobType
    BY <1>9 DEF FailJob, Crash, JobType
  <2>2. HistoryOK' /\ WorkersOK' /\ EventsOK'
    BY <1>9, <1>e, <1>h, <1>d, WorkerTypes DEF FailJob, Crash
  <2> QED
    BY <1>9, <2>1, <2>2 DEF FailJob, Crash
<1>10. CASE RetryRead(w)
  BY <1>4, <1>5, <1>10 DEF RetryRead
<1> QED
  BY <1>1, <1>2, <1>3, <1>4, <1>5, <1>6, <1>7, <1>8, <1>9, <1>10 DEF PullStep

(* The steps of the queue, of the cron, of people and of the environment. *)
LEMMA OtherTypes ==
  ASSUME TypeOK,
         \/ ResetJob \/ OperateJob
         \/ ProcessHint \/ OpenConversation \/ RetryByAdmin
         \/ FinalizeFailed \/ FinalizeInvalid \/ RecoverRequest
         \/ ChangeLink \/ Expire
  PROVE  TypeOK'
<1> USE TypeParts, TypePartsNext
<1>e. ASSUME UNCHANGED eventVars PROVE EventsOK'
  BY <1>e DEF EventsOK, eventVars
<1>w. ASSUME UNCHANGED workerVars PROVE WorkersOK'
  BY <1>w, WorkerTypes
<1>h. ASSUME UNCHANGED proofVars, disruptions' \in Nat,
             Written \/ Kept \/ UNCHANGED late
      PROVE  HistoryOK'
  BY <1>h, LateTypes DEF HistoryOK, proofVars
<1>d. Disrupt \/ UNCHANGED disruptions => disruptions' \in Nat
  BY DEF Disrupt, HistoryOK
<1>n. profile.tries + job.retry \in Nat /\ profile.tries \in Nat
  BY DEF ProfileType, JobType
<1>1. CASE ResetJob
  <2>1. job' \in JobType
    BY <1>1 DEF ResetJob, JobType
  <2>2. disruptions' \in Nat
    BY <1>1, <1>d DEF ResetJob
  <2> QED
    BY <1>1, <1>e, <1>w, <1>h, <2>1, <2>2 DEF ResetJob
<1>2. CASE OperateJob
  <2>1. [job EXCEPT !.state = "cancelled"] \in JobType
        /\ [job EXCEPT !.state = "pending"] \in JobType
    BY DEF JobType
  <2>2. job' \in JobType
    BY <1>2, <2>1, JobTypes DEF OperateJob
  <2> QED
    BY <1>2, <1>e, <1>w, <1>h, <1>d, <2>2 DEF OperateJob
<1>3. CASE ProcessHint
  <2>1. profile' \in ProfileType /\ job' \in JobType
    BY <1>3, ZenonT(40) DEF ProcessHint, ProfileType, JobType
  <2>2. late' \subseteq Events \cup Workers
    BY <1>3, LateTypes DEF ProcessHint, HistoryOK
  <2>3. HistoryOK'
    BY <1>3, <1>d, <2>2 DEF ProcessHint, HistoryOK
  <2>4. WorkersOK'
    BY <1>3 DEF ProcessHint, WorkersOK
  <2> QED
    BY <1>3, <1>e, <2>1, <2>3, <2>4 DEF ProcessHint
<1>4. CASE OpenConversation
  <2>1. \/ FailPull(profile.tries + job.retry, Waiters)
        \/ StartPull(profile, FALSE, TRUE) /\ UNCHANGED eventVars
    BY <1>4 DEF OpenConversation, eventVars
  <2>2. profile' \in ProfileType /\ job' \in JobType /\ Disown
    BY <1>n, <2>1, PullTypes
  <2>3. EventsOK'
    BY <1>4, <1>e, <1>n, <2>1, PullTypes DEF OpenConversation
  <2>4. WorkersOK'
    BY <1>4, <2>2, WorkerTypes DEF OpenConversation
  <2> QED
    BY <1>4, <1>h, <1>d, <2>2, <2>3, <2>4 DEF OpenConversation
<1>5. CASE RetryByAdmin
  <2>1. profile' \in ProfileType /\ job' \in JobType /\ Disown
    BY <1>5, <1>n, PullTypes DEF RetryByAdmin
  <2>2. WorkersOK'
    BY <1>5, <2>1, WorkerTypes DEF RetryByAdmin
  <2> QED
    BY <1>5, <1>e, <1>h, <1>d, <2>1, <2>2 DEF RetryByAdmin
<1>6. CASE FinalizeFailed
  <2>1. EventsOK'
    BY <1>6, DisposeTypes DEF FinalizeFailed, Terminal
  <2> QED
    BY <1>6, <1>w, <1>h, <1>d, <2>1 DEF FinalizeFailed
<1>7. CASE FinalizeInvalid
  <2>1. EventsOK'
    BY <1>7, DisposeTypes DEF FinalizeInvalid, Terminal
  <2> QED
    BY <1>7, <1>w, <1>h, <1>d, <2>1 DEF FinalizeInvalid
<1>8. CASE RecoverRequest
  <2>1. /\ UNCHANGED <<clock, received, evTries, link, callVars, proofVars,
                       disruptions>>
        /\ Written
    BY <1>8 DEF RecoverRequest
  <2>2. \/ \E tries \in Nat : FailPull(tries, Waiters)
        \/ \E tries \in Nat : AbandonPull(tries, Waiters)
        \/ job' = NewJob /\ Disown /\ UNCHANGED <<profile, eventVars>>
        \/ \E continuing \in BOOLEAN :
              StartPull(profile, continuing, TRUE) /\ UNCHANGED eventVars
    BY <1>8, <1>n DEF RecoverRequest, eventVars
  <2>3. profile' \in ProfileType /\ job' \in JobType /\ Disown
    BY <2>2, PullTypes, JobTypes
  <2>4. EventsOK'
    BY <1>e, <2>1, <2>2, PullTypes
  <2> QED
    BY <1>h, <1>d, <2>1, <2>3, <2>4, WorkerTypes
<1>9. CASE ChangeLink
  BY <1>9, <1>e, <1>w, <1>h, <1>d DEF ChangeLink
<1>10. CASE Expire
  <2>1. profile' \in ProfileType
    BY <1>10 DEF Expire, ProfileType
  <2> QED
    BY <1>10, <1>e, <1>w, <1>h, <1>d, <2>1 DEF Expire
<1> QED
  BY <1>1, <1>2, <1>3, <1>4, <1>5, <1>6, <1>7, <1>8, <1>9, <1>10

(* The variables are born with their types. *)
LEMMA InitTypes == Init => TypeOK
<1> SUFFICES ASSUME Init PROVE TypeOK
  OBVIOUS
<1>1. profile \in ProfileType /\ job \in JobType
  BY JobTypes DEF Init, ProfileType
<1>2. EventsOK
  BY DEF Init, EventsOK
<1>3. WorkersOK
  BY DEF Init, WorkersOK
<1>4. HistoryOK /\ clock \in Nat /\ link \in {"ready", "down", "gone"}
  BY DEF Init, HistoryOK
<1> QED
  BY <1>1, <1>2, <1>3, <1>4, TypeParts

(* Every step keeps them. *)
LEMMA NextTypes == TypeOK /\ [Next]_vars => TypeOK'
<1>1. ASSUME TypeOK, Next PROVE TypeOK'
  BY <1>1, EventTypes, WorkerStepTypes, OtherTypes DEF Next
<1>2. ASSUME TypeOK, UNCHANGED vars PROVE TypeOK'
  BY <1>2 DEF TypeOK, vars, eventVars, workerVars, callVars, proofVars
<1> QED
  BY <1>1, <1>2

(* The variables keep their types: events, profile, job, workers and the history
   of both (application.py, ContactCenterGroupProfile and ContactCenterInboxEvent). *)
THEOREM RosterTypes == Spec => []TypeOK
BY InitTypes, NextTypes, PTL DEF Spec

-----------------------------------------------------------------------------
(* What a roster proves.

   The clock moves with the receipts only, so all that was noted before a receipt
   is older than it: the time an open read began, and the time the profile gives
   for the read it shows.  Whoever is in time for such a read was therefore there
   when it began. *)

(* No time that was noted is ahead of the clock. *)
ClockLeads ==
    /\ profile.requested <= clock
    /\ \A w \in Workers : begun[w] <= clock
    /\ \A e \in Events : received[e] <= clock

(* An event received by the second a read began was there when it began. *)
ReadersKnow ==
    \A w \in Workers : pc[w] = "reading" =>
        \A e \in Events :
            received[e] # 0 /\ received[e] <= begun[w] => e \in reading[w]

(* The same for the read that a ready profile shows. *)
ProfileKnows ==
    profile.state = "ready" =>
        \A e \in Events :
            received[e] # 0 /\ received[e] <= profile.requested => e \in known

(* The event is stored, or at least has a job. *)
Stored(e) == evState[e] # "absent" \/ evJob[e] # "none"

(* Stored events have been received, and a transaction that found its event covered
   has the proof of it. *)
CoverIsProven ==
    \A e \in Events : /\ Stored(e) => received[e] # 0
                      /\ view[e] = "covered" => e \in proven

ReadInv ==
    TypeOK /\ ClockLeads /\ ReadersKnow /\ ProfileKnows /\ CoverIsProven
    /\ DecidedOnLaterRead

(* What every step but the receipt and the beginning of an event leaves of the
   events: it creates none, covers none, and decides covered ones only. *)
EventsFrame ==
    /\ UNCHANGED <<clock, received, proven>>
    /\ \A e \in Events :
          /\ Stored(e)' => Stored(e)
          /\ evState'[e] = "decided" => evState[e] = "decided" \/ view[e] = "covered"
          /\ view'[e] = "covered" => view[e] = "covered"

(* What a step makes of the profile: a ready one shows the read it showed, or one
   that was open. *)
ProfileFrame ==
    /\ \/ profile'.requested \in {profile.requested, clock}
       \/ \E w \in Workers : profile'.requested = begun[w]
    /\ profile'.state = "ready" =>
          \/ /\ profile.state = "ready"
             /\ profile'.requested = profile.requested
             /\ known' = known
          \/ \E w \in Workers : /\ pc[w] = "reading"
                                /\ profile'.requested = begun[w]
                                /\ known' = reading[w]

(* What a step makes of the reads: one goes on as it began, or begins now. *)
ReadersFrame ==
    \A w \in Workers :
        /\ begun'[w] \in {0, begun[w], clock}
        /\ pc'[w] = "reading" =>
              \/ /\ pc[w] = "reading"
                 /\ begun'[w] = begun[w] /\ reading'[w] = reading[w]
              \/ /\ begun'[w] = clock
                 /\ reading'[w] = {e \in Events : received[e] # 0}

(* Within these frames the invariant is kept. *)
LEMMA FramesKeep ==
  ASSUME ReadInv, EventsFrame, ProfileFrame, ReadersFrame, TypeOK'
  PROVE  ReadInv'
<1>t. /\ clock \in Nat /\ received \in [Events -> Nat] /\ begun \in [Workers -> Nat]
      /\ profile.requested \in Nat
  BY DEF ReadInv, TypeOK
<1>1. ClockLeads'
  BY <1>t DEF ReadInv, ClockLeads, EventsFrame, ProfileFrame, ReadersFrame
<1>2. ReadersKnow'
  BY DEF ReadInv, ReadersKnow, EventsFrame, ReadersFrame
<1>3. ProfileKnows'
  BY DEF ReadInv, ReadersKnow, ProfileKnows, EventsFrame, ProfileFrame
<1>4. CoverIsProven'
  BY DEF ReadInv, CoverIsProven, EventsFrame
<1>5. DecidedOnLaterRead'
  BY DEF ReadInv, CoverIsProven, DecidedOnLaterRead, EventsFrame
<1> QED
  BY <1>1, <1>2, <1>3, <1>4, <1>5 DEF ReadInv

(* Putting waiters back to work or giving them up stays in the frame. *)
LEMMA DisposeFrame ==
  ASSUME TypeOK, NEW released \in SUBSET Waiters, NEW ended \in SUBSET Waiters,
         NEW verdict \in {"dead", "unsupported"},
         Dispose(released, ended, verdict), UNCHANGED <<clock, received, proven>>
  PROVE  EventsFrame
<1>1. \A e \in released \cup ended : evState[e] # "absent"
  BY DEF Waiters
<1> QED
  BY <1>1 DEF EventsFrame, Stored, Dispose, Waiters, TypeOK

(* So does leaving the events alone. *)
LEMMA EventsAlone ==
  UNCHANGED <<clock, eventVars, proven>> => EventsFrame
BY DEF EventsFrame, Stored, eventVars

(* A worker that rests stays in the frame. *)
LEMMA RestFrame ==
  ASSUME TypeOK, NEW w \in Workers
  PROVE  Rest(w) => ReadersFrame
BY DEF ReadersFrame, Rest, TypeOK

(* The same when no worker moves. *)
LEMMA WorkersAlone == UNCHANGED callVars => ReadersFrame
BY DEF ReadersFrame, callVars

(* A profile left alone, failed, given up or asked for stays in the frame. *)
LEMMA PullFrame ==
  ASSUME TypeOK, NEW tries, NEW visible, NEW continuing, NEW advance
  PROVE  /\ UNCHANGED <<profile, known>> => ProfileFrame
         /\ FailPull(tries, visible) => ProfileFrame
         /\ AbandonPull(tries, visible) => ProfileFrame
         /\ \A p \in ProfileType : StartPull(p, continuing, advance) => ProfileFrame
<1>1. profile \in ProfileType
  BY TypeParts
<1>2. ASSUME FailPull(tries, visible) PROVE ProfileFrame
  <2>1. profile'.requested = profile.requested /\ profile'.state # "ready"
    BY <1>1, <1>2 DEF FailPull, Failed, ProfileType
  <2> QED
    BY <2>1 DEF ProfileFrame
<1>3. ASSUME AbandonPull(tries, visible) PROVE ProfileFrame
  <2>1. profile'.requested = profile.requested /\ profile'.state # "ready"
    BY <1>1, <1>3 DEF AbandonPull, Unavailable, ProfileType
  <2> QED
    BY <2>1 DEF ProfileFrame
<1>4. ASSUME NEW p \in ProfileType, StartPull(p, continuing, advance)
      PROVE  ProfileFrame
  <2>1. profile'.requested = clock /\ profile'.state # "ready"
    BY <1>4 DEF StartPull, Requested, ProfileType
  <2> QED
    BY <2>1 DEF ProfileFrame
<1>5. ASSUME UNCHANGED <<profile, known>> PROVE ProfileFrame
  BY <1>5 DEF ProfileFrame
<1> QED
  BY <1>2, <1>3, <1>4, <1>5

(* Waiters that a pull gives up stay in the frame. *)
LEMMA PullEventsFrame ==
  ASSUME TypeOK, NEW tries, NEW visible, UNCHANGED <<clock, received, proven>>,
         FailPull(tries, visible) \/ AbandonPull(tries, visible)
  PROVE  EventsFrame
<1>1. CASE FailPull(tries, visible)
  BY <1>1, DisposeFrame DEF FailPull
<1>2. CASE AbandonPull(tries, visible)
  BY <1>2, DisposeFrame DEF AbandonPull
<1> QED
  BY <1>1, <1>2

(* The steps of an event once it is open stay in the frames. *)
LEMMA EventReadFrames ==
  ASSUME TypeOK, NEW e \in Events,
         \/ SkipEvent(e) \/ DecideEvent(e) \/ GiveUpEvent(e) \/ JoinPull(e)
         \/ RequestPull(e) \/ RequestFails(e) \/ LoseEvent(e)
         \/ RequeueEvent(e) \/ ReleaseCovered(e)
  PROVE  EventsFrame /\ ProfileFrame /\ ReadersFrame
<1>r. UNCHANGED callVars => ReadersFrame
  BY WorkersAlone
<1>p. UNCHANGED <<profile, known>> => ProfileFrame
  BY PullFrame
<1>c. ASSUME NEW s \in {"pending"} \cup Terminal, Conclude(e, s),
             evJob[e] = "open", s = "decided" => view[e] = "covered"
      PROVE  EventsFrame
  BY <1>c DEF Conclude, EventsFrame, Stored, TypeOK, Terminal, proofVars
<1>1. CASE SkipEvent(e)
  <2>1. EventsFrame
    BY <1>1 DEF SkipEvent, EventsFrame, Stored, TypeOK, Terminal, proofVars
  <2> QED
    BY <1>1, <1>r, <1>p, <2>1 DEF SkipEvent, workerVars, proofVars
<1>2. CASE DecideEvent(e) \/ GiveUpEvent(e) \/ JoinPull(e)
  <2>1. PICK s \in {"pending"} \cup Terminal :
           Conclude(e, s) /\ (s = "decided" => view[e] = "covered")
    BY <1>2 DEF DecideEvent, GiveUpEvent, JoinPull, Terminal
  <2>2. evJob[e] = "open" /\ UNCHANGED profile
    BY <1>2 DEF DecideEvent, GiveUpEvent, JoinPull
  <2>3. EventsFrame
    BY <1>c, <2>1, <2>2
  <2> QED
    BY <1>r, <1>p, <2>1, <2>2, <2>3 DEF Conclude, proofVars
<1>3. CASE RequestPull(e)
  <2>1. Conclude(e, "pending") /\ evJob[e] = "open"
    BY <1>3 DEF RequestPull
  <2>2. EventsFrame
    BY <1>c, <2>1
  <2>3. ProfileFrame
    BY <1>3, PullFrame, TypeParts DEF RequestPull
  <2> QED
    BY <1>r, <2>1, <2>2, <2>3 DEF Conclude
<1>4. CASE RequestFails(e)
  <2>1. PICK others \in SUBSET (Waiters \ {e}) :
          /\ evState' = [f \in Events |->
                            IF f \in others \cup {e} THEN "dead" ELSE evState[f]]
          /\ evJob' = [f \in Events |->
                          IF f = e THEN "none"
                          ELSE IF f \in others /\ evJob[f] = "open" THEN "queued"
                          ELSE evJob[f]]
    BY <1>4 DEF RequestFails
  <2>2. /\ evJob[e] = "open" /\ view' = [view EXCEPT ![e] = "none"]
        /\ UNCHANGED <<clock, received, callVars, proofVars>>
        /\ profile' = Failed(profile, profile.tries + job.retry)
    BY <1>4 DEF RequestFails
  <2>3. EventsFrame
    BY <2>1, <2>2 DEF EventsFrame, Stored, Waiters, TypeOK, proofVars
  <2>4. profile'.requested = profile.requested /\ profile'.state # "ready"
    BY <2>2, TypeParts DEF Failed, ProfileType
  <2> QED
    BY <1>r, <2>2, <2>3, <2>4 DEF ProfileFrame
<1>5. CASE LoseEvent(e)
  <2>1. EventsFrame
    BY <1>5 DEF LoseEvent, EventsFrame, Stored, TypeOK, proofVars
  <2> QED
    BY <1>5, <1>r, <1>p, <2>1 DEF LoseEvent, workerVars, proofVars
<1>6. CASE RequeueEvent(e)
  <2>1. EventsFrame
    BY <1>6 DEF RequeueEvent, EventsFrame, Stored, TypeOK, proofVars
  <2> QED
    BY <1>6, <1>r, <1>p, <2>1 DEF RequeueEvent, workerVars, proofVars
<1>7. CASE ReleaseCovered(e)
  <2>1. EventsFrame
    BY <1>7 DEF ReleaseCovered, EventsFrame, Stored, Waiters, TypeOK, proofVars
  <2> QED
    BY <1>7, <1>r, <1>p, <2>1 DEF ReleaseCovered, workerVars, proofVars
<1> QED
  BY <1>1, <1>2, <1>3, <1>4, <1>5, <1>6, <1>7

(* The steps of a worker stay in the frames. *)
LEMMA WorkerReadFrames ==
  ASSUME TypeOK, NEW w \in Workers,
         TakeJob(w) \/ PullStep(w) \/ FailJob(w) \/ Crash(w)
  PROVE  EventsFrame /\ ProfileFrame /\ ReadersFrame
<1>r. Rest(w) => ReadersFrame
  BY RestFrame
<1>p. UNCHANGED <<profile, known>> => ProfileFrame
  BY PullFrame
<1>e. UNCHANGED <<clock, eventVars, proven>> => EventsFrame
  BY EventsAlone
<1>1. CASE TakeJob(w)
  <2>1. ReadersFrame
    BY <1>1 DEF TakeJob, ReadersFrame, TypeOK
  <2> QED
    BY <1>1, <1>e, <1>p, <2>1 DEF TakeJob, proofVars
<1>2. CASE SkipPull(w) \/ FailJob(w) \/ Crash(w)
  BY <1>2, <1>e, <1>p, <1>r DEF SkipPull, FailJob, Crash, Leave, proofVars
<1>3. CASE \E counts : Postpone(w, counts)
  BY <1>3, <1>e, <1>p, <1>r DEF Postpone, Leave, proofVars
<1>4. CASE Supersede(w)
  <2>1. [profile EXCEPT !.tries = Attempt - 1] \in ProfileType
    BY TypeParts DEF ProfileType, JobType, Attempt
  <2>2. ProfileFrame
    BY <1>4, <2>1, PullFrame DEF Supersede
  <2>3. EventsFrame
    BY <1>4, <1>e, PullEventsFrame DEF Supersede, proofVars
  <2> QED
    BY <1>4, <1>r, <2>2, <2>3 DEF Supersede
<1>5. CASE /\ \E visible : FailPull(Attempt, visible) \/ AbandonPull(Attempt, visible)
           /\ Rest(w) /\ UNCHANGED <<clock, received, proofVars>>
  BY <1>5, <1>r, PullFrame, PullEventsFrame DEF proofVars
<1>6. CASE BeginRead(w)
  <2>1. ReadersFrame
    BY <1>6 DEF BeginRead, ReadersFrame, TypeOK
  <2> QED
    BY <1>6, <1>e, <1>p, <2>1 DEF BeginRead, proofVars
<1>7. CASE ApplyRoster(w)
  <2> DEFINE p       == Applied(profile, w, TRUE, Attempt)
             left    == Uncovered(p, sees[w])
             covered == (sees[w] \ left) \cap Waiters
  <2>1. PICK released \in SUBSET covered :
          \/ /\ left = {}
             /\ profile' = p
             /\ job' = NoJob
             /\ Disown
             /\ Dispose(released, {}, "dead")
          \/ /\ left # {}
             /\ StartPull(p, TRUE, TRUE)
             /\ Dispose(released, {}, "dead")
          \/ /\ left # {} /\ Attempt >= MaxAttempts
             /\ profile' = Failed(p, Attempt)
             /\ job' = NoJob
             /\ Disown
             /\ \E ended \in SUBSET ((sees[w] \cap Waiters) \ released) :
                   Dispose(released, ended, "dead")
    BY <1>7 DEF ApplyRoster
  <2>2. /\ pc[w] = "reading" /\ Rest(w) /\ UNCHANGED <<clock, received, proven>>
        /\ known' = reading[w]
    BY <1>7 DEF ApplyRoster, MayAnswer
  <2>3. p \in ProfileType /\ p.requested = begun[w]
    <3>1. Attempt \in Nat
      BY TypeParts DEF ProfileType, JobType, Attempt
    <3>2. p \in ProfileType
      BY <3>1, TypeParts, ProfileTypes
    <3>3. p.requested = begun[w]
      BY TypeParts DEF ProfileType, Applied
    <3> QED
      BY <3>2, <3>3
  <2>4. PICK ended \in SUBSET Waiters : Dispose(released, ended, "dead")
    BY <2>1
  <2>5. EventsFrame
    BY <2>2, <2>4, DisposeFrame
  <2>6. ProfileFrame
    <3> HIDE DEF p, left
    <3>1. CASE profile' = p
      BY <2>2, <2>3, <3>1 DEF ProfileFrame
    <3>2. CASE StartPull(p, TRUE, TRUE)
      BY <2>3, <3>2, PullFrame
    <3>3. CASE profile' = Failed(p, Attempt)
      <4>1. profile'.requested = begun[w] /\ profile'.state # "ready"
        BY <2>3, <3>3 DEF Failed, ProfileType
      <4> QED
        BY <4>1 DEF ProfileFrame
    <3> QED
      BY <2>1, <3>1, <3>2, <3>3
  <2> QED
    BY <1>r, <2>2, <2>5, <2>6
<1>8. CASE ApplyPartial(w)
  <2>1. profile'.requested = begun[w] /\ profile'.state # "ready"
    BY <1>8, TypeParts DEF ApplyPartial, Applied, ProfileType
  <2> QED
    BY <1>8, <1>r, <1>e, <2>1 DEF ApplyPartial, ProfileFrame
<1>9. CASE PausePull(w) \/ LoseRead(w) \/ PauseRead(w) \/ RetryRead(w)
           \/ RefuseRead(w) \/ RefuseScope(w)
  BY <1>3, <1>5, <1>9 DEF PausePull, LoseRead, PauseRead, RetryRead, RefuseRead,
                          RefuseScope
<1> QED
  BY <1>1, <1>2, <1>4, <1>6, <1>7, <1>8, <1>9 DEF PullStep

(* The steps of the queue, of the cron, of people and of the environment stay in the
   frames. *)
LEMMA OtherReadFrames ==
  ASSUME TypeOK,
         \/ ResetJob \/ OperateJob
         \/ ProcessHint \/ OpenConversation \/ RetryByAdmin
         \/ FinalizeFailed \/ FinalizeInvalid \/ RecoverRequest
         \/ ChangeLink \/ Expire
  PROVE  EventsFrame /\ ProfileFrame /\ ReadersFrame
<1>r. UNCHANGED callVars => ReadersFrame
  BY WorkersAlone
<1>p. UNCHANGED <<profile, known>> => ProfileFrame
  BY PullFrame
<1>e. UNCHANGED <<clock, eventVars, proven>> => EventsFrame
  BY EventsAlone
<1>t. profile \in ProfileType
  BY TypeParts
<1>1. CASE ResetJob \/ OperateJob \/ ChangeLink
  BY <1>1, <1>r, <1>p, <1>e DEF ResetJob, OperateJob, ChangeLink, workerVars,
                                proofVars
<1>2. CASE ProcessHint
  <2>1. ReadersFrame
    BY <1>2 DEF ProcessHint, ReadersFrame
  <2>2. /\ profile'.state = profile.state /\ profile'.requested = profile.requested
        /\ known' = known
    BY <1>2, <1>t DEF ProcessHint, ProfileType
  <2>3. ProfileFrame
    BY <2>2 DEF ProfileFrame
  <2> QED
    BY <1>2, <1>e, <2>1, <2>3 DEF ProcessHint
<1>3. CASE OpenConversation
  <2>1. \/ FailPull(profile.tries + job.retry, Waiters)
        \/ StartPull(profile, FALSE, TRUE) /\ UNCHANGED eventVars
    BY <1>3 DEF OpenConversation, eventVars
  <2>2. ProfileFrame
    BY <1>t, <2>1, PullFrame
  <2>3. EventsFrame
    BY <1>3, <1>e, <2>1, PullEventsFrame DEF OpenConversation, proofVars
  <2> QED
    BY <1>3, <1>r, <2>2, <2>3 DEF OpenConversation
<1>4. CASE RetryByAdmin
  <2>1. ProfileFrame
    BY <1>4, <1>t, PullFrame DEF RetryByAdmin
  <2> QED
    BY <1>4, <1>r, <1>e, <2>1 DEF RetryByAdmin, proofVars
<1>5. CASE FinalizeFailed \/ FinalizeInvalid
  <2>1. PICK ended \in SUBSET Waiters, verdict \in {"dead", "unsupported"} :
           Dispose({}, ended, verdict)
    BY <1>5 DEF FinalizeFailed, FinalizeInvalid, Batches
  <2>2. UNCHANGED <<clock, received, profile, workerVars, proofVars>>
    BY <1>5 DEF FinalizeFailed, FinalizeInvalid
  <2>3. EventsFrame
    BY <2>1, <2>2, DisposeFrame DEF proofVars
  <2> QED
    BY <1>r, <1>p, <2>2, <2>3 DEF workerVars, proofVars
<1>6. CASE RecoverRequest
  <2>1. UNCHANGED <<clock, received, evTries, callVars, proofVars>>
    BY <1>6 DEF RecoverRequest
  <2>2. \/ \E tries : FailPull(tries, Waiters) \/ AbandonPull(tries, Waiters)
        \/ UNCHANGED <<profile, eventVars>>
        \/ \E continuing : StartPull(profile, continuing, TRUE)
                           /\ UNCHANGED eventVars
    BY <1>6, <2>1 DEF RecoverRequest, eventVars
  <2>3. ProfileFrame
    BY <1>t, <1>p, <2>1, <2>2, PullFrame DEF proofVars
  <2>4. EventsFrame
    BY <1>e, <2>1, <2>2, PullEventsFrame DEF proofVars
  <2> QED
    BY <1>r, <2>1, <2>3, <2>4
<1>7. CASE Expire
  <2>1. /\ profile'.state = profile.state /\ profile'.requested = profile.requested
        /\ known' = known
    BY <1>7, <1>t DEF Expire, ProfileType, proofVars
  <2>2. ProfileFrame
    BY <2>1 DEF ProfileFrame
  <2> QED
    BY <1>7, <1>r, <1>e, <2>2 DEF Expire, workerVars, proofVars
<1> QED
  BY <1>1, <1>2, <1>3, <1>4, <1>5, <1>6, <1>7

(* An event that is received is newer than all that was noted. *)
LEMMA ReceiptKeeps ==
  ASSUME ReadInv, ~SameSecond, NEW e \in Events, ReceiveEvent(e), TypeOK'
  PROVE  ReadInv'
<1>t. /\ clock \in Nat /\ received \in [Events -> Nat] /\ begun \in [Workers -> Nat]
      /\ profile.requested \in Nat
      /\ evState \in [Events -> {"absent", "pending"} \cup Terminal]
  BY DEF ReadInv, TypeOK
<1>s. /\ received' = [received EXCEPT ![e] = clock + 1] /\ clock' = clock + 1
      /\ evState' = [evState EXCEPT ![e] = "pending"]
      /\ evJob' = [evJob EXCEPT ![e] = "queued"]
      /\ UNCHANGED <<view, profile, begun, pc, reading, known, proven>>
  BY DEF ReceiveEvent, workerVars, callVars, proofVars
<1>1. ClockLeads'
  BY <1>t, <1>s DEF ReadInv, ClockLeads
<1>2. ReadersKnow'
  BY <1>t, <1>s DEF ReadInv, ClockLeads, ReadersKnow
<1>3. ProfileKnows'
  BY <1>t, <1>s DEF ReadInv, ClockLeads, ProfileKnows
<1>4. CoverIsProven'
  BY <1>t, <1>s DEF ReadInv, TypeOK, CoverIsProven, Stored
<1>5. DecidedOnLaterRead'
  BY <1>t, <1>s DEF ReadInv, DecidedOnLaterRead
<1> QED
  BY <1>1, <1>2, <1>3, <1>4, <1>5 DEF ReadInv

(* A transaction that finds its event covered finds the proof of it, too. *)
LEMMA BeginningKeeps ==
  ASSUME ReadInv, NEW e \in Events, BeginEvent(e), TypeOK'
  PROVE  ReadInv'
<1>s. /\ evJob[e] = "queued" /\ evState[e] = "pending"
      /\ evJob' = [evJob EXCEPT ![e] = "open"]
      /\ view' = [view EXCEPT ![e] = ViewOf(e)]
      /\ proven' = IF view'[e] = "covered" /\ e \in known
                   THEN proven \cup {e} ELSE proven \ {e}
      /\ UNCHANGED <<clock, received, evState, profile, begun, pc, reading, known>>
  BY DEF BeginEvent, workerVars, callVars, proofVars
<1>1. ViewOf(e) = "covered" => e \in known
  <2> SUFFICES ASSUME ViewOf(e) = "covered" PROVE e \in known
    OBVIOUS
  <2>1. Covers(profile, received[e])
    BY DEF ViewOf
  <2>2. received[e] # 0
    BY <1>s DEF ReadInv, CoverIsProven, Stored
  <2>3. received[e] <= profile.requested
    BY <2>1 DEF Covers, ReadInv, TypeOK
  <2> QED
    BY <2>1, <2>2, <2>3 DEF Covers, ReadInv, ProfileKnows
<1>2. ClockLeads' /\ ReadersKnow' /\ ProfileKnows'
  BY <1>s DEF ReadInv, ClockLeads, ReadersKnow, ProfileKnows
<1>3. CoverIsProven'
  BY <1>s, <1>1 DEF ReadInv, TypeOK, CoverIsProven, Stored
<1>4. DecidedOnLaterRead'
  BY <1>s DEF ReadInv, DecidedOnLaterRead
<1> QED
  BY <1>2, <1>3, <1>4 DEF ReadInv

(* A group delete is decided only from a roster whose read began after the delete
   was received: the clock leads what was noted, a read knows what is older than it,
   a ready profile shows such a read, a covered event has its proof.  Seconds are
   all the code compares, hence the hypothesis that no receipt shares one with a
   read (application.py, _validate_group_mutation). *)
THEOREM DeletesFollowTheirRead ==
  ASSUME ~SameSecond PROVE Spec => []DecidedOnLaterRead
<1>1. Init => ReadInv
  <2> SUFFICES ASSUME Init PROVE ReadInv
    OBVIOUS
  <2>1. TypeOK
    BY InitTypes
  <2>2. ClockLeads /\ ReadersKnow /\ ProfileKnows /\ CoverIsProven
        /\ DecidedOnLaterRead
    BY DEF Init, ClockLeads, ReadersKnow, ProfileKnows, CoverIsProven, Stored,
           DecidedOnLaterRead
  <2> QED
    BY <2>1, <2>2 DEF ReadInv
<1>2. ReadInv /\ [Next]_vars => ReadInv'
  <2> SUFFICES ASSUME ReadInv, [Next]_vars PROVE ReadInv'
    OBVIOUS
  <2>t. TypeOK /\ TypeOK'
    BY NextTypes DEF ReadInv
  <2>1. ASSUME NEW e \in Events,
               ReceiveEvent(e) \/ EventStep(e) \/ RequeueEvent(e) \/ ReleaseCovered(e)
        PROVE  ReadInv'
    BY <2>t, <2>1, ReceiptKeeps, BeginningKeeps, EventReadFrames, FramesKeep
       DEF EventStep
  <2>2. ASSUME NEW w \in Workers,
               TakeJob(w) \/ PullStep(w) \/ FailJob(w) \/ Crash(w)
        PROVE  ReadInv'
    BY <2>t, <2>2, WorkerReadFrames, FramesKeep
  <2>3. CASE \/ ResetJob \/ OperateJob
             \/ ProcessHint \/ OpenConversation \/ RetryByAdmin
             \/ FinalizeFailed \/ FinalizeInvalid \/ RecoverRequest
             \/ ChangeLink \/ Expire
    BY <2>t, <2>3, OtherReadFrames, FramesKeep
  <2>4. CASE UNCHANGED vars
    BY <2>t, <2>4, FramesKeep, PullFrame, EventsAlone, WorkersAlone
       DEF vars, workerVars, proofVars
  <2> QED
    BY <2>1, <2>2, <2>3, <2>4 DEF Next
<1>3. ReadInv => DecidedOnLaterRead
  BY DEF ReadInv
<1> QED
  BY <1>1, <1>2, <1>3, PTL DEF Spec

-----------------------------------------------------------------------------
(* What becomes of a hint.

   Whoever writes the profile outdates every read that is open; a read that is not
   outdated has therefore seen no hint since it began, and no failure either.  The
   job is named for as long as the pull is wanted. *)

(* A worker whose job the profile names, and a profile that names one. *)
NamedJob ==
    /\ \A w \in Workers : mine[w] => job.state # "none"
    /\ job.state # "none" => profile.error = "none"

(* An open read under which nobody wrote the profile. *)
Fresh ==
    \A w \in Workers : pc[w] = "reading" /\ w \notin late =>
        profile.error = "none" /\ ~hintedSince[w]

HintInv == TypeOK /\ NamedJob /\ Fresh /\ HintsAreHonoured

(* A step that writes the profile leaves no open read fresh. *)
LEMMA WrittenIsStale == TypeOK' /\ Written => Fresh'
BY DEF Written, Open, Fresh, TypeOK

(* A step that does not, leaves them as they were. *)
LEMMA KeptIsFresh ==
  ASSUME Fresh, TypeOK', Kept \/ UNCHANGED late, UNCHANGED profile,
         \A w \in Workers : pc'[w] = "reading" =>
             pc[w] = "reading" /\ hintedSince'[w] = hintedSince[w]
  PROVE  Fresh'
BY DEF Kept, Open, Fresh, TypeOK

(* A pull that fails, is abandoned or starts: the profile names a job, or says why
   there is none. *)
LEMMA PullHonours ==
  ASSUME TypeOK, NEW tries, NEW visible, NEW continuing, NEW advance,
         NEW p \in ProfileType,
         \/ FailPull(tries, visible) \/ AbandonPull(tries, visible)
         \/ StartPull(p, continuing, advance)
  PROVE  NamedJob' /\ HintsAreHonoured'
<1>1. Disown
  BY DEF FailPull, AbandonPull, StartPull
<1>2. \/ job' = NoJob /\ profile'.error # "none"
      \/ job' = NewJob /\ profile'.error = "none"
  <2>1. ASSUME FailPull(tries, visible)
        PROVE  job' = NoJob /\ profile'.error # "none"
    BY <2>1, TypeParts DEF FailPull, Failed, ProfileType
  <2>2. ASSUME AbandonPull(tries, visible)
        PROVE  job' = NoJob /\ profile'.error # "none"
    BY <2>2, TypeParts DEF AbandonPull, Unavailable, ProfileType
  <2>3. ASSUME StartPull(p, continuing, advance)
        PROVE  job' = NewJob /\ profile'.error = "none"
    BY <2>3 DEF StartPull, Requested, ProfileType
  <2> QED
    BY <2>1, <2>2, <2>3
<1> QED
  BY <1>1, <1>2 DEF Disown, NamedJob, HintsAreHonoured, NoJob, NewJob

(* Steps that leave the profile alone, and the job named or not as it was. *)
LEMMA JobHonours ==
  ASSUME HintInv, UNCHANGED <<profile, hinted>>,
         job'.state = "none" <=> job.state = "none",
         \A w \in Workers : mine'[w] => mine[w] \/ job.state # "none"
  PROVE  NamedJob' /\ HintsAreHonoured'
BY DEF HintInv, NamedJob, HintsAreHonoured, Due, Cooling

(* The steps of an event keep the promise. *)
LEMMA EventHonours ==
  ASSUME HintInv, NEW e \in Events, TypeOK',
         ReceiveEvent(e) \/ EventStep(e) \/ RequeueEvent(e) \/ ReleaseCovered(e)
  PROVE  HintInv'
<1>t. TypeOK /\ Fresh /\ profile \in ProfileType
  BY TypeParts DEF HintInv
<1>a. ASSUME UNCHANGED <<profile, job, workerVars, hinted>>, Kept \/ UNCHANGED late
      PROVE  HintInv'
  <2>1. NamedJob' /\ HintsAreHonoured'
    BY <1>a, JobHonours DEF workerVars
  <2>2. Fresh'
    BY <1>a, <1>t, KeptIsFresh DEF workerVars, callVars
  <2> QED
    BY <2>1, <2>2 DEF HintInv
<1>1. CASE RequestPull(e)
  <2>1. NamedJob' /\ HintsAreHonoured'
    BY <1>1, <1>t, PullHonours DEF RequestPull
  <2>2. Fresh'
    BY <1>1, WrittenIsStale DEF RequestPull
  <2> QED
    BY <2>1, <2>2 DEF HintInv
<1>2. CASE RequestFails(e)
  <2>1. job' = NoJob /\ Disown /\ Written
        /\ profile' = Failed(profile, profile.tries + job.retry)
    BY <1>2 DEF RequestFails
  <2>2. profile'.error # "none"
    BY <1>t, <2>1 DEF Failed, ProfileType
  <2>3. NamedJob' /\ HintsAreHonoured'
    BY <2>1, <2>2 DEF Disown, NamedJob, HintsAreHonoured, NoJob
  <2> QED
    BY <2>1, <2>3, WrittenIsStale DEF HintInv
<1>3. CASE \/ ReceiveEvent(e) \/ BeginEvent(e) \/ SkipEvent(e) \/ DecideEvent(e)
           \/ GiveUpEvent(e) \/ JoinPull(e) \/ LoseEvent(e) \/ RequeueEvent(e)
           \/ ReleaseCovered(e)
  <2>1. UNCHANGED <<profile, job, workerVars, hinted>>
    BY <1>3 DEF ReceiveEvent, BeginEvent, SkipEvent, DecideEvent, GiveUpEvent,
                JoinPull, LoseEvent, RequeueEvent, ReleaseCovered, Conclude,
                workerVars, proofVars
  <2>2. Kept \/ UNCHANGED late
    BY <1>3 DEF ReceiveEvent, BeginEvent, SkipEvent, DecideEvent, GiveUpEvent,
                JoinPull, LoseEvent, RequeueEvent, ReleaseCovered
  <2> QED
    BY <1>a, <2>1, <2>2
<1> QED
  BY <1>1, <1>2, <1>3 DEF EventStep

(* The steps of a worker keep it: a roster is applied by a fresh read only. *)
LEMMA WorkerHonours ==
  ASSUME HintInv, NEW w \in Workers, TypeOK',
         TakeJob(w) \/ PullStep(w) \/ FailJob(w) \/ Crash(w)
  PROVE  HintInv'
<1>t. TypeOK /\ NamedJob /\ Fresh /\ profile \in ProfileType
  BY TypeParts DEF HintInv
<1>r. ASSUME Rest(w), NEW v \in Workers, pc'[v] = "reading"
      PROVE  pc[v] = "reading" /\ hintedSince'[v] = hintedSince[v]
  <2>1. pc \in [Workers -> {"idle", "taken", "reading"}]
        /\ hintedSince \in [Workers -> BOOLEAN]
    BY <1>t DEF TypeOK
  <2> QED
    BY <1>r, <2>1 DEF Rest
<1>l. Leave(w) => \A v \in Workers : mine'[v] => mine[v]
  BY <1>t DEF Leave, TypeOK
<1>1. CASE TakeJob(w)
  <2>1. NamedJob' /\ HintsAreHonoured'
    BY <1>1, <1>t, JobHonours DEF TakeJob, TypeOK, proofVars
  <2>2. Fresh'
    BY <1>1, <1>t, KeptIsFresh DEF TakeJob, TypeOK
  <2> QED
    BY <2>1, <2>2 DEF HintInv
<1>2. CASE /\ Leave(w) /\ Kept /\ UNCHANGED <<profile, hinted>>
           /\ job'.state = "none" <=> job.state = "none"
  BY <1>2, <1>t, <1>r, <1>l, JobHonours, KeptIsFresh DEF HintInv, Leave
<1>3. CASE SkipPull(w) \/ FailJob(w) \/ Crash(w)
  <2>1. job'.state = "none" <=> job.state = "none"
    BY <1>3, <1>t DEF SkipPull, FailJob, Crash, NamedJob, TypeOK
  <2> QED
    BY <1>2, <1>3, <2>1 DEF SkipPull, FailJob, Crash, proofVars
<1>4. CASE \E counts : Postpone(w, counts)
  <2>1. PICK counts : Postpone(w, counts)
    BY <1>4
  <2>2. mine[w] => job'.state = "pending"
    BY <2>1, <1>t, TypeParts DEF Postpone, JobType
  <2>3. job'.state = "none" <=> job.state = "none"
    BY <2>1, <2>2, <1>t DEF Postpone, NamedJob
  <2> QED
    BY <1>2, <2>1, <2>3 DEF Postpone, proofVars
<1>5. CASE /\ \E tries, visible : FailPull(tries, visible) \/ AbandonPull(tries, visible)
           /\ Written
  <2>1. NamedJob' /\ HintsAreHonoured'
    BY <1>5, <1>t, PullHonours
  <2> QED
    BY <1>5, <2>1, WrittenIsStale DEF HintInv
<1>6. CASE Supersede(w)
  <2>1. [profile EXCEPT !.tries = Attempt - 1] \in ProfileType
    BY TypeParts, <1>t DEF ProfileType, JobType, Attempt
  <2>2. NamedJob' /\ HintsAreHonoured'
    BY <1>6, <1>t, <2>1, PullHonours DEF Supersede
  <2> QED
    BY <1>6, <2>2, WrittenIsStale DEF Supersede, HintInv
<1>7. CASE BeginRead(w)
  <2>1. NamedJob' /\ HintsAreHonoured'
    BY <1>7, JobHonours DEF BeginRead, proofVars
  <2>2. profile.error = "none"
    BY <1>7, <1>t DEF BeginRead, NamedJob
  <2>3. Fresh'
    BY <1>7, <1>t, <2>2 DEF BeginRead, Kept, Open, Fresh, TypeOK
  <2> QED
    BY <2>1, <2>3 DEF HintInv
<1>8. CASE ApplyRoster(w) \/ ApplyPartial(w)
  <2>1. hinted' = FALSE
    BY <1>8, <1>t DEF ApplyRoster, ApplyPartial, MayAnswer, Fresh, TypeOK
  <2>2. Disown /\ Written
    BY <1>8 DEF ApplyRoster, ApplyPartial, StartPull
  <2>3. job' = NoJob \/ profile'.error = "none"
    <3>1. CASE ApplyPartial(w)
      BY <3>1 DEF ApplyPartial
    <3>2. ASSUME ApplyRoster(w), job' # NoJob PROVE profile'.error = "none"
      <4>1. StartPull(Applied(profile, w, TRUE, Attempt), TRUE, TRUE)
        BY <3>2 DEF ApplyRoster
      <4>2. Attempt \in Nat
        BY <1>t, TypeParts DEF Attempt, ProfileType, JobType
      <4>3. Applied(profile, w, TRUE, Attempt) \in ProfileType
        BY <1>t, <4>2, TypeParts, ProfileTypes
      <4> QED
        BY <4>1, <4>3 DEF StartPull, Requested, ProfileType
    <3> QED
      BY <1>8, <3>1, <3>2
  <2>4. NamedJob' /\ HintsAreHonoured'
    BY <2>1, <2>2, <2>3 DEF Disown, NamedJob, HintsAreHonoured, NoJob
  <2> QED
    BY <2>2, <2>4, WrittenIsStale DEF HintInv
<1>9. CASE PausePull(w) \/ LoseRead(w) \/ PauseRead(w) \/ RetryRead(w)
           \/ RefuseRead(w) \/ RefuseScope(w)
  BY <1>4, <1>5, <1>9 DEF PausePull, LoseRead, PauseRead, RetryRead, RefuseRead,
                          RefuseScope
<1> QED
  BY <1>1, <1>3, <1>6, <1>7, <1>8, <1>9 DEF PullStep

(* The steps of the queue, of the cron, of people and of the environment keep it: a
   hint leaves the profile due, unless it has failed already. *)
LEMMA OtherHonours ==
  ASSUME HintInv, TypeOK',
         \/ ResetJob \/ OperateJob
         \/ ProcessHint \/ OpenConversation \/ RetryByAdmin
         \/ FinalizeFailed \/ FinalizeInvalid \/ RecoverRequest
         \/ ChangeLink \/ Expire
  PROVE  HintInv'
<1>t. TypeOK /\ NamedJob /\ Fresh /\ profile \in ProfileType /\ job \in JobType
  BY TypeParts DEF HintInv
<1>a. ASSUME UNCHANGED <<profile, workerVars, hinted>>, Kept \/ UNCHANGED late \/ Written,
             job'.state = "none" <=> job.state = "none"
      PROVE  HintInv'
  <2>1. NamedJob' /\ HintsAreHonoured'
    BY <1>a, JobHonours DEF workerVars
  <2>2. Fresh'
    BY <1>a, <1>t, KeptIsFresh, WrittenIsStale DEF workerVars, callVars
  <2> QED
    BY <2>1, <2>2 DEF HintInv
<1>b. ASSUME NEW tries, NEW visible, NEW continuing, NEW advance,
             \/ FailPull(tries, visible) \/ AbandonPull(tries, visible)
             \/ StartPull(profile, continuing, advance),
             Written
      PROVE  HintInv'
  <2>1. NamedJob' /\ HintsAreHonoured'
    BY <1>b, <1>t, PullHonours
  <2> QED
    BY <1>b, <2>1, WrittenIsStale DEF HintInv
<1>1. CASE ResetJob \/ OperateJob
  <2>1. job'.state = "none" <=> job.state = "none"
    BY <1>1, <1>t DEF ResetJob, OperateJob, JobType, NoJob
  <2> QED
    BY <1>1, <1>a, <2>1 DEF ResetJob, OperateJob, proofVars
<1>2. CASE ProcessHint
  <2>1. job'.state = job.state /\ profile'.error = profile.error /\ UNCHANGED mine
    BY <1>2, <1>t DEF ProcessHint, ProfileType, JobType
  <2>2. HintCounts => profile'.next = "unset"
    BY <1>2, <1>t DEF ProcessHint, ProfileType
  <2>3. NamedJob' /\ HintsAreHonoured'
    BY <1>t, <2>1, <2>2 DEF NamedJob, HintsAreHonoured, Due, HintCounts
  <2>4. Fresh'
    <3>1. CASE HintCounts
      BY <1>2, <3>1, WrittenIsStale DEF ProcessHint
    <3>2. CASE ~HintCounts
      BY <1>2, <1>t, <3>2 DEF ProcessHint, HintCounts, Fresh
    <3> QED
      BY <3>1, <3>2
  <2> QED
    BY <2>3, <2>4 DEF HintInv
<1>3. CASE OpenConversation
  BY <1>3, <1>b DEF OpenConversation
<1>4. CASE RetryByAdmin
  BY <1>4, <1>b DEF RetryByAdmin
<1>5. CASE FinalizeFailed \/ FinalizeInvalid
  BY <1>5, <1>a DEF FinalizeFailed, FinalizeInvalid, proofVars
<1>6. CASE RecoverRequest
  <2>1. CASE job' = NewJob /\ Disown /\ UNCHANGED profile /\ job.state = "gone"
    <3>1. NamedJob' /\ HintsAreHonoured'
      BY <1>t, <2>1 DEF Disown, NamedJob, HintsAreHonoured, NewJob
    <3> QED
      BY <1>6, <3>1, WrittenIsStale DEF RecoverRequest, HintInv
  <2> QED
    BY <1>6, <1>b, <2>1 DEF RecoverRequest
<1>7. CASE ChangeLink
  BY <1>7, <1>a DEF ChangeLink, proofVars
<1>8. CASE Expire
  <2>1. profile'.next = "past" /\ profile'.error = profile.error /\ UNCHANGED late
    BY <1>8, <1>t DEF Expire, ProfileType
  <2>2. NamedJob' /\ HintsAreHonoured'
    BY <1>8, <1>t, <2>1 DEF Expire, HintInv, NamedJob, HintsAreHonoured, Due,
                            Cooling, workerVars, proofVars
  <2>3. Fresh'
    BY <1>8, <1>t, <2>1 DEF Expire, Fresh, workerVars, callVars
  <2> QED
    BY <2>2, <2>3 DEF HintInv
<1> QED
  BY <1>1, <1>2, <1>3, <1>4, <1>5, <1>6, <1>7, <1>8

(* A hint that the group changed is honoured: until a read that began after it is
   applied, the profile is due, or names a pull, or says why the last one failed
   (application.py, _process_group_metadata_hint, _invalidate_metadata).  No
   hypothesis: also when jobs are reset under their workers. *)
THEOREM HintsSurvive == Spec => []HintsAreHonoured
<1>1. Init => HintInv
  <2> SUFFICES ASSUME Init PROVE HintInv
    OBVIOUS
  <2>1. TypeOK
    BY InitTypes
  <2>2. NamedJob /\ Fresh /\ HintsAreHonoured
    BY DEF Init, NamedJob, Fresh, HintsAreHonoured, NoJob
  <2> QED
    BY <2>1, <2>2 DEF HintInv
<1>2. HintInv /\ [Next]_vars => HintInv'
  <2> SUFFICES ASSUME HintInv, [Next]_vars PROVE HintInv'
    OBVIOUS
  <2>1. TypeOK'
    BY NextTypes DEF HintInv
  <2>2. CASE UNCHANGED vars
    <3>1. UNCHANGED <<profile, job, workerVars, hinted, late>>
      BY <2>2 DEF vars, proofVars
    <3>2. NamedJob' /\ HintsAreHonoured'
      BY <3>1, JobHonours DEF workerVars
    <3>3. Fresh'
      BY <2>1, <3>1, KeptIsFresh DEF HintInv, workerVars, callVars
    <3> QED
      BY <2>1, <3>2, <3>3 DEF HintInv
  <2> QED
    BY <2>1, <2>2, EventHonours, WorkerHonours, OtherHonours DEF Next
<1>3. HintInv => HintsAreHonoured
  BY DEF HintInv
<1> QED
  BY <1>1, <1>2, <1>3, PTL DEF Spec
=============================================================================
