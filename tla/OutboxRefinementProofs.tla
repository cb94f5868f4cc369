----------------------- MODULE OutboxRefinementProofs -----------------------
(***************************************************************************)
(* The outbox implements the one-copy promise, for any number of workers,   *)
(* retries and jobs, when a rejection of the provider is a proof.           *)
(* The mapping forgets which command of the lineage does something.  What   *)
(* makes that sound is that at most one of them is live: all before it are  *)
(* dead, and none exists after it.                                          *)
(***************************************************************************)
EXTENDS OutboxRefinement, OutboxDispatchProofs, FiniteSetTheorems

(* A call in flight is a dispatch the provider has not refused. *)
CallIsDoubted == \A w \in Workers : pc[w] \in InFlight => cmd[w] \in unproven

PromiseInv == ExclusionInv /\ CallIsDoubted

(* The last command of the lineage, unless it is dead. *)
Live(c) == state[c] \notin {"absent", "dead"}

(* No worker starts a call: those in flight after the step were before it. *)
CallsWere ==
    \A v \in Workers : pc'[v] \in InFlight => pc[v] \in InFlight /\ cmd'[v] = cmd[v]

(* Two live commands of a lineage are the same: a retry exists only over dead
   predecessors. *)
LEMMA OneLive ==
  ASSUME ExclusionInv, NEW c \in Commands, NEW d \in Commands, Live(c), Live(d)
  PROVE  c = d
<1>1. ~(c < d) /\ ~(d < c)
  BY DEF Live, ExclusionInv, ChainIsDead
<1> QED
  BY <1>1 DEF Commands

(* What may have been sent and is not disproved belongs to the live command, and
   no live command that looks unsent leaves a doubt. *)
LEMMA DoubtIsLive ==
  ASSUME ExclusionInv, NEW c \in Commands, Live(c)
  PROVE  /\ unproven \subseteq {c}
         /\ state[c] \in Sendable => unproven = {}
<1>1. ASSUME NEW d \in unproven PROVE d = c /\ state[c] \notin Sendable
  <2>1. d \in Commands /\ Live(d) /\ state[d] \notin Sendable
    BY DEF ExclusionInv, TypeOK, DoubtIsHeld, Live, Sendable
  <2> QED
    BY <2>1, OneLive
<1> QED
  BY <1>1

(* Only one command of a lineage is left to send. *)
LEMMA OneOpen ==
  ASSUME ExclusionInv, NEW c \in Commands, state[c] \in Sendable
  PROVE  \A d \in Commands \ {c} : state[d] \notin Sendable
BY OneLive DEF Live, Sendable

(* The commands created are finitely many, and no more than a lineage holds. *)
LEMMA CreatedIsFinite ==
  /\ IsFiniteSet(Created)
  /\ Cardinality(Created) \in Nat
  /\ \A c \in Commands \ Created : Cardinality(Created) < MaxLineage
<1>1. IsFiniteSet(Commands) /\ Cardinality(Commands) = MaxLineage
  BY LineageAssumption, FS_Interval DEF Commands
<1>2. IsFiniteSet(Created) /\ Cardinality(Created) \in Nat
  BY <1>1, FS_Subset, FS_CardinalityType DEF Created
<1>3. ASSUME NEW c \in Commands \ Created PROVE Cardinality(Created) < MaxLineage
  <2>1. Created \in SUBSET Commands /\ Created # Commands
    BY DEF Created
  <2>2. /\ Cardinality(Created) <= Cardinality(Commands)
        /\ Cardinality(Created) # Cardinality(Commands)
    BY <1>1, <2>1, FS_Subset
  <2> QED
    BY <1>1, <1>2, <2>2, LineageAssumption
<1> QED
  BY <1>2, <1>3

(* A command that exists and goes on existing adds no offer. *)
LEMMA SameOffers ==
  ASSUME TypeOK, NEW c \in Commands, state[c] # "absent", NEW s, s # "absent",
         state' = [state EXCEPT ![c] = s]
  PROVE  Cardinality(Created)' = Cardinality(Created)
<1>1. \A d \in Commands : state'[d] = IF d = c THEN s ELSE state[d]
  BY DEF TypeOK
<1>2. Created' = Created
  BY <1>1 DEF Created
<1> QED
  BY <1>2

(* A step that moves one command among states of the same standing, and touches
   neither doubt nor acceptance, is not seen by the promise. *)
LEMMA Unseen ==
  ASSUME ExclusionInv, UNCHANGED <<accepted, unproven>>,
         NEW c \in Commands, state[c] # "absent", NEW s, s # "absent",
         state' = [state EXCEPT ![c] = s],
         s \in Sendable <=> state[c] \in Sendable
  PROVE  UNCHANGED Promise!vars
<1>1. \A d \in Commands : state'[d] = IF d = c THEN s ELSE state[d]
  BY DEF ExclusionInv, TypeOK
<1>2. Cardinality(Created)' = Cardinality(Created)
  BY SameOffers DEF ExclusionInv
<1>3. (\E d \in Commands : state[d] \in Sendable)'
         = (\E d \in Commands : state[d] \in Sendable)
  BY <1>1
<1>4. UNCHANGED Copies
  BY DEF Copies
<1> QED
  BY <1>2, <1>3, <1>4 DEF Promise!vars

(* Giving up the command left to send withdraws the offer. *)
LEMMA Withdrawn ==
  ASSUME ExclusionInv, UNCHANGED <<accepted, unproven>>,
         NEW c \in Commands, state[c] \in Sendable,
         NEW s \in {"dead", "cancelled"},
         state' = [state EXCEPT ![c] = s]
  PROVE  Promise!Withdraw
<1>1. \A d \in Commands : state'[d] = IF d = c THEN s ELSE state[d]
  BY DEF ExclusionInv, TypeOK
<1>2. Cardinality(Created)' = Cardinality(Created)
  BY SameOffers DEF ExclusionInv, Sendable
<1>3. (\E d \in Commands : state[d] \in Sendable)' = FALSE
  BY <1>1, OneOpen DEF Sendable
<1>4. UNCHANGED Copies
  BY DEF Copies
<1> QED
  BY <1>2, <1>3, <1>4 DEF Promise!Withdraw

(* A new command over dead predecessors is a new offer: nothing is left to send,
   and nothing is in doubt. *)
LEMMA Offered ==
  ASSUME ExclusionInv, NEW c \in Commands, Create(c),
         \A d \in Commands : d < c => state[d] = "dead"
  PROVE  Promise!Offer
<1>1. \A d \in Commands : state'[d] = IF d = c THEN "pending" ELSE state[d]
  BY DEF Create, ExclusionInv, TypeOK
<1>2. \A d \in Commands : ~Live(d)
  <2>1. \A d \in Commands : c < d => state[d] = "absent"
    BY DEF Create, ExclusionInv, ChainIsDead
  <2> QED
    BY <2>1 DEF Live, Create, Commands
<1>3. unproven = {} /\ ~\E d \in Commands : state[d] \in Sendable
  BY <1>2 DEF Live, Sendable, ExclusionInv, TypeOK, DoubtIsHeld
<1>4. c \notin Created /\ Created' = Created \cup {c}
  BY <1>1 DEF Created, Create
<1>5. /\ Cardinality(Created) < MaxLineage
      /\ Cardinality(Created)' = Cardinality(Created) + 1
  BY <1>4, CreatedIsFinite, FS_AddElement
<1>6. (\E d \in Commands : state[d] \in Sendable)' = TRUE
  BY <1>1 DEF Sendable
<1>7. UNCHANGED <<Copies, unproven>>
  BY DEF Copies, Create
<1> QED
  BY <1>3, <1>5, <1>6, <1>7 DEF Promise!Offer

(* A step that leaves commands, doubts and acceptance alone is not seen. *)
LEMMA Untouched ==
  ASSUME UNCHANGED <<state, accepted, unproven>>
  PROVE  UNCHANGED Promise!vars
<1>1. UNCHANGED <<Created, Copies>>
  BY DEF Created, Copies
<1> QED
  BY <1>1 DEF Promise!vars

(* The durable boundary is a dispatch of an offer that leaves no doubt. *)
LEMMA Dispatched ==
  ASSUME ExclusionInv, NEW w \in Workers, StartDispatch(w)
  PROVE  Promise!Dispatch
<1> DEFINE c == cmd[w]
<1>1. /\ c \in Commands /\ state[c] \in Sendable
      /\ state' = [state EXCEPT ![c] = "processing"]
      /\ unproven' = unproven \cup {c} /\ UNCHANGED accepted
  BY DEF StartDispatch, MayPrepare, ExclusionInv, WorkIsCreated
<1> HIDE DEF c
<1>2. \A d \in Commands : state'[d] = IF d = c THEN "processing" ELSE state[d]
  BY <1>1 DEF ExclusionInv, TypeOK
<1>3. Cardinality(Created)' = Cardinality(Created)
  BY <1>1, SameOffers DEF ExclusionInv, Sendable
<1>4. unproven = {} /\ unproven' # {}
  BY <1>1, DoubtIsLive DEF Live, Sendable
<1>5. (\E d \in Commands : state[d] \in Sendable)' = FALSE
  BY <1>1, <1>2, OneOpen DEF Sendable
<1>6. UNCHANGED Copies
  BY <1>1 DEF Copies
<1> QED
  BY <1>1, <1>3, <1>4, <1>5, <1>6 DEF Promise!Dispatch

(* While nothing was accepted of the live command, the customer has no copy. *)
LEMMA NoCopyYet ==
  ASSUME ExclusionInv, RejectionIsProof,
         NEW c \in Commands, Live(c), accepted[c] = 0
  PROVE  (\A d \in Commands : accepted[d] = 0) /\ Copies = 0
<1>1. ASSUME NEW d \in Commands PROVE accepted[d] = 0
  <2>1. d = c \/ Unsent(d)
    BY OneLive DEF Live, Unsent
  <2> QED
    BY <2>1 DEF ExclusionInv, AcceptanceIsSeen
<1> QED
  BY <1>1 DEF Copies

(* The command of a call in flight is live. *)
LEMMA CallIsLive ==
  ASSUME ExclusionInv, NEW w \in Workers, pc[w] \in InFlight
  PROVE  cmd[w] \in Commands /\ Live(cmd[w])
BY DEF ExclusionInv, WorkIsCreated, CallIsHeld, Unsent, Live, InFlight

(* A rejection that is acted on refuses the one dispatch in doubt, of which no
   copy was taken. *)
LEMMA Refused ==
  ASSUME PromiseInv, RejectionIsProof, UNCHANGED accepted,
         NEW w \in Workers, pc[w] = "answered", answer[w] \in Rejections,
         NEW s \in {"pending", "retry", "dead"},
         state' = [state EXCEPT ![cmd[w]] = s],
         unproven' = unproven \ {cmd[w]}
  PROVE  Promise!Refuse
<1> DEFINE c == cmd[w]
<1>1. c \in Commands /\ Live(c) /\ c \in unproven /\ accepted[c] = 0
  BY CallIsLive DEF PromiseInv, CallIsDoubted, ExclusionInv, AcceptanceIsSeen, InFlight
<1>2. state' = [state EXCEPT ![c] = s] /\ unproven' = unproven \ {c}
  OBVIOUS
<1> HIDE DEF c
<1>3. Cardinality(Created)' = Cardinality(Created)
  BY <1>1, <1>2, SameOffers DEF PromiseInv, ExclusionInv, Live
<1>4. unproven # {} /\ unproven' = {}
  BY <1>1, <1>2, DoubtIsLive DEF PromiseInv
<1>5. Copies = 0 /\ UNCHANGED Copies
  BY <1>1, NoCopyYet DEF PromiseInv, Copies
<1> QED
  BY <1>3, <1>4, <1>5 DEF Promise!Refuse

(* A call takes the first copy, or none. *)
LEMMA Taken ==
  ASSUME PromiseInv, RejectionIsProof, NEW w \in Workers, CallProvider(w)
  PROVE  Promise!Take \/ UNCHANGED Promise!vars
<1> DEFINE c == cmd[w]
<1>1. PICK copies \in {0, 1} : accepted' = [accepted EXCEPT ![c] = @ + copies]
  BY DEF CallProvider
<1>2. UNCHANGED <<state, unproven>> /\ pc[w] = "calling"
  BY DEF CallProvider, rowVars
<1>3. c \in Commands /\ Live(c) /\ c \in unproven /\ accepted[c] = 0
  BY <1>2, CallIsLive
  DEF PromiseInv, CallIsDoubted, ExclusionInv, AcceptanceIsSeen, InFlight
<1> HIDE DEF c
<1>4. (\A d \in Commands : accepted[d] = 0) /\ Copies = 0
  BY <1>3, NoCopyYet DEF PromiseInv
<1>5. \A d \in Commands : accepted'[d] = IF d = c THEN copies ELSE 0
  BY <1>1, <1>3, <1>4 DEF PromiseInv, ExclusionInv, TypeOK
<1>6. UNCHANGED Created
  BY <1>2 DEF Created
<1>7. CASE copies = 0
  <2>1. Copies' = 0
    BY <1>5, <1>7 DEF Copies
  <2> QED
    BY <1>2, <1>4, <1>6, <2>1 DEF Promise!vars
<1>8. CASE copies = 1
  <2>1. Copies' = 1
    BY <1>3, <1>5, <1>8 DEF Copies
  <2> QED
    BY <1>2, <1>3, <1>4, <1>6, <2>1 DEF Promise!Take
<1> QED
  BY <1>7, <1>8

(* A transaction before the boundary is unseen, withdraws the offer, or crosses. *)
LEMMA PrepareSeen ==
  ASSUME ExclusionInv, NEW w \in Workers, PrepareStep(w)
  PROVE  Promise!Next \/ UNCHANGED Promise!vars
<1> USE DEF rowVars
<1>0. pc[w] # "idle" => cmd[w] \in Commands /\ state[cmd[w]] # "absent"
  BY DEF ExclusionInv, WorkIsCreated
<1>1. CASE SkipJob(w)
  BY <1>1, Untouched DEF SkipJob
<1>2. CASE ObserveBoundary(w)
  BY <1>0, <1>2, Unseen DEF ObserveBoundary, Doubt, Sendable
<1>3. CASE CancelRetry(w)
  BY <1>0, <1>3, Withdrawn DEF CancelRetry, MayPrepare, Promise!Next
<1>4. CASE PostponeDispatch(w)
  BY <1>0, <1>4, Unseen DEF PostponeDispatch, MayPrepare, PersistSafeRetry, Sendable
<1>5. CASE RejectBeforeDispatch(w)
  BY <1>0, <1>5, Withdrawn DEF RejectBeforeDispatch, MayPrepare, Bury, Promise!Next
<1>6. CASE FailBeforeDispatch(w)
  <2>1. cmd[w] \in Commands /\ state[cmd[w]] \in Sendable
        /\ UNCHANGED <<accepted, unproven>>
    BY <1>0, <1>6 DEF FailBeforeDispatch, MayPrepare
  <2>2. \/ state' = [state EXCEPT ![cmd[w]] = "dead"]
        \/ state' = [state EXCEPT ![cmd[w]] = "retry"]
    BY <1>6 DEF FailBeforeDispatch, Bury, PersistSafeRetry
  <2> QED
    BY <2>1, <2>2, Withdrawn, Unseen DEF Sendable, Promise!Next
<1>7. CASE StartDispatch(w)
  BY <1>7, Dispatched DEF Promise!Next
<1> QED
  BY <1>1, <1>2, <1>3, <1>4, <1>5, <1>6, <1>7 DEF PrepareStep

(* The transaction after the call is unseen, or refuses the dispatch. *)
LEMMA SettleSeen ==
  ASSUME PromiseInv, RejectionIsProof, NEW w \in Workers, SettleStep(w)
  PROVE  Promise!Next \/ UNCHANGED Promise!vars
<1> USE DEF rowVars
<1>0. /\ pc[w] = "answered" /\ cmd[w] \in Commands
      /\ state[cmd[w]] # "absent" /\ state[cmd[w]] \notin Sendable
  <2>1. pc[w] = "answered"
    BY DEF SettleStep, LoseOutcome, SettleSuccess, KeepUncertain, SettlePaused,
       SettleTransient, SettlePermanent, SettleAmbiguous, MaySettle
  <2> QED
    BY <2>1 DEF PromiseInv, ExclusionInv, WorkIsCreated, CallIsHeld, Unsent,
       InFlight, Sendable
<1>1. CASE LoseOutcome(w)
  BY <1>1, Untouched DEF LoseOutcome
<1>2. CASE SettleSuccess(w)
  BY <1>0, <1>2, Unseen DEF PromiseInv, SettleSuccess, Sendable
<1>3. CASE KeepUncertain(w)
  BY <1>0, <1>3, Unseen DEF PromiseInv, KeepUncertain, Doubt, Sendable
<1>4. CASE SettleAmbiguous(w)
  BY <1>0, <1>4, Unseen DEF PromiseInv, SettleAmbiguous, Doubt, Sendable
<1>5. CASE SettlePaused(w) \/ SettleTransient(w) \/ SettlePermanent(w)
  <2>1. /\ answer[w] \in Rejections /\ UNCHANGED accepted
        /\ unproven' = unproven \ {cmd[w]}
    BY <1>5 DEF SettlePaused, SettleTransient, SettlePermanent, MaySettle, Rejections
  <2>2. \E s \in {"pending", "retry", "dead"} : state' = [state EXCEPT ![cmd[w]] = s]
    BY <1>5
    DEF SettlePaused, SettleTransient, SettlePermanent, PersistSafeRetry, Bury
  <2> QED
    BY <1>0, <2>1, <2>2, Refused DEF Promise!Next
<1> QED
  BY <1>1, <1>2, <1>3, <1>4, <1>5 DEF SettleStep

(* A receipt, a repair or a decision moves a command that is not left to send. *)
LEMMA DecisionSeen ==
  ASSUME PromiseInv, RejectionIsProof, NEW c \in Commands,
         \/ \E s \in Positive : ReceiveEvidence(c, s)
         \/ ConfirmDelivery(c) \/ CloseWithoutSend(c) \/ Reconcile(c)
  PROVE  UNCHANGED Promise!vars
<1>1. UNCHANGED <<accepted, unproven>>
  BY DEF ReceiveEvidence, ConfirmDelivery, CloseWithoutSend, Reconcile
<1>2. CASE UNCHANGED state
  BY <1>1, <1>2, Untouched
<1>3. CASE ~UNCHANGED state
  <2>1. state[c] \in Sendable \cup {"uncertain"}
    BY <1>3 DEF ReceiveEvidence, CompleteFromEvidence, ConfirmDelivery,
       CloseWithoutSend, Resolvable, Reconcile, Provable
  <2>2. \E s \in {"done", "cancelled"} : state' = [state EXCEPT ![c] = s]
    BY <1>3 DEF ReceiveEvidence, CompleteFromEvidence, ConfirmDelivery,
       CloseWithoutSend, Reconcile
  <2>3. state[c] \in Sendable => accepted[c] > 0
    BY DEF ReceiveEvidence, ConfirmDelivery, CloseWithoutSend, Resolvable,
       Reconcile, Provable, Sendable
  <2>4. state[c] = "uncertain"
    BY <2>1, <2>3
    DEF PromiseInv, ExclusionInv, AcceptanceIsSeen, Unsent, Sendable
  <2> QED
    BY <1>1, <2>2, <2>4, Unseen DEF PromiseInv, Sendable
<1> QED
  BY <1>2, <1>3

(* Every step of the outbox is a step of the promise, or is not seen by it. *)
LEMMA PromiseStep ==
  ASSUME PromiseInv, RejectionIsProof, [Next]_vars
  PROVE  [Promise!Next]_(Promise!vars)
<1> USE DEF rowVars
<1>1. CASE SendMessage
  <2>1. \A d \in Commands : ~(d < 1)
    BY DEF Commands
  <2> QED
    BY <1>1, <2>1, Offered, First DEF SendMessage, PromiseInv, Promise!Next
<1>2. ASSUME NEW c \in Commands, ResendMessage(c)
      PROVE  Promise!Next
  <2>1. c + 1 \in Commands /\ Create(c + 1) /\ state[c] = "dead"
    BY <1>2 DEF ResendMessage
  <2>2. \A d \in Commands : d < c + 1 => d = c \/ d < c
    BY DEF Commands
  <2>3. \A d \in Commands : d < c + 1 => state[d] = "dead"
    BY <2>1, <2>2 DEF PromiseInv, ExclusionInv, ChainIsDead
  <2> QED
    BY <2>1, <2>3, Offered DEF PromiseInv, Promise!Next
<1>3. ASSUME NEW w \in Workers, WorkerStep(w) \/ FailJob(w) \/ Crash(w)
      PROVE  Promise!Next \/ UNCHANGED Promise!vars
  <2>1. CASE PrepareStep(w)
    BY <2>1, PrepareSeen DEF PromiseInv
  <2>2. CASE SettleStep(w)
    BY <2>2, SettleSeen
  <2>3. CASE CallProvider(w)
    BY <2>3, Taken DEF Promise!Next
  <2>4. CASE RepairSuccess(w)
    <3>1. cmd[w] \in Commands /\ Reconcile(cmd[w])
      BY <2>4 DEF RepairSuccess, PromiseInv, ExclusionInv, WorkIsCreated
    <3> QED
      BY <3>1, DecisionSeen
  <2>5. CASE OpenCall(w) \/ GiveUpRepair(w) \/ EndJob(w) \/ FailJob(w) \/ Crash(w)
    BY <2>5, Untouched DEF OpenCall, GiveUpRepair, EndJob, FailJob, Crash
  <2> QED
    BY <1>3, <2>1, <2>2, <2>3, <2>4, <2>5 DEF WorkerStep
<1>4. ASSUME NEW c \in Commands,
             \/ \E s \in Positive : ReceiveEvidence(c, s)
             \/ ConfirmDelivery(c) \/ CloseWithoutSend(c) \/ ReconcileByAdmin(c)
      PROVE  UNCHANGED Promise!vars
  BY <1>4, DecisionSeen DEF ReconcileByAdmin
<1>5. ASSUME NEW c \in Commands,
             RecoverOrphan(c) \/ RequeueByAdmin(c) \/ ResumeAfterHealth(c)
      PROVE  UNCHANGED Promise!vars
  BY <1>5, Untouched DEF RecoverOrphan, RequeueByAdmin, ResumeAfterHealth, Requeue
<1>6. ASSUME \/ ChangeGate \/ DeleteContent \/ UNCHANGED vars
             \/ \E w \in Workers, d \in Commands, i \in Slots : StartJob(w, d, i)
             \/ \E d \in Commands, i \in Slots : ResetJob(d, i) \/ OperateJob(d, i)
      PROVE  UNCHANGED Promise!vars
  BY <1>6, Untouched DEF ChangeGate, DeleteContent, vars, StartJob, ResetJob, OperateJob
<1> QED
  BY <1>1, <1>2, <1>3, <1>4, <1>5, <1>6 DEF Next

(* While no call starts and no doubt is dropped, calls in flight stay doubted. *)
LEMMA DoubtKept ==
  ASSUME CallIsDoubted, CallsWere, unproven \subseteq unproven'
  PROVE  CallIsDoubted'
BY DEF CallIsDoubted, CallsWere

(* A worker at the provider stays in doubt: only the boundary starts a call, and it
   marks the dispatch; only the rejection of the one call in flight unmarks it. *)
LEMMA DoubtStep == PromiseInv /\ [Next]_vars => CallIsDoubted'
<1> SUFFICES ASSUME PromiseInv, [Next]_vars PROVE CallIsDoubted'
  OBVIOUS
<1> USE DEF InFlight, workerVars
<1>0. TypeOK /\ CallIsDoubted
  BY DEF PromiseInv, ExclusionInv
<1>1. CASE UNCHANGED <<workerVars, unproven>>
  BY <1>0, <1>1, DoubtKept DEF CallsWere
<1>2. ASSUME NEW w \in Workers, StartDispatch(w)  PROVE CallIsDoubted'
  BY <1>0, <1>2 DEF StartDispatch, TypeOK, CallIsDoubted
<1>3. ASSUME NEW w \in Workers, \E verdict : Leave(w, verdict), UNCHANGED unproven
      PROVE  CallIsDoubted'
  BY <1>0, <1>3, DoubtKept DEF Leave, CallsWere, TypeOK
<1>4. ASSUME NEW w \in Workers, PrepareStep(w)  PROVE CallIsDoubted'
  <2>1. \/ StartDispatch(w)
        \/ UNCHANGED unproven /\ \E verdict : Leave(w, verdict)
    BY <1>4
    DEF PrepareStep, SkipJob, ObserveBoundary, CancelRetry, PostponeDispatch,
       RejectBeforeDispatch, FailBeforeDispatch
  <2> QED
    BY <1>2, <1>3, <2>1
<1>5. ASSUME NEW w \in Workers, SettleStep(w)  PROVE CallIsDoubted'
  <2>1. CASE UNCHANGED unproven
    <3>1. pc'[w] \notin InFlight /\ \A v \in Workers \ {w} : pc'[v] = pc[v]
      BY <1>0, <1>5, <2>1
      DEF SettleStep, LoseOutcome, SettleSuccess, KeepUncertain, SettlePaused,
         SettleTransient, SettlePermanent, SettleAmbiguous, MaySettle, Leave, TypeOK
    <3>2. UNCHANGED cmd
      BY <1>5
      DEF SettleStep, LoseOutcome, SettleSuccess, KeepUncertain, SettlePaused,
         SettleTransient, SettlePermanent, SettleAmbiguous, Leave
    <3> QED
      BY <1>0, <2>1, <3>1, <3>2, DoubtKept DEF CallsWere
  <2>2. CASE ~UNCHANGED unproven
    <3>1. pc[w] = "answered" /\ \E verdict : Leave(w, verdict)
      BY <1>5, <2>2
      DEF SettleStep, LoseOutcome, SettleSuccess, KeepUncertain, SettlePaused,
         SettleTransient, SettlePermanent, SettleAmbiguous, MaySettle
    <3>2. \A v \in Workers : pc'[v] \notin InFlight
      BY <1>0, <3>1 DEF Leave, PromiseInv, ExclusionInv, OneCallInFlight, TypeOK
    <3> QED
      BY <3>2 DEF CallIsDoubted
  <2> QED
    BY <2>1, <2>2
<1>6. ASSUME NEW w \in Workers, OpenCall(w) \/ CallProvider(w)
      PROVE  CallIsDoubted'
  BY <1>0, <1>6, DoubtKept DEF OpenCall, CallProvider, CallsWere, TypeOK
<1>7. ASSUME NEW w \in Workers, RepairSuccess(w) \/ GiveUpRepair(w)
      PROVE  CallIsDoubted'
  BY <1>3, <1>7 DEF RepairSuccess, Reconcile, GiveUpRepair
<1>8. ASSUME NEW w \in Workers, EndJob(w) \/ FailJob(w) \/ Crash(w)
      PROVE  CallIsDoubted'
  BY <1>0, <1>8, DoubtKept DEF EndJob, FailJob, Crash, Rest, CallsWere, TypeOK
<1>9. ASSUME NEW w \in Workers, NEW c \in Commands, NEW i \in Slots, StartJob(w, c, i)
      PROVE  CallIsDoubted'
  BY <1>0, <1>9, DoubtKept DEF StartJob, CallsWere, TypeOK
<1>10. ASSUME NEW c, Create(c)  PROVE CallIsDoubted'
  BY <1>1, <1>10 DEF Create
<1>11. ASSUME NEW c \in Commands,
              \/ RecoverOrphan(c) \/ RequeueByAdmin(c) \/ ResumeAfterHealth(c)
              \/ \E s \in Positive : ReceiveEvidence(c, s)
              \/ ConfirmDelivery(c) \/ CloseWithoutSend(c) \/ ReconcileByAdmin(c)
       PROVE  CallIsDoubted'
  BY <1>1, <1>11
  DEF RecoverOrphan, RequeueByAdmin, ResumeAfterHealth, Requeue, ReceiveEvidence,
     ConfirmDelivery, CloseWithoutSend, ReconcileByAdmin, Reconcile
<1>12. ASSUME \/ ChangeGate \/ DeleteContent \/ UNCHANGED vars
              \/ \E c \in Commands, i \in Slots : ResetJob(c, i) \/ OperateJob(c, i)
       PROVE  CallIsDoubted'
  BY <1>1, <1>12 DEF ChangeGate, DeleteContent, vars, ResetJob, OperateJob
<1> QED
  BY <1>2, <1>4, <1>5, <1>6, <1>7, <1>8, <1>9, <1>10, <1>11, <1>12
  DEF Next, WorkerStep, SendMessage, ResendMessage

(* Before anything is sent the promise is in its initial state. *)
LEMMA PromiseInit == Init => CallIsDoubted /\ Promise!Init
<1> SUFFICES ASSUME Init PROVE CallIsDoubted /\ Promise!Init
  OBVIOUS
<1>1. CallIsDoubted
  BY DEF Init, CallIsDoubted, InFlight
<1>2. Created = {} /\ ~\E c \in Commands : state[c] \in Sendable
  BY DEF Init, Created, Sendable
<1>3. Cardinality(Created) = 0
  BY <1>2, FS_EmptySet
<1>4. Copies = 0 /\ unproven = {}
  BY DEF Init, Copies
<1> QED
  BY <1>1, <1>2, <1>3, <1>4 DEF Promise!Init

(* A call in flight is always a dispatch in doubt, beside the exclusion invariant. *)
THEOREM CallsAreDoubted == Spec => []PromiseInv
<1>1. Init => PromiseInv
  BY ExclusionInit, PromiseInit DEF PromiseInv
<1>2. PromiseInv /\ [Next]_vars => PromiseInv'
  BY ExclusionStep, DoubtStep DEF PromiseInv
<1> QED
  BY <1>1, <1>2, PTL DEF Spec

(* The outbox implements OneCopy: whatever workers, receipts, crashes and operators
   do to the commands of a lineage, the message is offered again only when nothing
   is in doubt, dispatched only when offered, and taken by the provider at most
   once.  The hypothesis is the adapter contract: a rejection is a proof. *)
THEOREM OutboxImplementsOneCopy ==
  ASSUME RejectionIsProof
  PROVE  Spec => ImplementsOneCopy
<1>1. Init => Promise!Init
  BY PromiseInit
<1>2. PromiseInv /\ [Next]_vars => [Promise!Next]_(Promise!vars)
  BY PromiseStep
<1> QED
  BY <1>1, <1>2, CallsAreDoubted, PTL DEF Spec, ImplementsOneCopy, Promise!Spec
=============================================================================
