------------------------ MODULE OutboxDispatchProofs ------------------------
(***************************************************************************)
(* Theorems of OutboxDispatch, for any number of workers, retries and jobs: *)
(* its types; why no message is sent twice, whether or not a job is reset   *)
(* while its worker still runs; the ceiling of attempts; and, as long as no *)
(* job is reset while its worker is alive, that the message shows what      *)
(* became of its command and that evidence stops every later dispatch.      *)
(***************************************************************************)
EXTENDS OutboxDispatch, TLAPS

-----------------------------------------------------------------------------
(* Types *)

(* A lineage has a first command, and a command a first job. *)
LEMMA First == 1 \in Commands /\ 1 \in Slots
BY LineageAssumption, SlotsAssumption DEF Commands, Slots

(* Counting one more at a place keeps a function into the naturals. *)
LEMMA Bump ==
  ASSUME NEW S, NEW f \in [S -> Nat], NEW a
  PROVE  [f EXCEPT ![a] = @ + 1] \in [S -> Nat]
<1>1. CASE a \in S
  BY <1>1
<1>2. CASE a \notin S
  BY <1>2
<1> QED
  BY <1>1, <1>2

(* The refund of an attempt (a provider that pauses) never goes below zero. *)
LEMMA Drop ==
  ASSUME TypeOK, NEW c
  PROVE  [attempts EXCEPT ![c] = IF @ > 0 THEN @ - 1 ELSE 0] \in [Commands -> Nat]
<1>1. CASE c \in Commands
  BY <1>1 DEF TypeOK
<1>2. CASE c \notin Commands
  BY <1>2 DEF TypeOK
<1> QED
  BY <1>1, <1>2

(* The provider accepting one more copy keeps the count a natural number. *)
LEMMA AddCopies ==
  ASSUME TypeOK, NEW c, NEW n \in {0, 1}
  PROVE  [accepted EXCEPT ![c] = @ + n] \in [Commands -> Nat]
<1>1. CASE c \in Commands
  BY <1>1 DEF TypeOK
<1>2. CASE c \notin Commands
  BY <1>2 DEF TypeOK
<1> QED
  BY <1>1, <1>2

(* Moving a delivery projection forward keeps it a delivery state. *)
LEMMA DeliveryUpdate ==
  ASSUME TypeOK, NEW c, NEW s \in Positive \cup {"failed"}
  PROVE  [delivery EXCEPT ![c] = Advance(@, s)] \in [Commands -> Deliveries]
BY DEF TypeOK, Advance, Positive, Deliveries

(* Writing the state of one job keeps the table of jobs. *)
LEMMA JobUpdate ==
  ASSUME TypeOK, NEW c, NEW i, NEW s \in JobStates
  PROVE  [jobState EXCEPT ![c][i] = s] \in [Commands -> [Slots -> JobStates]]
BY DEF TypeOK

(* Putting a command back to work keeps owners and jobs in their types. *)
LEMMA EnsureJobTypes ==
  ASSUME TypeOK, NEW c \in Commands, EnsureJob(c)
  PROVE  /\ owner' \in [Commands -> Slots \cup {0}]
         /\ jobState' \in [Commands -> [Slots -> JobStates]]
<1>1. PICK i \in Slots :
        /\ owner' = [owner EXCEPT ![c] = i]
        /\ \/ jobState' = jobState
           \/ jobState' = [jobState EXCEPT ![c][i] = "pending"]
  BY DEF EnsureJob
<1>2. [jobState EXCEPT ![c][i] = "pending"] \in [Commands -> [Slots -> JobStates]]
  BY JobUpdate DEF JobStates
<1> QED
  BY <1>1, <1>2 DEF TypeOK

(* Every step keeps the types, one action of Next at a time. *)
LEMMA TypeStep == TypeOK /\ [Next]_vars => TypeOK'
<1> SUFFICES ASSUME TypeOK, [Next]_vars PROVE TypeOK'
  OBVIOUS
<1> USE DEF TypeOK, rowVars, bindVars, envVars, workerVars
<1>1. CASE SendMessage
  <2>1. jobState' \in [Commands -> [Slots -> JobStates]]
    BY <1>1, JobUpdate DEF SendMessage, Create, JobStates
  <2>2. owner' \in [Commands -> Slots \cup {0}]
    BY <1>1, First DEF SendMessage, Create
  <2>3. state' \in [Commands -> States]
    BY <1>1 DEF SendMessage, Create, States
  <2> QED
    BY <1>1, <2>1, <2>2, <2>3 DEF SendMessage, Create
<1>2. ASSUME NEW c \in Commands, ResendMessage(c)
  PROVE  TypeOK'
  <2>1. jobState' \in [Commands -> [Slots -> JobStates]]
    BY <1>2, JobUpdate DEF ResendMessage, Create, JobStates
  <2>2. owner' \in [Commands -> Slots \cup {0}]
    BY <1>2, First DEF ResendMessage, Create
  <2>3. state' \in [Commands -> States]
    BY <1>2 DEF ResendMessage, Create, States
  <2> QED
    BY <1>2, <2>1, <2>2, <2>3 DEF ResendMessage, Create
<1>3. ASSUME NEW w \in Workers, NEW c \in Commands, NEW i \in Slots,
         StartJob(w, c, i)
  PROVE  TypeOK'
  BY <1>3 DEF StartJob, JobStates
<1>4. ASSUME NEW w \in Workers, SkipJob(w)
  PROVE  TypeOK'
  BY <1>4 DEF SkipJob, Leave, Answers, Verdicts, Rejections
<1>5. ASSUME NEW w \in Workers, ObserveBoundary(w)
  PROVE  TypeOK'
  BY <1>5 DEF ObserveBoundary, Doubt, Leave, Touch, States, Answers, Verdicts,
         Rejections
<1>6. ASSUME NEW w \in Workers, CancelRetry(w)
  PROVE  TypeOK'
  BY <1>6 DEF CancelRetry, MayPrepare, Leave, Touch, States, Answers,
         Verdicts, Rejections
<1>7. ASSUME NEW w \in Workers, PostponeDispatch(w)
  PROVE  TypeOK'
  BY <1>7 DEF PostponeDispatch, MayPrepare, PersistSafeRetry, Leave, Touch,
         States, Answers, Verdicts, Rejections
<1>8. ASSUME NEW w \in Workers, RejectBeforeDispatch(w)
  PROVE  TypeOK'
  BY <1>8 DEF RejectBeforeDispatch, MayPrepare, Bury, Leave, Touch, States,
         Answers, Verdicts, Rejections, Advance, Deliveries, Positive
<1>9. ASSUME NEW w \in Workers, FailBeforeDispatch(w)
  PROVE  TypeOK'
  <2>1. attempts' \in [Commands -> Nat]
    BY <1>9, Bump DEF FailBeforeDispatch
  <2>2. mark' \in [Commands -> Slots \cup {0}]
    BY <1>9 DEF FailBeforeDispatch, PersistSafeRetry
  <2>3. state' \in [Commands -> States]
    BY <1>9 DEF FailBeforeDispatch, PersistSafeRetry, Bury, States
  <2>4. delivery' \in [Commands -> Deliveries]
    BY <1>9 DEF FailBeforeDispatch, Bury, Advance, Deliveries
  <2>5. answer' \in [Workers -> Answers \cup Verdicts \cup {"none"}]
    BY <1>9 DEF FailBeforeDispatch, Leave, Verdicts
  <2>6. /\ pc' \in [Workers -> {"idle", "run", "boundary", "calling",
                            "answered", "repair", "ending"}]
        /\ UNCHANGED <<cmd, slot>>
    BY <1>9 DEF FailBeforeDispatch, Leave
  <2> QED
    BY <1>9, <2>1, <2>2, <2>3, <2>4, <2>5, <2>6 DEF FailBeforeDispatch, Touch
<1>10. ASSUME NEW w \in Workers, StartDispatch(w)
  PROVE  TypeOK'
  <2>1. attempts' \in [Commands -> Nat]
    BY <1>10, Bump DEF StartDispatch
  <2>2. mark' \in [Commands -> Slots \cup {0}]
    BY <1>10 DEF StartDispatch
  <2>3. state' \in [Commands -> States]
    BY <1>10 DEF StartDispatch, States
  <2> QED
    BY <1>10, <2>1, <2>2, <2>3 DEF StartDispatch, Touch
<1>11. ASSUME NEW w \in Workers, OpenCall(w)
  PROVE  TypeOK'
  BY <1>11 DEF OpenCall
<1>12. ASSUME NEW w \in Workers, CallProvider(w)
  PROVE  TypeOK'
  <2>1. accepted' \in [Commands -> Nat]
    BY <1>12, AddCopies DEF CallProvider
  <2>2. answer' \in [Workers -> Answers \cup Verdicts \cup {"none"}]
    BY <1>12 DEF CallProvider, Answers
  <2> QED
    BY <1>12, <2>1, <2>2 DEF CallProvider
<1>13. ASSUME NEW w \in Workers, LoseOutcome(w)
  PROVE  TypeOK'
  BY <1>13 DEF LoseOutcome, Leave, Answers, Verdicts, Rejections
<1>14. ASSUME NEW w \in Workers, SettleSuccess(w)
  PROVE  TypeOK'
  BY <1>14 DEF SettleSuccess, MaySettle, Leave, Touch, States, Answers,
         Verdicts, Rejections, Advance, Deliveries, Positive
<1>15. ASSUME NEW w \in Workers, KeepUncertain(w)
  PROVE  TypeOK'
  <2>1. state' \in [Commands -> States]
    BY <1>15 DEF KeepUncertain, Doubt, States
  <2>2. evidence' \in [Commands -> {"none", "conflict", "other"}]
    BY <1>15 DEF KeepUncertain
  <2>3. answer' \in [Workers -> Answers \cup Verdicts \cup {"none"}]
    BY <1>15 DEF KeepUncertain, Leave, Verdicts
  <2>4. /\ pc' \in [Workers -> {"idle", "run", "boundary", "calling",
                            "answered", "repair", "ending"}]
        /\ UNCHANGED <<cmd, slot>>
    BY <1>15, ZenonT(40) DEF KeepUncertain, Leave
  <2> QED
    BY <1>15, <2>1, <2>2, <2>3, <2>4 DEF KeepUncertain, Touch
<1>16. ASSUME NEW w \in Workers, SettlePaused(w)
  PROVE  TypeOK'
  <2>1. attempts' \in [Commands -> Nat]
    BY <1>16, Drop DEF SettlePaused
  <2>2. mark' \in [Commands -> Slots \cup {0}]
    BY <1>16 DEF SettlePaused, PersistSafeRetry
  <2>3. state' \in [Commands -> States]
    BY <1>16 DEF SettlePaused, PersistSafeRetry, States
  <2> QED
    BY <1>16, <2>1, <2>2, <2>3
    DEF SettlePaused, ExtendDeadline, Leave, Verdicts, Touch
<1>17. ASSUME NEW w \in Workers, SettleTransient(w)
  PROVE  TypeOK'
  <2>1. mark' \in [Commands -> Slots \cup {0}]
    BY <1>17 DEF SettleTransient, PersistSafeRetry
  <2>2. state' \in [Commands -> States]
    BY <1>17 DEF SettleTransient, PersistSafeRetry, Bury, States
  <2>3. delivery' \in [Commands -> Deliveries]
    <3>1. [delivery EXCEPT ![cmd[w]] = Advance(@, "failed")]
             \in [Commands -> Deliveries]
      BY DeliveryUpdate
    <3> QED
      BY <1>17, <3>1 DEF SettleTransient, Bury
  <2>4. answer' \in [Workers -> Answers \cup Verdicts \cup {"none"}]
    BY <1>17 DEF SettleTransient, Leave, Verdicts
  <2>5. /\ pc' \in [Workers -> {"idle", "run", "boundary", "calling",
                            "answered", "repair", "ending"}]
        /\ UNCHANGED <<cmd, slot>>
    BY <1>17 DEF SettleTransient, Leave
  <2> QED
    BY <1>17, <2>1, <2>2, <2>3, <2>4, <2>5
    DEF SettleTransient, ExtendDeadline, Touch
<1>18. ASSUME NEW w \in Workers, SettlePermanent(w)
  PROVE  TypeOK'
  BY <1>18 DEF SettlePermanent, MaySettle, Bury, Leave, Touch, States,
         Answers, Verdicts, Rejections, Advance, Deliveries, Positive
<1>19. ASSUME NEW w \in Workers, SettleAmbiguous(w)
  PROVE  TypeOK'
  BY <1>19 DEF SettleAmbiguous, MaySettle, Doubt, Leave, Touch, States,
         Answers, Verdicts, Rejections
<1>20. ASSUME NEW w \in Workers, RepairSuccess(w)
  PROVE  TypeOK'
  BY <1>20 DEF RepairSuccess, Reconcile, Provable, Leave, Touch, States,
         Answers, Verdicts, Rejections, Advance, Deliveries, Positive
<1>21. ASSUME NEW w \in Workers, GiveUpRepair(w)
  PROVE  TypeOK'
  BY <1>21 DEF GiveUpRepair, Leave, Answers, Verdicts, Rejections
<1>22. ASSUME NEW w \in Workers, EndJob(w)
  PROVE  TypeOK'
  <2>1. jobState' \in [Commands -> [Slots -> JobStates]]
    BY <1>22, JobUpdate DEF EndJob, SetJob, JobStates
  <2> QED
    BY <1>22, <2>1 DEF EndJob, Rest
<1>23. ASSUME NEW w \in Workers, FailJob(w)
  PROVE  TypeOK'
  <2>1. jobState' \in [Commands -> [Slots -> JobStates]]
    BY <1>23, JobUpdate DEF FailJob, SetJob, JobStates
  <2> QED
    BY <1>23, <2>1 DEF FailJob, Rest, Disrupt
<1>24. ASSUME NEW w \in Workers, Crash(w)
  PROVE  TypeOK'
  BY <1>24 DEF Crash, Rest, Disrupt
<1>25. ASSUME NEW c \in Commands, NEW i \in Slots, ResetJob(c, i)
  PROVE  TypeOK'
  BY <1>25 DEF ResetJob, Disrupt, JobStates
<1>26. ASSUME NEW c \in Commands, NEW i \in Slots, OperateJob(c, i)
  PROVE  TypeOK'
  <2>1. jobState' \in [Commands -> [Slots -> JobStates]]
    <3>1. \A s \in {"pending", "cancelled"} :
             [jobState EXCEPT ![c][i] = s] \in [Commands -> [Slots -> JobStates]]
      BY JobUpdate DEF JobStates
    <3> QED
      BY <1>26, <3>1 DEF OperateJob
  <2> QED
    <3>1. /\ UNCHANGED <<rowVars, bindVars, envVars, workerVars, rowStale,
                         accepted, unproven>>
          /\ Disrupt
      BY <1>26 DEF OperateJob
    <3> QED
      BY <2>1, <3>1 DEF Disrupt
<1>27. ASSUME NEW c \in Commands, RecoverOrphan(c)
  PROVE  TypeOK'
  <2>1. /\ owner' \in [Commands -> Slots \cup {0}]
         /\ jobState' \in [Commands -> [Slots -> JobStates]]
    BY <1>27, EnsureJobTypes DEF RecoverOrphan, Requeue
  <2> QED
    BY <1>27, <2>1 DEF RecoverOrphan, Requeue, Touch
<1>28. ASSUME NEW c \in Commands, RequeueByAdmin(c)
  PROVE  TypeOK'
  <2>1. /\ owner' \in [Commands -> Slots \cup {0}]
         /\ jobState' \in [Commands -> [Slots -> JobStates]]
    BY <1>28, EnsureJobTypes DEF RequeueByAdmin, Requeue
  <2> QED
    BY <1>28, <2>1 DEF RequeueByAdmin, Requeue, Touch
<1>29. ASSUME NEW c \in Commands, ResumeAfterHealth(c)
  PROVE  TypeOK'
  <2>1. /\ owner' \in [Commands -> Slots \cup {0}]
         /\ jobState' \in [Commands -> [Slots -> JobStates]]
    BY <1>29, EnsureJobTypes DEF ResumeAfterHealth, Requeue
  <2> QED
    BY <1>29, <2>1 DEF ResumeAfterHealth, Requeue, Touch
<1>30. ASSUME NEW c \in Commands, NEW s \in Positive, ReceiveEvidence(c, s)
  PROVE  TypeOK'
  <2>1. state' \in [Commands -> States]
    BY <1>30 DEF ReceiveEvidence, CompleteFromEvidence, States
  <2>2. delivery' \in [Commands -> Deliveries]
    <3>1. [delivery EXCEPT ![c] = Advance(@, s)] \in [Commands -> Deliveries]
      BY DeliveryUpdate
    <3> QED
      BY <1>30, <3>1 DEF ReceiveEvidence
  <2>3. ext' \in [Commands -> BOOLEAN]
    BY <1>30 DEF ReceiveEvidence
  <2>4. rowStale' \in [Workers -> BOOLEAN]
    <3>1. UNCHANGED rowStale \/ Touch(c)
      BY <1>30 DEF ReceiveEvidence, CompleteFromEvidence
    <3> QED
      BY <3>1 DEF Touch
  <2> QED
    <3>1. UNCHANGED <<attempts, owner, mark, evidence, resolution, envVars,
                      jobState, workerVars, accepted, unproven, disruptions>>
      BY <1>30 DEF ReceiveEvidence
    <3> QED
      BY <2>1, <2>2, <2>3, <2>4, <3>1
<1>31. ASSUME NEW c \in Commands, ConfirmDelivery(c)
  PROVE  TypeOK'
  BY <1>31 DEF ConfirmDelivery, Resolvable, Touch, States, Advance,
         Deliveries, Positive
<1>32. ASSUME NEW c \in Commands, CloseWithoutSend(c)
  PROVE  TypeOK'
  BY <1>32 DEF CloseWithoutSend, Resolvable, Touch, States
<1>33. ASSUME NEW c \in Commands, ReconcileByAdmin(c)
  PROVE  TypeOK'
  BY <1>33 DEF ReconcileByAdmin, Reconcile, Provable, Touch, States, Advance,
         Deliveries, Positive
<1>34. CASE ChangeGate
  BY <1>34 DEF ChangeGate
<1>35. CASE DeleteContent
  BY <1>35 DEF DeleteContent
<1>36. CASE UNCHANGED vars
  BY <1>36 DEF vars
<1> QED
  BY <1>1, <1>2, <1>3, <1>4, <1>5, <1>6, <1>7, <1>8, <1>9, <1>10,
     <1>11, <1>12, <1>13, <1>14, <1>15, <1>16, <1>17, <1>18, <1>19, <1>20,
     <1>21, <1>22, <1>23, <1>24, <1>25, <1>26, <1>27, <1>28, <1>29, <1>30,
     <1>31, <1>32, <1>33, <1>34, <1>35, <1>36
  DEF Next, WorkerStep, PrepareStep, SettleStep

(* The types hold before anything is sent. *)
LEMMA TypeInit == Init => TypeOK
<1> SUFFICES ASSUME Init PROVE TypeOK
  OBVIOUS
<1>1. /\ state \in [Commands -> States]
      /\ delivery \in [Commands -> Deliveries]
      /\ jobState \in [Commands -> [Slots -> JobStates]]
  BY DEF Init, States, Deliveries, JobStates
<1> QED
  BY <1>1 DEF Init, TypeOK

(* Every variable keeps its type: the command states, delivery states and job
   states the code declares, whatever the interleaving. *)
THEOREM TypeCorrect == Spec => []TypeOK
BY TypeInit, TypeStep, PTL DEF Spec

-----------------------------------------------------------------------------
(* Exclusion                                                                *)
(*                                                                          *)
(* ExclusionInv is inductive.  Its step is proved once per kind of step:    *)
(* one that leaves the commands alone, one that moves a command not yet     *)
(* sent, one that moves it to a state that is never sent again, and one     *)
(* that puts it back after a refusal; creation, the durable boundary and    *)
(* the provider call are each a kind of their own.                          *)

(* No worker starts a call, or changes the command or the answer of its call. *)
CallsKept ==
    \A v \in Workers : pc'[v] \in InFlight =>
        /\ cmd'[v] = cmd[v]
        /\ \/ pc[v] = "boundary" /\ pc'[v] = "calling"
           \/ pc'[v] = pc[v] /\ answer'[v] = answer[v]

(* No job and no running worker is new. *)
WorkKept ==
    /\ UNCHANGED jobState
    /\ \A v \in Workers : pc'[v] # "idle" => pc[v] # "idle" /\ cmd'[v] = cmd[v]

(* A worker that leaves with a verdict starts no call and no other work. *)
LEMMA Leaving ==
  ASSUME TypeOK, NEW w \in Workers, NEW verdict, pc[w] # "idle",
         Leave(w, verdict), UNCHANGED jobState
  PROVE  WorkKept /\ CallsKept /\ pc'[w] = "ending"
BY DEF Leave, WorkKept, CallsKept, InFlight, TypeOK

(* A worker that goes idle starts no call and no other work. *)
LEMMA Resting ==
  ASSUME TypeOK, NEW w \in Workers, Rest(w)
  PROVE  /\ CallsKept
         /\ \A v \in Workers : pc'[v] # "idle" =>
               pc[v] # "idle" /\ cmd'[v] = cmd[v]
BY DEF Rest, CallsKept, InFlight, TypeOK

(* A step that leaves the commands and the calls alone keeps the invariant. *)
LEMMA CallsFrame ==
  ASSUME ExclusionInv, TypeOK', WorkIsCreated', CallsKept,
         UNCHANGED <<state, resolution, accepted, unproven>>
  PROVE  ExclusionInv'
<1>1. ChainIsDead' /\ DoubtIsHeld'
  BY DEF ExclusionInv, ChainIsDead, DoubtIsHeld
<1>2. \A v \in Workers : pc'[v] \in InFlight => pc[v] \in InFlight
  BY DEF CallsKept, InFlight
<1>3. CallIsHeld' /\ OneCallInFlight'
  BY <1>2 DEF ExclusionInv, CallIsHeld, OneCallInFlight, CallsKept, Unsent
<1>4. AcceptanceIsSeen'
  BY DEF ExclusionInv, AcceptanceIsSeen, CallsKept, Unsent, InFlight
<1> QED
  BY <1>1, <1>3, <1>4 DEF ExclusionInv

(* A command that may be sent has no call in flight, so it may be put back,
   buried or cancelled. *)
LEMMA UnsentMove ==
  ASSUME ExclusionInv, TypeOK', WorkKept, CallsKept,
         UNCHANGED <<resolution, accepted, unproven>>,
         NEW c \in Commands, state[c] \in Sendable,
         NEW s \in {"pending", "retry", "dead", "cancelled"},
         state' = [state EXCEPT ![c] = s]
  PROVE  ExclusionInv'
<1> USE DEF Sendable
<1>1. \A d \in Commands : state'[d] = IF d = c THEN s ELSE state[d]
  BY DEF ExclusionInv, TypeOK
<1>2. WorkIsCreated'
  BY <1>1 DEF ExclusionInv, WorkIsCreated, WorkKept
<1>3. ChainIsDead'
  BY <1>1 DEF ExclusionInv, ChainIsDead
<1>4. DoubtIsHeld'
  BY <1>1 DEF ExclusionInv, DoubtIsHeld, TypeOK
<1>5. \A v \in Workers : pc'[v] \in InFlight =>
          pc[v] \in InFlight /\ cmd[v] \in Commands \ {c}
  BY DEF CallsKept, InFlight, ExclusionInv, CallIsHeld, Unsent, WorkIsCreated
<1>6. CallIsHeld' /\ OneCallInFlight'
  BY <1>1, <1>5 DEF ExclusionInv, CallIsHeld, OneCallInFlight, CallsKept, Unsent
<1>7. AcceptanceIsSeen'
  BY <1>1 DEF ExclusionInv, AcceptanceIsSeen, CallsKept, Unsent, InFlight
<1> QED
  BY <1>2, <1>3, <1>4, <1>6, <1>7 DEF ExclusionInv

(* A command may always move to a state from which it is never sent again. *)
LEMMA HeldMove ==
  ASSUME ExclusionInv, TypeOK', WorkKept, CallsKept,
         UNCHANGED <<accepted, unproven>>,
         NEW c \in Commands, state[c] \notin {"absent", "dead"},
         NEW s \in {"uncertain", "done", "cancelled"},
         state' = [state EXCEPT ![c] = s],
         s = "cancelled" => resolution'[c] # "none",
         \A d \in Commands \ {c} : resolution'[d] = resolution[d]
  PROVE  ExclusionInv'
<1>1. \A d \in Commands : state'[d] = IF d = c THEN s ELSE state[d]
  BY DEF ExclusionInv, TypeOK
<1>2. WorkIsCreated'
  BY <1>1 DEF ExclusionInv, WorkIsCreated, WorkKept
<1>3. ChainIsDead'
  BY <1>1 DEF ExclusionInv, ChainIsDead
<1>4. DoubtIsHeld'
  BY <1>1 DEF ExclusionInv, DoubtIsHeld, TypeOK
<1>5. \A v \in Workers : pc'[v] \in InFlight =>
          pc[v] \in InFlight /\ cmd[v] \in Commands
  BY DEF CallsKept, InFlight, ExclusionInv, WorkIsCreated
<1>6. \A d \in Commands : Unsent(d)' => d # c /\ Unsent(d)
  BY <1>1 DEF Unsent
<1>7. CallIsHeld' /\ OneCallInFlight'
  <2>1. ASSUME NEW v \in Workers, (pc[v] \in InFlight)'  PROVE ~Unsent(cmd[v])'
    BY <2>1, <1>1, <1>5 DEF ExclusionInv, CallIsHeld, CallsKept, Unsent
  <2> QED
    BY <2>1, <1>5 DEF CallIsHeld, OneCallInFlight, ExclusionInv
<1>8. AcceptanceIsSeen'
  BY <1>6 DEF ExclusionInv, AcceptanceIsSeen, CallsKept, InFlight
<1> QED
  BY <1>2, <1>3, <1>4, <1>7, <1>8 DEF ExclusionInv

(* A command the provider refused may be put back or buried: the only call of
   the lineage is the one that was refused. *)
LEMMA RefusedMove ==
  ASSUME ExclusionInv, TypeOK', WorkKept, CallsKept,
         UNCHANGED <<resolution, accepted>>,
         NEW w \in Workers, pc[w] = "answered", answer[w] \in Rejections,
         pc'[w] \notin InFlight,
         NEW s \in {"pending", "retry", "dead"},
         state' = [state EXCEPT ![cmd[w]] = s],
         unproven' = unproven \ {cmd[w]}
  PROVE  ExclusionInv'
<1> DEFINE c == cmd[w]
<1>0. c \in Commands /\ state[c] \notin {"absent", "dead"} /\ pc[w] \in InFlight
  BY DEF ExclusionInv, WorkIsCreated, CallIsHeld, Unsent, InFlight
<1> HIDE DEF c
<1>1. \A d \in Commands : state'[d] = IF d = c THEN s ELSE state[d]
  BY DEF ExclusionInv, TypeOK, c
<1>2. WorkIsCreated'
  BY <1>1 DEF ExclusionInv, WorkIsCreated, WorkKept
<1>3. ChainIsDead'
  BY <1>0, <1>1 DEF ExclusionInv, ChainIsDead
<1>4. DoubtIsHeld'
  BY <1>1 DEF ExclusionInv, DoubtIsHeld, TypeOK, c
<1>5. \A v \in Workers : pc'[v] \notin InFlight
  BY <1>0 DEF CallsKept, InFlight, ExclusionInv, OneCallInFlight
<1>6. CallIsHeld' /\ OneCallInFlight'
  BY <1>5 DEF CallIsHeld, OneCallInFlight
<1>7. AcceptanceIsSeen'
  <2>1. RejectionIsProof => accepted[c] = 0
    BY DEF ExclusionInv, AcceptanceIsSeen, c
  <2> QED
    BY <1>1, <1>5, <2>1 DEF ExclusionInv, AcceptanceIsSeen, Unsent, InFlight
<1> QED
  BY <1>2, <1>3, <1>4, <1>6, <1>7 DEF ExclusionInv

(* A command created over dead predecessors keeps the invariant: it is the
   last of its chain, and no call of the chain is in flight. *)
LEMMA Creation ==
  ASSUME ExclusionInv, TypeOK', NEW c \in Commands, Create(c),
         \A d \in Commands : d < c => state[d] = "dead"
  PROVE  ExclusionInv'
<1>1. \A d \in Commands : state'[d] = IF d = c THEN "pending" ELSE state[d]
  BY DEF Create, ExclusionInv, TypeOK
<1>2. \A d \in Commands : d # c => jobState'[d] = jobState[d]
  BY DEF Create, ExclusionInv, TypeOK
<1>3. WorkIsCreated'
  BY <1>1, <1>2 DEF ExclusionInv, WorkIsCreated, Create, workerVars
<1>4. \A d \in Commands : c < d => state[d] = "absent"
  BY DEF Create, ExclusionInv, ChainIsDead
<1>5. ChainIsDead'
  BY <1>1, <1>4 DEF ExclusionInv, ChainIsDead, Commands
<1>6. DoubtIsHeld'
  BY <1>1 DEF ExclusionInv, DoubtIsHeld, TypeOK, Create
<1>7. \A d \in Commands : Unsent(d)' => Unsent(d)
  BY <1>1 DEF Unsent, Create
<1>8. CallIsHeld' /\ OneCallInFlight' /\ AcceptanceIsSeen'
  BY <1>7 DEF ExclusionInv, CallIsHeld, OneCallInFlight, AcceptanceIsSeen,
     Create, workerVars, WorkIsCreated, InFlight
<1> QED
  BY <1>3, <1>5, <1>6, <1>8 DEF ExclusionInv

(* The boundary is crossed by a command that looks unsent, so no call of it is in
   flight; and none of another command is, for that one would be dead. *)
LEMMA Boundary ==
  ASSUME ExclusionInv, TypeOK', NEW w \in Workers, StartDispatch(w)
  PROVE  ExclusionInv'
<1> DEFINE c == cmd[w]
<1>1. c \in Commands /\ state[c] \in Sendable /\ Unsent(c)
  BY
  DEF StartDispatch, MayPrepare, ExclusionInv, WorkIsCreated, Unsent, Sendable
<1>2. /\ state' = [state EXCEPT ![c] = "processing"]
      /\ pc' = [pc EXCEPT ![w] = "boundary"]
      /\ unproven' = unproven \cup {c}
      /\ UNCHANGED <<resolution, accepted, jobState, cmd, answer>>
  BY DEF StartDispatch
<1> HIDE DEF c
<1>3. \A d \in Commands : state'[d] = IF d = c THEN "processing" ELSE state[d]
  BY <1>2 DEF ExclusionInv, TypeOK
<1>4. \A v \in Workers : pc'[v] = IF v = w THEN "boundary" ELSE pc[v]
  BY <1>2 DEF ExclusionInv, TypeOK
<1>5. WorkIsCreated'
  <2>1. cmd[w] \in Commands
    BY <1>1 DEF c
  <2> QED
    BY <1>1, <1>2, <1>3, <1>4, <2>1 DEF ExclusionInv, WorkIsCreated, c
<1>6. ChainIsDead'
  BY <1>1, <1>3 DEF ExclusionInv, ChainIsDead, Sendable
<1>7. DoubtIsHeld'
  BY <1>1, <1>2, <1>3 DEF ExclusionInv, DoubtIsHeld, TypeOK
<1>8. \A v \in Workers : pc[v] \notin InFlight
  <2> SUFFICES ASSUME NEW v \in Workers, pc[v] \in InFlight PROVE FALSE
    OBVIOUS
  <2>1. ~Unsent(cmd[v]) /\ cmd[v] \in Commands /\ state[cmd[v]] # "absent"
    BY DEF ExclusionInv, CallIsHeld, WorkIsCreated, InFlight
  <2>2. cmd[v] # c
    BY <1>1, <2>1
  <2>3. state[cmd[v]] = "dead" \/ state[c] = "dead"
    BY <1>1, <2>1, <2>2 DEF ExclusionInv, ChainIsDead, Commands, Sendable
  <2> QED
    BY <1>1, <2>1, <2>3 DEF Unsent, Sendable
<1>9. CallIsHeld' /\ OneCallInFlight'
  BY <1>1, <1>2, <1>3, <1>4, <1>8 DEF CallIsHeld, OneCallInFlight, Unsent, c
<1>10. AcceptanceIsSeen'
  <2>1. RejectionIsProof => accepted[c] = 0
    BY <1>1 DEF ExclusionInv, AcceptanceIsSeen
  <2>2. \A d \in Commands : Unsent(d)' => Unsent(d)
    BY <1>2, <1>3 DEF Unsent
  <2> QED
    BY <1>2, <1>4, <1>8, <2>1, <2>2
    DEF ExclusionInv, AcceptanceIsSeen, InFlight, c
<1> QED
  BY <1>5, <1>6, <1>7, <1>9, <1>10 DEF ExclusionInv

(* The provider takes a copy only from the one call in flight, whose command had
   none accepted before. *)
LEMMA Call ==
  ASSUME ExclusionInv, TypeOK', NEW w \in Workers, CallProvider(w)
  PROVE  ExclusionInv'
<1> DEFINE c == cmd[w]
<1>1. PICK a \in Answers, copies \in {0, 1} :
        /\ a \in Rejections /\ RejectionIsProof => copies = 0
        /\ accepted' = [accepted EXCEPT ![c] = @ + copies]
        /\ answer' = [answer EXCEPT ![w] = a]
  BY DEF CallProvider
<1>2. /\ pc[w] = "calling" /\ pc' = [pc EXCEPT ![w] = "answered"]
      /\ UNCHANGED <<state, resolution, jobState, cmd, unproven>>
  BY DEF CallProvider, rowVars, workerVars
<1>3. c \in Commands /\ ~Unsent(c)
  BY <1>2 DEF ExclusionInv, WorkIsCreated, CallIsHeld, InFlight
<1> HIDE DEF c
<1>4. \A v \in Workers : /\ pc'[v] = IF v = w THEN "answered" ELSE pc[v]
                         /\ answer'[v] = IF v = w THEN a ELSE answer[v]
  BY <1>1, <1>2 DEF ExclusionInv, TypeOK
<1>5. \A d \in Commands :
         accepted'[d] = IF d = c THEN accepted[d] + copies ELSE accepted[d]
  BY <1>1 DEF ExclusionInv, TypeOK
<1>6. WorkIsCreated' /\ ChainIsDead' /\ DoubtIsHeld'
  BY <1>2, <1>4 DEF ExclusionInv, WorkIsCreated, ChainIsDead, DoubtIsHeld
<1>7. CallIsHeld' /\ OneCallInFlight'
  BY <1>2, <1>4 DEF ExclusionInv, CallIsHeld, OneCallInFlight, InFlight, Unsent
<1>8. \A v \in Workers : v # w => pc'[v] \notin InFlight
  BY <1>2, <1>4 DEF ExclusionInv, OneCallInFlight, InFlight
<1>9. AcceptanceIsSeen'
  <2>1. RejectionIsProof => accepted[c] = 0
    BY <1>2 DEF ExclusionInv, AcceptanceIsSeen, c
  <2>2. \A d \in Commands : Unsent(d)' => d # c /\ Unsent(d)
    BY <1>2, <1>3 DEF Unsent
  <2>3. cmd'[w] = c
    BY <1>2 DEF c
  <2> QED
    BY <1>1, <1>3, <1>4, <1>5, <1>8, <2>1, <2>2, <2>3
    DEF ExclusionInv, AcceptanceIsSeen, InFlight
<1> QED
  BY <1>6, <1>7, <1>9 DEF ExclusionInv

(* Putting a command back to work makes jobs for that command only. *)
LEMMA EnsureJobKeeps ==
  ASSUME TypeOK, NEW c \in Commands, EnsureJob(c)
  PROVE  \A d \in Commands, i \in Slots :
            jobState'[d][i] # "none" => d = c \/ jobState[d][i] # "none"
BY DEF TypeOK, EnsureJob

(* Every step keeps the invariant, one action of Next at a time. *)
LEMMA ExclusionStep == ExclusionInv /\ [Next]_vars => ExclusionInv'
<1> SUFFICES ASSUME ExclusionInv, [Next]_vars PROVE ExclusionInv'
  OBVIOUS
<1>0. TypeOK'
  BY TypeStep DEF ExclusionInv
<1> USE <1>0 DEF rowVars, bindVars, envVars, workerVars
<1>1. CASE SendMessage
  <2>1. \A d \in Commands : ~(d < 1)
    BY DEF Commands
  <2> QED
    BY <1>1, <2>1, Creation, First DEF SendMessage
<1>2. ASSUME NEW c \in Commands, ResendMessage(c)
  PROVE  ExclusionInv'
  <2>1. c + 1 \in Commands /\ Create(c + 1) /\ state[c] = "dead"
    BY <1>2 DEF ResendMessage
  <2>2. \A d \in Commands : d < c + 1 => d = c \/ d < c
    BY DEF Commands
  <2>3. \A d \in Commands : d < c + 1 => state[d] = "dead"
    BY <2>1, <2>2 DEF ExclusionInv, ChainIsDead
  <2> QED
    BY <2>1, <2>3, Creation
<1>3. ASSUME NEW w \in Workers, NEW c \in Commands, NEW i \in Slots, StartJob(w, c, i)
  PROVE  ExclusionInv'
  <2>1. UNCHANGED <<state, resolution, accepted, unproven>> /\ CallsKept
    BY <1>3 DEF StartJob, ExclusionInv, TypeOK, CallsKept, InFlight
  <2>2. WorkIsCreated'
    BY <1>3 DEF StartJob, ExclusionInv, TypeOK, WorkIsCreated, ExclusionInv
  <2> QED
    BY <2>1, <2>2, CallsFrame
<1>4. ASSUME NEW w \in Workers, SkipJob(w)
  PROVE  ExclusionInv'
  <2>1. UNCHANGED <<state, resolution, accepted, unproven>> /\ CallsKept
    BY <1>4 DEF SkipJob, Leave, CallsKept, InFlight
  <2>2. WorkIsCreated'
    BY <1>4 DEF SkipJob, Leave, WorkIsCreated, ExclusionInv
  <2> QED
    BY <2>1, <2>2, CallsFrame
<1>5. ASSUME NEW w \in Workers, ObserveBoundary(w)
  PROVE  ExclusionInv'
  <2>1. /\ cmd[w] \in Commands /\ state[cmd[w]] \notin {"absent", "dead"}
        /\ UNCHANGED <<resolution, accepted, unproven>>
    BY <1>5 DEF ObserveBoundary, Doubt, Leave, ExclusionInv, WorkIsCreated
  <2>2. \E s \in {"uncertain", "done"} : state' = [state EXCEPT ![cmd[w]] = s]
    BY <1>5 DEF ObserveBoundary, Doubt, Leave
  <2>3. WorkKept /\ CallsKept
    BY <1>5, Leaving DEF ObserveBoundary, ExclusionInv
  <2> QED
    BY <2>1, <2>2, <2>3, HeldMove
<1>6. ASSUME NEW w \in Workers, CancelRetry(w)
  PROVE  ExclusionInv'
  <2>1. /\ cmd[w] \in Commands /\ state[cmd[w]] \in Sendable
        /\ UNCHANGED <<resolution, accepted, unproven>>
    BY <1>6 DEF CancelRetry, MayPrepare, ExclusionInv, WorkIsCreated
  <2>2. \E s \in {"pending", "retry", "dead", "cancelled"} :
           state' = [state EXCEPT ![cmd[w]] = s]
    BY <1>6 DEF CancelRetry
  <2>3. WorkKept /\ CallsKept
    BY <1>6, Leaving DEF CancelRetry, MayPrepare, ExclusionInv
  <2> QED
    BY <2>1, <2>2, <2>3, UnsentMove
<1>7. ASSUME NEW w \in Workers, PostponeDispatch(w)
  PROVE  ExclusionInv'
  <2>1. /\ cmd[w] \in Commands /\ state[cmd[w]] \in Sendable
        /\ UNCHANGED <<resolution, accepted, unproven>>
    BY <1>7
    DEF PostponeDispatch, PersistSafeRetry, MayPrepare, ExclusionInv,
       WorkIsCreated
  <2>2. \E s \in {"pending", "retry", "dead", "cancelled"} :
           state' = [state EXCEPT ![cmd[w]] = s]
    BY <1>7 DEF PostponeDispatch, PersistSafeRetry
  <2>3. WorkKept /\ CallsKept
    BY <1>7, Leaving DEF PostponeDispatch, MayPrepare, ExclusionInv
  <2> QED
    BY <2>1, <2>2, <2>3, UnsentMove
<1>8. ASSUME NEW w \in Workers, RejectBeforeDispatch(w)
  PROVE  ExclusionInv'
  <2>1. /\ cmd[w] \in Commands /\ state[cmd[w]] \in Sendable
        /\ UNCHANGED <<resolution, accepted, unproven>>
    BY <1>8
    DEF RejectBeforeDispatch, Bury, MayPrepare, ExclusionInv, WorkIsCreated
  <2>2. \E s \in {"pending", "retry", "dead", "cancelled"} :
           state' = [state EXCEPT ![cmd[w]] = s]
    BY <1>8 DEF RejectBeforeDispatch, Bury
  <2>3. WorkKept /\ CallsKept
    BY <1>8, Leaving DEF RejectBeforeDispatch, MayPrepare, ExclusionInv
  <2> QED
    BY <2>1, <2>2, <2>3, UnsentMove
<1>9. ASSUME NEW w \in Workers, FailBeforeDispatch(w)
  PROVE  ExclusionInv'
  <2>1. /\ cmd[w] \in Commands /\ state[cmd[w]] \in Sendable
        /\ UNCHANGED <<resolution, accepted, unproven>>
    BY <1>9
    DEF FailBeforeDispatch, PersistSafeRetry, Bury, MayPrepare, ExclusionInv,
       WorkIsCreated
  <2>2. \E s \in {"pending", "retry", "dead", "cancelled"} :
           state' = [state EXCEPT ![cmd[w]] = s]
    BY <1>9 DEF FailBeforeDispatch, PersistSafeRetry, Bury
  <2>3. WorkKept /\ CallsKept
    <3>1. pc[w] # "idle" /\ UNCHANGED jobState /\ \E v \in Verdicts : Leave(w, v)
      BY <1>9 DEF FailBeforeDispatch, MayPrepare, Verdicts
    <3> QED
      BY <3>1, Leaving DEF ExclusionInv
  <2> QED
    BY <2>1, <2>2, <2>3, UnsentMove
<1>10. ASSUME NEW w \in Workers, StartDispatch(w)
  PROVE  ExclusionInv'
  BY <1>10, Boundary
<1>11. ASSUME NEW w \in Workers, OpenCall(w)
  PROVE  ExclusionInv'
  <2>1. UNCHANGED <<state, resolution, accepted, unproven>> /\ CallsKept
    BY <1>11 DEF OpenCall, CallsKept, InFlight
  <2>2. WorkIsCreated'
    BY <1>11 DEF OpenCall, WorkIsCreated, ExclusionInv
  <2> QED
    BY <2>1, <2>2, CallsFrame
<1>12. ASSUME NEW w \in Workers, CallProvider(w)
  PROVE  ExclusionInv'
  BY <1>12, Call
<1>13. ASSUME NEW w \in Workers, LoseOutcome(w)
  PROVE  ExclusionInv'
  <2>1. UNCHANGED <<state, resolution, accepted, unproven>> /\ CallsKept
    BY <1>13, Leaving DEF LoseOutcome, ExclusionInv
  <2>2. WorkIsCreated'
    BY <1>13 DEF LoseOutcome, Leave, WorkIsCreated, ExclusionInv
  <2> QED
    BY <2>1, <2>2, CallsFrame
<1>14. ASSUME NEW w \in Workers, SettleSuccess(w)
  PROVE  ExclusionInv'
  <2>1. /\ cmd[w] \in Commands /\ state[cmd[w]] \notin {"absent", "dead"}
        /\ UNCHANGED <<resolution, accepted, unproven>>
    BY <1>14
    DEF SettleSuccess, MaySettle, Leave, CallIsHeld, Unsent, InFlight,
       ExclusionInv, WorkIsCreated
  <2>2. \E s \in {"uncertain", "done"} : state' = [state EXCEPT ![cmd[w]] = s]
    BY <1>14 DEF SettleSuccess, MaySettle, Leave
  <2>3. WorkKept /\ CallsKept
    BY <1>14, Leaving DEF SettleSuccess, MaySettle, ExclusionInv
  <2> QED
    BY <2>1, <2>2, <2>3, HeldMove
<1>15. ASSUME NEW w \in Workers, KeepUncertain(w)
  PROVE  ExclusionInv'
  <2>1. /\ cmd[w] \in Commands /\ state[cmd[w]] \notin {"absent", "dead"}
        /\ UNCHANGED <<resolution, accepted, unproven>>
    BY <1>15
    DEF KeepUncertain, Doubt, MaySettle, Leave, CallIsHeld, Unsent, InFlight,
       ExclusionInv, WorkIsCreated
  <2>2. \E s \in {"uncertain", "done"} : state' = [state EXCEPT ![cmd[w]] = s]
    BY <1>15 DEF KeepUncertain, Doubt, MaySettle, Leave
  <2>3. WorkKept /\ CallsKept
    <3>1. CASE \E v \in Verdicts : Leave(w, v)
      BY <1>15, <3>1, Leaving DEF KeepUncertain, MaySettle, ExclusionInv
    <3>2. CASE pc' = [pc EXCEPT ![w] = "repair"] /\ UNCHANGED <<cmd, slot, answer>>
      <4>1. UNCHANGED jobState /\ pc[w] = "answered"
        BY <1>15 DEF KeepUncertain, MaySettle
      <4> QED
        BY <3>2, <4>1 DEF WorkKept, CallsKept, InFlight, ExclusionInv, TypeOK
    <3> QED
      BY <1>15, <3>1, <3>2 DEF KeepUncertain, Verdicts
  <2> QED
    BY <2>1, <2>2, <2>3, HeldMove
<1>16. ASSUME NEW w \in Workers, SettlePaused(w)
  PROVE  ExclusionInv'
  <2>1. /\ pc[w] = "answered" /\ answer[w] \in Rejections
        /\ pc'[w] \notin InFlight
        /\ UNCHANGED <<resolution, accepted>>
        /\ unproven' = unproven \ {cmd[w]}
    BY <1>16
    DEF SettlePaused, PersistSafeRetry, MaySettle, Leave, Rejections, InFlight,
       ExclusionInv, TypeOK
  <2>2. \E s \in {"pending", "retry", "dead"} : state' = [state EXCEPT ![cmd[w]] = s]
    BY <1>16 DEF SettlePaused, PersistSafeRetry
  <2>3. WorkKept /\ CallsKept
    BY <1>16, Leaving DEF SettlePaused, MaySettle, ExclusionInv
  <2> QED
    BY <2>1, <2>2, <2>3, RefusedMove
<1>17. ASSUME NEW w \in Workers, SettleTransient(w)
  PROVE  ExclusionInv'
  <2>1. /\ pc[w] = "answered" /\ answer[w] \in Rejections
        /\ pc'[w] \notin InFlight
        /\ UNCHANGED <<resolution, accepted>>
        /\ unproven' = unproven \ {cmd[w]}
    BY <1>17
    DEF SettleTransient, PersistSafeRetry, Bury, MaySettle, Leave, Rejections,
       InFlight, ExclusionInv, TypeOK
  <2>2. \E s \in {"pending", "retry", "dead"} : state' = [state EXCEPT ![cmd[w]] = s]
    BY <1>17 DEF SettleTransient, PersistSafeRetry, Bury
  <2>3. WorkKept /\ CallsKept
    <3>1. pc[w] # "idle" /\ UNCHANGED jobState /\ \E v \in Verdicts : Leave(w, v)
      BY <1>17 DEF SettleTransient, MaySettle, Verdicts
    <3> QED
      BY <3>1, Leaving DEF ExclusionInv
  <2> QED
    BY <2>1, <2>2, <2>3, RefusedMove
<1>18. ASSUME NEW w \in Workers, SettlePermanent(w)
  PROVE  ExclusionInv'
  <2>1. /\ pc[w] = "answered" /\ answer[w] \in Rejections
        /\ pc'[w] \notin InFlight
        /\ UNCHANGED <<resolution, accepted>>
        /\ unproven' = unproven \ {cmd[w]}
    BY <1>18
    DEF SettlePermanent, Bury, MaySettle, Leave, Rejections, InFlight,
       ExclusionInv, TypeOK
  <2>2. \E s \in {"pending", "retry", "dead"} : state' = [state EXCEPT ![cmd[w]] = s]
    BY <1>18 DEF SettlePermanent, Bury
  <2>3. WorkKept /\ CallsKept
    BY <1>18, Leaving DEF SettlePermanent, MaySettle, ExclusionInv
  <2> QED
    BY <2>1, <2>2, <2>3, RefusedMove
<1>19. ASSUME NEW w \in Workers, SettleAmbiguous(w)
  PROVE  ExclusionInv'
  <2>1. /\ cmd[w] \in Commands /\ state[cmd[w]] \notin {"absent", "dead"}
        /\ UNCHANGED <<resolution, accepted, unproven>>
    BY <1>19
    DEF SettleAmbiguous, Doubt, MaySettle, Leave, CallIsHeld, Unsent, InFlight,
       ExclusionInv, WorkIsCreated
  <2>2. \E s \in {"uncertain", "done"} : state' = [state EXCEPT ![cmd[w]] = s]
    BY <1>19 DEF SettleAmbiguous, Doubt, MaySettle, Leave
  <2>3. WorkKept /\ CallsKept
    BY <1>19, Leaving DEF SettleAmbiguous, MaySettle, ExclusionInv
  <2> QED
    BY <2>1, <2>2, <2>3, HeldMove
<1>20. ASSUME NEW w \in Workers, RepairSuccess(w)
  PROVE  ExclusionInv'
  <2>1. /\ cmd[w] \in Commands /\ state[cmd[w]] \notin {"absent", "dead"}
        /\ UNCHANGED <<resolution, accepted, unproven>>
    BY <1>20
    DEF RepairSuccess, Reconcile, Provable, Leave, ExclusionInv, WorkIsCreated
  <2>2. \E s \in {"uncertain", "done"} : state' = [state EXCEPT ![cmd[w]] = s]
    BY <1>20 DEF RepairSuccess, Reconcile, Provable, Leave
  <2>3. WorkKept /\ CallsKept
    BY <1>20, Leaving DEF RepairSuccess, Reconcile, ExclusionInv
  <2> QED
    BY <2>1, <2>2, <2>3, HeldMove
<1>21. ASSUME NEW w \in Workers, GiveUpRepair(w)
  PROVE  ExclusionInv'
  <2>1. UNCHANGED <<state, resolution, accepted, unproven>> /\ CallsKept
    BY <1>21 DEF GiveUpRepair, Leave, CallsKept, InFlight
  <2>2. WorkIsCreated'
    BY <1>21 DEF GiveUpRepair, Leave, WorkIsCreated, ExclusionInv
  <2> QED
    BY <2>1, <2>2, CallsFrame
<1>22. ASSUME NEW w \in Workers, EndJob(w)
  PROVE  ExclusionInv'
  <2>1. UNCHANGED <<state, resolution, accepted, unproven>> /\ CallsKept
    BY <1>22 DEF EndJob, Rest, SetJob, CallsKept, InFlight
  <2>2. WorkIsCreated'
    BY <1>22 DEF EndJob, Rest, SetJob, TypeOK, WorkIsCreated, ExclusionInv
  <2> QED
    BY <2>1, <2>2, CallsFrame
<1>23. ASSUME NEW w \in Workers, FailJob(w)
  PROVE  ExclusionInv'
  <2>1. UNCHANGED <<state, resolution, accepted, unproven>> /\ CallsKept
    BY <1>23, Resting DEF FailJob, ExclusionInv
  <2>2. WorkIsCreated'
    BY <1>23 DEF FailJob, Rest, SetJob, TypeOK, WorkIsCreated, ExclusionInv
  <2> QED
    BY <2>1, <2>2, CallsFrame
<1>24. ASSUME NEW w \in Workers, Crash(w)
  PROVE  ExclusionInv'
  <2>1. UNCHANGED <<state, resolution, accepted, unproven>> /\ CallsKept
    BY <1>24, Resting DEF Crash, ExclusionInv
  <2>2. WorkIsCreated'
    BY <1>24, Resting DEF Crash, WorkIsCreated, ExclusionInv
  <2> QED
    BY <2>1, <2>2, CallsFrame
<1>25. ASSUME NEW c \in Commands, NEW i \in Slots, ResetJob(c, i)
  PROVE  ExclusionInv'
  <2>1. UNCHANGED <<state, resolution, accepted, unproven>> /\ CallsKept
    BY <1>25 DEF ResetJob, CallsKept, InFlight
  <2>2. WorkIsCreated'
    BY <1>25 DEF ResetJob, TypeOK, WorkIsCreated, ExclusionInv
  <2> QED
    BY <2>1, <2>2, CallsFrame
<1>26. ASSUME NEW c \in Commands, NEW i \in Slots, OperateJob(c, i)
  PROVE  ExclusionInv'
  <2>1. UNCHANGED <<state, resolution, accepted, unproven>> /\ CallsKept
    BY <1>26 DEF OperateJob, CallsKept, InFlight
  <2>2. WorkIsCreated'
    <3>1. jobState[c][i] # "none"
      BY <1>26 DEF OperateJob
    <3>2. PICK s \in JobStates : jobState' = [jobState EXCEPT ![c][i] = s]
      BY <1>26 DEF OperateJob, JobStates
    <3>3. \A d \in Commands, k \in Slots :
             jobState'[d][k] # "none" => jobState[d][k] # "none"
      BY <3>1, <3>2 DEF ExclusionInv, TypeOK
    <3> QED
      BY <1>26, <3>3 DEF OperateJob, WorkIsCreated, ExclusionInv
  <2> QED
    BY <2>1, <2>2, CallsFrame
<1>27. ASSUME NEW c \in Commands, RecoverOrphan(c)
  PROVE  ExclusionInv'
  <2>1. UNCHANGED <<state, resolution, accepted, unproven>> /\ CallsKept
    BY <1>27 DEF RecoverOrphan, Requeue, CallsKept, InFlight
  <2>2. WorkIsCreated'
    <3>1. \A d \in Commands, i \in Slots :
             jobState'[d][i] # "none" => d = c \/ jobState[d][i] # "none"
      BY <1>27, EnsureJobKeeps DEF RecoverOrphan, Requeue, ExclusionInv
    <3>2. state[c] # "absent" /\ UNCHANGED <<state, workerVars>>
      BY <1>27 DEF RecoverOrphan, Requeue, Requeueable, Sendable
    <3> QED
      BY <3>1, <3>2 DEF WorkIsCreated, ExclusionInv
  <2> QED
    BY <2>1, <2>2, CallsFrame
<1>28. ASSUME NEW c \in Commands, RequeueByAdmin(c)
  PROVE  ExclusionInv'
  <2>1. UNCHANGED <<state, resolution, accepted, unproven>> /\ CallsKept
    BY <1>28 DEF RequeueByAdmin, Requeue, CallsKept, InFlight
  <2>2. WorkIsCreated'
    <3>1. \A d \in Commands, i \in Slots :
             jobState'[d][i] # "none" => d = c \/ jobState[d][i] # "none"
      BY <1>28, EnsureJobKeeps DEF RequeueByAdmin, Requeue, ExclusionInv
    <3>2. state[c] # "absent" /\ UNCHANGED <<state, workerVars>>
      BY <1>28 DEF RequeueByAdmin, Requeue, Requeueable, Sendable
    <3> QED
      BY <3>1, <3>2 DEF WorkIsCreated, ExclusionInv
  <2> QED
    BY <2>1, <2>2, CallsFrame
<1>29. ASSUME NEW c \in Commands, ResumeAfterHealth(c)
  PROVE  ExclusionInv'
  <2>1. UNCHANGED <<state, resolution, accepted, unproven>> /\ CallsKept
    BY <1>29 DEF ResumeAfterHealth, Requeue, CallsKept, InFlight
  <2>2. WorkIsCreated'
    <3>1. \A d \in Commands, i \in Slots :
             jobState'[d][i] # "none" => d = c \/ jobState[d][i] # "none"
      BY <1>29, EnsureJobKeeps DEF ResumeAfterHealth, Requeue, ExclusionInv
    <3>2. state[c] # "absent" /\ UNCHANGED <<state, workerVars>>
      BY <1>29 DEF ResumeAfterHealth, Requeue, Requeueable, Sendable
    <3> QED
      BY <3>1, <3>2 DEF WorkIsCreated, ExclusionInv
  <2> QED
    BY <2>1, <2>2, CallsFrame
<1>30. ASSUME NEW c \in Commands, NEW s \in Positive, ReceiveEvidence(c, s)
  PROVE  ExclusionInv'
  <2>1. UNCHANGED <<accepted, unproven, resolution, jobState, workerVars>>
    BY <1>30 DEF ReceiveEvidence
  <2>2. CallsKept /\ WorkKept
    BY <2>1 DEF CallsKept, WorkKept
  <2>3. CASE state[c] \in Sendable \cup {"uncertain"}
    <3>1. state' = [state EXCEPT ![c] = "done"]
      BY <1>30, <2>3 DEF ReceiveEvidence, CompleteFromEvidence
    <3>2. state[c] \notin {"absent", "dead"}
      BY <2>3 DEF Sendable
    <3> QED
      BY <2>1, <2>2, <3>1, <3>2, HeldMove
  <2>4. CASE state[c] \notin Sendable \cup {"uncertain"}
    <3>1. UNCHANGED state
      BY <1>30, <2>4 DEF ReceiveEvidence, CompleteFromEvidence
    <3>2. WorkIsCreated'
      BY <2>1, <3>1 DEF WorkIsCreated, ExclusionInv
    <3> QED
      BY <2>1, <2>2, <3>1, <3>2, CallsFrame
  <2> QED
    BY <2>3, <2>4
<1>31. ASSUME NEW c \in Commands, ConfirmDelivery(c)
  PROVE  ExclusionInv'
  <2>1. /\ state[c] \notin {"absent", "dead"} /\ UNCHANGED <<accepted, unproven>>
        /\ \A d \in Commands \ {c} : resolution'[d] = resolution[d]
    BY <1>31 DEF ConfirmDelivery, Resolvable, ExclusionInv, TypeOK
  <2>2. \E s \in {"done"} : state' = [state EXCEPT ![c] = s]
    BY <1>31 DEF ConfirmDelivery
  <2>3. WorkKept /\ CallsKept
    BY <1>31 DEF ConfirmDelivery, WorkKept, CallsKept, InFlight
  <2> QED
    BY <1>31, <2>1, <2>2, <2>3, HeldMove DEF ConfirmDelivery
<1>32. ASSUME NEW c \in Commands, CloseWithoutSend(c)
  PROVE  ExclusionInv'
  <2>1. /\ state[c] \notin {"absent", "dead"} /\ UNCHANGED <<accepted, unproven>>
        /\ \A d \in Commands \ {c} : resolution'[d] = resolution[d]
    BY <1>32 DEF CloseWithoutSend, Resolvable, ExclusionInv, TypeOK
  <2>2. \E s \in {"cancelled"} : state' = [state EXCEPT ![c] = s]
    BY <1>32 DEF CloseWithoutSend
  <2>3. WorkKept /\ CallsKept
    BY <1>32 DEF CloseWithoutSend, WorkKept, CallsKept, InFlight
  <2>4. resolution'[c] # "none"
    BY <1>32 DEF CloseWithoutSend, ExclusionInv, TypeOK
  <2> QED
    BY <2>1, <2>2, <2>3, <2>4, HeldMove
<1>33. ASSUME NEW c \in Commands, ReconcileByAdmin(c)
  PROVE  ExclusionInv'
  <2>1. /\ state[c] \notin {"absent", "dead"} /\ UNCHANGED <<accepted, unproven>>
        /\ \A d \in Commands \ {c} : resolution'[d] = resolution[d]
    BY <1>33 DEF ReconcileByAdmin, Reconcile, Provable, ExclusionInv, TypeOK
  <2>2. \E s \in {"done"} : state' = [state EXCEPT ![c] = s]
    BY <1>33 DEF ReconcileByAdmin, Reconcile, Provable
  <2>3. WorkKept /\ CallsKept
    BY <1>33
    DEF ReconcileByAdmin, Reconcile, Provable, WorkKept, CallsKept, InFlight
  <2> QED
    BY <1>33, <2>1, <2>2, <2>3, HeldMove
    DEF ReconcileByAdmin, Reconcile, Provable
<1>34. CASE ChangeGate
  <2>1. UNCHANGED <<state, resolution, accepted, unproven>> /\ CallsKept
    BY <1>34 DEF ChangeGate, CallsKept, InFlight
  <2>2. WorkIsCreated'
    BY <1>34 DEF ChangeGate, WorkIsCreated, ExclusionInv
  <2> QED
    BY <2>1, <2>2, CallsFrame
<1>35. CASE DeleteContent
  <2>1. UNCHANGED <<state, resolution, accepted, unproven>> /\ CallsKept
    BY <1>35 DEF DeleteContent, CallsKept, InFlight
  <2>2. WorkIsCreated'
    BY <1>35 DEF DeleteContent, WorkIsCreated, ExclusionInv
  <2> QED
    BY <2>1, <2>2, CallsFrame
<1>36. CASE UNCHANGED vars
  <2>1. UNCHANGED <<state, resolution, accepted, unproven>> /\ CallsKept
    BY <1>36 DEF vars, CallsKept, InFlight
  <2>2. WorkIsCreated'
    BY <1>36 DEF vars, WorkIsCreated, ExclusionInv
  <2> QED
    BY <2>1, <2>2, CallsFrame
<1> QED
  BY <1>1, <1>2, <1>3, <1>4, <1>5, <1>6, <1>7, <1>8, <1>9, <1>10, <1>11,
     <1>12, <1>13, <1>14, <1>15, <1>16, <1>17, <1>18, <1>19, <1>20, <1>21,
     <1>22, <1>23, <1>24, <1>25, <1>26, <1>27, <1>28, <1>29, <1>30, <1>31,
     <1>32, <1>33, <1>34, <1>35, <1>36
  DEF Next, WorkerStep, PrepareStep, SettleStep

(* Only a prepared dispatch takes a command across the boundary. *)
LEMMA OnlyDispatchCrosses ==
  ASSUME ExclusionInv, [Next]_vars, NEW c \in Commands, Crosses(c)
  PROVE  \E w \in Workers : StartDispatch(w) /\ cmd[w] = c
<1> DEFINE Elsewhere == \/ UNCHANGED state
                        \/ \E d, s : s # "processing" /\ state' = [state EXCEPT ![d] = s]
<1>1. Elsewhere => FALSE
  BY DEF Crosses, ExclusionInv, TypeOK
<1> HIDE DEF Elsewhere
<1>2. ASSUME NEW w \in Workers, PrepareStep(w)  PROVE Elsewhere \/ StartDispatch(w)
  BY <1>2
  DEF PrepareStep, SkipJob, ObserveBoundary, CancelRetry, PostponeDispatch,
     RejectBeforeDispatch, FailBeforeDispatch, Bury, Doubt, PersistSafeRetry,
     rowVars, Elsewhere
<1>3. ASSUME NEW w \in Workers, SettleStep(w)  PROVE Elsewhere
  BY <1>3
  DEF SettleStep, LoseOutcome, SettleSuccess, KeepUncertain, SettlePaused,
     SettleTransient, SettlePermanent, SettleAmbiguous, Bury, Doubt,
     PersistSafeRetry, rowVars, Elsewhere
<1>4. ASSUME NEW w \in Workers,
             \/ OpenCall(w) \/ CallProvider(w) \/ RepairSuccess(w) \/ GiveUpRepair(w)
             \/ EndJob(w) \/ FailJob(w) \/ Crash(w)
      PROVE  Elsewhere
  BY <1>4 DEF OpenCall, CallProvider, RepairSuccess, Reconcile, GiveUpRepair,
     EndJob, FailJob, Crash, rowVars, Elsewhere
<1>5. ASSUME NEW d \in Commands,
             \/ RecoverOrphan(d) \/ RequeueByAdmin(d) \/ ResumeAfterHealth(d)
             \/ ConfirmDelivery(d) \/ CloseWithoutSend(d) \/ ReconcileByAdmin(d)
      PROVE  Elsewhere
  BY <1>5 DEF RecoverOrphan, RequeueByAdmin, ResumeAfterHealth, Requeue,
     ConfirmDelivery, CloseWithoutSend, ReconcileByAdmin, Reconcile, Elsewhere
<1>6. ASSUME NEW d \in Commands, NEW s \in Positive, ReceiveEvidence(d, s)
      PROVE  Elsewhere
  BY <1>6 DEF ReceiveEvidence, CompleteFromEvidence, Elsewhere
<1>7. ASSUME NEW d, Create(d)  PROVE Elsewhere
  BY <1>7 DEF Create, Elsewhere
<1>8. ASSUME \/ ChangeGate \/ DeleteContent \/ UNCHANGED vars
             \/ \E w \in Workers, d \in Commands, i \in Slots : StartJob(w, d, i)
             \/ \E d \in Commands, i \in Slots : ResetJob(d, i) \/ OperateJob(d, i)
      PROVE  Elsewhere
  BY <1>8 DEF ChangeGate, DeleteContent, vars, StartJob, ResetJob, OperateJob,
     rowVars, Elsewhere
<1>9. PICK w \in Workers : StartDispatch(w)
  BY <1>1, <1>2, <1>3, <1>4, <1>5, <1>6, <1>7, <1>8
  DEF Next, WorkerStep, SendMessage, ResendMessage
<1> QED
  BY <1>9 DEF StartDispatch, Crosses, ExclusionInv, TypeOK

(* What crosses the boundary was left to send. *)
LEMMA OnlyTheUnsentCross ==
  ASSUME ExclusionInv, [Next]_vars, NEW c \in Commands, Crosses(c)
  PROVE  state[c] \in Sendable
BY OnlyDispatchCrosses DEF StartDispatch, MayPrepare

(* The invariant holds before anything is sent. *)
LEMMA ExclusionInit == Init => ExclusionInv
<1> SUFFICES ASSUME Init PROVE ExclusionInv
  OBVIOUS
<1>1. TypeOK
  BY TypeInit
<1>2. WorkIsCreated
  BY DEF Init, WorkIsCreated
<1>3. ChainIsDead
  BY DEF Init, ChainIsDead
<1>4. CallIsHeld /\ OneCallInFlight
  BY DEF Init, CallIsHeld, OneCallInFlight, InFlight
<1>5. DoubtIsHeld /\ AcceptanceIsSeen
  BY DEF Init, DoubtIsHeld, AcceptanceIsSeen
<1> QED
  BY <1>1, <1>2, <1>3, <1>4, <1>5 DEF ExclusionInv

(* The inductive invariant of _job_process and its rivals: a command with a call
   in flight is never one that may be sent again, there is one such call in the
   lineage, and a retry exists only over dead predecessors. *)
THEOREM Exclusion == Spec => []ExclusionInv
BY ExclusionInit, ExclusionStep, PTL DEF Spec

(* Two workers are never at the provider for one lineage, however often a job is
   reset under its worker (_job_process, _start_dispatch). *)
THEOREM NoConcurrentCalls == Spec => []OneCallInFlight
<1>1. ExclusionInv => OneCallInFlight
  BY DEF ExclusionInv
<1> QED
  BY <1>1, Exclusion, PTL

(* The provider accepts at most one copy of a message over its whole lineage of
   manual retries, as long as its rejections are proofs. *)
THEOREM OneCopyAccepted == Spec => []AtMostOneCopy
<1>1. ExclusionInv => AtMostOneCopy
  <2> SUFFICES ASSUME ExclusionInv, RejectionIsProof PROVE AtMostOneCopy
    BY DEF AtMostOneCopy
  <2>1. \A c \in Commands : accepted[c] <= 1
    BY DEF ExclusionInv, AcceptanceIsSeen
  <2>2. ASSUME NEW c \in Commands, NEW d \in Commands, c < d,
               accepted[c] > 0, accepted[d] > 0
        PROVE  FALSE
    <3>1. state[d] # "absent"
      BY <2>2 DEF ExclusionInv, AcceptanceIsSeen, Unsent
    <3>2. state[c] = "dead"
      BY <2>2, <3>1 DEF ExclusionInv, ChainIsDead
    <3> QED
      BY <2>2, <3>2 DEF ExclusionInv, AcceptanceIsSeen, Unsent
  <2> QED
    BY <2>1, <2>2 DEF AtMostOneCopy, Commands
<1> QED
  BY <1>1, Exclusion, PTL

(* A message shown as failed, or cancelled by nobody, was never accepted: the
   explicit resend of a dead send repeats nothing (_resend_message). *)
THEOREM FailureProvesUnsent == Spec => []FailureIsFinal
<1>1. ExclusionInv => FailureIsFinal
  BY DEF ExclusionInv, AcceptanceIsSeen, FailureIsFinal, Unsent
<1> QED
  BY <1>1, Exclusion, PTL

(* A command crosses the durable boundary only when every earlier dispatch of the
   lineage was refused by the provider in so many words: the ambiguous send is
   never blindly resent.  No assumption on the provider is needed. *)
THEOREM NoBlindResend == Spec => NeverBlindlyResent
<1> DEFINE Fenced == \A c \in Commands : Crosses(c) => unproven = {}
<1>1. ASSUME ExclusionInv, [Next]_vars PROVE [Fenced]_vars
  <2> SUFFICES ASSUME NEW c \in Commands, Crosses(c) PROVE unproven = {}
    BY DEF Fenced
  <2>1. state[c] \in Sendable
    BY <1>1, OnlyTheUnsentCross
  <2>2. ASSUME NEW d \in unproven PROVE FALSE
    <3>1. d \in Commands /\ state[d] \notin {"absent", "pending", "retry", "dead"}
      BY <1>1 DEF ExclusionInv, TypeOK, DoubtIsHeld
    <3>2. d # c
      BY <2>1, <3>1 DEF Sendable
    <3>3. state[d] = "dead" \/ state[c] = "dead"
      BY <1>1, <2>1, <3>1, <3>2
      DEF ExclusionInv, ChainIsDead, Commands, Sendable
    <3> QED
      BY <2>1, <3>1, <3>3 DEF Sendable
  <2> QED
    BY <2>2
<1> QED
  BY <1>1, Exclusion, PTL DEF Spec, NeverBlindlyResent

-----------------------------------------------------------------------------
(* The ceiling of attempts *)

(* A command not created was never tried. *)
UncreatedIsUntried == \A c \in Commands : state[c] = "absent" => attempts[c] = 0

CeilingInv == CeilingHolds /\ UncreatedIsUntried

(* No attempt is counted, and no command becomes one that is left to send. *)
NoNewTry ==
    /\ UNCHANGED attempts
    /\ \A c \in Commands :
          /\ state'[c] = "absent" => state[c] = "absent"
          /\ state'[c] \in Sendable => state[c] \in Sendable \cup {"absent"}

(* Such a step keeps the ceiling: what was never tried has a try left. *)
LEMMA CeilingFrame ==
  ASSUME TypeOK, CeilingInv, NoNewTry
  PROVE  CeilingInv'
<1>1. \A c \in Commands : state[c] = "absent" => attempts[c] < MaxAttempts
  BY CeilingAssumption DEF CeilingInv, UncreatedIsUntried
<1> QED
  BY <1>1 DEF CeilingInv, CeilingHolds, UncreatedIsUntried, NoNewTry

(* A step that writes one command, and does not put it back to work, counts
   nothing new. *)
LEMMA OneWrite ==
  ASSUME TypeOK, UNCHANGED attempts, NEW c, NEW s,
         s \in Sendable /\ c \in Commands => state[c] \in Sendable \cup {"absent"},
         s # "absent",
         state' = [state EXCEPT ![c] = s]
  PROVE  NoNewTry
BY DEF TypeOK, NoNewTry

(* Counting an attempt of a command left to send reaches the ceiling at most; at
   the ceiling it is not left to send any more. *)
LEMMA Counted ==
  ASSUME TypeOK, CeilingInv, NEW c \in Commands, state[c] \in Sendable,
         attempts' = [attempts EXCEPT ![c] = @ + 1],
         NEW s, s # "absent", s \in Sendable => ~Exhausted(attempts[c] + 1),
         state' = [state EXCEPT ![c] = s]
  PROVE  CeilingInv'
<1>1. \A d \in Commands : /\ state'[d] = IF d = c THEN s ELSE state[d]
                          /\ attempts'[d] = IF d = c THEN attempts[d] + 1 ELSE attempts[d]
  BY DEF TypeOK
<1>2. attempts[c] + 1 <= MaxAttempts /\ attempts[c] \in Nat
  BY CeilingAssumption DEF TypeOK, CeilingInv, CeilingHolds
<1> QED
  BY <1>1, <1>2, CeilingAssumption
  DEF TypeOK, CeilingInv, CeilingHolds, UncreatedIsUntried, Exhausted

(* Every step keeps the ceiling. *)
LEMMA CeilingStep == ExclusionInv /\ CeilingInv /\ [Next]_vars => CeilingInv'
<1> SUFFICES ASSUME ExclusionInv, CeilingInv, [Next]_vars PROVE CeilingInv'
  OBVIOUS
<1> USE DEF rowVars
<1>0. TypeOK
  BY DEF ExclusionInv
<1>1. CASE UNCHANGED <<state, attempts>>
  BY <1>0, <1>1, CeilingFrame DEF NoNewTry
<1>2. ASSUME NEW c \in Commands, Create(c)
      PROVE  CeilingInv'
  BY <1>0, <1>2, OneWrite, CeilingFrame DEF Create
<1>3. ASSUME NEW w \in Workers, PrepareStep(w)
      PROVE  CeilingInv'
  <2>0. pc[w] # "idle" => cmd[w] \in Commands
    BY DEF ExclusionInv, WorkIsCreated
  <2>1. CASE SkipJob(w)
    BY <1>1, <2>1 DEF SkipJob
  <2>2. CASE ObserveBoundary(w) \/ CancelRetry(w) \/ RejectBeforeDispatch(w)
    <3>1. UNCHANGED attempts /\ \E s \in {"uncertain", "cancelled", "dead"} :
             state' = [state EXCEPT ![cmd[w]] = s]
      BY <2>2 DEF ObserveBoundary, CancelRetry, RejectBeforeDispatch, Doubt, Bury
    <3> QED
      BY <1>0, <3>1, OneWrite, CeilingFrame DEF Sendable
  <2>3. CASE PostponeDispatch(w)
    <3>1. /\ UNCHANGED attempts /\ state' = [state EXCEPT ![cmd[w]] = "pending"]
          /\ state[cmd[w]] \in Sendable
      BY <2>3 DEF PostponeDispatch, PersistSafeRetry, MayPrepare
    <3> QED
      BY <1>0, <3>1, OneWrite, CeilingFrame
  <2>4. CASE FailBeforeDispatch(w)
    <3>1. /\ cmd[w] \in Commands /\ state[cmd[w]] \in Sendable
          /\ attempts' = [attempts EXCEPT ![cmd[w]] = @ + 1]
      BY <2>0, <2>4 DEF FailBeforeDispatch, MayPrepare
    <3>2. \E s \in {"dead", "retry"} :
             /\ s = "retry" => ~Exhausted(attempts[cmd[w]] + 1)
             /\ state' = [state EXCEPT ![cmd[w]] = s]
      BY <2>4 DEF FailBeforeDispatch, Bury, PersistSafeRetry
    <3> QED
      BY <1>0, <3>1, <3>2, Counted DEF Sendable
  <2>5. CASE StartDispatch(w)
    <3>1. /\ cmd[w] \in Commands /\ state[cmd[w]] \in Sendable
          /\ attempts' = [attempts EXCEPT ![cmd[w]] = @ + 1]
          /\ state' = [state EXCEPT ![cmd[w]] = "processing"]
      BY <2>0, <2>5 DEF StartDispatch, MayPrepare
    <3> QED
      BY <1>0, <3>1, Counted DEF Sendable
  <2> QED
    BY <1>3, <2>1, <2>2, <2>3, <2>4, <2>5 DEF PrepareStep
<1>4. ASSUME NEW w \in Workers, SettleStep(w)
      PROVE  CeilingInv'
  <2>1. CASE LoseOutcome(w)
    BY <1>1, <2>1 DEF LoseOutcome
  <2>2. CASE SettleSuccess(w) \/ KeepUncertain(w) \/ SettleAmbiguous(w) \/ SettlePermanent(w)
    <3>1. UNCHANGED attempts /\ \E s \in {"done", "uncertain", "dead"} :
             state' = [state EXCEPT ![cmd[w]] = s]
      BY <2>2 DEF SettleSuccess, KeepUncertain, SettleAmbiguous, SettlePermanent,
         Doubt, Bury
    <3> QED
      BY <1>0, <3>1, OneWrite, CeilingFrame DEF Sendable
  <2>3. CASE SettlePaused(w)
    <3>1. /\ state' = [state EXCEPT ![cmd[w]] = "pending"]
          /\ attempts' = [attempts EXCEPT ![cmd[w]] = IF @ > 0 THEN @ - 1 ELSE 0]
      BY <2>3 DEF SettlePaused, PersistSafeRetry
    <3>2. \A d \in Commands :
             /\ state'[d] = IF d = cmd[w] THEN "pending" ELSE state[d]
             /\ attempts'[d] = IF d = cmd[w] /\ attempts[d] > 0
                               THEN attempts[d] - 1 ELSE attempts[d]
      BY <1>0, <3>1 DEF TypeOK
    <3>3. ASSUME NEW d \in Commands
          PROVE  /\ attempts[d] \in Nat /\ attempts'[d] <= attempts[d]
                 /\ d = cmd[w] => attempts'[d] < MaxAttempts
      <4>1. attempts[d] \in Nat /\ attempts[d] <= MaxAttempts
        BY <1>0 DEF TypeOK, CeilingInv, CeilingHolds
      <4> QED
        BY <3>2, <4>1, CeilingAssumption
    <3>4. \A d \in Commands : attempts'[d] \in Nat
      BY <1>0, TypeStep DEF TypeOK
    <3>5. CeilingHolds'
      BY <3>2, <3>3, <3>4, CeilingAssumption DEF CeilingInv, CeilingHolds
    <3>6. UncreatedIsUntried'
      BY <3>2 DEF CeilingInv, UncreatedIsUntried
    <3> QED
      BY <3>5, <3>6 DEF CeilingInv
  <2>4. CASE SettleTransient(w)
    <3>1. UNCHANGED attempts /\ \E s \in {"dead", "retry"} :
             /\ s = "retry" => ~Exhausted(attempts[cmd[w]])
             /\ state' = [state EXCEPT ![cmd[w]] = s]
      BY <2>4 DEF SettleTransient, Bury, PersistSafeRetry
    <3>2. \A d \in Commands : state'[d] # state[d] =>
             state'[d] # "absent" /\ (state'[d] \in Sendable => ~Exhausted(attempts[d]))
      BY <1>0, <3>1 DEF TypeOK, Sendable
    <3> QED
      BY <1>0, <3>1, <3>2, CeilingAssumption
      DEF TypeOK, CeilingInv, CeilingHolds, UncreatedIsUntried, Exhausted
  <2> QED
    BY <1>4, <2>1, <2>2, <2>3, <2>4 DEF SettleStep
<1>5. ASSUME NEW w \in Workers,
             \/ OpenCall(w) \/ CallProvider(w) \/ GiveUpRepair(w)
             \/ EndJob(w) \/ FailJob(w) \/ Crash(w)
      PROVE  CeilingInv'
  BY <1>1, <1>5 DEF OpenCall, CallProvider, GiveUpRepair, EndJob, FailJob, Crash
<1>6. ASSUME NEW c,
             \/ \E s \in Positive : ReceiveEvidence(c, s)
             \/ ConfirmDelivery(c) \/ CloseWithoutSend(c) \/ Reconcile(c)
      PROVE  CeilingInv'
  <2>1. UNCHANGED attempts /\ \/ UNCHANGED state
                              \/ \E s \in {"done", "cancelled"} :
                                    state' = [state EXCEPT ![c] = s]
    BY <1>6 DEF ReceiveEvidence, CompleteFromEvidence, ConfirmDelivery,
       CloseWithoutSend, Reconcile
  <2> QED
    BY <1>0, <1>1, <2>1, OneWrite, CeilingFrame DEF Sendable
<1>7. ASSUME NEW c \in Commands,
             RecoverOrphan(c) \/ RequeueByAdmin(c) \/ ResumeAfterHealth(c)
      PROVE  CeilingInv'
  BY <1>1, <1>7 DEF RecoverOrphan, RequeueByAdmin, ResumeAfterHealth, Requeue
<1>8. ASSUME \/ ChangeGate \/ DeleteContent \/ UNCHANGED vars
             \/ \E w \in Workers, d \in Commands, i \in Slots : StartJob(w, d, i)
             \/ \E d \in Commands, i \in Slots : ResetJob(d, i) \/ OperateJob(d, i)
      PROVE  CeilingInv'
  BY <1>1, <1>8 DEF ChangeGate, DeleteContent, vars, StartJob, ResetJob, OperateJob
<1> QED
  BY <1>2, <1>3, <1>4, <1>5, <1>6, <1>7, <1>8, First
  DEF Next, WorkerStep, SendMessage, ResendMessage, RepairSuccess, ReconcileByAdmin

(* However often a command is retried, postponed, refunded or put back to work, it
   is never tried beyond the ceiling, and one that used its attempts up is never
   left to send (_job_process, QUEUE_ATTEMPT_CEILING). *)
THEOREM CeilingIsKept == Spec => []CeilingHolds
<1>1. Init => CeilingInv
  BY CeilingAssumption DEF Init, CeilingInv, CeilingHolds, UncreatedIsUntried
<1>2. CeilingInv => CeilingHolds
  BY DEF CeilingInv
<1> QED
  BY <1>1, <1>2, CeilingStep, Exclusion, PTL DEF Spec

-----------------------------------------------------------------------------
(* Who may write a command that is at the provider *)

(* A running worker holds a started job, and no other worker runs that job. *)
RunnersHold ==
    /\ \A w \in Workers : pc[w] # "idle" =>
          /\ cmd[w] \in Commands /\ slot[w] \in Slots
          /\ jobState[cmd[w]][slot[w]] = "started"
    /\ \A v, w \in Workers :
          pc[v] # "idle" /\ pc[w] # "idle" /\ cmd[v] = cmd[w] /\ slot[v] = slot[w]
          => v = w

(* A worker with a call in flight runs the job its command names, and the command
   still says that it is being dispatched. *)
CallIsOwned ==
    \A w \in Workers : pc[w] \in InFlight => Owns(w) /\ state[cmd[w]] = "processing"

OwnerInv == RunnersHold /\ CallIsOwned

(* No worker takes up work, and none that works on loses its job. *)
RunnersKept ==
    \A v \in Workers : pc'[v] # "idle" =>
        /\ pc[v] # "idle" /\ cmd'[v] = cmd[v] /\ slot'[v] = slot[v]
        /\ jobState'[cmd[v]][slot[v]] = jobState[cmd[v]][slot[v]]

(* No call starts, and the commands of those that go on are not written. *)
OwnersKept ==
    \A v \in Workers : pc'[v] \in InFlight =>
        /\ pc[v] \in InFlight /\ cmd'[v] = cmd[v] /\ slot'[v] = slot[v]
        /\ owner'[cmd[v]] = owner[cmd[v]] /\ state'[cmd[v]] = state[cmd[v]]

(* Such a step keeps the runners on their jobs. *)
LEMMA RunnersFrame ==
  ASSUME RunnersHold, RunnersKept
  PROVE  RunnersHold'
BY DEF RunnersHold, RunnersKept

(* Such a step keeps the calls with the owners of their commands. *)
LEMMA OwnersFrame ==
  ASSUME CallIsOwned, OwnersKept
  PROVE  CallIsOwned'
BY DEF CallIsOwned, OwnersKept, Owns

(* A worker that works on without touching a job keeps all runners in place. *)
LEMMA RunnersStay ==
  ASSUME TypeOK, UNCHANGED <<jobState, cmd, slot>>,
         \A v \in Workers : pc'[v] # "idle" => pc[v] # "idle"
  PROVE  RunnersKept
BY DEF RunnersKept

(* The one job a worker runs may be written when it stops: the others run others. *)
LEMMA RunnerStops ==
  ASSUME TypeOK, RunnersHold, NEW w \in Workers, pc[w] # "idle", Rest(w),
         \/ UNCHANGED jobState
         \/ \E s : SetJob(w, s)
  PROVE  RunnersKept
<1>1. cmd[w] \in Commands /\ slot[w] \in Slots
  BY DEF RunnersHold
<1>2. ASSUME NEW v \in Workers, pc'[v] # "idle"
      PROVE  /\ v # w /\ pc[v] # "idle" /\ cmd'[v] = cmd[v] /\ slot'[v] = slot[v]
             /\ cmd[v] \in Commands /\ slot[v] \in Slots
             /\ cmd[v] # cmd[w] \/ slot[v] # slot[w]
  BY <1>2 DEF Rest, TypeOK, RunnersHold
<1>3. ASSUME NEW v \in Workers, pc'[v] # "idle"
      PROVE  jobState'[cmd[v]][slot[v]] = jobState[cmd[v]][slot[v]]
  BY <1>1, <1>2, <1>3 DEF SetJob, TypeOK
<1> QED
  BY <1>2, <1>3 DEF RunnersKept

(* Jobs that do not run may be written under everybody's feet. *)
LEMMA RestingJobsMove ==
  ASSUME TypeOK, RunnersHold, UNCHANGED workerVars,
         NEW c \in Commands, NEW i \in Slots, NEW s,
         \/ jobState[c][i] # "started"
         \/ ~\E w \in Workers : cmd[w] = c /\ slot[w] = i,
         jobState' = [jobState EXCEPT ![c][i] = s]
  PROVE  RunnersKept
<1>1. ASSUME NEW v \in Workers, pc'[v] # "idle"
      PROVE  /\ pc[v] # "idle" /\ cmd'[v] = cmd[v] /\ slot'[v] = slot[v]
             /\ cmd[v] \in Commands /\ slot[v] \in Slots
             /\ cmd[v] # c \/ slot[v] # i
  BY <1>1 DEF workerVars, RunnersHold
<1>2. ASSUME NEW v \in Workers, pc'[v] # "idle"
      PROVE  jobState'[cmd[v]][slot[v]] = jobState[cmd[v]][slot[v]]
  BY <1>1, <1>2 DEF TypeOK
<1> QED
  BY <1>1, <1>2 DEF RunnersKept

(* A worker that owns its command is the only one that may have a call of it in
   flight, so the command may be written once that worker has left its call. *)
LEMMA OwnerWrites ==
  ASSUME TypeOK, OwnerInv, NEW w \in Workers, pc[w] # "idle", Owns(w),
         pc'[w] \notin InFlight, \A v \in Workers \ {w} : pc'[v] = pc[v],
         UNCHANGED <<cmd, slot, owner>>,
         NEW s, state' = [state EXCEPT ![cmd[w]] = s]
  PROVE  OwnersKept
<1>1. ASSUME NEW v \in Workers, pc'[v] \in InFlight
      PROVE  /\ v # w /\ pc[v] \in InFlight /\ cmd[v] \in Commands
             /\ cmd[v] # cmd[w]
  BY <1>1 DEF OwnerInv, RunnersHold, CallIsOwned, Owns, InFlight
<1> QED
  BY <1>1 DEF OwnersKept, TypeOK

(* A command that is not being dispatched has no call in flight: anyone may write
   it. *)
LEMMA IdleCommandMoves ==
  ASSUME TypeOK, OwnerInv, NEW c, c \in Commands => state[c] # "processing",
         \A v \in Workers : pc'[v] \in InFlight =>
             pc[v] \in InFlight /\ cmd'[v] = cmd[v] /\ slot'[v] = slot[v],
         \A d \in Commands \ {c} : state'[d] = state[d] /\ owner'[d] = owner[d]
  PROVE  OwnersKept
<1>1. ASSUME NEW v \in Workers, pc'[v] \in InFlight
      PROVE  cmd[v] \in Commands \ {c}
  BY <1>1 DEF OwnerInv, RunnersHold, CallIsOwned, InFlight
<1> QED
  BY <1>1 DEF OwnersKept

(* As long as no job is reset under a live worker, every step keeps the runners on
   their jobs and the calls with the owners. *)
LEMMA OwnerStep ==
  ASSUME ~LiveReset, ExclusionInv, OwnerInv, [Next]_vars
  PROVE  OwnerInv'
<1> USE DEF rowVars, workerVars, InFlight
<1>0. TypeOK /\ WorkIsCreated /\ RunnersHold /\ CallIsOwned
  BY DEF ExclusionInv, OwnerInv
<1>1. ASSUME RunnersKept, OwnersKept  PROVE OwnerInv'
  BY <1>0, <1>1, RunnersFrame, OwnersFrame DEF OwnerInv
<1>2. ASSUME NEW w \in Workers, NEW verdict, pc[w] # "idle",
             Leave(w, verdict), UNCHANGED jobState
      PROVE  /\ RunnersKept /\ pc'[w] \notin InFlight
             /\ \A v \in Workers \ {w} : pc'[v] = pc[v]
             /\ \A v \in Workers : pc'[v] \in InFlight =>
                   pc[v] \in InFlight /\ cmd'[v] = cmd[v] /\ slot'[v] = slot[v]
  BY <1>0, <1>2, RunnersStay DEF Leave, TypeOK
<1>3. ASSUME NEW w \in Workers, PrepareStep(w)
      PROVE  OwnerInv'
  <2>0. pc[w] = "run"
    BY <1>3 DEF PrepareStep, SkipJob, ObserveBoundary, CancelRetry, PostponeDispatch,
       RejectBeforeDispatch, FailBeforeDispatch, StartDispatch, MayPrepare
  <2>1. CASE SkipJob(w)
    <3>1. UNCHANGED <<state, owner, jobState>> /\ Leave(w, "finished")
      BY <2>1 DEF SkipJob
    <3> QED
      BY <1>1, <1>2, <2>0, <3>1 DEF OwnersKept
  <2>2. CASE ObserveBoundary(w)
    <3>1. /\ Owns(w) /\ Leave(w, "finished") /\ UNCHANGED <<owner, jobState>>
          /\ state' = [state EXCEPT ![cmd[w]] = "uncertain"]
      BY <2>2 DEF ObserveBoundary, Doubt
    <3>2. UNCHANGED <<cmd, slot>>
      BY <3>1 DEF Leave
    <3> QED
      BY <1>0, <1>1, <1>2, <2>0, <3>1, <3>2, OwnerWrites
  <2>3. CASE StartDispatch(w)
    <3>1. /\ cmd[w] \in Commands /\ state[cmd[w]] \in Sendable /\ Owns(w)
          /\ UNCHANGED <<jobState, cmd, slot, owner>>
          /\ pc' = [pc EXCEPT ![w] = "boundary"]
          /\ state' = [state EXCEPT ![cmd[w]] = "processing"]
      BY <1>0, <2>0, <2>3 DEF StartDispatch, MayPrepare, WorkIsCreated
    <3>2. RunnersHold'
      BY <1>0, <2>0, <3>1, RunnersStay, RunnersFrame DEF TypeOK
    <3>3. \A v \in Workers : Owns(v)' = Owns(v)
      BY <3>1 DEF Owns
    <3>4. \A v \in Workers \ {w} : pc'[v] \in InFlight =>
             state'[cmd[v]] = state[cmd[v]]
      BY <1>0, <3>1 DEF CallIsOwned, Sendable, TypeOK
    <3>5. CallIsOwned'
      BY <1>0, <3>1, <3>3, <3>4 DEF CallIsOwned, TypeOK
    <3> QED
      BY <3>2, <3>5 DEF OwnerInv
  <2>4. CASE \/ CancelRetry(w) \/ PostponeDispatch(w) \/ RejectBeforeDispatch(w)
             \/ FailBeforeDispatch(w)
    <3>1. /\ state[cmd[w]] # "processing" /\ UNCHANGED <<owner, jobState>>
          /\ \E verdict : Leave(w, verdict)
          /\ \E s : state' = [state EXCEPT ![cmd[w]] = s]
      BY <2>4 DEF CancelRetry, PostponeDispatch, RejectBeforeDispatch, Sendable,
         FailBeforeDispatch, MayPrepare, Bury, PersistSafeRetry
    <3>2. \A d \in Commands \ {cmd[w]} : state'[d] = state[d] /\ owner'[d] = owner[d]
      BY <1>0, <3>1 DEF TypeOK
    <3> QED
      BY <1>0, <1>1, <1>2, <2>0, <3>1, <3>2, IdleCommandMoves
  <2> QED
    BY <1>3, <2>1, <2>2, <2>3, <2>4 DEF PrepareStep
<1>4. ASSUME NEW w \in Workers, SettleStep(w)
      PROVE  OwnerInv'
  <2>1. pc[w] = "answered" /\ Owns(w) /\ UNCHANGED <<cmd, slot, owner, jobState>>
    <3>1. pc[w] = "answered" /\ UNCHANGED <<cmd, slot, owner, jobState>>
      BY <1>4 DEF SettleStep, LoseOutcome, SettleSuccess, KeepUncertain, SettlePaused,
         SettleTransient, SettlePermanent, SettleAmbiguous, MaySettle, Leave
    <3> QED
      BY <1>0, <3>1 DEF CallIsOwned
  <2>2. \/ pc' = [pc EXCEPT ![w] = "ending"]
        \/ pc' = [pc EXCEPT ![w] = "repair"]
    BY <1>4 DEF SettleStep, LoseOutcome, SettleSuccess, KeepUncertain, SettlePaused,
       SettleTransient, SettlePermanent, SettleAmbiguous, Leave
  <2>3. \E s : state' = [state EXCEPT ![cmd[w]] = s]
    <3>1. CASE LoseOutcome(w)
      BY <1>0, <3>1 DEF LoseOutcome, TypeOK
    <3>2. CASE ~LoseOutcome(w)
      BY <1>4, <3>2 DEF SettleStep, SettleSuccess, KeepUncertain, SettlePaused,
         SettleTransient, SettlePermanent, SettleAmbiguous, Bury, Doubt, PersistSafeRetry
    <3> QED
      BY <3>1, <3>2
  <2>4. /\ pc'[w] \notin InFlight /\ \A v \in Workers \ {w} : pc'[v] = pc[v]
        /\ \A v \in Workers : pc'[v] # "idle" => pc[v] # "idle"
    BY <1>0, <2>1, <2>2 DEF TypeOK
  <2> QED
    BY <1>0, <1>1, <2>1, <2>3, <2>4, RunnersStay, OwnerWrites
<1>5. ASSUME NEW w \in Workers, OpenCall(w) \/ CallProvider(w)
      PROVE  OwnerInv'
  <2>1. /\ pc[w] \in InFlight /\ UNCHANGED <<state, owner, jobState, cmd, slot>>
        /\ \A v \in Workers \ {w} : pc'[v] = pc[v]
    BY <1>0, <1>5 DEF OpenCall, CallProvider, TypeOK
  <2> QED
    BY <1>0, <1>1, <2>1, RunnersStay DEF OwnersKept
<1>6. ASSUME NEW c, UNCHANGED <<jobState, owner, cmd, slot>>,
             \A v \in Workers : pc'[v] # "idle" => pc[v] # "idle",
             \A v \in Workers : pc'[v] \in InFlight => pc[v] \in InFlight,
             \/ \E s \in Positive : ReceiveEvidence(c, s)
             \/ ConfirmDelivery(c) \/ CloseWithoutSend(c) \/ Reconcile(c)
      PROVE  OwnerInv'
  <2>1. state[c] # "processing" /\ \A d \in Commands \ {c} : state'[d] = state[d]
    BY <1>0, <1>6 DEF ReceiveEvidence, CompleteFromEvidence, ConfirmDelivery,
       CloseWithoutSend, Resolvable, Reconcile, Provable, TypeOK
  <2> QED
    BY <1>0, <1>1, <1>6, <2>1, RunnersStay, IdleCommandMoves
<1>7. ASSUME NEW w \in Workers, RepairSuccess(w) \/ GiveUpRepair(w)
      PROVE  OwnerInv'
  <2>1. /\ pc[w] = "repair" /\ Leave(w, "finished") /\ UNCHANGED <<jobState, owner>>
        /\ UNCHANGED state \/ Reconcile(cmd[w])
    BY <1>7 DEF RepairSuccess, Reconcile, GiveUpRepair
  <2>2. /\ UNCHANGED <<cmd, slot>> /\ RunnersKept
        /\ \A v \in Workers : pc'[v] # "idle" => pc[v] # "idle"
        /\ \A v \in Workers : pc'[v] \in InFlight => pc[v] \in InFlight
    BY <1>0, <1>2, <2>1 DEF Leave, TypeOK
  <2> QED
    BY <1>1, <1>6, <2>1, <2>2 DEF OwnersKept
<1>8. ASSUME NEW w \in Workers, EndJob(w) \/ FailJob(w) \/ Crash(w)
      PROVE  OwnerInv'
  <2>1. /\ pc[w] # "idle" /\ Rest(w) /\ UNCHANGED <<state, owner>>
        /\ \/ UNCHANGED jobState
           \/ \E s : SetJob(w, s)
    BY <1>8 DEF EndJob, FailJob, Crash
  <2>2. OwnersKept
    BY <1>0, <2>1 DEF Rest, OwnersKept, TypeOK
  <2> QED
    BY <1>0, <1>1, <2>1, <2>2, RunnerStops
<1>9. ASSUME NEW w \in Workers, NEW c \in Commands, NEW i \in Slots, StartJob(w, c, i)
      PROVE  OwnerInv'
  <2>1. \A v \in Workers : /\ pc'[v] = IF v = w THEN "run" ELSE pc[v]
                           /\ cmd'[v] = IF v = w THEN c ELSE cmd[v]
                           /\ slot'[v] = IF v = w THEN i ELSE slot[v]
    BY <1>0, <1>9 DEF StartJob, TypeOK
  <2>2. \A d \in Commands, k \in Slots :
           jobState'[d][k] = IF d = c /\ k = i THEN "started" ELSE jobState[d][k]
    BY <1>0, <1>9 DEF StartJob, TypeOK
  <2>3. jobState[c][i] = "pending" /\ UNCHANGED <<state, owner>>
    BY <1>9 DEF StartJob
  <2>4. RunnersHold'
    BY <1>0, <2>1, <2>2, <2>3 DEF RunnersHold
  <2>5. OwnersKept
    BY <2>1, <2>3 DEF OwnersKept
  <2> QED
    BY <1>0, <2>4, <2>5, OwnersFrame DEF OwnerInv
<1>10. ASSUME NEW c \in Commands, Create(c)
       PROVE  OwnerInv'
  <2>1. /\ jobState[c][1] # "started" /\ state[c] # "processing"
        /\ jobState' = [jobState EXCEPT ![c][1] = "pending"] /\ UNCHANGED workerVars
        /\ \A d \in Commands \ {c} : state'[d] = state[d] /\ owner'[d] = owner[d]
    BY <1>0, <1>10, First DEF Create, WorkIsCreated, TypeOK
  <2> QED
    BY <1>0, <1>1, <2>1, First, RestingJobsMove, IdleCommandMoves
<1>11. ASSUME NEW c \in Commands,
              RecoverOrphan(c) \/ RequeueByAdmin(c) \/ ResumeAfterHealth(c)
       PROVE  OwnerInv'
  <2>1. Requeueable(c) /\ EnsureJob(c) /\ UNCHANGED <<state, workerVars>>
    BY <1>11 DEF RecoverOrphan, RequeueByAdmin, ResumeAfterHealth, Requeue
  <2>2. PICK i \in Slots :
          /\ owner' = [owner EXCEPT ![c] = i]
          /\ \/ UNCHANGED jobState
             \/ /\ jobState[c][i] # "started"
                /\ jobState' = [jobState EXCEPT ![c][i] = "pending"]
    BY <2>1 DEF EnsureJob, Newest
  <2>3. RunnersKept
    BY <1>0, <2>1, <2>2, RestingJobsMove, RunnersStay
  <2>4. OwnersKept
    BY <1>0, <2>1, <2>2, IdleCommandMoves DEF Requeueable, Sendable, TypeOK
  <2> QED
    BY <1>1, <2>3, <2>4
<1>12. ASSUME NEW c \in Commands, NEW i \in Slots, ResetJob(c, i) \/ OperateJob(c, i)
       PROVE  OwnerInv'
  <2>1. UNCHANGED <<state, owner, workerVars>>
    BY <1>12 DEF ResetJob, OperateJob
  <2>2. \/ jobState[c][i] # "started"
        \/ ~\E w \in Workers : cmd[w] = c /\ slot[w] = i
    BY <1>12 DEF ResetJob, OperateJob
  <2>3. \E s : jobState' = [jobState EXCEPT ![c][i] = s]
    BY <1>12 DEF ResetJob, OperateJob
  <2> QED
    BY <1>0, <1>1, <2>1, <2>2, <2>3, RestingJobsMove DEF OwnersKept
<1>13. CASE ChangeGate \/ DeleteContent \/ UNCHANGED vars
  <2>1. UNCHANGED <<state, owner, workerVars, jobState>>
    BY <1>13 DEF ChangeGate, DeleteContent, vars
  <2> QED
    BY <1>0, <1>1, <2>1, RunnersStay DEF OwnersKept
<1>14. ASSUME NEW c \in Commands,
              \/ \E s \in Positive : ReceiveEvidence(c, s)
              \/ ConfirmDelivery(c) \/ CloseWithoutSend(c) \/ ReconcileByAdmin(c)
       PROVE  OwnerInv'
  <2>1. UNCHANGED <<jobState, owner, workerVars>>
    BY <1>14 DEF ReceiveEvidence, ConfirmDelivery, CloseWithoutSend, ReconcileByAdmin,
       Reconcile
  <2> QED
    BY <1>6, <1>14, <2>1 DEF ReconcileByAdmin
<1> QED
  BY <1>3, <1>4, <1>5, <1>7, <1>8, <1>9, <1>10, <1>11, <1>12, <1>13, <1>14, First
  DEF Next, WorkerStep, SendMessage, ResendMessage

-----------------------------------------------------------------------------
(* What the message shows *)

(* Of a command not created nothing was shown or accepted. *)
UncreatedIsUnseen ==
    \A c \in Commands : state[c] = "absent" => delivery[c] = "queued" /\ accepted[c] = 0

ProjectionInv == ProjectionAgrees /\ UncreatedIsUnseen

(* Only what is shown of command c moves. *)
OthersShownAsBefore(c) ==
    \A d \in Commands \ {c} :
        state'[d] = state[d] /\ delivery'[d] = delivery[d] /\ resolution'[d] = resolution[d]

(* A step that moves one created command, and leaves it in agreement, keeps the
   projection. *)
LEMMA OneShown ==
  ASSUME ProjectionInv, NEW c, OthersShownAsBefore(c), UNCHANGED accepted,
         c \in Commands => Agrees(c)' /\ state'[c] # "absent"
  PROVE  ProjectionInv'
<1>1. \A d \in Commands \ {c} : Agrees(d)' = Agrees(d)
  BY DEF OthersShownAsBefore, Agrees
<1>2. ProjectionAgrees'
  BY <1>1 DEF ProjectionInv, ProjectionAgrees
<1>3. UncreatedIsUnseen'
  BY DEF ProjectionInv, UncreatedIsUnseen, OthersShownAsBefore
<1> QED
  BY <1>2, <1>3 DEF ProjectionInv

(* A command that is not decided, with its message queued, may move on: while it
   stays undecided or is given up the message waits, and when it dies the message
   fails. *)
LEMMA UndecidedMoves ==
  ASSUME TypeOK, ProjectionInv, UNCHANGED <<resolution, accepted>>,
         NEW c \in Commands,
         state[c] \in Sendable \cup {"processing", "uncertain"},
         NEW s \in {"pending", "retry", "processing", "uncertain", "cancelled", "dead"},
         state' = [state EXCEPT ![c] = s],
         \/ s # "dead" /\ UNCHANGED delivery
         \/ s = "dead" /\ delivery' = [delivery EXCEPT ![c] = Advance(@, "failed")]
  PROVE  ProjectionInv'
<1>1. Agrees(c)
  BY DEF ProjectionInv, ProjectionAgrees
<1>2. delivery[c] = "queued" /\ resolution[c] \notin {"delivered", "closed"}
  BY <1>1 DEF Agrees, Sendable
<1>3. state'[c] = s /\ delivery'[c] = IF s = "dead" THEN "failed" ELSE "queued"
  BY <1>2 DEF TypeOK, Advance
<1>4. OthersShownAsBefore(c)
  BY DEF OthersShownAsBefore, TypeOK
<1>5. Agrees(c)'
  BY <1>2, <1>3 DEF Agrees, Sendable, Positive
<1> QED
  BY <1>3, <1>4, <1>5, OneShown

(* Positive evidence over any projection leaves a positive one, and never takes
   back that the message was delivered. *)
LEMMA EvidenceIsPositive ==
  ASSUME NEW d \in Deliveries, NEW s \in Positive
  PROVE  /\ Advance(d, s) \in Positive
         /\ d \in {"delivered", "read"} \/ s \in {"delivered", "read"}
               => Advance(d, s) \in {"delivered", "read"}
BY DEF Deliveries, Positive, Advance, Rank

(* A command that is found delivered is done, and its message shows it. *)
LEMMA FoundDelivered ==
  ASSUME TypeOK, ProjectionInv, UNCHANGED accepted,
         NEW c \in Commands, NEW s \in Positive, state[c] # "absent",
         delivery' = [delivery EXCEPT ![c] = Advance(@, s)],
         \/ /\ state[c] \in Sendable \cup {"processing", "uncertain"}
            /\ state' = [state EXCEPT ![c] = "done"]
         \/ /\ state[c] \notin Sendable \cup {"processing", "uncertain"}
            /\ UNCHANGED state,
         \/ UNCHANGED resolution
         \/ /\ state'[c] = "done" /\ s = "delivered"
            /\ resolution' = [resolution EXCEPT ![c] = "delivered"]
  PROVE  ProjectionInv'
<1>1. Agrees(c) /\ delivery[c] \in Deliveries
  BY DEF ProjectionInv, ProjectionAgrees, TypeOK
<1>2. OthersShownAsBefore(c)
  BY DEF OthersShownAsBefore, TypeOK
<1>3. /\ delivery'[c] \in Positive
      /\ delivery[c] \in {"delivered", "read"} \/ s \in {"delivered", "read"}
            => delivery'[c] \in {"delivered", "read"}
  BY <1>1, EvidenceIsPositive DEF TypeOK
<1>4. /\ state'[c] \notin Sendable \cup {"processing", "uncertain", "absent"}
      /\ state'[c] # state[c] => /\ state'[c] = "done"
                                 /\ state[c] \in Sendable \cup {"processing", "uncertain"}
  BY DEF TypeOK, Sendable, States
<1>5. Agrees(c)'
  <2>1. CASE UNCHANGED resolution
    BY <1>1, <1>3, <1>4, <2>1 DEF Agrees, Positive, Sendable
  <2>2. CASE state'[c] = "done" /\ s = "delivered" /\ resolution'[c] = "delivered"
    BY <1>3, <2>2 DEF Agrees, Positive, Sendable
  <2> QED
    BY <2>1, <2>2 DEF TypeOK
<1> QED
  BY <1>2, <1>4, <1>5, OneShown

(* Every step keeps the message in agreement with its command, when the commands of
   calls in flight are those being dispatched. *)
LEMMA ProjectionStep ==
  ASSUME ExclusionInv, CallIsOwned, ProjectionInv, [Next]_vars
  PROVE  ProjectionInv'
<1> USE DEF rowVars, bindVars
<1>0. TypeOK /\ WorkIsCreated
  BY DEF ExclusionInv
<1>1. CASE UNCHANGED <<state, delivery, resolution, accepted>>
  BY <1>1 DEF ProjectionInv, ProjectionAgrees, Agrees, UncreatedIsUnseen
<1>2. ASSUME NEW w \in Workers, PrepareStep(w)
      PROVE  ProjectionInv'
  <2>0. cmd[w] \in Commands
    BY <1>0, <1>2 DEF WorkIsCreated, PrepareStep, SkipJob, ObserveBoundary, CancelRetry,
       PostponeDispatch, RejectBeforeDispatch, FailBeforeDispatch, StartDispatch,
       MayPrepare
  <2>1. CASE SkipJob(w)
    BY <1>1, <2>1 DEF SkipJob
  <2>2. CASE ~SkipJob(w)
    <3>1. /\ state[cmd[w]] \in Sendable \cup {"processing", "uncertain"}
          /\ UNCHANGED <<resolution, accepted>>
      BY <1>2, <2>2
      DEF PrepareStep, ObserveBoundary, CancelRetry, PostponeDispatch,
         RejectBeforeDispatch, FailBeforeDispatch, StartDispatch, MayPrepare
    <3>2. \E s \in {"pending", "retry", "processing", "uncertain", "cancelled", "dead"} :
             /\ state' = [state EXCEPT ![cmd[w]] = s]
             /\ \/ s # "dead" /\ UNCHANGED delivery
                \/ s = "dead" /\ delivery' = [delivery EXCEPT ![cmd[w]] = Advance(@, "failed")]
      BY <1>2, <2>2
      DEF PrepareStep, ObserveBoundary, CancelRetry, PostponeDispatch,
         RejectBeforeDispatch, FailBeforeDispatch, StartDispatch, Doubt, Bury,
         PersistSafeRetry
    <3> QED
      BY <1>0, <2>0, <3>1, <3>2, UndecidedMoves
  <2> QED
    BY <2>1, <2>2
<1>3. ASSUME NEW w \in Workers, SettleStep(w)
      PROVE  ProjectionInv'
  <2>0. cmd[w] \in Commands /\ state[cmd[w]] = "processing"
    <3>1. pc[w] = "answered"
      BY <1>3 DEF SettleStep, LoseOutcome, SettleSuccess, KeepUncertain, SettlePaused,
         SettleTransient, SettlePermanent, SettleAmbiguous, MaySettle
    <3> QED
      BY <1>0, <3>1 DEF WorkIsCreated, CallIsOwned, InFlight
  <2>1. CASE LoseOutcome(w)
    BY <1>1, <2>1 DEF LoseOutcome
  <2>2. CASE SettleSuccess(w)
    <3>1. /\ UNCHANGED <<resolution, accepted>>
          /\ state' = [state EXCEPT ![cmd[w]] = "done"]
          /\ delivery' = [delivery EXCEPT ![cmd[w]] = Advance(@, "sent")]
      BY <2>2 DEF SettleSuccess
    <3>2. state'[cmd[w]] = "done" /\ "sent" \in Positive
      BY <1>0, <2>0, <3>1 DEF TypeOK, Positive
    <3> QED
      BY <1>0, <2>0, <3>1, <3>2, FoundDelivered
  <2>3. CASE ~LoseOutcome(w) /\ ~SettleSuccess(w)
    <3>1. UNCHANGED <<resolution, accepted>>
      BY <1>3, <2>3 DEF SettleStep, KeepUncertain, SettlePaused, SettleTransient,
         SettlePermanent, SettleAmbiguous
    <3>2. \E s \in {"pending", "retry", "uncertain", "dead"} :
             /\ state' = [state EXCEPT ![cmd[w]] = s]
             /\ \/ s # "dead" /\ UNCHANGED delivery
                \/ s = "dead" /\ delivery' = [delivery EXCEPT ![cmd[w]] = Advance(@, "failed")]
      BY <1>3, <2>3 DEF SettleStep, KeepUncertain, SettlePaused, SettleTransient,
         SettlePermanent, SettleAmbiguous, Doubt, Bury, PersistSafeRetry
    <3> QED
      BY <1>0, <2>0, <3>1, <3>2, UndecidedMoves
  <2> QED
    BY <2>1, <2>2, <2>3
<1>4. ASSUME NEW w \in Workers, CallProvider(w)
      PROVE  ProjectionInv'
  <2>1. /\ UNCHANGED <<state, delivery, resolution>>
        /\ \A d \in Commands : state[d] = "absent" => accepted'[d] = accepted[d]
    BY <1>0, <1>4 DEF CallProvider, WorkIsCreated, TypeOK
  <2> QED
    BY <2>1 DEF ProjectionInv, ProjectionAgrees, Agrees, UncreatedIsUnseen
<1>5. ASSUME NEW c \in Commands, Reconcile(c)
      PROVE  ProjectionInv'
  <2>1. /\ state[c] = "uncertain" /\ UNCHANGED <<resolution, accepted>>
        /\ state' = [state EXCEPT ![c] = "done"]
        /\ delivery' = [delivery EXCEPT ![c] = Advance(@, "sent")]
    BY <1>5 DEF Reconcile, Provable
  <2>2. "sent" \in Positive
    BY DEF Positive
  <2> QED
    BY <1>0, <2>1, <2>2, FoundDelivered
<1>6. ASSUME NEW c \in Commands, ConfirmDelivery(c)
      PROVE  ProjectionInv'
  <2>1. /\ state[c] = "uncertain" /\ UNCHANGED accepted
        /\ state' = [state EXCEPT ![c] = "done"]
        /\ resolution' = [resolution EXCEPT ![c] = "delivered"]
        /\ delivery' = [delivery EXCEPT ![c] = Advance(@, "delivered")]
    BY <1>6 DEF ConfirmDelivery, Resolvable
  <2>2. state'[c] = "done" /\ "delivered" \in Positive
    BY <1>0, <2>1 DEF TypeOK, Positive
  <2> QED
    BY <1>0, <2>1, <2>2, FoundDelivered
<1>7. ASSUME NEW c \in Commands, CloseWithoutSend(c)
      PROVE  ProjectionInv'
  <2>1. /\ state[c] = "uncertain" /\ UNCHANGED <<delivery, accepted>>
        /\ state' = [state EXCEPT ![c] = "cancelled"]
        /\ resolution' = [resolution EXCEPT ![c] = "closed"]
    BY <1>7 DEF CloseWithoutSend, Resolvable
  <2>2. /\ state'[c] = "cancelled" /\ resolution'[c] = "closed"
        /\ OthersShownAsBefore(c)
    BY <1>0, <2>1 DEF TypeOK, OthersShownAsBefore
  <2>3. delivery'[c] = "queued"
    BY <2>1 DEF ProjectionInv, ProjectionAgrees, Agrees
  <2>4. Agrees(c)'
    BY <2>2, <2>3 DEF Agrees, Sendable
  <2> QED
    BY <2>1, <2>2, <2>4, OneShown
<1>8. ASSUME NEW c \in Commands, NEW s \in Positive, ReceiveEvidence(c, s)
      PROVE  ProjectionInv'
  <2>1. /\ state[c] # "absent" /\ UNCHANGED <<resolution, accepted>>
        /\ delivery' = [delivery EXCEPT ![c] = Advance(@, s)]
    BY <1>0, <1>8 DEF ReceiveEvidence, ProjectionInv, UncreatedIsUnseen, TypeOK
  <2>2. /\ state[c] # "processing"
        /\ \/ /\ state[c] \in Sendable \cup {"processing", "uncertain"}
              /\ state' = [state EXCEPT ![c] = "done"]
           \/ /\ state[c] \notin Sendable \cup {"processing", "uncertain"}
              /\ UNCHANGED state
    BY <1>8 DEF ReceiveEvidence, CompleteFromEvidence
  <2> QED
    BY <1>0, <2>1, <2>2, FoundDelivered
<1>9. ASSUME NEW c \in Commands, Create(c)
      PROVE  ProjectionInv'
  <2>1. /\ state[c] = "absent" /\ UNCHANGED <<delivery, resolution, accepted>>
        /\ state' = [state EXCEPT ![c] = "pending"]
    BY <1>9 DEF Create
  <2>2. state'[c] = "pending" /\ OthersShownAsBefore(c)
    BY <1>0, <2>1 DEF TypeOK, OthersShownAsBefore
  <2>3. delivery'[c] = "queued" /\ resolution'[c] \notin {"delivered", "closed"}
    BY <2>1 DEF ProjectionInv, ProjectionAgrees, Agrees, UncreatedIsUnseen
  <2>4. Agrees(c)'
    BY <2>2, <2>3 DEF Agrees
  <2> QED
    BY <2>1, <2>2, <2>4, OneShown
<1>10. ASSUME NEW w \in Workers,
              OpenCall(w) \/ GiveUpRepair(w) \/ EndJob(w) \/ FailJob(w) \/ Crash(w)
       PROVE  ProjectionInv'
  BY <1>1, <1>10 DEF OpenCall, GiveUpRepair, EndJob, FailJob, Crash
<1>11. ASSUME NEW c \in Commands,
              RecoverOrphan(c) \/ RequeueByAdmin(c) \/ ResumeAfterHealth(c)
       PROVE  ProjectionInv'
  BY <1>1, <1>11 DEF RecoverOrphan, RequeueByAdmin, ResumeAfterHealth, Requeue
<1>12. ASSUME \/ ChangeGate \/ DeleteContent \/ UNCHANGED vars
              \/ \E w \in Workers, d \in Commands, i \in Slots : StartJob(w, d, i)
              \/ \E d \in Commands, i \in Slots : ResetJob(d, i) \/ OperateJob(d, i)
       PROVE  ProjectionInv'
  BY <1>1, <1>12 DEF ChangeGate, DeleteContent, vars, StartJob, ResetJob, OperateJob
<1>13. ASSUME NEW w \in Workers, RepairSuccess(w)
       PROVE  ProjectionInv'
  BY <1>0, <1>5, <1>13 DEF RepairSuccess, WorkIsCreated
<1> QED
  BY <1>2, <1>3, <1>4, <1>5, <1>6, <1>7, <1>8, <1>9, <1>10, <1>11, <1>12, <1>13, First
  DEF Next, WorkerStep, SendMessage, ResendMessage, ReconcileByAdmin

(* As long as no job is reset under a live worker: each running worker has a job of
   its own, a call in flight belongs to the owner of its command, and the message
   shows what became of the command. *)
THEOREM OwnersAndProjection ==
  ASSUME ~LiveReset
  PROVE  Spec => [](OwnerInv /\ ProjectionInv)
<1>1. Init => OwnerInv /\ ProjectionInv
  <2> SUFFICES ASSUME Init PROVE OwnerInv /\ ProjectionInv
    OBVIOUS
  <2>1. OwnerInv
    BY DEF Init, OwnerInv, RunnersHold, CallIsOwned, InFlight
  <2>2. ProjectionInv
    BY DEF Init, ProjectionInv, ProjectionAgrees, Agrees, UncreatedIsUnseen, Sendable
  <2> QED
    BY <2>1, <2>2
<1>2. ExclusionInv /\ OwnerInv /\ ProjectionInv /\ [Next]_vars
         => (OwnerInv /\ ProjectionInv)'
  BY OwnerStep, ProjectionStep DEF OwnerInv
<1> QED
  BY <1>1, <1>2, Exclusion, PTL DEF Spec

(* A message is shown as failed only when its command is dead, as positive when it
   is done, as queued while it is not decided; a resolution by the administrator
   agrees with both (_finish_failure, _finalize_dispatch_success, _resolve_uncertain).
   The hypothesis is that no job is handed out again while its worker is alive. *)
THEOREM MessageShowsCommand ==
  ASSUME ~LiveReset
  PROVE  Spec => []ProjectionAgrees
<1>1. ProjectionInv => ProjectionAgrees
  BY DEF ProjectionInv
<1> QED
  BY <1>1, OwnersAndProjection, PTL

(* A command whose delivery was proved, or whose predecessor's was, is never
   dispatched again, even when the refusals of the provider lie (_start_dispatch,
   _lock_and_validate_retry_source_for_dispatch). *)
THEOREM EvidenceStopsDispatch ==
  ASSUME ~LiveReset
  PROVE  Spec => EvidenceFence
<1> DEFINE Fenced == \A c \in Commands : Crosses(c) =>
                         /\ delivery[c] \notin Positive
                         /\ c > 1 => delivery[c - 1] \notin Positive
<1>1. ASSUME ExclusionInv, ProjectionInv, [Next]_vars PROVE [Fenced]_vars
  <2> SUFFICES ASSUME NEW c \in Commands, Crosses(c)
               PROVE  /\ delivery[c] \notin Positive
                      /\ c > 1 => delivery[c - 1] \notin Positive
    BY DEF Fenced
  <2>1. state[c] \in Sendable /\ RetrySourceSafe(c)
    BY <1>1, OnlyDispatchCrosses DEF StartDispatch, MayPrepare
  <2>2. delivery[c] = "queued"
    BY <1>1, <2>1 DEF ProjectionInv, ProjectionAgrees, Agrees
  <2>3. c > 1 => delivery[c - 1] = "failed"
    BY <2>1 DEF RetrySourceSafe
  <2> QED
    BY <2>2, <2>3 DEF Positive
<1> QED
  BY <1>1, Exclusion, OwnersAndProjection, PTL DEF Spec, EvidenceFence

=============================================================================
