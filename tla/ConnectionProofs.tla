-------------------------- MODULE ConnectionProofs --------------------------
(***************************************************************************)
(* Theorems of Connection, for any number of health jobs, reconnect         *)
(* requests, reports, messages and commands, and any durations.              *)
(***************************************************************************)
EXTENDS Connection, FiniteSetTheorems, WellFoundedInduction, TLAPS

-----------------------------------------------------------------------------
(* Numbers *)

(* A set of naturals has a least member... *)
LEMMA Least ==
  ASSUME NEW S \in SUBSET Nat, S # {}
  PROVE  \E x \in S : \A y \in S : x <= y
<1> DEFINE R == {ss \in Nat \X Nat : ss[1] < ss[2]}
<1>1. IsWellFoundedOn(R, Nat)
  BY NatLessThanWellFounded DEF OpToRel
<1>2. PICK x \in S : \A y \in S : <<y, x>> \notin R
  BY <1>1, WFMin
<1>3. \A y \in S : ~ (y < x)
  BY <1>2
<1> QED
  BY <1>3

(* ... and a greatest one, if it has a bound. *)
LEMMA Greatest ==
  ASSUME NEW S \in SUBSET Nat, S # {}, NEW N \in Nat, \A x \in S : x <= N
  PROVE  \E x \in S : \A y \in S : y <= x
<1> DEFINE T == {N - x : x \in S}
<1>1. T \in SUBSET Nat /\ T # {}
  <2>1. \A x \in S : N - x \in Nat
    OBVIOUS
  <2> QED
    BY <2>1
<1>2. PICK t \in T : \A y \in T : t <= y
  BY <1>1, Least
<1>3. PICK x \in S : t = N - x
  BY <1>2
<1>4. \A y \in S : N - x <= N - y
  BY <1>2, <1>3
<1>5. \A y \in S : y <= x
  BY <1>4
<1> QED
  BY <1>5

(* The first and the highest of some of the numbers up to N are among them. *)
LEMMA FirstIsThere ==
  ASSUME NEW N \in Nat, NEW S \in SUBSET (1 .. N), S # {}
  PROVE  FirstOf(S) \in S /\ \A x \in S : FirstOf(S) <= x
<1>1. S \in SUBSET Nat
  OBVIOUS
<1>2. \E x \in S : \A y \in S : x <= y
  BY <1>1, Least
<1> QED
  BY <1>2 DEF FirstOf

(* The highest of a set of pages is one of them, and none is higher. *)
LEMMA HighestIsThere ==
  ASSUME NEW N \in Nat, NEW S \in SUBSET (1 .. N), S # {}
  PROVE  HighestOf(S) \in S /\ \A x \in S : x <= HighestOf(S)
<1>1. S \in SUBSET Nat /\ \A x \in S : x <= N
  OBVIOUS
<1>2. \E x \in S : \A y \in S : y <= x
  BY <1>1, Greatest
<1> QED
  BY <1>2 DEF HighestOf

(* The lowest commands of a set are a batch that is not empty, and the rest is higher
   than all of it. *)
LEMMA Batches ==
  ASSUME NEW S \in SUBSET Commands, NEW B,
         B = {c \in S : Cardinality({d \in S : d <= c}) <= PageSize}, S \ B # {}
  PROVE  /\ HighestOf(B) \in B
         /\ \A r \in S \ B : HighestOf(B) < r
<1>0. LastCommand \in Nat /\ PageSize \in Nat \ {0} /\ Commands = 1 .. LastCommand
  BY BoundsAssumption DEF Commands
<1>i. S \subseteq Int /\ B \subseteq S
  BY <1>0
<1>1. IsFiniteSet(Commands)
  BY <1>0, FS_Interval
<1>2. \A T \in SUBSET S : IsFiniteSet(T) /\ Cardinality(T) \in Nat
  BY <1>1, FS_Subset, FS_CardinalityType
<1>3. B # {}
  <2>1. S # {} /\ S \in SUBSET (1 .. LastCommand)
    BY <1>0
  <2>2. FirstOf(S) \in S /\ \A x \in S : FirstOf(S) <= x
    BY <1>0, <2>1, FirstIsThere
  <2>3. {d \in S : d <= FirstOf(S)} = {FirstOf(S)}
    <3>1. ASSUME NEW d \in S, d <= FirstOf(S) PROVE d = FirstOf(S)
      <4>1. d \in Int /\ FirstOf(S) \in Int /\ FirstOf(S) <= d
        BY <1>i, <2>2
      <4> QED
        BY <3>1, <4>1
    <3>2. FirstOf(S) <= FirstOf(S)
      BY <1>i, <2>2
    <3> QED
      BY <2>2, <3>1, <3>2
  <2>4. Cardinality({d \in S : d <= FirstOf(S)}) = 1
    BY <2>3, FS_Singleton
  <2> QED
    BY <1>0, <2>2, <2>4
<1>4. HighestOf(B) \in B /\ \A x \in B : x <= HighestOf(B)
  <2>1. B \in SUBSET (1 .. LastCommand)
    BY <1>0
  <2> QED
    BY <1>0, <1>3, <2>1, HighestIsThere
<1>5. ASSUME NEW r \in S \ B PROVE HighestOf(B) < r
  <2> DEFINE h == HighestOf(B)
             low(c) == {d \in S : d <= c}
  <2>1. h \in S /\ h \in Int /\ r \in Int
    BY <1>i, <1>4
  <2>2. SUFFICES ASSUME r <= h PROVE FALSE
    BY <2>1
  <2>3. low(r) \subseteq low(h)
    <3>1. \A d \in S : d <= r => d <= h
      BY <1>i, <2>1, <2>2
    <3> QED
      BY <3>1
  <2>4. low(h) \in SUBSET S /\ low(r) \in SUBSET S
    OBVIOUS
  <2>5. Cardinality(low(r)) <= Cardinality(low(h))
    BY <1>2, <2>3, <2>4, FS_Subset
  <2>6. Cardinality(low(h)) <= PageSize
    BY <1>4
  <2>7. Cardinality(low(r)) \in Nat /\ Cardinality(low(h)) \in Nat
    BY <1>2, <2>4
  <2>8. Cardinality(low(r)) <= PageSize
    BY <1>0, <2>5, <2>6, <2>7
  <2>9. r \in B
    BY <2>8
  <2> QED
    BY <2>9
<1> QED
  BY <1>4, <1>5

(* The horizon is no shorter than any delay. *)
LEMMA HorizonIsFar ==
  /\ Horizon \in Nat
  /\ Lease + Jitter <= Horizon /\ Interval <= Horizon /\ Backoff <= Horizon
  /\ RetryAfter <= Horizon /\ EventDelay <= Horizon
<1> DEFINE S == {Lease + Jitter, Interval, Backoff, RetryAfter, EventDelay}
           N == Lease + Jitter + Interval + Backoff + RetryAfter + EventDelay
<1>1. /\ Lease \in Nat /\ Jitter \in Nat /\ Interval \in Nat /\ Backoff \in Nat
      /\ RetryAfter \in Nat /\ EventDelay \in Nat
  BY DurationsAssumption
<1>2. S \in SUBSET Nat /\ S # {} /\ N \in Nat
  BY <1>1
<1>3. \A x \in S : x <= N
  BY <1>1
<1> HIDE DEF N
<1>4. \E x \in S : \A y \in S : y <= x
  BY <1>2, <1>3, Greatest
<1>5. Horizon \in S /\ \A y \in S : y <= Horizon
  BY <1>4 DEF Horizon
<1> QED
  BY <1>2, <1>5

-----------------------------------------------------------------------------
(* Rows and observations *)

Roles   == {"primary", "standby", "historical"}
Details == {"none", "rate_limited", "unreachable"}

(* What the row of a connection is, whatever the bounds. *)
Rows == [role : Roles, outbound : BOOLEAN,
         state : States, at : Nat, source : {"probe", "event"},
         lastEvent : Nat, healthEvent : Nat,
         latched : BOOLEAN, detail : Details,
         healthAt : Nat, unhealthy : BOOLEAN,
         pending : BOOLEAN, owner : Nat, next : Nat, cooldown : Nat,
         config : Nat, epoch : Nat,
         pairing : Pairings, wave : Nat, wizard : Nat]

(* What the providers answers and reports are made of. *)
LEMMA Words ==
  /\ States = {"connected", "degraded", "disconnected", "authentication_required"}
  /\ SafetyRank["connected"] = 0
  /\ \A s \in States \ {"connected"} : SafetyRank[s] \in Nat /\ SafetyRank[s] > 0
  /\ Findings \subseteq {"match", "mismatch", "unverified", "inactive", "waiting",
                         "unreachable", "limited", "matchLater"}
  /\ Kinds \subseteq {"Connected", "Disconnected", "KeepAliveTimeout", "LoggedOut",
                      "QRTimeout"}
  /\ \A k \in Kinds \cup {"Connected"} : Reported(k) \in States \ {"connected"}
<1>1. States = {"connected", "degraded", "disconnected", "authentication_required"}
  BY DEF States, SafetyRank
<1>2. /\ SafetyRank["connected"] = 0
      /\ \A s \in States \ {"connected"} : SafetyRank[s] \in Nat /\ SafetyRank[s] > 0
  BY <1>1 DEF SafetyRank
<1>3. /\ DOMAIN Answers = {"match", "mismatch", "unverified", "inactive", "waiting",
                           "unreachable", "limited", "matchLater"}
      /\ DOMAIN Target = {"Connected", "Disconnected", "KeepAliveTimeout", "LoggedOut",
                          "QRTimeout"}
  BY DEF Answers, Target
<1>4. \A k \in DOMAIN Target : Reported(k) \in States \ {"connected"}
  BY <1>1, <1>3 DEF Reported, Target
<1> QED
  BY <1>1, <1>2, <1>3, <1>4, KindsAssumption

(* What a probe may read. *)
IsAnswer(a) ==
    /\ a \in [state : States,
              detail : Details \cup {"healthy", "identity_mismatch", "identity_unverified",
                                    "session_inactive", "pairing_required"},
              match : {"yes", "no", "none"},
              conclusive : BOOLEAN, retry : BOOLEAN]
    /\ a.state = "connected" <=> a.match = "yes"
    /\ a.state = "connected" => a.conclusive
    /\ ~a.conclusive => a.detail \in {"unreachable", "rate_limited"}

(* Observation o is what a probe read, or what a report said, no later than now. *)
Observation(o) ==
    /\ o.at \in Nat /\ o.at <= clock /\ o.state \in States
    /\ o.source \in {"probe", "event"} /\ o.probe = (o.source = "probe")
    /\ o.owns \in BOOLEAN /\ o.conclusive \in BOOLEAN /\ o.retry \in BOOLEAN
    /\ ~o.conclusive => o.detail \in {"unreachable", "rate_limited"}
    /\ o.state = "connected" => o.source = "probe" /\ o.match = "yes" /\ o.conclusive
    /\ o.source = "probe" => o.seq = 0
    /\ o.source = "event" => /\ o.seq \in Reports /\ o.conclusive /\ ~o.owns /\ ~o.retry

(* Whatever a provider answers to a probe is an answer, with or without a date to
   ask again. *)
LEMMA AnswersAre ==
  ASSUME NEW p, NEW f \in Said(p) \cup {"waiting"}
  PROVE  IsAnswer(Answers[f]) /\ IsAnswer([Answers[f] EXCEPT !.retry = TRUE])
<1> DEFINE Fine(a) == IsAnswer(a) /\ IsAnswer([a EXCEPT !.retry = TRUE])
<1>r. ASSUME NEW a, IsAnswer(a) PROVE IsAnswer([a EXCEPT !.retry = TRUE])
  BY <1>r DEF IsAnswer
<1>w. /\ "connected" \in States /\ "degraded" \in States /\ "disconnected" \in States
      /\ "authentication_required" \in States
  BY Words
<1>1. /\ IsAnswer(Answer("connected", "healthy", "yes"))
      /\ IsAnswer(Answer("degraded", "identity_mismatch", "no"))
      /\ IsAnswer(Answer("degraded", "identity_unverified", "no"))
      /\ IsAnswer(Answer("disconnected", "session_inactive", "none"))
      /\ IsAnswer(Answer("authentication_required", "pairing_required", "none"))
  BY <1>w DEF Answer, IsAnswer, Details
<1>2. IsAnswer(Doubt("disconnected", "unreachable")) /\ IsAnswer(Doubt("degraded", "rate_limited"))
  BY <1>w DEF Doubt, IsAnswer, Details
<1> HIDE DEF Fine
<1>6. /\ Fine(Answers["match"]) /\ Fine(Answers["mismatch"]) /\ Fine(Answers["unverified"])
      /\ Fine(Answers["inactive"]) /\ Fine(Answers["waiting"])
      /\ Fine(Answers["unreachable"]) /\ Fine(Answers["limited"])
      /\ Fine(Answers["matchLater"])
  BY <1>r, <1>1, <1>2 DEF Answers, Fine
<1>7. f \in {"match", "mismatch", "unverified", "inactive", "waiting", "unreachable",
             "limited", "matchLater"}
  BY Words DEF Said
<1>8. Fine(Answers[f])
  BY <1>6, <1>7
<1> QED
  BY <1>8 DEF Fine

(* The answer to a probe is an observation of the instant the probe began. *)
LEMMA ProbesObserve ==
  ASSUME NEW a, IsAnswer(a), NEW at \in Nat, at <= clock, NEW owns \in BOOLEAN
  PROVE  Observation(ProbeDated(a, at, owns))
BY DEF IsAnswer, Observation, ProbeDated

(* A report of the provider is an observation of the instant it is dated. *)
LEMMA ReportsObserve ==
  ASSUME NEW n \in Reports, report[n].at \in Nat, report[n].at <= clock,
         report[n].kind \in Kinds \cup {"Connected"}
  PROVE  Observation(ReportDated(n))
BY Words DEF Observation, ReportDated

(* What an observation makes of a row, field by field. *)
LEMMA AppliedFields ==
  ASSUME NEW c \in Rows, NEW o
  PROVE  LET d == Applied(c, o) IN
         /\ /\ d.role = c.role /\ d.outbound = c.outbound /\ d.config = c.config
            /\ d.epoch = c.epoch /\ d.wave = c.wave /\ d.wizard = c.wizard
         /\ /\ d.latched = Latch(c, o) /\ d.pairing = Pairing(c, o)
            /\ d.state = IF Settled(c, o) THEN Guarded(c, o) ELSE c.state
            /\ d.at = IF Settled(c, o) THEN o.at ELSE c.at
            /\ d.source = IF Settled(c, o) THEN o.source ELSE c.source
            /\ d.lastEvent = IF /\ o.source = "event"
                                /\ \/ Settled(c, o)
                                   \/ (o.at = c.at /\ o.seq > c.lastEvent)
                             THEN o.seq ELSE c.lastEvent
            /\ d.healthEvent = IF o.source = "probe" /\ Settled(c, o) THEN c.lastEvent
                               ELSE c.healthEvent
         /\ /\ d.owner = (IF o.owns THEN 0 ELSE c.owner)
            /\ d.pending = (IF o.owns THEN FALSE ELSE c.pending)
            /\ d.next = Schedule(c, o) /\ d.cooldown = Cooldown(c, o)
            /\ d.healthAt = (IF Sampled(c, o) THEN o.at ELSE c.healthAt)
            /\ d.detail = (IF Sampled(c, o) THEN Detail(c, o) ELSE c.detail)
            /\ d.unhealthy = (IF Sampled(c, o)
                              THEN ~(Guarded(c, o) = "connected" /\ o.conclusive)
                              ELSE c.unhealthy)
         /\ DOMAIN d = DOMAIN c
BY DEF Applied, Rows

(* A deadline, and when the next check is due, are no further than a delay after now. *)
LEMMA SchedulesAreNear ==
  ASSUME NEW c \in Rows, NEW o, Observation(o), clock \in Nat,
         c.next <= clock + Horizon, c.cooldown <= clock + RetryAfter
  PROVE  /\ Cooldown(c, o) \in Nat /\ Cooldown(c, o) <= clock + RetryAfter
         /\ Schedule(c, o) \in Nat /\ Schedule(c, o) <= clock + Horizon
<1>n. /\ Interval \in Nat /\ Backoff \in Nat /\ RetryAfter \in Nat /\ EventDelay \in Nat
  BY DurationsAssumption
<1>h. /\ Horizon \in Nat /\ Interval <= Horizon /\ Backoff <= Horizon
      /\ RetryAfter <= Horizon /\ EventDelay <= Horizon
  BY HorizonIsFar
<1>o. o.at \in Nat /\ o.at <= clock /\ o.probe \in BOOLEAN /\ o.retry \in BOOLEAN
  BY DEF Observation
<1>c. c.next \in Nat /\ c.cooldown \in Nat
  BY DEF Rows
<1>1. Deadline(c, o) \in Nat /\ Deadline(c, o) <= clock + RetryAfter
  BY <1>n, <1>o, <1>c DEF Deadline, Later
<1>2. Cooldown(c, o) \in Nat /\ Cooldown(c, o) <= clock + RetryAfter
  BY <1>n, <1>o, <1>c, <1>1 DEF Cooldown
<1> DEFINE B == 0 .. clock + Horizon
           s     == Guarded(c, o)
           fresh == Fresh(c, o, s)
           lost  == IF o.owns /\ ~fresh THEN o.at ELSE c.next
           due   == IF Sampled(c, o) /\ fresh
                    THEN o.at + (IF s = "connected" /\ o.conclusive THEN Interval ELSE Backoff)
                    ELSE lost
           told  == IF o.probe /\ o.retry THEN Later(due, Deadline(c, o)) ELSE due
           kept  == IF o.probe /\ c.cooldown > o.at THEN Later(told, c.cooldown) ELSE told
           last  == IF o.source = "event" /\ fresh /\ s # "connected"
                    THEN Later(IF kept = 0 THEN o.at + EventDelay
                               ELSE Sooner(kept, Later(o.at + EventDelay, c.cooldown)),
                               IF c.cooldown = 0 THEN o.at ELSE c.cooldown)
                    ELSE kept
<1>3. Schedule(c, o) = last
  BY DEF Schedule
<1>4. \A x, y \in B : Later(x, y) \in B /\ Sooner(x, y) \in B
  BY DEF Later, Sooner
<1>5. /\ o.at \in B /\ o.at + Interval \in B /\ o.at + Backoff \in B
      /\ o.at + EventDelay \in B /\ c.next \in B /\ c.cooldown \in B /\ Deadline(c, o) \in B
  BY <1>n, <1>h, <1>o, <1>c, <1>1
<1>6. lost \in B
  BY <1>5
<1> HIDE DEF lost, fresh, s, B
<1>7. due \in B
  BY <1>5, <1>6
<1> HIDE DEF due
<1>8. told \in B
  BY <1>4, <1>5, <1>7
<1> HIDE DEF told
<1>9. kept \in B
  BY <1>4, <1>5, <1>8
<1> HIDE DEF kept
<1>10. Later(o.at + EventDelay, c.cooldown) \in B
  BY <1>4, <1>5
<1>11. last \in B
  BY <1>4, <1>5, <1>9, <1>10
<1> QED
  BY <1>2, <1>3, <1>11, <1>h DEF B

(* What an observation makes of a row is a row. *)
LEMMA AppliedRows ==
  ASSUME NEW c \in Rows, NEW o, Observation(o), clock \in Nat,
         c.next <= clock + Horizon, c.cooldown <= clock + RetryAfter
  PROVE  Applied(c, o) \in Rows
<1>o. /\ o.at \in Nat /\ o.source \in {"probe", "event"} /\ o.state \in States
      /\ o.owns \in BOOLEAN /\ o.conclusive \in BOOLEAN
      /\ ~o.conclusive => o.detail \in Details
      /\ o.source = "event" => o.seq \in Nat
  BY DEF Observation, Details, Reports
<1>c. /\ c.detail \in Details /\ c.latched \in BOOLEAN /\ c.pairing \in Pairings
      /\ c.lastEvent \in Nat /\ c.healthEvent \in Nat /\ c.owner \in Nat
      /\ c.pending \in BOOLEAN /\ c.healthAt \in Nat /\ c.unhealthy \in BOOLEAN
      /\ c.state \in States /\ c.at \in Nat /\ c.source \in {"probe", "event"}
  BY DEF Rows
<1>1. Cooldown(c, o) \in Nat /\ Schedule(c, o) \in Nat
  BY SchedulesAreNear
<1>2. Guarded(c, o) \in States
  BY <1>o, Words DEF Guarded
<1>3. Latch(c, o) \in BOOLEAN
  BY <1>c DEF Latch
<1>4. Detail(c, o) \in Details
  BY <1>o, <1>c DEF Detail, Details
<1>5. Pairing(c, o) \in Pairings
  <2>1. PairingOfProbe(c, o) \in Pairings
    BY <1>c DEF PairingOfProbe, Pairings, Pending
  <2>2. PairingOfReport(c, o) \in Pairings
    BY <1>c DEF PairingOfReport, Pairings, Pending
  <2> QED
    BY <1>c, <2>1, <2>2 DEF Pairing
<1> DEFINE le == IF o.source = "event"
                    /\ (Settled(c, o) \/ (o.at = c.at /\ o.seq > c.lastEvent))
                 THEN o.seq ELSE c.lastEvent
           he == IF o.source = "probe" /\ Settled(c, o) THEN c.lastEvent ELSE c.healthEvent
           ow == IF o.owns THEN 0 ELSE c.owner
           pe == IF o.owns THEN FALSE ELSE c.pending
           ha == IF Sampled(c, o) THEN o.at ELSE c.healthAt
           de == IF Sampled(c, o) THEN Detail(c, o) ELSE c.detail
           un == IF Sampled(c, o) THEN ~(Guarded(c, o) = "connected" /\ o.conclusive)
                 ELSE c.unhealthy
           st == IF Settled(c, o) THEN Guarded(c, o) ELSE c.state
           at == IF Settled(c, o) THEN o.at ELSE c.at
           so == IF Settled(c, o) THEN o.source ELSE c.source
<1>6. /\ le \in Nat /\ he \in Nat /\ ow \in Nat /\ pe \in BOOLEAN /\ ha \in Nat
      /\ de \in Details /\ un \in BOOLEAN
  BY <1>o, <1>c, <1>4
<1>7. st \in States /\ at \in Nat /\ so \in {"probe", "event"}
  BY <1>o, <1>c, <1>2
<1> DEFINE r1 == [c EXCEPT !.latched = Latch(c, o), !.lastEvent = le, !.healthEvent = he,
                           !.owner = ow]
           r2 == [r1 EXCEPT !.pending = pe, !.healthAt = ha, !.detail = de]
           r3 == [r2 EXCEPT !.unhealthy = un, !.next = Schedule(c, o),
                            !.cooldown = Cooldown(c, o), !.pairing = Pairing(c, o)]
           r4 == [r3 EXCEPT !.state = st, !.at = at, !.source = so]
<1>8. Applied(c, o) = r4
  BY DEF Applied
<1> HIDE DEF le, he, ow, pe, ha, de, un, st, at, so
<1>9. r1 \in Rows
  BY <1>3, <1>6 DEF Rows
<1> HIDE DEF r1
<1>10. r2 \in Rows
  BY <1>6, <1>9 DEF Rows
<1> HIDE DEF r2
<1>11. r3 \in Rows
  BY <1>1, <1>5, <1>6, <1>10 DEF Rows
<1> HIDE DEF r3
<1>12. r4 \in Rows
  BY <1>7, <1>11 DEF Rows
<1> QED
  BY <1>8, <1>12

-----------------------------------------------------------------------------
(* Types *)

(* What a row holds is no later than now, and what is due no further than a delay. *)
Near(c) ==
    /\ c.at <= clock /\ c.healthAt <= clock
    /\ c.next <= clock + Horizon /\ c.cooldown <= clock + RetryAfter
    /\ c.lastEvent <= LastReport /\ c.healthEvent <= LastReport
    /\ c.owner <= LastProbe /\ c.wizard <= LastReconnect /\ c.epoch <= LastReconnect
    /\ 1 <= c.config /\ c.config <= 1 + changes

(* Jobs read no later than now. *)
ProbesAre ==
    /\ probe \in [Probes -> [phase : {"absent", "queued", "reading", "done", "dead"},
                             eta : Nat, at : Nat]]
    /\ \A j \in Probes : probe[j].at <= clock /\ probe[j].eta <= clock + Jitter
    /\ outdated \in SUBSET Probes

(* Reconnect requests run one after the other, and each opens one epoch at most. *)
ReconnectsAre ==
    /\ reconnect \in [Reconnects -> [phase : {"absent", "queued", "reading", "done"},
                         eta : Nat, at : Nat, config : 0 .. 1 + MaxChanges,
                         token : (0 .. 1 + MaxChanges) \X (0 .. LastReconnect) \X Pairings]]
    /\ \A r \in Reconnects :
          /\ reconnect[r].at <= clock /\ reconnect[r].eta <= clock + RetryAfter
          /\ reconnect[r].phase # "absent" =>
                \A q \in 1 .. r - 1 : reconnect[q].phase # "absent"
          /\ Running(r) => \A q \in Reconnects : Running(q) => q = r
          /\ reconnect[r].phase # "done" => conn.epoch < r

(* Reports are stored in the order of their receipt. *)
ReportsAre ==
    /\ report \in [Reports -> [kind : Kinds \cup {"Connected"},
                               state : {"absent", "pending", "done"},
                               at : Nat, epoch : 0 .. LastReconnect, phase : Pairings]]
    /\ \A n \in Reports :
          /\ report[n].at <= clock
          /\ report[n].state # "absent" =>
                \A i \in 1 .. n : report[i].state # "absent" /\ report[i].at <= report[n].at

HeldAre ==
    /\ held \in [Held -> [state : {"absent", "blocked", "released"}, at : Nat,
                          epoch : 0 .. LastReconnect, config : 0 .. 1 + MaxChanges]]
    /\ \A m \in Held : held[m].at <= clock

SendsAre ==
    /\ cmd \in [Commands -> {"absent", "ready", "parked", "sent"}]
    /\ pages \subseteq [wave : Nat, after : 0 .. LastCommand, cutoff : Commands]

HeardIs ==
    /\ heard \in [match : Nat, against : Nat, retry : Nat]
    /\ heard.match <= clock /\ heard.against <= clock /\ heard.retry <= clock + RetryAfter

RowIs == conn \in Rows /\ Near(conn)

TypeInv ==
    /\ clock \in 1 .. LastInstant /\ changes \in 0 .. MaxChanges
    /\ RowIs /\ ProbesAre /\ ReconnectsAre /\ ReportsAre /\ HeldAre /\ SendsAre /\ HeardIs

(* The bounds are numbers. *)
LEMMA Bounds ==
  /\ LastInstant \in Nat \ {0} /\ LastProbe \in Nat /\ LastReconnect \in Nat
  /\ LastReport \in Nat /\ LastHeld \in Nat /\ LastCommand \in Nat /\ MaxChanges \in Nat
  /\ Lease \in Nat \ {0} /\ Jitter \in Nat /\ Interval \in Nat \ {0}
  /\ Backoff \in Nat \ {0} /\ RetryAfter \in Nat \ {0} /\ EventDelay \in Nat \ {0}
  /\ Horizon \in Nat /\ Lease + Jitter <= Horizon /\ RetryAfter <= Horizon
BY BoundsAssumption, DurationsAssumption, HorizonIsFar

(* Row d differs from row c by its schedule only, which is as near as it should; by its
   cooldown too. *)
Kept(c, d) ==
    /\ d \in Rows
    /\ d.role = c.role /\ d.outbound = c.outbound /\ d.state = c.state /\ d.at = c.at
    /\ d.source = c.source /\ d.lastEvent = c.lastEvent /\ d.healthEvent = c.healthEvent
    /\ d.latched = c.latched /\ d.detail = c.detail /\ d.healthAt = c.healthAt
    /\ d.unhealthy = c.unhealthy /\ d.config = c.config
    /\ d.epoch = c.epoch /\ d.pairing = c.pairing /\ d.wave = c.wave
    /\ d.next <= clock + Horizon /\ d.owner <= LastProbe /\ d.wizard <= LastReconnect

Touched(c, d) == Kept(c, d) /\ d.cooldown = c.cooldown

(* A health job is created, if no cooldown stands. *)
Created(eta) ==
    \E j \in Probes :
        /\ probe[j].phase = "absent" /\ conn'.cooldown <= clock
        /\ probe' = [probe EXCEPT ![j] = [phase |-> "queued", eta |-> eta, at |-> 0]]

(* A check is asked for, and a job for it created or not. *)
Asked ==
    /\ UNCHANGED probe \/ \E eta \in {clock, clock + Jitter} : Created(eta)
    /\ outdated' \in SUBSET Probes

(* A row may be stored for which a check is enqueued. *)
MayEnqueue(c) ==
    /\ c \in Rows /\ c.next <= clock + Horizon /\ c.cooldown <= clock + RetryAfter
    /\ c.owner <= LastProbe /\ c.wizard <= LastReconnect

(* Enqueueing touches the row, and creates a job unless a cooldown stands. *)
LEMMA Enqueuing ==
  ASSUME TypeInv, NEW c, MayEnqueue(c), NEW eta \in {clock, clock + Jitter},
         Enqueue(c, eta)
  PROVE  /\ Touched(c, conn')
         /\ Asked
<1>b. /\ clock \in Nat /\ eta \in Nat /\ eta <= clock + Jitter /\ c.cooldown \in Nat
      /\ c.next \in Nat /\ Probes = 1 .. LastProbe
  BY Bounds DEF TypeInv, MayEnqueue, Rows, Probes
<1>s. ASSUME NEW d, Store(d) PROVE conn' = d /\ outdated' \in SUBSET Probes
  BY <1>s DEF Store, TypeInv, ProbesAre, Reading
<1>t. Touched(c, c)
  BY DEF Touched, Kept, MayEnqueue
<1>1. CASE c.role = "historical"
  BY <1>1, <1>s, <1>t DEF Enqueue, Asked
<1>2. CASE c.role # "historical" /\ \E j \in Probes : Live(j)
  <2> DEFINE j == JobOf(c)
             n == IF c.next = 0 \/ c.next <= clock \/ c.next > clock + Lease THEN clock + Lease
                  ELSE c.next
  <2>1. j \in Probes
    <3>1. \E k \in Probes : Live(k) /\ (c.owner \in {i \in Probes : Live(i)} => k = c.owner)
      BY <1>2
    <3> QED
      BY <3>1 DEF JobOf
  <2>2. n \in Nat /\ n <= clock + Horizon
    BY <1>b, Bounds DEF MayEnqueue
  <2>3. Adopted(c, j) = [c EXCEPT !.pending = TRUE, !.owner = j, !.next = n]
    BY DEF Adopted
  <2>4. conn' = Adopted(c, j) /\ outdated' \in SUBSET Probes /\ UNCHANGED probe
    BY <1>2, <1>s DEF Enqueue
  <2> HIDE DEF j, n
  <2>5. j \in Nat /\ j <= LastProbe
    BY <1>b, <2>1, Bounds
  <2>6. Touched(c, [c EXCEPT !.pending = TRUE, !.owner = j, !.next = n])
    BY <1>t, <2>2, <2>5 DEF Touched, Kept, MayEnqueue, Rows
  <2> QED
    BY <2>3, <2>4, <2>6 DEF Asked
<1>3. CASE c.role # "historical" /\ ~(\E j \in Probes : Live(j)) /\ c.cooldown > clock
  <2> DEFINE n == Later(c.cooldown, eta)
  <2>1. n \in Nat /\ n <= clock + Horizon
    BY <1>b, Bounds DEF MayEnqueue, Later
  <2>2. /\ conn' = [c EXCEPT !.pending = FALSE, !.owner = 0, !.next = n]
        /\ outdated' \in SUBSET Probes /\ UNCHANGED probe
    BY <1>3, <1>s DEF Enqueue
  <2> HIDE DEF n
  <2>3. Touched(c, [c EXCEPT !.pending = FALSE, !.owner = 0, !.next = n])
    <3> DEFINE z == 0
    <3>1. z \in Nat /\ z <= LastProbe
      BY Bounds
    <3> HIDE DEF z
    <3>2. Touched(c, [c EXCEPT !.pending = FALSE, !.owner = z, !.next = n])
      BY <1>t, <2>1, <3>1 DEF Touched, Kept, MayEnqueue, Rows
    <3> QED
      BY <3>2 DEF z
  <2> QED
    BY <2>2, <2>3 DEF Asked
<1>4. CASE c.role # "historical" /\ ~(\E j \in Probes : Live(j)) /\ ~(c.cooldown > clock)
  <2> DEFINE j == FirstOf(Absent)
             n == eta + Lease
  <2>1. /\ Absent # {} /\ conn' = [c EXCEPT !.pending = TRUE, !.owner = j, !.next = n]
        /\ outdated' \in SUBSET Probes
        /\ probe' = [probe EXCEPT ![j] = [phase |-> "queued", eta |-> eta, at |-> 0]]
    BY <1>4, <1>s DEF Enqueue
  <2>2. j \in Absent
    <3>1. Absent \in SUBSET (1 .. LastProbe)
      BY <1>b DEF Absent
    <3> QED
      BY <2>1, <3>1, FirstIsThere, Bounds
  <2>3. j \in Probes /\ probe[j].phase = "absent"
    BY <2>2 DEF Absent
  <2>4. n \in Nat /\ n <= clock + Horizon
    BY <1>b, Bounds
  <2> HIDE DEF j, n
  <2>5. j \in Nat /\ j <= LastProbe
    BY <1>b, <2>3, Bounds
  <2>6. Touched(c, [c EXCEPT !.pending = TRUE, !.owner = j, !.next = n])
    BY <1>t, <2>4, <2>5 DEF Touched, Kept, MayEnqueue, Rows
  <2>7. c.cooldown <= clock
    BY <1>4, <1>b
  <2> QED
    BY <2>1, <2>3, <2>6, <2>7 DEF Created, Asked, Touched
<1> QED
  BY <1>1, <1>2, <1>3, <1>4

-----------------------------------------------------------------------------
(* What becomes of the row *)

(* A hint brings the next check nearer or further, and a cooldown if the provider
   asked for one. *)
Hinted ==
    /\ Kept(conn, conn')
    /\ conn.cooldown <= conn'.cooldown /\ conn'.cooldown <= clock + RetryAfter
    /\ heard' \in [match : {heard.match}, against : {heard.against},
                   retry : {heard.retry, Later(heard.retry, clock + RetryAfter)}]
    /\ heard'.retry # heard.retry => clock + RetryAfter <= conn'.cooldown
    /\ UNCHANGED <<report, cmd, pages>>

(* The row from which a probe's answer is applied: that of the connection, perhaps
   with a new pairing epoch. *)
NewEpoch(b) ==
    /\ b \in Rows /\ Near(b)
    /\ b.role = conn.role /\ b.outbound = conn.outbound /\ b.state = conn.state
    /\ b.at = conn.at /\ b.source = conn.source /\ b.lastEvent = conn.lastEvent
    /\ b.detail = conn.detail /\ b.healthAt = conn.healthAt
    /\ b.cooldown = conn.cooldown /\ b.wave = conn.wave
    /\ b.config = conn.config /\ b.latched /\ b.epoch = conn.epoch + 1

Watched(b, past, o) ==
    /\ Observation(o) /\ o.source = "probe"
    /\ \/ Touched(conn, b) /\ past = heard
       \/ /\ NewEpoch(b) /\ past = [heard EXCEPT !.match = 0] /\ o.match # "yes"
          /\ \E r \in Reconnects : ShowCode(r)
    /\ Observe(b, past, o)
    /\ UNCHANGED <<clock, report, cmd>>

(* A report is applied to the row of a connection in use. *)
Heeded(n) ==
    /\ n \in Reports /\ report[n].state = "pending"
    /\ report' = [report EXCEPT ![n].state = "done"]
    /\ Hear(conn, heard, ReportDated(n))
    /\ Touched(Applied(conn, ReportDated(n)), conn')
    /\ UNCHANGED <<clock, cmd, pages>>

(* The connection is configured anew. *)
Configured ==
    /\ conn' \in Rows
    /\ conn'.state = "degraded" /\ conn'.at = conn.at /\ conn'.lastEvent = conn.lastEvent
    /\ conn'.role = conn.role /\ conn'.outbound = conn.outbound /\ conn'.wave = conn.wave
    /\ conn'.healthAt = conn.healthAt /\ conn'.healthEvent = conn.healthEvent
    /\ conn'.epoch = conn.epoch /\ conn'.cooldown = 0
    /\ conn'.next <= clock + Horizon /\ conn'.owner <= LastProbe
    /\ conn'.wizard <= LastReconnect
    /\ conn'.config = conn.config + 1 /\ changes' = changes + 1
    /\ heard' = [heard EXCEPT !.match = 0, !.retry = 0]
    /\ UNCHANGED <<clock, report, cmd, pages>>

(* The connection is taken into service, or out of it. *)
Assigned ==
    /\ \E role \in Roles, outbound \in BOOLEAN :
          /\ conn' = [conn EXCEPT !.role = role, !.outbound = outbound]
          /\ \/ outbound /\ role = "primary" /\ ~conn.outbound
             \/ ~outbound /\ (conn.outbound /\ conn.role = "primary" => NoneActive)
    /\ UNCHANGED <<clock, heard, report, cmd, pages>>

(* Whoever is told of a row it may use enqueues for it. *)
LEMMA ConnMayEnqueue ==
  ASSUME TypeInv
  PROVE  MayEnqueue(conn) /\ clock \in Nat /\ clock + 0 = clock /\ clock <= clock + Jitter
BY Bounds DEF TypeInv, RowIs, Near, MayEnqueue

(* A row nobody writes keeps what a step must keep. *)
LEMMA TouchedItself ==
  ASSUME TypeInv
  PROVE  Touched(conn, conn)
BY DEF TypeInv, RowIs, Near, Touched, Kept

(* A check that is asked for. *)
LEMMA HintSteps ==
  ASSUME TypeInv, ScheduleCheck \/ RequestCheck \/ \E retry \in BOOLEAN : HintAfterSend(retry)
  PROVE  Hinted /\ UNCHANGED clock
<1>t. /\ conn \in Rows /\ Near(conn) /\ clock \in Nat /\ conn.cooldown \in Nat
      /\ heard \in [match : Nat, against : Nat, retry : Nat]
      /\ heard.retry \in Nat
  BY DEF TypeInv, RowIs, Rows, HeardIs
<1>h. UNCHANGED heard =>
         heard' \in [match : {heard.match}, against : {heard.against},
                     retry : {heard.retry, Later(heard.retry, clock + RetryAfter)}]
  BY <1>t
<1>e. ASSUME NEW d \in {0, Jitter}, Enqueue(conn, clock + d),
             UNCHANGED <<heard, report, cmd, pages>>
      PROVE  Hinted
  <2>1. clock + d \in {clock, clock + Jitter}
    BY <1>t
  <2>2. Touched(conn, conn')
    BY <1>e, <2>1, ConnMayEnqueue, Enqueuing
  <2> QED
    BY <1>e, <1>h, <1>t, <2>2 DEF Hinted, Touched, Near
<1>0. clock + 0 = clock
  BY <1>t
<1>1. CASE ScheduleCheck \/ RequestCheck
  BY <1>1, <1>0, <1>e DEF ScheduleCheck, RequestCheck
<1>2. ASSUME NEW retry \in BOOLEAN, HintAfterSend(retry) PROVE Hinted
  <2> DEFINE k == Later(IF retry THEN clock + RetryAfter ELSE clock, conn.cooldown)
             due == IF conn.unhealthy /\ conn.next # 0 THEN Later(k, conn.next)
                    ELSE Later(k, IF conn.healthAt # 0 THEN conn.healthAt + EventDelay
                                  ELSE clock)
             x == IF k > clock THEN k ELSE conn.cooldown
  <2>n. conn.next \in Nat /\ conn.healthAt \in Nat /\ RetryAfter \in Nat \ {0}
    BY <1>t, Bounds DEF Rows
  <2>1. /\ k \in Nat /\ conn.cooldown <= k /\ k <= clock + RetryAfter
        /\ retry => clock + RetryAfter <= k /\ k > clock
    BY <1>t, <2>n DEF Later, Near
  <2>2. due \in Nat /\ k <= due /\ due <= clock + Horizon
    BY <1>t, <2>n, <2>1, Bounds, HorizonIsFar DEF Later, Near
  <2>3. /\ x \in Nat /\ conn.cooldown <= x /\ x <= clock + RetryAfter
        /\ retry => clock + RetryAfter <= x
    BY <1>t, <2>1 DEF Near
  <2>4. /\ heard' = [heard EXCEPT !.retry = IF retry THEN Later(@, clock + RetryAfter) ELSE @]
        /\ UNCHANGED <<report, cmd, pages>>
        /\ IF due > clock
           THEN /\ Store([conn EXCEPT !.next = due, !.cooldown = x])
                /\ UNCHANGED probe
           ELSE Enqueue(conn, clock)
    BY <1>2 DEF HintAfterSend
  <2> HIDE DEF due, x
  <2>5. CASE due > clock
    <3>1. conn' = [conn EXCEPT !.next = due, !.cooldown = x]
      BY <2>4, <2>5 DEF Store
    <3>2. Kept(conn, conn') /\ conn'.cooldown = x
      BY <1>t, <2>2, <2>3, <3>1 DEF Kept, Near, Rows
    <3>3. heard' \in [match : {heard.match}, against : {heard.against},
                      retry : {heard.retry, Later(heard.retry, clock + RetryAfter)}]
          /\ (~retry => heard'.retry = heard.retry)
      BY <1>t, <2>4
    <3> QED
      BY <2>3, <2>4, <3>2, <3>3 DEF Hinted
  <2>6. CASE ~(due > clock)
    <3>1. ~retry
      BY <1>t, <2>1, <2>2, <2>6
    <3>2. heard' = heard
      BY <1>t, <2>4, <3>1
    <3> QED
      BY <1>0, <1>e, <2>4, <2>6, <3>2
  <2> QED
    BY <2>5, <2>6
<1> QED
  BY <1>1, <1>2 DEF ScheduleCheck, RequestCheck, HintAfterSend

(* A row that is stored with another schedule. *)
LEMMA StoreSteps ==
  ASSUME TypeInv,
         \/ \E j \in Probes : CompleteInactive(j)
         \/ \E r \in Reconnects : StartReconnect(r)
  PROVE  Hinted /\ UNCHANGED clock
<1>t. /\ conn \in Rows /\ Near(conn) /\ clock \in Nat /\ conn.cooldown \in Nat
      /\ heard \in [match : Nat, against : Nat, retry : Nat]
  BY DEF TypeInv, RowIs, Rows, HeardIs
<1>h. UNCHANGED heard =>
         heard' \in [match : {heard.match}, against : {heard.against},
                     retry : {heard.retry, Later(heard.retry, clock + RetryAfter)}]
  BY <1>t
<1>1. ASSUME NEW j \in Probes, CompleteInactive(j) PROVE Hinted
  <2> DEFINE z == 0
  <2>1. conn' = [conn EXCEPT !.pending = FALSE, !.owner = z]
    BY <1>1 DEF CompleteInactive, Store
  <2>2. z \in Nat /\ z <= LastProbe
    BY Bounds
  <2> HIDE DEF z
  <2>3. Kept(conn, conn') /\ conn'.cooldown = conn.cooldown
    BY <1>t, <2>1, <2>2 DEF Kept, Near, Rows
  <2> QED
    BY <1>1, <1>t, <1>h, <2>3 DEF Hinted, CompleteInactive, Near
<1>2. ASSUME NEW r \in Reconnects, StartReconnect(r) PROVE Hinted
  <2>1. conn' = [conn EXCEPT !.wizard = r]
    BY <1>2 DEF StartReconnect, Store
  <2>2. r \in Nat /\ r <= LastReconnect
    BY Bounds DEF Reconnects
  <2>3. Kept(conn, conn') /\ conn'.cooldown = conn.cooldown
    BY <1>t, <2>1, <2>2 DEF Kept, Near, Rows
  <2> QED
    BY <1>2, <1>t, <1>h, <2>3 DEF Hinted, StartReconnect, Near
<1> QED
  BY <1>1, <1>2 DEF CompleteInactive, StartReconnect

(* An answer of the provider is applied to the row. *)
LEMMA WatchSteps ==
  ASSUME TypeInv,
         \/ \E j \in Probes : EndProbe(j)
         \/ \E r \in Reconnects : ShowCode(r) \/ ReadSession(r)
  PROVE  \E b, past, o : Watched(b, past, o)
<1>t. /\ conn \in Rows /\ Near(conn) /\ clock \in Nat
  BY DEF TypeInv, RowIs
<1>1. ASSUME NEW j \in Probes, EndProbe(j) PROVE \E b, past, o : Watched(b, past, o)
  <2>1. PICK f \in Said(conn.pairing) :
           Observe(conn, heard, ProbeDated(Answers[f], probe[j].at, TRUE))
    BY <1>1 DEF EndProbe, DatedAtStart
  <2> DEFINE o == ProbeDated(Answers[f], probe[j].at, TRUE)
  <2>2. probe[j].at \in Nat /\ probe[j].at <= clock
    BY DEF TypeInv, ProbesAre
  <2>3. Observation(o)
    BY <2>2, AnswersAre, ProbesObserve
  <2>4. o.source = "probe"
    BY DEF ProbeDated
  <2> HIDE DEF o
  <2>5. Watched(conn, heard, o)
    BY <1>1, <2>1, <2>3, <2>4, TouchedItself DEF o, Watched, EndProbe
  <2> QED
    BY <2>5
<1>r. Released(conn) \in Rows /\ Touched(conn, Released(conn))
  <2> DEFINE z == 0
  <2>1. z \in Nat /\ z <= LastReconnect
    BY Bounds
  <2>2. Released(conn) = [conn EXCEPT !.wizard = z]
    BY DEF Released
  <2> HIDE DEF z
  <2> QED
    BY <1>t, <2>1, <2>2 DEF Touched, Kept, Near, Rows
<1>2. ASSUME NEW r \in Reconnects, ReadSession(r)
      PROVE  \E b, past, o : Watched(b, past, o)
  <2>1. PICK f \in Said(conn.pairing) :
           Observe(Released(conn), heard,
                   ProbeDated([Answers[f] EXCEPT !.retry = @ \/ f \in {"inactive", "waiting"}],
                              reconnect[r].at, FALSE))
    BY <1>2 DEF ReadSession, DatedAtStart
  <2> DEFINE a == [Answers[f] EXCEPT !.retry = @ \/ f \in {"inactive", "waiting"}]
             o == ProbeDated(a, reconnect[r].at, FALSE)
  <2>2. reconnect[r].at \in Nat /\ reconnect[r].at <= clock
    BY DEF TypeInv, ReconnectsAre
  <2>3. IsAnswer(a)
    <3>1. IsAnswer(Answers[f])
      BY AnswersAre
    <3> QED
      BY <3>1 DEF IsAnswer
  <2> HIDE DEF a
  <2>4. Observation(o)
    BY <2>2, <2>3, ProbesObserve
  <2>5. o.source = "probe"
    BY DEF ProbeDated
  <2> HIDE DEF o
  <2>6. Observe(Released(conn), heard, o)
    BY <2>1 DEF o, a
  <2>7. Watched(Released(conn), heard, o)
    BY <1>2, <1>r, <2>4, <2>5, <2>6 DEF Watched, ReadSession
  <2> QED
    BY <2>7
<1>3. ASSUME NEW r \in Reconnects, ShowCode(r)
      PROVE  \E b, past, o : Watched(b, past, o)
  <2> DEFINE b == Epoch(Released(conn))
             past == [heard EXCEPT !.match = 0]
             o == ProbeDated(Answers["waiting"], clock, FALSE)
  <2>1. Observe(b, past, o)
    BY <1>3 DEF ShowCode
  <2>2. Observation(o)
    <3>1. "waiting" \in Said(conn.pairing) \cup {"waiting"}
      OBVIOUS
    <3>2. IsAnswer(Answers["waiting"])
      BY <3>1, AnswersAre
    <3>3. clock \in Nat /\ clock <= clock /\ FALSE \in BOOLEAN
      BY <1>t
    <3> QED
      BY <3>2, <3>3, ProbesObserve
  <2>3. o.source = "probe" /\ o.match # "yes"
    BY DEF ProbeDated, Answers, Answer
  <2>4. conn.epoch + 1 \in Nat /\ conn.epoch + 1 <= LastReconnect
    <3>1. reconnect[r].phase # "done"
      BY <1>3 DEF ShowCode, MayFinish
    <3>2. conn.epoch < r /\ r \in 1 .. LastReconnect /\ conn.epoch \in Nat
      BY <1>t, <3>1 DEF TypeInv, ReconnectsAre, Reconnects, Rows
    <3> QED
      BY <3>2, Bounds
  <2>5. NewEpoch(b)
    <3> DEFINE c == Released(conn)
               n == conn.epoch + 1
    <3>1. /\ c \in Rows /\ Kept(conn, c) /\ c.cooldown = conn.cooldown
      BY <1>r DEF Touched
    <3>2. b = [c EXCEPT !.epoch = n, !.pairing = "qr", !.latched = TRUE]
      BY <3>1 DEF Epoch, Kept
    <3>3. "qr" \in Pairings
      BY DEF Pairings, Pending
    <3> HIDE DEF b, c, n
    <3>4. [c EXCEPT !.epoch = n, !.pairing = "qr", !.latched = TRUE] \in Rows
      BY <2>4, <3>1, <3>3 DEF Rows, n
    <3>5. NewEpoch([c EXCEPT !.epoch = n, !.pairing = "qr", !.latched = TRUE])
      BY <1>t, <2>4, <3>1, <3>4 DEF NewEpoch, Near, Kept, Rows, n
    <3> QED
      BY <3>2, <3>5
  <2> HIDE DEF b, o, past
  <2>6. Watched(b, past, o)
    BY <1>3, <2>1, <2>2, <2>3, <2>5 DEF Watched, ShowCode, past
  <2> QED
    BY <2>6
<1> QED
  BY <1>1, <1>2, <1>3

(* A report is applied, or of no use to a connection out of service. *)
LEMMA ReportSteps ==
  ASSUME TypeInv, NEW n \in Reports, ProcessReport(n)
  PROVE  Asked /\ (Heeded(n) \/ UNCHANGED <<conn, heard, clock>>)
<1>t. /\ conn \in Rows /\ Near(conn) /\ clock \in Nat
  BY DEF TypeInv, RowIs
<1> DEFINE o == ReportDated(n)
           c == Applied(conn, o)
<1>1. Observation(o)
  BY ReportsObserve DEF TypeInv, ReportsAre
<1>o. o.source = "event" /\ ~o.owns
  BY DEF ReportDated
<1> HIDE DEF o
<1>2. /\ c \in Rows /\ Schedule(conn, o) \in Nat /\ Schedule(conn, o) <= clock + Horizon
      /\ Cooldown(conn, o) <= clock + RetryAfter
  BY <1>1, <1>t, AppliedRows, SchedulesAreNear DEF Near
<1>3. /\ c.next = Schedule(conn, o) /\ c.cooldown = Cooldown(conn, o)
      /\ c.owner = conn.owner /\ c.wizard = conn.wizard
  BY <1>t, <1>o, AppliedFields
<1> HIDE DEF c
<1>4. MayEnqueue(c) /\ Touched(c, c)
  BY <1>t, <1>2, <1>3 DEF MayEnqueue, Touched, Kept, Near
<1>5. CASE conn.role = "historical"
  BY <1>5 DEF ProcessReport, TypeInv, ProbesAre, Asked
<1>6. CASE conn.role # "historical"
  <2>1. /\ report[n].state = "pending" /\ report' = [report EXCEPT ![n].state = "done"]
        /\ Hear(conn, heard, o)
        /\ Enqueue(c, clock) \/ (Store(c) /\ UNCHANGED probe)
        /\ UNCHANGED <<clock, cmd, pages>>
    BY <1>6 DEF ProcessReport, o, c
  <2>2. Touched(c, conn') /\ Asked
    <3>1. CASE Enqueue(c, clock)
      BY <1>4, <3>1, Enqueuing
    <3>2. CASE Store(c) /\ UNCHANGED probe
      BY <1>4, <3>2 DEF Asked, Store, TypeInv, ProbesAre, Reading
    <3> QED
      BY <2>1, <3>1, <3>2
  <2> QED
    BY <2>1, <2>2 DEF Heeded, o, c
<1> QED
  BY <1>5, <1>6

(* The changes of administrators. *)
LEMMA AdminSteps ==
  ASSUME TypeInv,
         \/ Configure \/ EnableOutbound \/ DisableOutbound
         \/ \E role \in {"primary", "standby", "historical"} : SetRole(role)
  PROVE  Asked /\ (Configured \/ Assigned)
<1>t. /\ conn \in Rows /\ Near(conn) /\ clock \in Nat
  BY DEF TypeInv, RowIs
<1>s. ASSUME NEW d, Store(d), UNCHANGED probe PROVE Asked
  BY <1>s DEF Store, Asked, TypeInv, ProbesAre, Reading
<1>1. CASE Configure
  <2> DEFINE z == 0
             k == conn.config + 1
             c == [conn EXCEPT !.state = "degraded", !.latched = TRUE, !.cooldown = z,
                               !.next = clock, !.config = k]
  <2>1. z \in Nat /\ z <= clock + RetryAfter /\ k \in Nat /\ "degraded" \in States
    BY <1>t, Bounds, Words DEF Rows
  <2>2. /\ Enqueue(c, clock) /\ heard' = [heard EXCEPT !.match = 0, !.retry = 0]
        /\ changes' = changes + 1
        /\ UNCHANGED <<clock, report, cmd, pages>>
    BY <1>1 DEF Configure, Change
  <2> HIDE DEF z, k
  <2>3. /\ c \in Rows /\ c.state = "degraded" /\ c.at = conn.at
        /\ c.lastEvent = conn.lastEvent /\ c.role = conn.role /\ c.outbound = conn.outbound
        /\ c.wave = conn.wave /\ c.next = clock /\ c.cooldown = z
        /\ c.healthAt = conn.healthAt /\ c.healthEvent = conn.healthEvent
        /\ c.epoch = conn.epoch /\ c.config = k
        /\ c.owner = conn.owner /\ c.wizard = conn.wizard
    BY <1>t, <2>1 DEF Rows
  <2> HIDE DEF c
  <2>4. MayEnqueue(c)
    BY <1>t, <2>1, <2>3, Bounds DEF MayEnqueue, Near
  <2>5. Touched(c, conn') /\ Asked
    BY <2>2, <2>4, Enqueuing
  <2> QED
    BY <2>2, <2>3, <2>5 DEF Configured, Touched, Kept, z, k
<1>2. CASE EnableOutbound
  <2>1. conn' = [conn EXCEPT !.role = conn.role, !.outbound = TRUE]
    BY <1>2, <1>t DEF EnableOutbound, Store, Rows
  <2> QED
    BY <1>2, <1>s, <1>t, <2>1 DEF EnableOutbound, Assigned, Rows
<1>3. CASE DisableOutbound
  <2>1. conn' = [conn EXCEPT !.role = conn.role, !.outbound = FALSE]
    BY <1>3, <1>t DEF DisableOutbound, Store, Rows
  <2> QED
    BY <1>3, <1>s, <1>t, <2>1 DEF DisableOutbound, Assigned, Rows
<1>4. ASSUME NEW role \in Roles, SetRole(role) PROVE Assigned /\ Asked
  <2>1. conn' = [conn EXCEPT !.role = role, !.outbound = FALSE]
    BY <1>4 DEF SetRole, Store
  <2>2. /\ conn.role = "primary" => NoneActive
        /\ UNCHANGED <<clock, heard, report, cmd, pages>>
    BY <1>4 DEF SetRole
  <2> QED
    BY <1>4, <1>s, <2>1, <2>2 DEF Assigned, SetRole
<1> QED
  BY <1>1, <1>2, <1>3, <1>4 DEF Roles

(* Every step leaves the row as it is, or changes it in one of these ways. *)
LEMMA RowSteps ==
  ASSUME TypeInv, [Next]_vars
  PROVE  \/ UNCHANGED <<conn, heard>>
         \/ Hinted /\ UNCHANGED clock
         \/ \E b, past, o : Watched(b, past, o)
         \/ \E n \in Reports : Heeded(n)
         \/ Configured
         \/ Assigned
<1>1. CASE ScheduleCheck \/ RequestCheck \/ \E retry \in BOOLEAN : HintAfterSend(retry)
  BY <1>1, HintSteps
<1>2. CASE \/ \E j \in Probes : CompleteInactive(j)
           \/ \E r \in Reconnects : StartReconnect(r)
  BY <1>2, StoreSteps
<1>3. CASE \/ \E j \in Probes : EndProbe(j)
           \/ \E r \in Reconnects : ShowCode(r) \/ ReadSession(r)
  BY <1>3, WatchSteps
<1>4. CASE \E n \in Reports : ProcessReport(n)
  BY <1>4, ReportSteps
<1>5. CASE \/ Configure \/ EnableOutbound \/ DisableOutbound
           \/ \E role \in {"primary", "standby", "historical"} : SetRole(role)
  BY <1>5, AdminSteps
<1>6. CASE \/ Tick \/ UNCHANGED vars
           \/ \E j \in Probes : \/ SkipProbe(j) \/ BeginProbe(j) \/ RestartProbe(j)
                                \/ LoseProbe(j) \/ RequeueProbe(j)
           \/ \E r \in Reconnects : AbandonReconnect(r) \/ BeginReconnect(r)
           \/ \E n \in Reports, k \in Kinds : StoreReport(n, k)
           \/ \E m \in Held : HoldMessage(m) \/ ConfirmOrigin(m)
           \/ \E c \in Commands : AdmitCommand(c) \/ DispatchCommand(c)
           \/ \E p \in pages : RunPage(p)
  BY <1>6 DEF Tick, vars, SkipProbe, BeginProbe, RestartProbe, LoseProbe, RequeueProbe,
              AbandonReconnect, BeginReconnect, StoreReport, HoldMessage, ConfirmOrigin,
              AdmitCommand, DispatchCommand, RunPage
<1> QED
  BY <1>1, <1>2, <1>3, <1>4, <1>5, <1>6 DEF Next, Administer, ProbeStep, ReconnectStep

(* The clock and the count of changes grow. *)
LEMMA ClockSteps ==
  ASSUME TypeInv, [Next]_vars
  PROVE  /\ clock' \in 1 .. LastInstant /\ clock <= clock' /\ clock' \in Nat
         /\ \/ clock' = clock
            \/ clock' = clock + 1 /\ UNCHANGED <<conn, heard, probe>>
         /\ changes' \in 0 .. MaxChanges /\ changes <= changes'
<1>t. clock \in 1 .. LastInstant /\ changes \in 0 .. MaxChanges
      /\ LastInstant \in Nat /\ MaxChanges \in Nat
  BY Bounds DEF TypeInv
<1>1. \/ UNCHANGED clock
      \/ clock < LastInstant /\ clock' = clock + 1 /\ UNCHANGED <<conn, heard, probe>>
  BY DEF Next, vars, Tick, ScheduleCheck, Administer, RequestCheck, Configure, EnableOutbound,
         DisableOutbound, SetRole, HintAfterSend, ProbeStep, SkipProbe, CompleteInactive,
         BeginProbe, EndProbe, RestartProbe, LoseProbe, RequeueProbe, ReconnectStep,
         StartReconnect, AbandonReconnect, BeginReconnect, ShowCode, ReadSession,
         ProcessReport, StoreReport, HoldMessage, ConfirmOrigin, AdmitCommand,
         DispatchCommand, RunPage
<1>2. CASE \/ Administer \/ \E retry \in BOOLEAN : HintAfterSend(retry)
           \/ \E j \in Probes : LoseProbe(j)
  <2>1. changes < MaxChanges /\ changes' = changes + 1
    BY <1>2 DEF Administer, RequestCheck, Configure, EnableOutbound, DisableOutbound, SetRole,
                Change, HintAfterSend, LoseProbe
  <2> QED
    BY <1>t, <1>1, <2>1
<1>3. CASE \/ Tick \/ ScheduleCheck
           \/ \E j \in Probes : \/ SkipProbe(j) \/ CompleteInactive(j) \/ BeginProbe(j)
                                \/ EndProbe(j) \/ RestartProbe(j) \/ RequeueProbe(j)
           \/ \E r \in Reconnects : ReconnectStep(r)
           \/ \E n \in Reports : ProcessReport(n) \/ \E k \in Kinds : StoreReport(n, k)
           \/ \E m \in Held : HoldMessage(m) \/ ConfirmOrigin(m)
           \/ \E c \in Commands : AdmitCommand(c) \/ DispatchCommand(c)
           \/ (\E p \in pages : RunPage(p)) \/ UNCHANGED vars
  <2>1. UNCHANGED changes
    BY <1>3 DEF vars, Tick, ScheduleCheck, SkipProbe, CompleteInactive, BeginProbe, EndProbe,
                RestartProbe, RequeueProbe, ReconnectStep, StartReconnect, AbandonReconnect,
                BeginReconnect, ShowCode, ReadSession, ProcessReport, StoreReport, HoldMessage,
                ConfirmOrigin, AdmitCommand, DispatchCommand, RunPage
  <2> QED
    BY <1>t, <1>1, <2>1
<1> QED
  BY <1>2, <1>3 DEF Next, ProbeStep

(* What an observation makes of a near row is near. *)
LEMMA AppliedIsNear ==
  ASSUME NEW c \in Rows, Near(c), NEW o, Observation(o), clock \in Nat
  PROVE  Near(Applied(c, o))
<1> DEFINE d == Applied(c, o)
<1>1. /\ Cooldown(c, o) <= clock + RetryAfter /\ Schedule(c, o) <= clock + Horizon
  BY SchedulesAreNear DEF Near
<1>2. /\ o.at <= clock
      /\ o.source = "event" => o.seq <= LastReport
  BY Bounds DEF Observation, Reports
<1>3. 0 <= LastProbe
  BY Bounds
<1>4. /\ d.at = c.at \/ d.at = o.at
      /\ d.healthAt = c.healthAt \/ d.healthAt = o.at
      /\ d.lastEvent = c.lastEvent \/ (o.source = "event" /\ d.lastEvent = o.seq)
      /\ d.healthEvent = c.healthEvent \/ d.healthEvent = c.lastEvent
      /\ d.owner = c.owner \/ d.owner = 0
      /\ d.next = Schedule(c, o) /\ d.cooldown = Cooldown(c, o)
      /\ d.wizard = c.wizard /\ d.epoch = c.epoch /\ d.config = c.config
  BY AppliedFields
<1> HIDE DEF d
<1>5. Near(d)
  BY <1>1, <1>2, <1>3, <1>4 DEF Near
<1> QED
  BY <1>5 DEF d

(* The row an answer is applied to, and what comes of it. *)
LEMMA WatchedRow ==
  ASSUME TypeInv, NEW b, NEW past, NEW o, Watched(b, past, o)
  PROVE  /\ b \in Rows /\ Near(b) /\ Applied(b, o) \in Rows /\ Near(Applied(b, o))
         /\ conn' = Recovered(b, Applied(b, o))
         /\ Recovered(b, Applied(b, o)) \in
               {Applied(b, o), [Applied(b, o) EXCEPT !.wave = @ + 1]}
         /\ conn' \in Rows
<1>t. conn \in Rows /\ Near(conn) /\ clock \in Nat
  BY DEF TypeInv, RowIs
<1>1. b \in Rows /\ Near(b)
  <2>1. CASE Touched(conn, b)
    BY <2>1, <1>t DEF Touched, Kept, Near
  <2>2. CASE NewEpoch(b)
    BY <2>2 DEF NewEpoch
  <2> QED
    BY <2>1, <2>2 DEF Watched
<1>2. Observation(o) /\ conn' = Recovered(b, Applied(b, o))
  BY DEF Watched, Observe, Store
<1>3. Applied(b, o) \in Rows /\ Near(Applied(b, o))
  BY <1>1, <1>2, <1>t, AppliedRows, AppliedIsNear DEF Near
<1>4. Recovered(b, Applied(b, o)) \in
               {Applied(b, o), [Applied(b, o) EXCEPT !.wave = @ + 1]}
  BY DEF Recovered
<1> DEFINE d == Applied(b, o)
           w == d.wave + 1
<1>5. d \in Rows /\ w \in Nat
  BY <1>3 DEF Rows
<1> HIDE DEF d, w
<1>6. [d EXCEPT !.wave = w] \in Rows
  BY <1>5 DEF Rows
<1>7. conn' \in {d, [d EXCEPT !.wave = w]}
  BY <1>2, <1>4 DEF d, w
<1> QED
  BY <1>1, <1>2, <1>3, <1>4, <1>5, <1>6, <1>7

(* The row keeps its type. *)
LEMMA RowStays ==
  ASSUME TypeInv, [Next]_vars
  PROVE  RowIs'
<1>t. /\ conn \in Rows /\ Near(conn) /\ clock \in Nat /\ changes \in Nat
      /\ clock' \in Nat /\ clock <= clock' /\ changes' \in Nat /\ changes <= changes'
  BY ClockSteps, Bounds DEF TypeInv, RowIs
<1>f. /\ conn.at \in Nat /\ conn.healthAt \in Nat /\ conn.next \in Nat
      /\ conn.cooldown \in Nat /\ conn.config \in Nat /\ RetryAfter \in Nat
      /\ Horizon \in Nat
  BY <1>t, Bounds DEF Rows
<1>s. ASSUME conn' \in Rows, Near(conn') PROVE RowIs'
  <2>1. /\ conn'.at \in Nat /\ conn'.healthAt \in Nat /\ conn'.next \in Nat
        /\ conn'.cooldown \in Nat /\ conn'.config \in Nat
    BY <1>s DEF Rows
  <2> QED
    BY <1>s, <1>t, <1>f, <2>1 DEF RowIs, Near
<1>1. CASE UNCHANGED conn
  BY <1>1, <1>t, <1>s
<1>2. CASE Hinted
  BY <1>2, <1>t, <1>f, <1>s DEF Hinted, Kept, Near
<1>3. ASSUME NEW b, NEW past, NEW o, Watched(b, past, o) PROVE RowIs'
  <2> DEFINE d == Applied(b, o)
  <2>1. /\ d \in Rows /\ Near(d) /\ conn' \in {d, [d EXCEPT !.wave = @ + 1]}
        /\ conn' \in Rows
    BY <1>3, WatchedRow
  <2> HIDE DEF d
  <2>2. Near(conn')
    BY <2>1 DEF Near, Rows
  <2> QED
    BY <1>s, <2>1, <2>2
<1>4. ASSUME NEW n \in Reports, Heeded(n) PROVE RowIs'
  <2> DEFINE d == Applied(conn, ReportDated(n))
  <2>1. Observation(ReportDated(n))
    BY ReportsObserve DEF TypeInv, ReportsAre
  <2>2. Near(d)
    BY <1>t, <2>1, AppliedIsNear
  <2> HIDE DEF d
  <2>3. conn' \in Rows /\ Near(conn')
    BY <1>4, <2>2 DEF Heeded, Touched, Kept, Near, d
  <2> QED
    BY <1>s, <2>3
<1>5. CASE Configured
  <2>1. /\ conn' \in Rows /\ 0 <= clock + RetryAfter /\ 0 <= clock' + RetryAfter
        /\ clock + Horizon <= clock' + Horizon
    BY <1>5, <1>t, <1>f DEF Configured
  <2>2. /\ conn'.next \in Nat
    BY <2>1 DEF Rows
  <2> QED
    BY <1>5, <1>t, <1>f, <2>1, <2>2 DEF Configured, RowIs, Near
<1>6. CASE Assigned
  <2>1. PICK role \in Roles, outbound \in BOOLEAN :
           conn' = [conn EXCEPT !.role = role, !.outbound = outbound]
    BY <1>6 DEF Assigned
  <2>2. conn' \in Rows
    BY <1>t, <2>1 DEF Rows
  <2>3. Near(conn')
    BY <1>t, <2>1 DEF Near, Rows
  <2> QED
    BY <1>s, <2>2, <2>3
<1> QED
  BY <1>1, <1>2, <1>3, <1>4, <1>5, <1>6, RowSteps

(* Job j goes on to another phase, or begins to read. *)
Moved(j) ==
    /\ probe[j].phase # "absent"
    /\ \/ \E phase \in {"queued", "done", "dead"} : probe' = [probe EXCEPT ![j].phase = phase]
       \/ probe' = [probe EXCEPT ![j].phase = "reading", ![j].at = clock]

(* A step asks for a check, or moves a job. *)
LEMMA ProbeSteps ==
  ASSUME TypeInv, [Next]_vars
  PROVE  /\ (UNCHANGED clock /\ Asked) \/ UNCHANGED probe \/ \E j \in Probes : Moved(j)
         /\ outdated' \in SUBSET Probes
<1>o. outdated \in SUBSET Probes /\ Reading \in SUBSET Probes
  BY DEF TypeInv, ProbesAre, Reading
<1>s. ASSUME NEW d, Store(d) PROVE outdated' \in SUBSET Probes
  BY <1>o, <1>s DEF Store
<1>1. CASE ScheduleCheck \/ RequestCheck
  <2>1. PICK d \in {0, Jitter} : Enqueue(conn, clock + d)
    BY <1>1, ConnMayEnqueue DEF ScheduleCheck, RequestCheck
  <2>2. clock + d \in {clock, clock + Jitter}
    BY <2>1, ConnMayEnqueue
  <2>3. Asked
    BY <2>1, <2>2, ConnMayEnqueue, Enqueuing
  <2> QED
    BY <1>1, <2>3 DEF Asked, ScheduleCheck, RequestCheck
<1>2. CASE \E retry \in BOOLEAN : HintAfterSend(retry)
  <2>1. UNCHANGED clock /\ (Enqueue(conn, clock) \/ (UNCHANGED probe /\ \E d : Store(d)))
    BY <1>2 DEF HintAfterSend
  <2>2. CASE Enqueue(conn, clock)
    <3>1. Asked
      BY <2>2, ConnMayEnqueue, Enqueuing
    <3> QED
      BY <2>1, <3>1 DEF Asked
  <2>3. CASE UNCHANGED probe /\ \E d : Store(d)
    BY <1>s, <2>3
  <2> QED
    BY <2>1, <2>2, <2>3
<1>3. ASSUME NEW n \in Reports, ProcessReport(n)
      PROVE  UNCHANGED clock /\ Asked
  BY <1>3, ReportSteps DEF ProcessReport
<1>4. CASE \/ Configure \/ EnableOutbound \/ DisableOutbound
           \/ \E role \in {"primary", "standby", "historical"} : SetRole(role)
  <2>1. UNCHANGED clock /\ Asked
    BY <1>4, AdminSteps DEF Configured, Assigned
  <2> QED
    BY <2>1 DEF Asked
<1>5. CASE \E j \in Probes : ProbeStep(j)
  <2>1. PICK j \in Probes : ProbeStep(j)
    BY <1>5
  <2>2. Moved(j)
    BY <2>1 DEF ProbeStep, SkipProbe, CompleteInactive, BeginProbe, EndProbe, RestartProbe,
                LoseProbe, RequeueProbe, SetProbe, Ready, Live, Moved
  <2>3. outdated' \in SUBSET Probes
    BY <1>o, <1>s, <2>1 DEF ProbeStep, SkipProbe, CompleteInactive, BeginProbe, EndProbe,
                RestartProbe, LoseProbe, RequeueProbe, Observe
  <2> QED
    BY <2>2, <2>3
<1>6. CASE \E r \in Reconnects : ReconnectStep(r)
  BY <1>6, <1>o, <1>s DEF ReconnectStep, StartReconnect, AbandonReconnect, BeginReconnect,
                          ShowCode, ReadSession, Observe
<1>7. CASE \/ Tick \/ UNCHANGED vars
           \/ \E n \in Reports, k \in Kinds : StoreReport(n, k)
           \/ \E m \in Held : HoldMessage(m) \/ ConfirmOrigin(m)
           \/ \E c \in Commands : AdmitCommand(c) \/ DispatchCommand(c)
           \/ \E p \in pages : RunPage(p)
  BY <1>7, <1>o DEF Tick, vars, StoreReport, HoldMessage, ConfirmOrigin, AdmitCommand,
                    DispatchCommand, RunPage
<1>8. CASE \E n \in Reports : ProcessReport(n)
  BY <1>8, <1>3 DEF Asked
<1> QED
  BY <1>1, <1>2, <1>4, <1>5, <1>6, <1>7, <1>8 DEF Next, Administer

(* The jobs keep their type. *)
LEMMA ProbesStay ==
  ASSUME TypeInv, [Next]_vars
  PROVE  ProbesAre'
<1> DEFINE Phases == {"absent", "queued", "reading", "done", "dead"}
           Jobs == [phase : Phases, eta : Nat, at : Nat]
<1>t. /\ clock \in Nat /\ Jitter \in Nat /\ clock' \in Nat /\ clock <= clock'
      /\ probe \in [Probes -> Jobs]
      /\ \A j \in Probes : probe[j].at <= clock /\ probe[j].eta <= clock + Jitter
      /\ outdated' \in SUBSET Probes
  BY ClockSteps, ProbeSteps, Bounds DEF TypeInv, ProbesAre
<1>s. ASSUME probe' \in [Probes -> Jobs],
             \A j \in Probes : probe'[j].at <= clock /\ probe'[j].eta <= clock + Jitter
      PROVE  ProbesAre'
  <2>1. ASSUME NEW j \in Probes
        PROVE  probe'[j].at <= clock' /\ probe'[j].eta <= clock' + Jitter
    <3>1. probe'[j].at \in Nat /\ probe'[j].eta \in Nat
      BY <1>s
    <3> QED
      BY <1>s, <1>t, <3>1
  <2> QED
    BY <1>s, <1>t, <2>1 DEF ProbesAre
<1>1. CASE UNCHANGED probe
  BY <1>1, <1>s, <1>t
<1>2. CASE Asked /\ ~UNCHANGED probe
  <2>1. PICK eta \in {clock, clock + Jitter} : Created(eta)
    BY <1>2 DEF Asked
  <2>2. PICK k \in Probes : probe' = [probe EXCEPT ![k] =
                                        [phase |-> "queued", eta |-> eta, at |-> 0]]
    BY <2>1 DEF Created
  <2> DEFINE q == [phase |-> "queued", eta |-> eta, at |-> 0]
  <2>3. q \in Jobs /\ q.at <= clock /\ q.eta <= clock + Jitter
    BY <1>t, <2>1
  <2> HIDE DEF q, Jobs
  <2>4. probe' \in [Probes -> Jobs]
    BY <1>t, <2>2, <2>3 DEF q
  <2>5. ASSUME NEW j \in Probes
        PROVE  probe'[j].at <= clock /\ probe'[j].eta <= clock + Jitter
    <3>1. probe'[j] = q \/ probe'[j] = probe[j]
      BY <1>t, <2>2 DEF q
    <3> QED
      BY <1>t, <2>3, <3>1
  <2> QED
    BY <1>s, <2>4, <2>5
<1>3. ASSUME NEW k \in Probes, Moved(k) PROVE ProbesAre'
  <2>1. CASE \E phase \in {"queued", "done", "dead"} :
                 probe' = [probe EXCEPT ![k].phase = phase]
    <3>1. PICK phase \in {"queued", "done", "dead"} :
                 probe' = [probe EXCEPT ![k].phase = phase]
      BY <2>1
    <3>2. probe' \in [Probes -> Jobs]
      BY <1>t, <3>1
    <3>3. \A j \in Probes : probe'[j].at = probe[j].at /\ probe'[j].eta = probe[j].eta
      BY <1>t, <3>1
    <3> QED
      BY <1>s, <1>t, <3>2, <3>3
  <2>2. CASE probe' = [probe EXCEPT ![k].phase = "reading", ![k].at = clock]
    <3>1. probe' \in [Probes -> Jobs]
      BY <1>t, <2>2
    <3>2. \A j \in Probes : probe'[j].at \in {clock, probe[j].at} /\ probe'[j].eta = probe[j].eta
      BY <1>t, <2>2
    <3> QED
      BY <1>s, <1>t, <3>1, <3>2
  <2> QED
    BY <1>3, <2>1, <2>2 DEF Moved
<1> QED
  BY <1>1, <1>2, <1>3, ProbeSteps

(* Only a code that is shown begins an epoch. *)
LEMMA EpochSteps ==
  ASSUME TypeInv, [Next]_vars
  PROVE  \/ conn'.epoch = conn.epoch
         \/ conn'.epoch = conn.epoch + 1 /\ \E r \in Reconnects : ShowCode(r)
<1>t. conn \in Rows
  BY DEF TypeInv, RowIs
<1>1. ASSUME NEW b, NEW past, NEW o, Watched(b, past, o)
      PROVE  \/ conn'.epoch = conn.epoch
             \/ conn'.epoch = conn.epoch + 1 /\ \E r \in Reconnects : ShowCode(r)
  <2> DEFINE d == Applied(b, o)
  <2>1. b \in Rows /\ d \in Rows /\ conn' \in {d, [d EXCEPT !.wave = @ + 1]}
    BY <1>1, WatchedRow
  <2>2. d.epoch = b.epoch
    BY <2>1, AppliedFields
  <2> HIDE DEF d
  <2>3. conn'.epoch = b.epoch
    BY <2>1, <2>2 DEF Rows
  <2> QED
    BY <1>1, <2>3 DEF Watched, Touched, Kept, NewEpoch
<1>2. ASSUME NEW n \in Reports, Heeded(n) PROVE conn'.epoch = conn.epoch
  <2>1. Applied(conn, ReportDated(n)).epoch = conn.epoch
    BY <1>t, AppliedFields
  <2> QED
    BY <1>2, <2>1 DEF Heeded, Touched, Kept
<1>3. CASE UNCHANGED conn \/ Hinted \/ Configured
  BY <1>3 DEF Hinted, Kept, Configured
<1>4. CASE Assigned
  <2>1. PICK role \in Roles, outbound \in BOOLEAN :
           conn' = [conn EXCEPT !.role = role, !.outbound = outbound]
    BY <1>4 DEF Assigned
  <2> QED
    BY <1>t, <2>1 DEF Rows
<1> QED
  BY <1>1, <1>2, <1>3, <1>4, RowSteps

(* What is near stays near. *)
LEMMA NearStill ==
  ASSUME NEW a \in Nat, NEW b \in Nat, NEW d \in Nat, a <= b
  PROVE  \A x \in Nat : x <= a + d => x <= b + d
OBVIOUS

(* A request is started, if none runs. *)
Begun(r) ==
    /\ reconnect[r].phase = "absent" /\ \A q \in 1 .. r - 1 : reconnect[q].phase # "absent"
    /\ ~\E q \in Reconnects : Running(q)
    /\ reconnect' = [reconnect EXCEPT ![r] =
            [phase |-> "queued", eta |-> Later(clock, conn.cooldown), at |-> 0,
             config |-> conn.config, token |-> <<0, 0, "none">>]]

(* The requests keep their type. *)
LEMMA ReconnectsStay ==
  ASSUME TypeInv, [Next]_vars
  PROVE  ReconnectsAre'
<1> DEFINE Phases == {"absent", "queued", "reading", "done"}
           Configs == 0 .. 1 + MaxChanges
           Tokens == Configs \X (0 .. LastReconnect) \X Pairings
           Jobs == [phase : Phases, eta : Nat, at : Nat, config : Configs, token : Tokens]
<1>n. /\ clock \in Nat /\ RetryAfter \in Nat /\ clock' \in Nat /\ clock <= clock'
      /\ LastReconnect \in Nat /\ MaxChanges \in Nat /\ changes \in 0 .. MaxChanges
  BY ClockSteps, Bounds DEF TypeInv
<1>c. conn \in Rows /\ Near(conn)
  BY DEF TypeInv, RowIs
<1>f. /\ conn.epoch \in Nat /\ conn.config \in Nat /\ conn.pairing \in Pairings
      /\ conn.cooldown \in Nat
  BY <1>c DEF Rows
<1>j. reconnect \in [Reconnects -> Jobs]
  BY DEF TypeInv, ReconnectsAre
<1>g. \A x \in Nat : x <= clock + RetryAfter => x <= clock' + RetryAfter
  BY <1>n, NearStill
<1>p. \A x \in Nat : x <= clock => x <= clock'
  BY <1>n
<1>t. /\ clock \in Nat /\ RetryAfter \in Nat /\ clock' \in Nat /\ clock <= clock'
      /\ reconnect \in [Reconnects -> Jobs]
      /\ conn \in Rows /\ conn.epoch \in Nat /\ conn.epoch <= LastReconnect
      /\ conn.config \in Configs /\ conn.pairing \in Pairings
      /\ conn.cooldown \in Nat /\ conn.cooldown <= clock + RetryAfter
      /\ Reconnects = 1 .. LastReconnect /\ LastReconnect \in Nat /\ MaxChanges \in Nat
  <2> HIDE DEF Jobs
  <2> QED
    BY <1>n, <1>c, <1>f, <1>j DEF Near, Reconnects
<1>v. /\ \A r \in Reconnects :
            /\ reconnect[r].at <= clock /\ reconnect[r].eta <= clock + RetryAfter
            /\ reconnect[r].phase # "absent" =>
                  \A q \in 1 .. r - 1 : reconnect[q].phase # "absent"
            /\ Running(r) => \A q \in Reconnects : Running(q) => q = r
            /\ reconnect[r].phase # "done" => conn.epoch < r
  BY DEF TypeInv, ReconnectsAre
<1>e. conn'.epoch = conn.epoch \/ conn'.epoch = conn.epoch + 1
  BY EpochSteps
<1>1. CASE UNCHANGED reconnect
  <2>1. ~\E r \in Reconnects : ShowCode(r)
    <3>1. ASSUME NEW r \in Reconnects, ShowCode(r) PROVE FALSE
      <4>1. reconnect[r].phase = "reading" /\ reconnect'[r].phase = "done"
        BY <3>1, <1>t DEF ShowCode, MayFinish, EndReconnect
      <4> QED
        BY <1>1, <4>1
    <3> QED
      BY <3>1
  <2>2. conn'.epoch = conn.epoch
    BY <2>1, EpochSteps
  <2>3. ASSUME NEW r \in Reconnects
        PROVE  reconnect[r].at <= clock' /\ reconnect[r].eta <= clock' + RetryAfter
    <3>1. reconnect[r].eta \in Nat /\ reconnect[r].at \in Nat
      BY <1>t
    <3>2. reconnect[r].at <= clock /\ reconnect[r].eta <= clock + RetryAfter
      BY <1>v
    <3> QED
      BY <1>g, <1>p, <3>1, <3>2
  <2> QED
    BY <1>1, <1>t, <1>v, <2>2, <2>3 DEF ReconnectsAre, Running
<1>2. ASSUME NEW r \in Reconnects, Begun(r), conn'.epoch = conn.epoch PROVE ReconnectsAre'
  <2> DEFINE eta == Later(clock, conn.cooldown)
             t == <<0, 0, "none">>
             q == [phase |-> "queued", eta |-> eta, at |-> 0, config |-> conn.config,
                   token |-> t]
  <2>1. eta \in Nat /\ eta <= clock + RetryAfter
    BY <1>t DEF Later
  <2>2. t \in Tokens
    BY <1>t DEF Pairings
  <2> HIDE DEF eta, t, Tokens, Configs
  <2>3. q \in Jobs
    BY <1>t, <2>1, <2>2
  <2>4. q.phase = "queued" /\ q.at = 0 /\ q.eta = eta
    OBVIOUS
  <2>5. reconnect' = [reconnect EXCEPT ![r] = q]
    BY <1>2 DEF Begun, eta, t
  <2> HIDE DEF q, Jobs
  <2>6. reconnect' \in [Reconnects -> Jobs]
    BY <1>t, <2>3, <2>5
  <2>7. ASSUME NEW p \in Reconnects
        PROVE  /\ reconnect'[p].at <= clock' /\ reconnect'[p].eta <= clock' + RetryAfter
               /\ reconnect'[p].phase # "done" => conn'.epoch < p
    <3>1. CASE p = r
      BY <1>2, <1>t, <1>v, <2>1, <2>4, <2>5, <3>1 DEF Begun
    <3>2. CASE p # r
      <4>1. reconnect'[p] = reconnect[p] /\ reconnect[p].eta \in Nat /\ reconnect[p].at \in Nat
        BY <1>t, <2>5, <3>2 DEF Jobs
      <4> QED
        BY <1>2, <1>t, <1>v, <1>g, <4>1
    <3> QED
      BY <3>1, <3>2
  <2>8. ASSUME NEW p \in Reconnects, reconnect'[p].phase # "absent", NEW i \in 1 .. p - 1
        PROVE  reconnect'[i].phase # "absent"
    <3>1. i \in Reconnects
      BY <1>t
    <3>2. CASE p = r
      BY <1>2, <1>t, <2>5, <3>1, <3>2 DEF Begun
    <3>3. CASE p # r
      <4>1. reconnect[p].phase # "absent"
        BY <1>t, <2>5, <2>8, <3>3
      <4>2. reconnect[i].phase # "absent"
        BY <1>v, <4>1
      <4> QED
        BY <1>t, <2>4, <2>5, <3>1, <4>2
    <3> QED
      BY <3>2, <3>3
  <2>9. ASSUME NEW p \in Reconnects, Running(p)' PROVE p = r
    <3> QED
      BY <1>2, <1>t, <2>5, <2>9 DEF Running, Begun
  <2> QED
    BY <2>6, <2>7, <2>8, <2>9 DEF ReconnectsAre, Jobs, Tokens, Configs
<1>3. ASSUME NEW r \in Reconnects, Running(r), NEW q \in Jobs,
             reconnect' = [reconnect EXCEPT ![r] = q], q.eta <= clock + RetryAfter,
             q.at <= clock, q.phase # "absent",
             conn'.epoch = conn.epoch \/ q.phase = "done"
      PROVE  ReconnectsAre'
  <2> HIDE DEF Tokens, Configs
  <2>q. q.eta \in Nat /\ q.at \in Nat
    OBVIOUS
  <2> HIDE DEF Jobs
  <2>1. reconnect' \in [Reconnects -> Jobs]
    BY <1>3, <1>t
  <2>2. reconnect'[r] = q /\ \A p \in Reconnects : p # r => reconnect'[p] = reconnect[p]
    BY <1>3, <1>t
  <2>3. reconnect[r].phase # "absent" /\ reconnect[r].phase # "done"
    BY <1>3 DEF Running
  <2>4. ASSUME NEW p \in Reconnects
        PROVE  reconnect'[p].at <= clock' /\ reconnect'[p].eta <= clock' + RetryAfter
    <3>1. CASE p = r
      BY <1>3, <1>t, <2>q, <2>2, <3>1
    <3>2. CASE p # r
      <4>1. reconnect[p].eta \in Nat /\ reconnect[p].at \in Nat
        BY <1>t DEF Jobs
      <4>2. reconnect'[p] = reconnect[p]
        BY <2>2, <3>2
      <4>3. reconnect[p].at <= clock /\ reconnect[p].eta <= clock + RetryAfter
        BY <1>v
      <4>4. reconnect[p].eta <= clock' + RetryAfter
        BY <1>g, <4>1, <4>3
      <4>5. reconnect[p].at <= clock'
        BY <1>p, <4>1, <4>3
      <4> QED
        BY <4>2, <4>4, <4>5
    <3> QED
      BY <3>1, <3>2
  <2>5. ASSUME NEW p \in Reconnects, reconnect'[p].phase # "done" PROVE conn'.epoch < p
    <3>1. CASE p = r
      BY <1>3, <1>v, <2>2, <2>3, <2>5, <3>1
    <3>2. CASE p # r
      <4>1. reconnect[p].phase = "absent"
        BY <1>3, <1>v, <2>2, <2>5, <3>2, <1>t DEF Running, Jobs
      <4>2. ~(p < r)
        BY <1>t, <1>v, <2>3, <4>1
      <4>3. conn.epoch < r
        BY <1>v, <2>3
      <4> QED
        BY <1>e, <1>t, <3>2, <4>2, <4>3
    <3> QED
      BY <3>1, <3>2
  <2>6. ASSUME NEW p \in Reconnects, reconnect'[p].phase # "absent", NEW i \in 1 .. p - 1
        PROVE  reconnect'[i].phase # "absent"
    <3>1. i \in Reconnects
      BY <1>t
    <3>2. reconnect[p].phase # "absent"
      BY <2>2, <2>3, <2>6
    <3>3. reconnect[i].phase # "absent"
      BY <1>v, <3>2
    <3> QED
      BY <1>3, <2>2, <3>1, <3>3
  <2>7. ASSUME NEW p \in Reconnects, Running(p)' PROVE p = r
    BY <1>3, <1>v, <2>2, <2>7 DEF Running
  <2> QED
    BY <2>1, <2>4, <2>5, <2>6, <2>7 DEF ReconnectsAre, Jobs, Tokens, Configs
<1>4. ASSUME NEW r \in Reconnects, ReconnectStep(r) PROVE ReconnectsAre'
  <2>r. /\ reconnect[r] \in Jobs /\ reconnect[r].at <= clock
        /\ reconnect[r].eta <= clock + RetryAfter
    BY <1>t, <1>v
  <2>1. CASE StartReconnect(r)
    <3>1. Begun(r)
      BY <2>1 DEF StartReconnect, Begun
    <3>2. conn'.epoch = conn.epoch
      BY <2>1, <1>t DEF StartReconnect, Store, Rows
    <3> QED
      BY <1>2, <3>1, <3>2
  <2>2. CASE AbandonReconnect(r) \/ ShowCode(r) \/ ReadSession(r)
    <3> DEFINE q == [reconnect[r] EXCEPT !.phase = "done"]
    <3>1. Running(r) /\ reconnect' = [reconnect EXCEPT ![r] = q]
      BY <2>2, <1>t DEF AbandonReconnect, ShowCode, ReadSession, MayFinish, EndReconnect, Running
    <3> HIDE DEF Tokens, Configs
    <3>2. /\ q \in Jobs /\ q.phase = "done" /\ q.at = reconnect[r].at
          /\ q.eta = reconnect[r].eta
      BY <2>r
    <3> HIDE DEF q, Jobs
    <3> QED
      BY <1>3, <2>r, <3>1, <3>2
  <2>3. CASE BeginReconnect(r)
    <3> DEFINE t == Token(conn)
               q == [reconnect[r] EXCEPT !.phase = "reading", !.at = clock, !.token = t]
    <3>1. /\ Running(r) /\ reconnect' = [reconnect EXCEPT ![r] = q]
          /\ conn'.epoch = conn.epoch
      BY <2>3, <1>t DEF BeginReconnect, Running
    <3>2. t \in Tokens
      BY <1>t DEF Token
    <3> HIDE DEF Tokens, Configs, t
    <3>3. q \in Jobs /\ q.phase = "reading" /\ q.at = clock /\ q.eta = reconnect[r].eta
      BY <1>t, <2>r, <3>2
    <3>4. q.at <= clock
      BY <1>t, <3>3
    <3> HIDE DEF q, Jobs
    <3> QED
      BY <1>3, <2>r, <3>1, <3>3, <3>4
  <2> QED
    BY <1>4, <2>1, <2>2, <2>3 DEF ReconnectStep
<1>5. UNCHANGED reconnect \/ \E r \in Reconnects : ReconnectStep(r)
  BY DEF Next, vars, Tick, ScheduleCheck, Administer, RequestCheck, Configure, EnableOutbound,
         DisableOutbound, SetRole, HintAfterSend, ProbeStep, SkipProbe, CompleteInactive,
         BeginProbe, EndProbe, RestartProbe, LoseProbe, RequeueProbe,
         ProcessReport, StoreReport, HoldMessage, ConfirmOrigin, AdmitCommand,
         DispatchCommand, RunPage
<1> QED
  BY <1>1, <1>4, <1>5

(* The reports keep their type, and the order of their receipt. *)
LEMMA ReportsStay ==
  ASSUME TypeInv, [Next]_vars
  PROVE  ReportsAre'
<1> DEFINE Steps == {"absent", "pending", "done"}
           Rpts == [kind : Kinds \cup {"Connected"}, state : Steps, at : Nat,
                    epoch : 0 .. LastReconnect, phase : Pairings]
<1>n. /\ clock \in Nat /\ clock' \in Nat /\ clock <= clock' /\ LastReconnect \in Nat
      /\ Reports = 1 .. LastReport /\ LastReport \in Nat
  BY ClockSteps, Bounds DEF TypeInv, Reports
<1>c. /\ conn.epoch \in 0 .. LastReconnect /\ conn.pairing \in Pairings
  BY <1>n DEF TypeInv, RowIs, Rows, Near
<1>t. /\ report \in [Reports -> Rpts]
      /\ \A n \in Reports :
          /\ report[n].at <= clock
          /\ report[n].state # "absent" =>
                \A i \in 1 .. n : report[i].state # "absent" /\ report[i].at <= report[n].at
  BY DEF TypeInv, ReportsAre
<1>1. CASE UNCHANGED report
  <2>1. ASSUME NEW n \in Reports PROVE report[n].at <= clock'
    <3>1. report[n].at \in Nat /\ report[n].at <= clock
      BY <1>t
    <3> QED
      BY <1>n, <3>1
  <2> QED
    BY <1>1, <1>t, <2>1 DEF ReportsAre
<1>2. ASSUME NEW n \in Reports, NEW k \in Kinds, StoreReport(n, k) PROVE ReportsAre'
  <2> DEFINE q == [kind |-> k, state |-> "pending", at |-> clock,
                   epoch |-> Receipt(conn).epoch, phase |-> Receipt(conn).phase]
  <2>1. /\ report' = [report EXCEPT ![n] = q]
        /\ report[n].state = "absent" /\ \A i \in 1 .. n - 1 : report[i].state # "absent"
    BY <1>2 DEF StoreReport, Stored
  <2>2. Receipt(conn).epoch \in 0 .. LastReconnect /\ Receipt(conn).phase \in Pairings
    BY <1>n, <1>c DEF Receipt, Pairings
  <2>3. q \in Rpts /\ q.state = "pending" /\ q.at = clock
    BY <1>n, <2>2
  <2> HIDE DEF q, Rpts
  <2>4. report' \in [Reports -> Rpts]
    BY <1>t, <2>1, <2>3
  <2>5. report'[n] = q /\ \A i \in Reports : i # n => report'[i] = report[i]
    BY <1>t, <2>1
  <2>6. ASSUME NEW i \in Reports PROVE report[i].at \in Nat /\ report[i].at <= clock
    BY <1>t DEF Rpts
  <2>7. ASSUME NEW m \in Reports PROVE report'[m].at <= clock'
    BY <1>n, <2>3, <2>5, <2>6
  <2>8. ASSUME NEW m \in Reports, report'[m].state # "absent", NEW i \in 1 .. m
        PROVE  report'[i].state # "absent" /\ report'[i].at <= report'[m].at
    <3>1. i \in Reports
      BY <1>n
    <3>2. CASE m = n
      <4>1. CASE i = n
        BY <1>n, <2>3, <2>5, <3>2, <4>1
      <4>2. CASE i # n
        <5>1. i \in 1 .. n - 1
          BY <1>n, <3>2, <4>2
        <5> QED
          BY <2>1, <2>3, <2>5, <2>6, <3>1, <3>2, <4>2, <5>1
      <4> QED
        BY <4>1, <4>2
    <3>3. CASE m # n
      <4>1. report[m].state # "absent" /\ report'[m] = report[m]
        BY <2>5, <2>8, <3>3
      <4>2. report[i].state # "absent" /\ report[i].at <= report[m].at
        BY <1>t, <4>1
      <4>3. i # n
        BY <2>1, <4>2
      <4> QED
        BY <2>5, <3>1, <4>1, <4>2, <4>3
    <3> QED
      BY <3>2, <3>3
  <2> QED
    BY <2>4, <2>7, <2>8 DEF ReportsAre, Rpts
<1>3. ASSUME NEW n \in Reports, ProcessReport(n) PROVE ReportsAre'
  <2>1. /\ report' = [report EXCEPT ![n].state = "done"] /\ report[n].state = "pending"
        /\ clock' = clock
    BY <1>3 DEF ProcessReport
  <2>2. report' \in [Reports -> Rpts]
    BY <1>t, <2>1
  <2>3. \A i \in Reports : /\ report'[i].at = report[i].at
                           /\ report'[i].state = "absent" <=> report[i].state = "absent"
    BY <1>t, <2>1
  <2>4. \A m \in Reports : report'[m].at <= clock'
    BY <1>t, <2>1, <2>3
  <2>5. ASSUME NEW m \in Reports, report'[m].state # "absent", NEW i \in 1 .. m
        PROVE  report'[i].state # "absent" /\ report'[i].at <= report'[m].at
    <3>1. i \in Reports
      BY <1>n
    <3>2. report[m].state # "absent"
      BY <2>3, <2>5
    <3>3. report[i].state # "absent" /\ report[i].at <= report[m].at
      BY <1>t, <3>2
    <3> QED
      BY <2>3, <3>1, <3>3
  <2> QED
    BY <2>2, <2>4, <2>5 DEF ReportsAre
<1>4. \/ UNCHANGED report
      \/ \E n \in Reports : ProcessReport(n) \/ \E k \in Kinds : StoreReport(n, k)
  BY DEF Next, vars, Tick, ScheduleCheck, Administer, RequestCheck, Configure, EnableOutbound,
         DisableOutbound, SetRole, HintAfterSend, ProbeStep, SkipProbe, CompleteInactive,
         BeginProbe, EndProbe, RestartProbe, LoseProbe, RequeueProbe, ReconnectStep,
         StartReconnect, AbandonReconnect, BeginReconnect, ShowCode, ReadSession,
         HoldMessage, ConfirmOrigin, AdmitCommand, DispatchCommand, RunPage
<1> QED
  BY <1>1, <1>2, <1>3, <1>4

(* The held messages keep their type. *)
LEMMA HeldStay ==
  ASSUME TypeInv, [Next]_vars
  PROVE  HeldAre'
<1> DEFINE Msgs == [state : {"absent", "blocked", "released"}, at : Nat,
                    epoch : 0 .. LastReconnect, config : 0 .. 1 + MaxChanges]
<1>n. /\ clock \in Nat /\ clock' \in Nat /\ clock <= clock' /\ LastReconnect \in Nat
      /\ MaxChanges \in Nat /\ changes \in 0 .. MaxChanges
  BY ClockSteps, Bounds DEF TypeInv
<1>c. conn.epoch \in 0 .. LastReconnect /\ conn.config \in 0 .. 1 + MaxChanges
  BY <1>n DEF TypeInv, RowIs, Rows, Near
<1>t. held \in [Held -> Msgs] /\ \A m \in Held : held[m].at <= clock
  BY DEF TypeInv, HeldAre
<1>1. CASE UNCHANGED held
  <2>1. ASSUME NEW m \in Held PROVE held[m].at <= clock'
    <3>1. held[m].at \in Nat /\ held[m].at <= clock
      BY <1>t
    <3> QED
      BY <1>n, <3>1
  <2> QED
    BY <1>1, <1>t, <2>1 DEF HeldAre
<1>2. ASSUME NEW m \in Held, HoldMessage(m) PROVE HeldAre'
  <2>1. /\ held' = [held EXCEPT ![m] = [state |-> "blocked", at |-> clock,
                                        epoch |-> conn.epoch, config |-> conn.config]]
        /\ clock' = clock
    BY <1>2 DEF HoldMessage
  <2>2. held' \in [Held -> Msgs]
    BY <1>n, <1>c, <1>t, <2>1
  <2>3. \A i \in Held : held'[i].at = held[i].at \/ held'[i].at = clock
    BY <1>t, <2>1
  <2> QED
    BY <1>n, <1>t, <2>1, <2>2, <2>3 DEF HeldAre
<1>3. ASSUME NEW m \in Held, ConfirmOrigin(m) PROVE HeldAre'
  <2>1. held' = [held EXCEPT ![m].state = "released"] /\ clock' = clock
    BY <1>3 DEF ConfirmOrigin
  <2>2. held' \in [Held -> Msgs] /\ \A i \in Held : held'[i].at = held[i].at
    BY <1>t, <2>1
  <2> QED
    BY <1>t, <2>1, <2>2 DEF HeldAre
<1>4. UNCHANGED held \/ \E m \in Held : HoldMessage(m) \/ ConfirmOrigin(m)
  BY DEF Next, vars, Tick, ScheduleCheck, Administer, RequestCheck, Configure, EnableOutbound,
         DisableOutbound, SetRole, HintAfterSend, ProbeStep, SkipProbe, CompleteInactive,
         BeginProbe, EndProbe, RestartProbe, LoseProbe, RequeueProbe, ReconnectStep,
         StartReconnect, AbandonReconnect, BeginReconnect, ShowCode, ReadSession,
         ProcessReport, StoreReport, AdmitCommand, DispatchCommand, RunPage
<1> QED
  BY <1>1, <1>2, <1>3, <1>4

(* The commands and the recovery pages keep their type. *)
LEMMA SendsStay ==
  ASSUME TypeInv, [Next]_vars
  PROVE  SendsAre'
<1> DEFINE Pages == [wave : Nat, after : 0 .. LastCommand, cutoff : Commands]
<1>n. LastCommand \in Nat /\ Commands = 1 .. LastCommand
  BY Bounds DEF Commands
<1>t. cmd \in [Commands -> {"absent", "ready", "parked", "sent"}] /\ pages \subseteq Pages
  BY DEF TypeInv, SendsAre
<1>w. ASSUME NEW b, NEW past, NEW o, Watched(b, past, o) PROVE SendsAre'
  <2> DEFINE d == Recovered(b, Applied(b, o))
  <2>1. cmd' = cmd /\ pages' = pages \cup Wave(b, d)
    BY <1>w DEF Watched, Observe
  <2>2. b.wave \in Nat
    BY <1>w, WatchedRow DEF Rows
  <2>3. Wave(b, d) \subseteq Pages
    <3>1. CASE Eligible # {}
      <4>1. Eligible \in SUBSET (1 .. LastCommand)
        BY <1>n DEF Eligible
      <4>2. HighestOf(Eligible) \in Commands
        BY <1>n, <3>1, <4>1, HighestIsThere
      <4> QED
        BY <1>n, <2>2, <4>2 DEF Wave
    <3>2. CASE Eligible = {}
      BY <3>2 DEF Wave
    <3> QED
      BY <3>1, <3>2
  <2> QED
    BY <1>t, <2>1, <2>3 DEF SendsAre
<1>1. CASE UNCHANGED <<cmd, pages>>
  BY <1>1, <1>t DEF SendsAre
<1>2. CASE \E c \in Commands : AdmitCommand(c) \/ DispatchCommand(c)
  BY <1>2, <1>t DEF AdmitCommand, DispatchCommand, SendsAre
<1>3. ASSUME NEW p \in pages, RunPage(p) PROVE SendsAre'
  <2>1. cmd' \in [Commands -> {"absent", "ready", "parked", "sent"}]
    BY <1>3, <1>t DEF RunPage
  <2>2. Follow(p) \subseteq Pages
    <3>1. CASE RestOf(p) = {}
      BY <3>1 DEF Follow
    <3>2. CASE RestOf(p) # {}
      <4>1. Between(p) \in SUBSET Commands
        BY DEF Between, Eligible
      <4>2. HighestOf(BatchOf(p)) \in BatchOf(p)
        BY <3>2, <4>1, Batches DEF BatchOf, RestOf
      <4>3. HighestOf(BatchOf(p)) \in 0 .. LastCommand
        BY <1>n, <4>1, <4>2 DEF BatchOf
      <4>4. p \in Pages
        BY <1>3, <1>t
      <4> DEFINE h == HighestOf(BatchOf(p))
      <4> HIDE DEF h
      <4>5. [p EXCEPT !.after = h] \in Pages
        BY <4>3, <4>4 DEF h
      <4> QED
        BY <3>2, <4>5 DEF Follow, h
    <3> QED
      BY <3>1, <3>2
  <2> QED
    BY <1>3, <1>t, <2>1, <2>2 DEF RunPage, SendsAre
<1>4. CASE \/ \E j \in Probes : EndProbe(j)
           \/ \E r \in Reconnects : ShowCode(r) \/ ReadSession(r)
  BY <1>4, <1>w, WatchSteps
<1>5. \/ UNCHANGED <<cmd, pages>>
      \/ \E j \in Probes : EndProbe(j)
      \/ \E r \in Reconnects : ShowCode(r) \/ ReadSession(r)
      \/ \E c \in Commands : AdmitCommand(c) \/ DispatchCommand(c)
      \/ \E p \in pages : RunPage(p)
  BY DEF Next, vars, Tick, ScheduleCheck, Administer, RequestCheck, Configure, EnableOutbound,
         DisableOutbound, SetRole, HintAfterSend, ProbeStep, SkipProbe, CompleteInactive,
         BeginProbe, RestartProbe, LoseProbe, RequeueProbe, ReconnectStep,
         StartReconnect, AbandonReconnect, BeginReconnect,
         HoldMessage, ConfirmOrigin, ProcessReport, StoreReport
<1> QED
  BY <1>1, <1>2, <1>3, <1>4, <1>5

(* What is heard is no later than now. *)
LEMMA HeardStays ==
  ASSUME TypeInv, [Next]_vars
  PROVE  HeardIs'
<1> DEFINE Notes == [match : Nat, against : Nat, retry : Nat]
           Fine(h) == /\ h \in Notes
                      /\ h.match <= clock /\ h.against <= clock
                      /\ h.retry <= clock + RetryAfter
<1>n. /\ clock \in Nat /\ clock' \in Nat /\ clock <= clock' /\ RetryAfter \in Nat
  BY ClockSteps, Bounds DEF TypeInv
<1>t. Fine(heard)
  BY DEF TypeInv, HeardIs
<1>s. ASSUME Fine(heard') PROVE HeardIs'
  <2>1. heard'.match \in Nat /\ heard'.against \in Nat /\ heard'.retry \in Nat
    BY <1>s
  <2> QED
    BY <1>s, <1>n, <2>1, NearStill DEF HeardIs
<1>h. ASSUME NEW b, NEW past, NEW o, Fine(past), Observation(o), Hear(b, past, o)
      PROVE  Fine(heard')
  <2> DEFINE m == IF Proof(o) THEN Later(past.match, o.at) ELSE past.match
             a == IF o.conclusive /\ Guarded(b, o) # "connected"
                  THEN Later(past.against, o.at) ELSE past.against
             r == IF o.retry THEN Later(past.retry, o.at + RetryAfter) ELSE past.retry
  <2>1. o.at \in Nat /\ o.at <= clock
    BY <1>h DEF Observation
  <2>2. past.match \in Nat /\ past.against \in Nat /\ past.retry \in Nat
    BY <1>h
  <2>3. m \in Nat /\ m <= clock /\ a \in Nat /\ a <= clock
    BY <1>h, <1>n, <2>1, <2>2 DEF Later
  <2>4. r \in Nat /\ r <= clock + RetryAfter
    BY <1>h, <1>n, <2>1, <2>2 DEF Later
  <2>5. heard' = [match |-> m, against |-> a, retry |-> r]
    BY <1>h DEF Hear
  <2> HIDE DEF m, a, r
  <2> QED
    BY <2>3, <2>4, <2>5
<1>1. CASE UNCHANGED heard
  BY <1>1, <1>t, <1>s
<1>2. CASE Hinted
  <2>1. /\ heard'.match = heard.match /\ heard'.against = heard.against
        /\ heard'.retry \in {heard.retry, Later(heard.retry, clock + RetryAfter)}
        /\ heard' \in [match : {heard.match}, against : {heard.against},
                       retry : {heard.retry, Later(heard.retry, clock + RetryAfter)}]
    BY <1>2 DEF Hinted
  <2>2. heard.match \in Nat /\ heard.against \in Nat /\ heard.retry \in Nat
    BY <1>t
  <2>3. heard'.retry \in Nat /\ heard'.retry <= clock + RetryAfter
    BY <1>n, <1>t, <2>1, <2>2 DEF Later
  <2>4. heard' \in Notes
    BY <2>1, <2>2, <2>3
  <2> QED
    BY <1>s, <1>t, <2>1, <2>3, <2>4
<1>3. ASSUME NEW b, NEW past, NEW o, Watched(b, past, o) PROVE HeardIs'
  <2>1. Fine(past)
    <3>1. CASE past = heard
      BY <1>t, <3>1
    <3>2. CASE past = [heard EXCEPT !.match = 0]
      <4> DEFINE z == 0
      <4>1. z \in Nat /\ z <= clock /\ past = [heard EXCEPT !.match = z]
        BY <1>n, <3>2
      <4> HIDE DEF z
      <4> QED
        BY <1>t, <4>1
    <3> QED
      BY <1>3, <3>1, <3>2 DEF Watched
  <2> QED
    BY <1>3, <1>h, <1>s, <2>1 DEF Watched, Observe
<1>4. ASSUME NEW n \in Reports, Heeded(n) PROVE HeardIs'
  <2>1. Observation(ReportDated(n))
    BY ReportsObserve DEF TypeInv, ReportsAre
  <2> QED
    BY <1>4, <1>h, <1>s, <1>t, <2>1 DEF Heeded
<1>5. CASE Configured
  <2> DEFINE z == 0
  <2>1. z \in Nat /\ z <= clock /\ z <= clock + RetryAfter
        /\ heard' = [heard EXCEPT !.match = z, !.retry = z]
    BY <1>n, <1>5 DEF Configured
  <2> HIDE DEF z
  <2>2. Fine(heard')
    BY <1>t, <2>1
  <2> QED
    BY <1>s, <2>2
<1>6. CASE Assigned
  BY <1>6, <1>1 DEF Assigned
<1> QED
  BY <1>1, <1>2, <1>3, <1>4, <1>5, <1>6, RowSteps

(* The invariant of types holds at first. *)
LEMMA TypeInvInit ==
  ASSUME Init PROVE TypeInv
<1>b. /\ LastInstant \in Nat \ {0} /\ MaxChanges \in Nat /\ LastReconnect \in Nat
      /\ Horizon \in Nat /\ Interval <= Horizon /\ RetryAfter \in Nat /\ Interval \in Nat
      /\ Jitter \in Nat /\ LastReport \in Nat /\ LastProbe \in Nat
  BY Bounds, HorizonIsFar
<1>1. clock = 1 /\ clock \in 1 .. LastInstant /\ changes \in 0 .. MaxChanges /\ changes = 0
  BY <1>b DEF Init
<1>2. RowIs
  <2>1. PICK outbound \in BOOLEAN : conn =
              [role |-> "primary", outbound |-> outbound,
               state |-> "connected", at |-> 1, source |-> "probe", lastEvent |-> 0,
               healthEvent |-> 0,
               latched |-> FALSE, detail |-> "none", healthAt |-> 1, unhealthy |-> FALSE,
               pending |-> FALSE, owner |-> 0, next |-> 1 + Interval, cooldown |-> 0,
               config |-> 1, epoch |-> 0, pairing |-> "none", wave |-> 0, wizard |-> 0]
    BY DEF Init
  <2>2. conn \in Rows
    BY <1>b, <2>1, Words DEF Rows, Roles, Details, Pairings
  <2>3. Near(conn)
    BY <1>b, <1>1, <2>1 DEF Near
  <2> QED
    BY <2>2, <2>3 DEF RowIs
<1>3. ProbesAre
  BY <1>b, <1>1 DEF Init, ProbesAre
<1>4. ReconnectsAre
  <2> DEFINE q == [phase |-> "absent", eta |-> 0, at |-> 0, config |-> 0,
                   token |-> <<0, 0, "none">>]
  <2>1. reconnect = [r \in Reconnects |-> q]
    BY DEF Init
  <2>2. q.phase = "absent" /\ q.at = 0 /\ q.eta = 0
    OBVIOUS
  <2>3. q \in [phase : {"absent", "queued", "reading", "done"},
                         eta : Nat, at : Nat, config : 0 .. 1 + MaxChanges,
                         token : (0 .. 1 + MaxChanges) \X (0 .. LastReconnect) \X Pairings]
    BY <1>b DEF Pairings
  <2>4. conn.epoch = 0
    BY DEF Init
  <2> HIDE DEF q
  <2>5. \A r \in Reconnects : reconnect[r] = q /\ ~Running(r) /\ 0 < r
    BY <1>b, <2>1, <2>2 DEF Running, Reconnects
  <2>6. ASSUME NEW r \in Reconnects
        PROVE  /\ reconnect[r].at <= clock /\ reconnect[r].eta <= clock + RetryAfter
               /\ reconnect[r].phase = "absent" /\ ~Running(r) /\ conn.epoch < r
    BY <1>b, <1>1, <2>2, <2>4, <2>5
  <2>7. reconnect \in [Reconnects -> [phase : {"absent", "queued", "reading", "done"},
                         eta : Nat, at : Nat, config : 0 .. 1 + MaxChanges,
                         token : (0 .. 1 + MaxChanges) \X (0 .. LastReconnect) \X Pairings]]
    BY <2>1, <2>3
  <2> QED
    BY <2>6, <2>7 DEF ReconnectsAre
<1>5. ReportsAre
  BY <1>b, <1>1 DEF Init, ReportsAre, Pairings
<1>6. HeldAre
  BY <1>b, <1>1 DEF Init, HeldAre
<1>7. SendsAre
  BY DEF Init, SendsAre
<1>8. HeardIs
  BY <1>b, <1>1 DEF Init, HeardIs
<1> QED
  BY <1>1, <1>2, <1>3, <1>4, <1>5, <1>6, <1>7, <1>8 DEF TypeInv

(* Every step keeps the invariant of types, part by part. *)
LEMMA TypeInvNext ==
  ASSUME TypeInv, [Next]_vars PROVE TypeInv'
BY ClockSteps, RowStays, ProbesStay, ReconnectsStay, ReportsStay, HeldStay, SendsStay,
   HeardStays DEF TypeInv

(* Types hold in every behaviour. *)
LEMMA TypeInvAlways == Spec => []TypeInv
<1>1. Init => TypeInv
  BY TypeInvInit
<1>2. TypeInv /\ [Next]_vars => TypeInv'
  BY TypeInvNext
<1> QED
  BY <1>1, <1>2, PTL DEF Spec

(* Every variable keeps its type. *)
THEOREM ConnectionTypes == Spec => []TypeOK
<1>1. TypeInv => TypeOK
  <2> SUFFICES ASSUME TypeInv PROVE TypeOK
    OBVIOUS
  <2>n. /\ clock \in 1 .. LastInstant /\ clock \in Nat /\ clock <= LastInstant
        /\ LastInstant \in Nat /\ Horizon \in Nat
        /\ RetryAfter \in Nat /\ RetryAfter <= Horizon /\ Jitter \in Nat /\ Jitter <= Horizon
        /\ MaxChanges \in Nat /\ changes \in 0 .. MaxChanges
        /\ LastReport \in Nat /\ LastProbe \in Nat /\ LastReconnect \in Nat
    BY Bounds DEF TypeInv
  <2>i. /\ \A x \in Nat : x <= clock => x \in Instants
        /\ \A x \in Nat : x <= clock + Horizon => x \in Due
    BY <2>n DEF Instants, Due
  <2>d. \A x \in Nat : x <= clock + RetryAfter \/ x <= clock + Jitter => x \in Due
    BY <2>n DEF Due
  <2>1. conn \in [role : {"primary", "standby", "historical"}, outbound : BOOLEAN,
                 state : States, at : Instants, source : {"probe", "event"},
                 lastEvent : 0 .. LastReport, healthEvent : 0 .. LastReport,
                 latched : BOOLEAN, detail : {"none", "rate_limited", "unreachable"},
                 healthAt : Instants, unhealthy : BOOLEAN,
                 pending : BOOLEAN, owner : 0 .. LastProbe, next : Due, cooldown : Due,
                 config : 1 .. 1 + MaxChanges, epoch : 0 .. LastReconnect,
                 pairing : Pairings, wave : Nat, wizard : 0 .. LastReconnect]
    <3>1. conn \in Rows /\ Near(conn)
      BY DEF TypeInv, RowIs
    <3>2. /\ conn.at \in Instants /\ conn.healthAt \in Instants
          /\ conn.next \in Due /\ conn.cooldown \in Due
      BY <2>i, <2>d, <3>1 DEF Rows, Near
    <3>3. /\ conn.lastEvent \in 0 .. LastReport /\ conn.healthEvent \in 0 .. LastReport
          /\ conn.owner \in 0 .. LastProbe /\ conn.wizard \in 0 .. LastReconnect
          /\ conn.epoch \in 0 .. LastReconnect /\ conn.config \in 1 .. 1 + MaxChanges
      BY <2>n, <3>1 DEF Rows, Near
    <3> QED
      BY <3>1, <3>2, <3>3 DEF Rows, Roles, Details
  <2>2. /\ probe \in [Probes -> [phase : {"absent", "queued", "reading", "done", "dead"},
                               eta : Due, at : Instants]]
        /\ outdated \in SUBSET Probes
    BY <2>i, <2>d DEF TypeInv, ProbesAre
  <2>3. reconnect \in [Reconnects -> [phase : {"absent", "queued", "reading", "done"},
                         eta : Due, at : Instants, config : 0 .. 1 + MaxChanges,
                         token : (0 .. 1 + MaxChanges) \X (0 .. LastReconnect) \X Pairings]]
    <3> DEFINE Tokens == (0 .. 1 + MaxChanges) \X (0 .. LastReconnect) \X Pairings
    <3>1. /\ reconnect \in [Reconnects -> [phase : {"absent", "queued", "reading", "done"},
                         eta : Nat, at : Nat, config : 0 .. 1 + MaxChanges,
                         token : Tokens]]
          /\ \A r \in Reconnects : reconnect[r].at <= clock
                                   /\ reconnect[r].eta <= clock + RetryAfter
      BY DEF TypeInv, ReconnectsAre
    <3> HIDE DEF Tokens
    <3>2. reconnect \in [Reconnects -> [phase : {"absent", "queued", "reading", "done"},
                         eta : Due, at : Instants, config : 0 .. 1 + MaxChanges,
                         token : Tokens]]
      BY <2>i, <2>d, <3>1
    <3> QED
      BY <3>2 DEF Tokens
  <2>4. report \in [Reports -> [kind : Kinds \cup {"Connected"},
                               state : {"absent", "pending", "done"},
                               at : Instants, epoch : 0 .. LastReconnect, phase : Pairings]]
    BY <2>i DEF TypeInv, ReportsAre
  <2>5. held \in [Held -> [state : {"absent", "blocked", "released"}, at : Instants,
                          epoch : 0 .. LastReconnect, config : 0 .. 1 + MaxChanges]]
    BY <2>i DEF TypeInv, HeldAre
  <2>6. heard \in [match : Instants, against : Instants, retry : Due]
    BY <2>i, <2>d DEF TypeInv, HeardIs
  <2> QED
    BY <2>1, <2>2, <2>3, <2>4, <2>5, <2>6 DEF TypeOK, TypeInv, SendsAre
<1> QED
  BY <1>1, TypeInvAlways, PTL

(* No sequence of lost races, cooldowns, dead jobs and hints pushes the next check of a
   connection further away than the longest single delay (next_health_check_at is kept
   by _apply_normalized_health, _enqueue_health_check and _request_health_after_send). *)
THEOREM NextCheckStaysNear == Spec => []NextCheckIsNear
<1>1. TypeInv => NextCheckIsNear
  BY DEF TypeInv, RowIs, Near, NextCheckIsNear
<1> QED
  BY <1>1, TypeInvAlways, PTL

-----------------------------------------------------------------------------
(* Cooldowns *)

(* A Retry-After that is not over stands in the row. *)
RetryStands == heard.retry <= clock \/ heard.retry <= conn.cooldown

(* Every step keeps a Retry-After that is not over. *)
LEMMA RetryStandsNext ==
  ASSUME TypeInv, RetryStands, [Next]_vars
  PROVE  RetryStands'
<1>n. /\ clock \in Nat /\ clock' \in Nat /\ clock <= clock' /\ RetryAfter \in Nat \ {0}
      /\ heard.retry \in Nat /\ heard.retry <= clock + RetryAfter
      /\ conn.cooldown \in Nat
  BY ClockSteps, Bounds DEF TypeInv, HeardIs, RowIs, Rows
<1>1. CASE UNCHANGED <<conn, heard>>
  BY <1>1, <1>n DEF RetryStands
<1>2. CASE Hinted
  <2>1. /\ heard'.retry \in {heard.retry, Later(heard.retry, clock + RetryAfter)}
        /\ heard'.retry # heard.retry => clock + RetryAfter <= conn'.cooldown
        /\ conn.cooldown <= conn'.cooldown
    BY <1>2 DEF Hinted
  <2>2. conn'.cooldown \in Nat
    BY <1>2 DEF Hinted, Kept, Rows
  <2> QED
    BY <1>n, <2>1, <2>2 DEF RetryStands, Later
<1>3. ASSUME NEW b, NEW past, NEW o, Watched(b, past, o) PROVE RetryStands'
  <2> DEFINE d == Applied(b, o)
  <2>1. /\ b \in Rows /\ d \in Rows /\ conn' \in {d, [d EXCEPT !.wave = @ + 1]}
    BY <1>3, WatchedRow
  <2>2. b.cooldown = conn.cooldown /\ past.retry = heard.retry
    BY <1>3 DEF Watched, Touched, NewEpoch, HeardIs, TypeInv
  <2>3. d.cooldown = Cooldown(b, o)
    BY <2>1, AppliedFields
  <2> HIDE DEF d
  <2>4. conn'.cooldown = Cooldown(b, o)
    BY <2>1, <2>3 DEF Rows
  <2>5. /\ o.at \in Nat /\ o.at <= clock /\ o.retry \in BOOLEAN /\ o.probe
        /\ Hear(b, past, o)
    BY <1>3 DEF Watched, Observation, Observe
  <2>6. CASE o.retry
    <3>1. conn'.cooldown = Later(o.at + RetryAfter, conn.cooldown)
      BY <2>2, <2>4, <2>5, <2>6 DEF Cooldown, Deadline
    <3>2. heard'.retry = Later(heard.retry, o.at + RetryAfter)
      BY <2>2, <2>5, <2>6 DEF Hear
    <3> QED
      BY <1>n, <2>5, <3>1, <3>2 DEF RetryStands, Later
  <2>7. CASE ~o.retry
    <3>1. conn'.cooldown = IF conn.cooldown <= o.at THEN 0 ELSE conn.cooldown
      BY <2>2, <2>4, <2>5, <2>7 DEF Cooldown
    <3>2. heard'.retry = heard.retry
      BY <2>2, <2>5, <2>7 DEF Hear
    <3> QED
      BY <1>n, <2>5, <3>1, <3>2 DEF RetryStands
  <2> QED
    BY <2>6, <2>7
<1>4. ASSUME NEW n \in Reports, Heeded(n) PROVE RetryStands'
  <2> DEFINE o == ReportDated(n)
  <2>1. ~o.probe /\ ~o.retry
    BY DEF ReportDated
  <2> HIDE DEF o
  <2>2. Applied(conn, o).cooldown = conn.cooldown
    <3>1. Applied(conn, o).cooldown = Cooldown(conn, o)
      BY AppliedFields DEF TypeInv, RowIs
    <3> QED
      BY <2>1, <3>1 DEF Cooldown
  <2>3. conn'.cooldown = conn.cooldown
    BY <1>4, <2>2 DEF Heeded, Touched, o
  <2>4. heard'.retry = heard.retry
    BY <1>4, <2>1 DEF Heeded, Hear, o
  <2> QED
    BY <1>n, <2>3, <2>4 DEF RetryStands
<1>5. CASE Configured
  <2>1. heard'.retry = 0
    BY <1>5 DEF Configured, TypeInv, HeardIs
  <2> QED
    BY <1>n, <2>1 DEF RetryStands
<1>6. CASE Assigned
  <2>1. PICK role \in Roles, outbound \in BOOLEAN :
           conn' = [conn EXCEPT !.role = role, !.outbound = outbound]
    BY <1>6 DEF Assigned
  <2>2. conn'.cooldown = conn.cooldown
    BY <2>1 DEF TypeInv, RowIs, Rows
  <2> QED
    BY <1>6, <1>n, <2>2 DEF RetryStands, Assigned
<1> QED
  BY <1>1, <1>2, <1>3, <1>4, <1>5, <1>6, RowSteps

(* A Retry-After of the provider stands until it is over: no later answer, report, hint or
   dead job makes _enqueue_health_check create a job that starts before it. *)
THEOREM CooldownStands == Spec => CooldownHonoured
<1>1. Init => RetryStands
  <2> SUFFICES ASSUME Init PROVE RetryStands
    OBVIOUS
  <2> QED
    BY DEF Init, RetryStands
<1>2. TypeInv /\ RetryStands /\ [Next]_vars => RetryStands'
  BY RetryStandsNext
<1>3. TypeInv /\ RetryStands /\ [Next]_vars =>
        [\A j \in Probes : probe[j].phase = "absent" /\ probe'[j].phase # "absent" =>
            heard'.retry <= clock]_vars
  <2> SUFFICES ASSUME TypeInv, RetryStands, [Next]_vars,
                      NEW j \in Probes, probe[j].phase = "absent", probe'[j].phase # "absent"
               PROVE  heard'.retry <= clock
    OBVIOUS
  <2>1. RetryStands'
    BY RetryStandsNext
  <2>2. ~\E k \in Probes : Moved(k)
    <3>1. ASSUME NEW k \in Probes, Moved(k) PROVE FALSE
      <4>1. k # j
        BY <3>1 DEF Moved
      <4>2. probe'[j] = probe[j]
        BY <3>1, <4>1 DEF Moved, TypeInv, ProbesAre
      <4> QED
        BY <4>2
    <3> QED
      BY <3>1
  <2>3. UNCHANGED clock /\ Asked /\ ~UNCHANGED probe
    BY <2>2, ProbeSteps
  <2>4. conn'.cooldown <= clock
    BY <2>3 DEF Asked, Created
  <2>5. heard'.retry \in Nat /\ conn'.cooldown \in Nat /\ clock \in Nat
    BY TypeInvNext DEF TypeInv, HeardIs, RowIs, Rows
  <2> QED
    BY <2>1, <2>3, <2>4, <2>5 DEF RetryStands
<1> QED
  BY <1>1, <1>2, <1>3, TypeInvAlways, PTL DEF Spec, CooldownHonoured

-----------------------------------------------------------------------------
(* The latest observation *)

(* The state of the row is as late as all that was heard against it and as every report
   that was applied; it is "connected" only if it is later than these, and without the
   latch only as a probe that matched the identity found it. *)
Latest ==
    /\ 1 <= conn.at /\ heard.against <= conn.at
    /\ \A n \in Reports : n <= conn.lastEvent =>
          report[n].state # "absent" /\ report[n].at <= conn.at
    /\ conn.state = "connected" =>
          /\ heard.against < conn.at
          /\ \A n \in Reports : n <= conn.lastEvent => report[n].at < conn.at
    /\ conn.state = "connected" /\ ~conn.latched =>
          conn.at <= heard.match /\ conn.source = "probe"

(* A stored report stays, with its receipt. *)
LEMMA ReportsRemain ==
  ASSUME TypeInv, [Next]_vars, NEW n \in Reports, report[n].state # "absent"
  PROVE  /\ report'[n].state # "absent" /\ report'[n].at = report[n].at
         /\ report'[n].kind = report[n].kind /\ report'[n].epoch = report[n].epoch
<1>t. report \in [Reports -> [kind : Kinds \cup {"Connected"},
                              state : {"absent", "pending", "done"},
                              at : Nat, epoch : 0 .. LastReconnect, phase : Pairings]]
  BY DEF TypeInv, ReportsAre
<1>1. CASE UNCHANGED report
  BY <1>1
<1>2. ASSUME NEW m \in Reports, NEW k \in Kinds, StoreReport(m, k)
      PROVE  report'[n] = report[n]
  BY <1>2, <1>t DEF StoreReport, Stored
<1>3. CASE \E m \in Reports : ProcessReport(m)
  BY <1>3, <1>t DEF ProcessReport
<1>4. \/ UNCHANGED report
      \/ \E m \in Reports : ProcessReport(m) \/ \E k \in Kinds : StoreReport(m, k)
  BY DEF Next, vars, Tick, ScheduleCheck, Administer, RequestCheck, Configure, EnableOutbound,
         DisableOutbound, SetRole, HintAfterSend, ProbeStep, SkipProbe, CompleteInactive,
         BeginProbe, EndProbe, RestartProbe, LoseProbe, RequeueProbe, ReconnectStep,
         StartReconnect, AbandonReconnect, BeginReconnect, ShowCode, ReadSession,
         HoldMessage, ConfirmOrigin, AdmitCommand, DispatchCommand, RunPage
<1> QED
  BY <1>1, <1>2, <1>3, <1>4

(* An answer keeps the row at the latest. *)
LEMMA LatestWatched ==
  ASSUME TypeInv, Latest, NEW b, NEW past, NEW o, Watched(b, past, o)
  PROVE  Latest'
<1> DEFINE d == Applied(b, o)
           s == Guarded(b, o)
<1>1. /\ b \in Rows /\ d \in Rows /\ conn' \in {d, [d EXCEPT !.wave = @ + 1]}
  BY WatchedRow
<1>2. /\ b.at = conn.at /\ b.state = conn.state /\ b.lastEvent = conn.lastEvent
      /\ b.source = conn.source
      /\ ~b.latched => ~conn.latched /\ past = heard
      /\ past.against = heard.against /\ past.match \in Nat
      /\ report' = report
  BY DEF Watched, Touched, Kept, NewEpoch, TypeInv, HeardIs, RowIs, Rows
<1>3. /\ o.at \in Nat /\ o.source = "probe" /\ o.conclusive \in BOOLEAN
      /\ o.state \in States
      /\ o.state = "connected" => o.match = "yes" /\ o.conclusive
      /\ Hear(b, past, o)
  BY DEF Watched, Observation, Observe
<1>4. /\ d.latched = Latch(b, o) /\ d.lastEvent = b.lastEvent
      /\ d.state = (IF Settled(b, o) THEN s ELSE b.state)
      /\ d.at = (IF Settled(b, o) THEN o.at ELSE b.at)
      /\ d.source = (IF Settled(b, o) THEN o.source ELSE b.source)
  BY <1>1, <1>3, AppliedFields
<1>5. /\ conn'.latched = d.latched /\ conn'.lastEvent = d.lastEvent
      /\ conn'.state = d.state /\ conn'.at = d.at /\ conn'.source = d.source
  BY <1>1 DEF Rows
<1> HIDE DEF d, s
<1>6. /\ heard'.match = IF Proof(o) THEN Later(past.match, o.at) ELSE past.match
      /\ heard'.against = IF o.conclusive /\ s # "connected"
                          THEN Later(heard.against, o.at) ELSE heard.against
  BY <1>2, <1>3 DEF Hear, s
<1>7. /\ conn.at \in Nat /\ heard.against \in Nat /\ conn.state \in States
      /\ \A n \in Reports : report[n].at \in Nat
  BY DEF TypeInv, RowIs, Rows, HeardIs, ReportsAre
<1>8. s \in States /\ (s = "connected" => Proof(o))
  BY <1>3, Words DEF s, Guarded, Proof
<1>9. Settled(b, o) <=> o.conclusive /\ (o.at > conn.at \/
                            (o.at = conn.at /\ SafetyRank[s] > SafetyRank[conn.state]))
  BY <1>2, <1>3, <1>7 DEF Settled, Fresh, s, Latest
<1>r. /\ SafetyRank[s] \in Nat /\ SafetyRank[conn.state] \in Nat
      /\ SafetyRank["connected"] = 0 /\ (s # "connected" => SafetyRank[s] > 0)
  BY <1>7, <1>8, Words
<1>10. CASE Settled(b, o)
  <2>1. conn'.at = o.at /\ conn'.state = s /\ conn'.source = "probe" /\ conn.at <= o.at
    BY <1>3, <1>4, <1>5, <1>7, <1>9, <1>10
  <2>2. heard'.against <= o.at
    BY <1>3, <1>6, <1>7, <2>1 DEF Latest, Later
  <2>3. \A n \in Reports : n <= conn'.lastEvent =>
          report'[n].state # "absent" /\ report'[n].at <= o.at
    BY <1>2, <1>3, <1>4, <1>5, <1>7, <2>1 DEF Latest
  <2>4. ASSUME s = "connected"
        PROVE  /\ heard'.against < o.at
               /\ \A n \in Reports : n <= conn'.lastEvent => report'[n].at < o.at
               /\ o.at <= heard'.match
    <3>1. conn.at < o.at
      BY <1>3, <1>7, <1>9, <1>10, <1>r, <2>4
    <3>2. heard'.against = heard.against
      BY <1>6, <2>4
    <3>3. heard'.match = Later(past.match, o.at)
      BY <1>6, <1>8, <2>4
    <3> QED
      BY <1>2, <1>3, <1>4, <1>5, <1>7, <3>1, <3>2, <3>3 DEF Latest, Later
  <2>5. 1 <= o.at
    BY <1>3, <1>7, <2>1 DEF Latest
  <2> QED
    BY <2>1, <2>2, <2>3, <2>4, <2>5 DEF Latest
<1>11. CASE ~Settled(b, o)
  <2>1. conn'.at = conn.at /\ conn'.state = conn.state /\ conn'.source = conn.source
        /\ conn'.lastEvent = conn.lastEvent
    BY <1>2, <1>4, <1>5, <1>11
  <2>2. o.conclusive => o.at <= conn.at
    BY <1>3, <1>7, <1>9, <1>11
  <2>3. heard'.against <= conn.at
    BY <1>3, <1>6, <1>7, <2>2 DEF Latest, Later
  <2>4. ASSUME conn.state = "connected" PROVE heard'.against < conn.at
    <3>1. CASE o.conclusive /\ s # "connected"
      <4>1. o.at < conn.at
        BY <1>3, <1>7, <1>9, <1>11, <1>r, <2>4, <3>1
      <4> QED
        BY <1>3, <1>6, <1>7, <2>4, <4>1 DEF Latest, Later
    <3>2. CASE ~(o.conclusive /\ s # "connected")
      BY <1>6, <2>4, <3>2 DEF Latest
    <3> QED
      BY <3>1, <3>2
  <2>5. ASSUME conn.state = "connected", ~conn'.latched
        PROVE  conn.at <= heard'.match /\ conn.source = "probe"
    <3>1. ~b.latched
      BY <1>4, <1>5, <1>11, <2>5 DEF Latch
    <3>2. ~conn.latched /\ past = heard
      BY <1>2, <3>1
    <3>3. conn.at <= heard.match /\ conn.source = "probe" /\ heard.match \in Nat
      BY <1>2, <2>5, <3>2 DEF Latest
    <3> QED
      BY <1>3, <1>6, <1>7, <3>2, <3>3 DEF Later
  <2> QED
    BY <1>2, <2>1, <2>3, <2>4, <2>5 DEF Latest
<1> QED
  BY <1>10, <1>11

(* A report keeps the row at the latest: it never says "connected". *)
LEMMA LatestHeeded ==
  ASSUME TypeInv, Latest, [Next]_vars, NEW n \in Reports, Heeded(n)
  PROVE  Latest'
<1> DEFINE o == ReportDated(n)
           d == Applied(conn, o)
<1>1. conn \in Rows
  BY DEF TypeInv, RowIs
<1>2. /\ o.at = report[n].at /\ o.seq = n /\ o.source = "event" /\ o.conclusive
      /\ o.state \in States \ {"connected"} /\ ~Against(o) /\ ~Proof(o)
  <2>1. report[n].kind \in Kinds \cup {"Connected"}
    BY DEF TypeInv, ReportsAre
  <2> QED
    BY <2>1, Words DEF ReportDated, Against, Proof
<1> HIDE DEF o
<1>3. Guarded(conn, o) = o.state
  BY <1>2 DEF Guarded
<1>4. /\ d.latched = conn.latched
      /\ d.lastEvent = (IF Settled(conn, o) \/ (o.at = conn.at /\ n > conn.lastEvent)
                        THEN n ELSE conn.lastEvent)
      /\ d.state = (IF Settled(conn, o) THEN o.state ELSE conn.state)
      /\ d.at = (IF Settled(conn, o) THEN o.at ELSE conn.at)
      /\ d.source = (IF Settled(conn, o) THEN o.source ELSE conn.source)
  BY <1>1, <1>2, <1>3, AppliedFields, ZenonT(40) DEF Latch
<1> HIDE DEF d
<1>5. /\ conn'.latched = d.latched /\ conn'.lastEvent = d.lastEvent
      /\ conn'.state = d.state /\ conn'.at = d.at /\ conn'.source = d.source
  BY DEF Heeded, Touched, Kept, d, o
<1>6. heard'.match = heard.match /\ heard'.against = Later(heard.against, o.at)
  BY <1>2, <1>3 DEF Heeded, Hear, o
<1>7. /\ conn.at \in Nat /\ heard.against \in Nat /\ conn.state \in States
      /\ conn.lastEvent \in Nat /\ n \in Nat
      /\ \A m \in Reports : report[m].at \in Nat /\ m \in Nat
  BY <1>1, Bounds DEF TypeInv, Rows, HeardIs, ReportsAre, Reports
<1>8. Settled(conn, o) <=>
         \/ o.at > conn.at
         \/ /\ o.at = conn.at
            /\ IF conn.source = "event" THEN n > conn.lastEvent
               ELSE ~(n <= conn.lastEvent) /\ SafetyRank[o.state] > SafetyRank[conn.state]
  BY <1>2, <1>3, <1>7 DEF Settled, Fresh, Latest
<1>r. SafetyRank[o.state] > 0 /\ SafetyRank["connected"] = 0
  BY <1>2, Words
<1>9. /\ report[n].state # "absent"
      /\ \A m \in Reports : report[m].state # "absent" =>
            report'[m].state # "absent" /\ report'[m].at = report[m].at
  BY ReportsRemain DEF Heeded
<1>10. \A m \in Reports : m <= n => report[m].state # "absent" /\ report[m].at <= o.at
  <2>1. \A m \in 1 .. n : report[m].state # "absent" /\ report[m].at <= report[n].at
    BY <1>9 DEF TypeInv, ReportsAre
  <2>2. \A m \in Reports : m <= n => m \in 1 .. n
    BY <1>7, Bounds DEF Reports
  <2> QED
    BY <1>2, <2>1, <2>2
<1>11. o.at \in Nat
  BY <1>2, <1>7
<1>12. CASE Settled(conn, o)
  <2>1. /\ conn'.at = o.at /\ conn'.state = o.state /\ conn'.lastEvent = n
        /\ conn.at <= o.at
    BY <1>4, <1>5, <1>7, <1>8, <1>11, <1>12
  <2>2. heard'.against <= o.at /\ 1 <= o.at
    BY <1>6, <1>7, <1>11, <2>1 DEF Latest, Later
  <2>3. \A m \in Reports : m <= n => report'[m].state # "absent" /\ report'[m].at <= o.at
    BY <1>9, <1>10
  <2> QED
    BY <1>2, <2>1, <2>2, <2>3 DEF Latest
<1>13. CASE ~Settled(conn, o)
  <2>1. /\ conn'.at = conn.at /\ conn'.state = conn.state /\ conn'.source = conn.source
        /\ conn'.latched = conn.latched /\ o.at <= conn.at
        /\ conn'.lastEvent = (IF o.at = conn.at /\ n > conn.lastEvent
                              THEN n ELSE conn.lastEvent)
    BY <1>4, <1>5, <1>7, <1>8, <1>11, <1>13
  <2>2. heard'.against <= conn.at
    BY <1>6, <1>7, <1>11, <2>1 DEF Latest, Later
  <2>3. ASSUME NEW m \in Reports, m <= conn'.lastEvent
        PROVE  report'[m].state # "absent" /\ report'[m].at <= conn.at
    <3>1. CASE m <= conn.lastEvent
      BY <1>9, <3>1 DEF Latest
    <3>2. CASE ~(m <= conn.lastEvent)
      <4>1. m <= n
        BY <1>7, <2>1, <2>3, <3>2
      <4> QED
        BY <1>7, <1>9, <1>10, <1>11, <2>1, <4>1
    <3> QED
      BY <3>1, <3>2
  <2>4. ASSUME conn.state = "connected" PROVE o.at < conn.at
    <3>1. SUFFICES ASSUME o.at = conn.at PROVE FALSE
      BY <1>7, <1>11, <2>1
    <3>2. ~(n <= conn.lastEvent)
      <4>1. SUFFICES ASSUME n <= conn.lastEvent PROVE FALSE
        OBVIOUS
      <4>2. report[n].at < conn.at
        BY <2>4, <4>1 DEF Latest
      <4> QED
        BY <1>2, <1>7, <3>1, <4>2
    <3> QED
      BY <1>7, <1>8, <1>11, <1>13, <1>r, <2>4, <3>1, <3>2
  <2>5. ASSUME conn.state = "connected"
        PROVE  /\ heard'.against < conn.at
               /\ \A m \in Reports : m <= conn'.lastEvent => report'[m].at < conn.at
    <3>1. o.at < conn.at
      BY <2>4, <2>5
    <3>2. conn'.lastEvent = conn.lastEvent
      BY <1>7, <1>11, <2>1, <3>1
    <3>3. heard'.against < conn.at
      BY <1>6, <1>7, <1>11, <2>5, <3>1 DEF Latest, Later
    <3> QED
      BY <1>9, <2>5, <3>2, <3>3 DEF Latest
  <2>6. ASSUME conn.state = "connected", ~conn.latched
        PROVE  conn.at <= heard'.match /\ conn.source = "probe"
    BY <1>6, <2>6 DEF Latest
  <2>7. 1 <= conn.at
    BY DEF Latest
  <2> QED
    BY <2>1, <2>2, <2>3, <2>5, <2>6, <2>7 DEF Latest
<1> QED
  BY <1>12, <1>13

(* Every step keeps the row dated by the newest observation. *)
LEMMA LatestNext ==
  ASSUME TypeInv, Latest, [Next]_vars
  PROVE  Latest'
<1>r. \A n \in Reports : report[n].state # "absent" =>
         report'[n].state # "absent" /\ report'[n].at = report[n].at
  BY ReportsRemain
<1>s. ASSUME conn'.at = conn.at, conn'.lastEvent = conn.lastEvent,
             conn'.state \in {conn.state, "degraded"}, heard'.against = heard.against,
             conn'.state = "connected" =>
                /\ conn'.latched = conn.latched /\ conn'.source = conn.source
                /\ heard'.match = heard.match
      PROVE  Latest'
  <2>1. \A n \in Reports : n <= conn'.lastEvent =>
          report'[n].state # "absent" /\ report'[n].at = report[n].at
    BY <1>r, <1>s DEF Latest
  <2>2. conn'.state = "connected" => conn.state = "connected"
    BY <1>s
  <2> QED
    BY <1>s, <2>1, <2>2 DEF Latest
<1>1. CASE UNCHANGED <<conn, heard>>
  BY <1>1, <1>s
<1>2. CASE Hinted
  BY <1>2, <1>s DEF Hinted, Kept
<1>3. ASSUME NEW b, NEW past, NEW o, Watched(b, past, o) PROVE Latest'
  BY <1>3, LatestWatched
<1>4. ASSUME NEW n \in Reports, Heeded(n) PROVE Latest'
  BY <1>4, LatestHeeded
<1>5. CASE Configured
  <2>1. heard'.against = heard.against
    BY <1>5 DEF Configured, TypeInv, HeardIs
  <2> QED
    BY <1>5, <1>s, <2>1 DEF Configured
<1>6. CASE Assigned
  <2>1. PICK role \in Roles, outbound \in BOOLEAN :
           conn' = [conn EXCEPT !.role = role, !.outbound = outbound]
    BY <1>6 DEF Assigned
  <2>2. /\ conn'.at = conn.at /\ conn'.lastEvent = conn.lastEvent
        /\ conn'.state = conn.state /\ conn'.latched = conn.latched
        /\ conn'.source = conn.source
    BY <2>1 DEF TypeInv, RowIs, Rows
  <2> QED
    BY <1>6, <1>s, <2>2 DEF Assigned
<1> QED
  BY <1>1, <1>2, <1>3, <1>4, <1>5, <1>6, RowSteps

(* The row is dated by the newest observation in every behaviour. *)
LEMMA LatestAlways == Spec => [](TypeInv /\ Latest)
<1>1. Init => TypeInv /\ Latest
  <2> SUFFICES ASSUME Init PROVE TypeInv /\ Latest
    OBVIOUS
  <2>1. /\ conn.at = 1 /\ conn.lastEvent = 0 /\ conn.source = "probe"
        /\ heard.against = 0 /\ heard.match = 1
    BY DEF Init
  <2>2. \A n \in Reports : ~(n <= 0)
    BY Bounds DEF Reports
  <2> QED
    BY <2>1, <2>2, TypeInvInit DEF Latest
<1>2. TypeInv /\ Latest /\ [Next]_vars => (TypeInv /\ Latest)'
  BY TypeInvNext, LatestNext
<1> QED
  BY <1>1, <1>2, PTL DEF Spec

(* While the session counts as verified (_session_is_verified), a probe of this
   configuration and of this pairing epoch matched the identity, and no answer or report
   of that second or later spoke against it, in whatever order _apply_normalized_health
   took them. *)
THEOREM OpensOnProof == Spec => []OpenOnlyOnLatest
<1>1. TypeInv /\ Latest => OpenOnlyOnLatest
  <2> SUFFICES ASSUME TypeInv, Latest, Verified(conn) PROVE heard.match > heard.against
    BY DEF OpenOnlyOnLatest
  <2>1. heard.against < conn.at /\ conn.at <= heard.match
    BY DEF Verified, Latest
  <2>2. heard.against \in Nat /\ heard.match \in Nat /\ conn.at \in Nat
    BY DEF TypeInv, HeardIs, RowIs, Rows
  <2> QED
    BY <2>1, <2>2
<1> QED
  BY <1>1, LatestAlways, PTL

(* An administrator releases a held message (_contact_center_confirm_pairing_origin) only
   after the identity was matched by a read that began after its receipt, in the epoch and
   configuration it was held in, and only if no report said that a session of that epoch
   was logged out before it was verified. *)
THEOREM ReleasesOnProof == Spec => ReleasedOnProof
<1>1. TypeInv /\ Latest /\ [Next]_vars => [Proven]_vars
  <2> SUFFICES ASSUME TypeInv, Latest, [Next]_vars, NEW m \in Held,
                      held[m].state = "blocked", held'[m].state = "released"
               PROVE  /\ heard.match > held[m].at
                      /\ held[m].epoch = conn.epoch /\ held[m].config = conn.config
                      /\ ~\E n \in Stored : /\ report[n].kind = "LoggedOut"
                                            /\ report[n].epoch = held[m].epoch
                                            /\ report[n].phase \in {"qr", "expired"}
    BY DEF Proven
  <2>1. \/ UNCHANGED held \/ \E i \in Held : HoldMessage(i) \/ ConfirmOrigin(i)
    BY DEF Next, vars, Tick, ScheduleCheck, Administer, RequestCheck, Configure,
         EnableOutbound, DisableOutbound, SetRole, HintAfterSend, ProbeStep, SkipProbe,
         CompleteInactive, BeginProbe, EndProbe, RestartProbe, LoseProbe, RequeueProbe,
         ReconnectStep, StartReconnect, AbandonReconnect, BeginReconnect, ShowCode,
         ReadSession, ProcessReport, StoreReport, AdmitCommand, DispatchCommand, RunPage
  <2>2. held \in [Held -> [state : {"absent", "blocked", "released"}, at : Nat,
                    epoch : 0 .. LastReconnect, config : 0 .. 1 + MaxChanges]]
    BY DEF TypeInv, HeldAre
  <2>3. ~UNCHANGED held
    OBVIOUS
  <2>4. ASSUME NEW i \in Held, HoldMessage(i) PROVE FALSE
    BY <2>2, <2>4 DEF HoldMessage
  <2>5. PICK i \in Held : ConfirmOrigin(i)
    BY <2>1, <2>3, <2>4
  <2>6. i = m
    BY <2>2, <2>5 DEF ConfirmOrigin
  <2>7. Releasable(held[m])
    BY <2>5, <2>6 DEF ConfirmOrigin
  <2>8. heard.match \in Nat /\ conn.at \in Nat /\ held[m].at \in Nat
    BY <2>2 DEF TypeInv, HeardIs, RowIs, Rows
  <2>9. held[m].at < conn.at /\ conn.at <= heard.match
    BY <2>7 DEF Releasable, Verified, Latest
  <2>10. heard.match > held[m].at
    BY <2>8, <2>9
  <2> QED
    BY <2>7, <2>10 DEF Releasable, OfThisEpoch, LoggedOutIn, Unpaired
<1> QED
  BY <1>1, LatestAlways, PTL DEF Spec, ReleasedOnProof

-----------------------------------------------------------------------------
(* Parked commands *)

(* A connection that sends is the primary one, and only it has commands to send. *)
InUse ==
    /\ conn.role # "primary" => ~conn.outbound
    /\ ~conn.outbound => NoneActive

ParkedInv == InUse /\ ParkedIsCovered

(* Whether sends are let through is not a matter of the schedule. *)
LEMMA KeptAvailable ==
  ASSUME NEW c, NEW d, Kept(c, d)
  PROVE  Available(d) <=> Available(c)
BY DEF Kept, Available, Verified, Diagnosed

(* Neither is it given back by a report. *)
LEMMA HeededAvailable ==
  ASSUME TypeInv, NEW n \in Reports, Heeded(n), Available(conn')
  PROVE  Available(conn)
<1> DEFINE o == ReportDated(n)
           d == Applied(conn, o)
<1>1. conn \in Rows
  BY DEF TypeInv, RowIs
<1>2. /\ o.source = "event" /\ ~o.probe /\ o.state # "connected" /\ o.conclusive
      /\ ~Against(o) /\ ~Proof(o)
  <2>1. report[n].kind \in Kinds \cup {"Connected"}
    BY DEF TypeInv, ReportsAre
  <2> QED
    BY <2>1, Words DEF ReportDated, Against, Proof
<1>3. Kept(d, conn')
  BY DEF Heeded, Touched
<1> HIDE DEF o
<1>4. ~Sampled(conn, o) /\ Guarded(conn, o) # "connected"
  BY <1>2 DEF Sampled, Guarded
<1>5. /\ d.role = conn.role /\ d.outbound = conn.outbound
      /\ d.latched = conn.latched /\ d.detail = conn.detail /\ d.healthAt = conn.healthAt
      /\ d.state = (IF Settled(conn, o) THEN Guarded(conn, o) ELSE conn.state)
      /\ d.at = (IF Settled(conn, o) THEN o.at ELSE conn.at)
      /\ d.source = (IF Settled(conn, o) THEN o.source ELSE conn.source)
  BY <1>1, <1>2, <1>4, AppliedFields, ZenonT(40) DEF Latch
<1> HIDE DEF d
<1>6. Available(d)
  BY <1>3, KeptAvailable
<1>7. ~Settled(conn, o)
  BY <1>4, <1>5, <1>6 DEF Available, Verified
<1> QED
  BY <1>5, <1>6, <1>7 DEF Available, Verified, Diagnosed

(* Wherever the row changes, what was parked stays covered. *)
LEMMA ParkedRow ==
  ASSUME TypeInv, ParkedInv, [Next]_vars, UNCHANGED cmd, pages \subseteq pages'
  PROVE  ParkedInv'
<1>1. conn \in Rows
  BY DEF TypeInv, RowIs
<1>s. ASSUME conn'.role = conn.role, conn'.outbound = conn.outbound,
             Available(conn') => Available(conn) /\ conn'.wave = conn.wave
      PROVE  ParkedInv'
  BY <1>s DEF ParkedInv, InUse, NoneActive, ParkedIsCovered
<1>2. CASE UNCHANGED conn
  BY <1>2, <1>s
<1>3. CASE Hinted
  BY <1>3, <1>s, KeptAvailable DEF Hinted, Kept
<1>4. ASSUME NEW b, NEW past, NEW o, Watched(b, past, o) PROVE ParkedInv'
  <2> DEFINE d == Applied(b, o)
             w == b.wave + 1
  <2>1. /\ b \in Rows /\ d \in Rows /\ conn' = Recovered(b, d)
        /\ pages' = pages \cup Wave(b, conn')
    BY <1>4, WatchedRow DEF Watched, Observe
  <2>2. d.role = b.role /\ d.outbound = b.outbound /\ d.wave = b.wave
    BY <2>1, AppliedFields
  <2> HIDE DEF d
  <2>3. b.role = conn.role /\ b.outbound = conn.outbound
    BY <1>4 DEF Watched, Touched, Kept, NewEpoch
  <2>4. CASE ~Regained(b, d)
    <3>1. conn' = d
      BY <2>1, <2>4 DEF Recovered
    <3>2. ASSUME Available(conn') PROVE Available(conn) /\ conn'.wave = conn.wave
      <4>1. Available(b)
        BY <2>4, <3>1, <3>2 DEF Regained
      <4>2. Touched(conn, b)
        BY <1>4, <4>1 DEF Watched, NewEpoch, Available, Verified
      <4> QED
        BY <2>2, <3>1, <4>1, <4>2, KeptAvailable DEF Touched, Kept
    <3> QED
      BY <1>s, <2>2, <2>3, <3>1, <3>2
  <2>5. CASE Regained(b, d)
    <3>1. conn' = [d EXCEPT !.wave = w]
      BY <2>1, <2>2, <2>5 DEF Recovered
    <3> HIDE DEF w
    <3>2. /\ conn'.wave = w /\ conn'.role = conn.role /\ conn'.outbound = conn.outbound
          /\ conn'.state = d.state /\ conn'.at = d.at /\ conn'.source = d.source
          /\ conn'.latched = d.latched /\ conn'.detail = d.detail
          /\ conn'.healthAt = d.healthAt
      BY <2>1, <2>2, <2>3, <3>1 DEF Rows
    <3>3. Regained(b, conn')
      BY <2>2, <2>3, <2>5, <3>2 DEF Regained, Available, Verified, Diagnosed
    <3>4. InUse'
      BY <3>2 DEF ParkedInv, InUse, NoneActive
    <3>5. ASSUME NEW c \in Commands, cmd'[c] = "parked"
          PROVE  \E p \in pages' : p.wave = conn'.wave /\ p.after < c /\ c <= p.cutoff
      <4> DEFINE p == [wave |-> w, after |-> 0, cutoff |-> HighestOf(Eligible)]
      <4>1. c \in Eligible /\ Eligible \in SUBSET (1 .. LastCommand)
        BY <3>5 DEF Eligible, Commands
      <4>2. c <= HighestOf(Eligible) /\ 0 < c
        <5>1. LastCommand \in Nat /\ Eligible # {}
          BY <4>1, Bounds
        <5>2. c <= HighestOf(Eligible)
          BY <4>1, <5>1, HighestIsThere
        <5>3. 0 < c
          BY <5>1 DEF Commands
        <5> QED
          BY <5>2, <5>3
      <4>3. Wave(b, conn') = {p}
        BY <3>3, <4>1 DEF Wave, w
      <4>4. p \in pages'
        BY <2>1, <4>3
      <4>5. p.wave = w /\ p.after = 0 /\ p.cutoff = HighestOf(Eligible)
        OBVIOUS
      <4> HIDE DEF p
      <4> QED
        BY <3>2, <4>2, <4>4, <4>5
    <3> QED
      BY <3>4, <3>5 DEF ParkedInv, ParkedIsCovered
  <2> QED
    BY <2>4, <2>5
<1>5. ASSUME NEW n \in Reports, Heeded(n) PROVE ParkedInv'
  <2>1. /\ Applied(conn, ReportDated(n)).role = conn.role
        /\ Applied(conn, ReportDated(n)).outbound = conn.outbound
        /\ Applied(conn, ReportDated(n)).wave = conn.wave
    BY <1>1, AppliedFields
  <2>2. /\ conn'.role = conn.role /\ conn'.outbound = conn.outbound
        /\ conn'.wave = conn.wave
    BY <1>5, <2>1 DEF Heeded, Touched, Kept
  <2> QED
    BY <1>5, <1>s, <2>2, HeededAvailable
<1>6. CASE Configured
  BY <1>6, <1>s DEF Configured, Available, Verified
<1>7. CASE Assigned
  <2>1. PICK role \in Roles, outbound \in BOOLEAN :
          /\ conn' = [conn EXCEPT !.role = role, !.outbound = outbound]
          /\ \/ outbound /\ role = "primary" /\ ~conn.outbound
             \/ ~outbound /\ (conn.outbound /\ conn.role = "primary" => NoneActive)
    BY <1>7 DEF Assigned
  <2>2. conn'.role = role /\ conn'.outbound = outbound
    BY <1>1, <2>1 DEF Rows
  <2>3. NoneActive
    BY <2>1 DEF ParkedInv, InUse
  <2>4. NoneActive' /\ \A c \in Commands : cmd'[c] # "parked"
    BY <2>3 DEF NoneActive
  <2>5. InUse'
    BY <2>1, <2>2, <2>4 DEF InUse
  <2> QED
    BY <2>4, <2>5 DEF ParkedInv, ParkedIsCovered
<1> QED
  BY <1>2, <1>3, <1>4, <1>5, <1>6, <1>7, RowSteps

(* A page resumes its batch, and leaves the rest to a page that follows it. *)
LEMMA ParkedPage ==
  ASSUME TypeInv, ParkedInv, NEW p \in pages, RunPage(p)
  PROVE  ParkedInv'
<1>t. /\ cmd \in [Commands -> {"absent", "ready", "parked", "sent"}]
      /\ pages \subseteq [wave : Nat, after : 0 .. LastCommand, cutoff : Commands]
      /\ conn' = conn
  BY DEF TypeInv, SendsAre, RunPage
<1>e. Between(p) \in SUBSET Commands /\ BatchOf(p) \subseteq Eligible
  BY DEF Between, BatchOf, Eligible
<1>1. CASE p.wave = conn.wave /\ Available(conn)
  <2>1. /\ cmd' = [c \in Commands |-> IF c \in BatchOf(p) THEN "ready" ELSE cmd[c]]
        /\ pages' = (pages \ {p}) \cup Follow(p)
    BY <1>1 DEF RunPage
  <2>2. InUse'
    BY <1>t, <1>e, <1>1, <2>1 DEF ParkedInv, InUse, NoneActive, Available
  <2>3. ASSUME NEW c \in Commands, cmd'[c] = "parked"
        PROVE  \E q \in pages' : q.wave = conn.wave /\ q.after < c /\ c <= q.cutoff
    <3>1. cmd[c] = "parked" /\ c \notin BatchOf(p) /\ c \in Eligible
      BY <2>1, <2>3 DEF Eligible
    <3>2. PICK q \in pages : q.wave = conn.wave /\ q.after < c /\ c <= q.cutoff
      BY <1>1, <3>1 DEF ParkedInv, ParkedIsCovered
    <3>3. CASE q # p
      BY <2>1, <3>2, <3>3
    <3>4. CASE q = p
      <4> DEFINE h == HighestOf(BatchOf(p))
                 f == [p EXCEPT !.after = h]
      <4>1. c \in RestOf(p)
        BY <3>1, <3>2, <3>4 DEF RestOf, Between
      <4>2. h < c
        <5> DEFINE S == Between(p)
                   B == BatchOf(p)
        <5>1. /\ S \in SUBSET Commands /\ c \in S \ B
              /\ B = {d \in S : Cardinality({e \in S : e <= d}) <= PageSize}
          BY <1>e, <4>1 DEF BatchOf, RestOf
        <5> HIDE DEF S, B
        <5>2. \A r \in S \ B : HighestOf(B) < r
          BY <5>1, Batches
        <5> QED
          BY <5>1, <5>2 DEF B
      <4>3. f \in pages'
        BY <2>1, <4>1 DEF Follow
      <4> HIDE DEF h
      <4>4. f.wave = p.wave /\ f.after = h /\ f.cutoff = p.cutoff
        BY <1>t
      <4> HIDE DEF f
      <4> QED
        BY <3>2, <3>4, <4>2, <4>3, <4>4
    <3> QED
      BY <3>3, <3>4
  <2> QED
    BY <1>t, <2>2, <2>3 DEF ParkedInv, ParkedIsCovered
<1>2. CASE ~(p.wave = conn.wave /\ Available(conn))
  <2>1. pages' = pages \ {p} /\ cmd' = cmd
    BY <1>2 DEF RunPage
  <2>2. InUse'
    BY <1>t, <2>1 DEF ParkedInv, InUse, NoneActive
  <2> QED
    BY <1>t, <1>2, <2>1, <2>2 DEF ParkedInv, ParkedIsCovered
<1> QED
  BY <1>1, <1>2

(* Every step leaves each parked send to a wave, or the connection closed. *)
LEMMA ParkedNext ==
  ASSUME TypeInv, ParkedInv, [Next]_vars
  PROVE  ParkedInv'
<1>t. cmd \in [Commands -> {"absent", "ready", "parked", "sent"}]
  BY DEF TypeInv, SendsAre
<1>1. ASSUME NEW c \in Commands, AdmitCommand(c) PROVE ParkedInv'
  <2>1. /\ conn' = conn /\ pages' = pages /\ cmd' = [cmd EXCEPT ![c] = "ready"]
        /\ conn.outbound
    BY <1>1 DEF AdmitCommand
  <2>2. \A d \in Commands : cmd'[d] = "parked" => cmd[d] = "parked"
    BY <1>t, <2>1
  <2> QED
    BY <2>1, <2>2 DEF ParkedInv, InUse, ParkedIsCovered
<1>2. ASSUME NEW c \in Commands, DispatchCommand(c) PROVE ParkedInv'
  <2>1. /\ conn' = conn /\ pages' = pages /\ c \in Eligible
        /\ cmd' = [cmd EXCEPT ![c] = IF Available(conn) THEN "sent" ELSE "parked"]
    BY <1>2 DEF DispatchCommand
  <2>2. conn.outbound
    BY <2>1 DEF Eligible, ParkedInv, InUse, NoneActive
  <2>3. Available(conn) => \A d \in Commands : cmd'[d] = "parked" => cmd[d] = "parked"
    BY <1>t, <2>1
  <2> QED
    BY <2>1, <2>2, <2>3 DEF ParkedInv, InUse, ParkedIsCovered
<1>3. ASSUME NEW p \in pages, RunPage(p) PROVE ParkedInv'
  BY <1>3, ParkedPage
<1>4. \/ \E c \in Commands : AdmitCommand(c) \/ DispatchCommand(c)
      \/ \E p \in pages : RunPage(p)
      \/ UNCHANGED cmd /\ pages \subseteq pages'
  BY DEF Next, vars, Tick, ScheduleCheck, Administer, RequestCheck, Configure, EnableOutbound,
         DisableOutbound, SetRole, HintAfterSend, ProbeStep, SkipProbe, CompleteInactive,
         BeginProbe, EndProbe, RestartProbe, LoseProbe, RequeueProbe, ReconnectStep,
         StartReconnect, AbandonReconnect, BeginReconnect, ShowCode, ReadSession, Observe,
         ProcessReport, StoreReport, HoldMessage, ConfirmOrigin
<1> QED
  BY <1>1, <1>2, <1>3, <1>4, ParkedRow

(* A command that was parked when sends are let through again is ahead of a recovery page of
   the present wave (_recover_outbox_after_health, _job_recover_outbox_commands). *)
THEOREM ParkedAreCovered == Spec => []ParkedIsCovered
<1>1. Init => ParkedInv
  <2> SUFFICES ASSUME Init PROVE ParkedInv
    OBVIOUS
  <2>1. conn.role = "primary" /\ cmd = [c \in Commands |-> "absent"]
    BY DEF Init
  <2> QED
    BY <2>1 DEF ParkedInv, InUse, NoneActive, ParkedIsCovered
<1>2. TypeInv /\ ParkedInv /\ [Next]_vars => ParkedInv'
  BY ParkedNext
<1>3. ParkedInv => ParkedIsCovered
  BY DEF ParkedInv
<1> QED
  BY <1>1, <1>2, <1>3, TypeInvAlways, PTL DEF Spec
=============================================================================
