---------------------- MODULE DeliveryWatermarkProofs ----------------------
(***************************************************************************)
(* Theorems of DeliveryWatermark, for any number of messages, receipts and  *)
(* attempts, with any overlap of their transactions.  What is shown never   *)
(* moves back, is what a receipt told, and stands; and it takes an overlap  *)
(* of two transactions to lose a watermark.                                 *)
(***************************************************************************)
EXTENDS DeliveryWatermark, TLAPS

-----------------------------------------------------------------------------
(* Operators *)

(* What a receipt may say, and what a message that exists may show. *)
Positive == {"sent"} \cup Covering
Shown    == {"failed", "queued"} \cup Positive

(* What is shown may become x when it was d. *)
Forward(d, x) ==
    \/ x = d
    \/ d = "queued" /\ x = "failed"
    \/ x \in Positive /\ (d \in Positive => Ranks[x] >= Ranks[d])

(* What is shown is at least s. *)
AtLeast(x, s) == x \in Positive /\ Ranks[x] >= Ranks[s]

(* The ranks, one by one. *)
LEMMA RankValues ==
  /\ DOMAIN Ranks = {"queued", "sent", "delivered", "read"}
  /\ Ranks["queued"] = 0 /\ Ranks["sent"] = 1
  /\ Ranks["delivered"] = 2 /\ Ranks["read"] = 3
<1>1. DOMAIN Ranks = {"queued", "sent", "delivered", "read"}
  BY DEF Ranks
<1>2. /\ Ranks["queued"] = 0 /\ Ranks["sent"] = 1
      /\ Ranks["delivered"] = 2 /\ Ranks["read"] = 3
  BY DEF Ranks
<1> QED
  BY <1>1, <1>2

(* Evidence moves forward, to itself at least, and to nothing else. *)
LEMMA AdvanceLaws ==
  ASSUME NEW d \in Shown, NEW s \in Positive
  PROVE  /\ Advance(d, s) \in {d, s}
         /\ Forward(d, Advance(d, s))
         /\ AtLeast(Advance(d, s), s)
BY RankValues DEF Advance, Forward, AtLeast, Shown, Positive, Covering

(* Moving forward twice is moving forward, and loses nothing. *)
LEMMA ForwardLaws ==
  ASSUME NEW d \in Shown, NEW x, NEW y, Forward(d, x), Forward(x, y)
  PROVE  /\ x \in Shown
         /\ Forward(d, y)
         /\ \A s \in Positive : AtLeast(d, s) => AtLeast(x, s)
BY RankValues DEF Forward, AtLeast, Shown, Positive, Covering

(* Watermarks move a message forward, each that covers it to its state at least, and
   to nothing that no watermark says. *)
LEMMA ReplayLaws ==
  ASSUME NEW d \in Shown, NEW m, NEW cursor
  PROVE  /\ \/ Replay(d, m, cursor) = d
            \/ \E s \in Covering : Replay(d, m, cursor) = s /\ Covers(cursor[s], m)
         /\ Forward(d, Replay(d, m, cursor))
         /\ \A s \in Covering :
               Covers(cursor[s], m) => AtLeast(Replay(d, m, cursor), s)
<1> DEFINE h == IF Covers(cursor["delivered"], m) THEN Advance(d, "delivered") ELSE d
           r == IF Covers(cursor["read"], m) THEN Advance(h, "read") ELSE h
<1>1. Replay(d, m, cursor) = r
  BY DEF Replay
<1>2. "delivered" \in Positive /\ "read" \in Positive /\ Covering = {"delivered", "read"}
  BY DEF Positive, Covering
<1>3. /\ h = d \/ (h = "delivered" /\ Covers(cursor["delivered"], m))
      /\ Forward(d, h)
      /\ Covers(cursor["delivered"], m) => AtLeast(h, "delivered")
  <2>1. CASE Covers(cursor["delivered"], m)
    BY <1>2, <2>1, AdvanceLaws
  <2>2. CASE ~Covers(cursor["delivered"], m)
    BY <2>2 DEF Forward
  <2> QED
    BY <2>1, <2>2
<1>4. h \in Shown
  BY <1>3, <1>2 DEF Shown
<1> HIDE DEF h
<1>5. /\ r = h \/ (r = "read" /\ Covers(cursor["read"], m))
      /\ Forward(h, r)
      /\ Covers(cursor["read"], m) => AtLeast(r, "read")
  <2>1. CASE Covers(cursor["read"], m)
    BY <1>2, <1>4, <2>1, AdvanceLaws
  <2>2. CASE ~Covers(cursor["read"], m)
    BY <2>2 DEF Forward
  <2> QED
    BY <2>1, <2>2
<1>6. Forward(r, r)
  BY DEF Forward
<1> HIDE DEF r
<1>7. Forward(d, r) /\ \A s \in Positive : AtLeast(h, s) => AtLeast(r, s)
  BY <1>3, <1>4, <1>5, <1>6, ForwardLaws
<1> QED
  BY <1>1, <1>2, <1>3, <1>5, <1>7

(* So does what an event says together with the watermarks it replays. *)
LEMMA DeliverLaws ==
  ASSUME NEW d \in Shown, NEW s \in Positive, NEW m, NEW cursor
  PROVE  /\ \/ Deliver(d, s, m, cursor) \in {d, s}
            \/ \E c \in Covering : Deliver(d, s, m, cursor) = c /\ Covers(cursor[c], m)
         /\ Forward(d, Deliver(d, s, m, cursor))
         /\ AtLeast(Deliver(d, s, m, cursor), s)
         /\ \A c \in Covering :
               Covers(cursor[c], m) => AtLeast(Deliver(d, s, m, cursor), c)
<1> DEFINE a == Advance(d, s)
           r == Replay(a, m, cursor)
<1>1. Deliver(d, s, m, cursor) = r
  BY DEF Deliver
<1>2. a \in {d, s} /\ Forward(d, a) /\ AtLeast(a, s)
  BY AdvanceLaws
<1>3. a \in Shown
  BY <1>2 DEF Shown
<1> HIDE DEF a
<1>4. /\ r = a \/ (\E c \in Covering : r = c /\ Covers(cursor[c], m))
      /\ Forward(a, r)
      /\ \A c \in Covering : Covers(cursor[c], m) => AtLeast(r, c)
  BY <1>3, ReplayLaws
<1> HIDE DEF r
<1>5. Forward(r, r)
  BY DEF Forward
<1>6. Forward(d, r) /\ AtLeast(r, s)
  BY <1>2, <1>3, <1>4, <1>5, ForwardLaws
<1> QED
  BY <1>1, <1>2, <1>4, <1>6

(* The maximum of a set is the member that is no smaller than any other. *)
LEMMA MaxIs ==
  ASSUME NEW S \in SUBSET Int, NEW x \in S, \A y \in S : x >= y
  PROVE  Max(S) = x
<1>1. \E z \in S : \A y \in S : z >= y
  OBVIOUS
<1>2. Max(S) \in S /\ \A y \in S : Max(S) >= y
  BY <1>1, Zenon DEF Max
<1>3. Max(S) \in Int /\ x \in Int
  BY <1>2
<1>4. Max(S) >= x /\ x >= Max(S)
  BY <1>2
<1> QED
  BY <1>3, <1>4

(* Transactions are told apart by their kind and by whose they are. *)
LEMMA Distinct ==
  /\ \A m \in Messages, e \in Events : Send(m) # Inbox(e)
  /\ \A m, n \in Messages : Send(m) = Send(n) => m = n
  /\ \A e, f \in Events : Inbox(e) = Inbox(f) => e = f
  /\ \A m \in Messages : Send(m) \in Transactions
  /\ \A e \in Events : Inbox(e) \in Transactions
BY DEF Send, Inbox, Transactions

-----------------------------------------------------------------------------
(* Rows, and the order in which things become known *)

Boxes  == {"none", "pending", "processing", "uncertain", "done", "dead"}
Stages == {"none", "calling", "answered", "refused", "lost", "repairing"}

(* What the database holds of the conversation. *)
Rows == [delivery : [Messages -> {"absent"} \cup Shown],
         ext      : [Messages -> BOOLEAN],
         outbox   : [Messages -> Boxes],
         cursor   : [Covering -> 0 .. LastMessage]]

RowTypes == TypeOK /\ db \in Rows /\ snap \in [Transactions -> Rows]

(* A message that was not sent yet is not shown, and the provider has none. *)
Unsent ==
    /\ \A m \in Messages : m > last => db.delivery[m] = "absent"
    /\ \A m \in accepted : m <= last

(* What has a job has a command, and what has a command or a name is shown. *)
Owned ==
    \A m \in Messages : /\ worker[m] # "none" => db.outbox[m] # "none"
                        /\ db.outbox[m] # "none" \/ db.ext[m] => db.delivery[m] # "absent"

(* Events name messages the provider accepted, and say nothing before they arrive. *)
EventsKnow ==
    \A e \in Events : /\ event[e].names \subseteq accepted
                      /\ evState[e] = "none" => event[e] = Silence

(* An echo tells a message of which nobody else tells, and nobody has shown it
   before. *)
EchoIsNew ==
    \A e \in Events : event[e].echo =>
        /\ event[e].state = "sent" /\ event[e].mark = 0
        /\ \A m \in event[e].names :
              /\ evState[e] # "done" => db.delivery[m] = "absent"
              /\ \A f \in Events \ {e} : event[f].echo => m \notin event[f].names

(* An event that still may be tried has tries left. *)
Tried ==
    \A e \in Events : evState[e] \in {"none", "queued", "open"} => tries[e] < MaxTries

OrderInv == RowTypes /\ Unsent /\ Owned /\ EventsKnow /\ EchoIsNew /\ Tried

(* The rows of one message as a step of its send leaves them. *)
RowsWith(m, x, b, o) ==
    [delivery |-> [db.delivery EXCEPT ![m] = x], ext |-> [db.ext EXCEPT ![m] = b],
     outbox |-> [db.outbox EXCEPT ![m] = o], cursor |-> db.cursor]

(* What a step of the send of message m may do: x, b and o are what becomes of its
   rows.  A state it did not know comes from the watermarks it saw, and with a name
   come all of them. *)
SendFrame(m, x, b, o) ==
    /\ db.delivery[m] \in Shown /\ Forward(db.delivery[m], x)
    /\ b \in BOOLEAN /\ o \in Boxes \ {"none"}
    /\ db' = RowsWith(m, x, b, o)
    /\ UNCHANGED <<event, evState, tries, last>>
    /\ worker' \in [Messages -> Stages]
    /\ \A n \in Messages \ {m} : worker'[n] = worker[n]
    /\ accepted' \in {accepted, accepted \cup {m}}
    /\ snap' \in [Transactions -> Rows]
    /\ \A t \in Transactions \ {Send(m)} : snap'[t] = snap[t]
    /\ x \in Covering => \/ x = db.delivery[m]
                         \/ worker[m] # "none" /\ Covers(snap[Send(m)].cursor[x], m)
    /\ b => \/ db.ext[m]
            \/ /\ worker[m] # "none"
               /\ \A s \in Covering :
                     Covers(snap[Send(m)].cursor[s], m) => AtLeast(x, s)
    /\ \/ snap'[Send(m)].cursor = db.cursor
       \/ worker'[m] = "none" /\ snap'[Send(m)] = Empty
       \/ worker[m] # "none" /\ snap'[Send(m)].cursor = snap[Send(m)].cursor
    /\ \/ worker[m] # "none" /\ overlapped' = overlapped
       \/ overlapped' = (overlapped \/ Open # {})

(* The rows of a new conversation, and of one message, are rows. *)
LEMMA RowsOfTypes ==
  /\ Empty \in Rows
  /\ Empty.cursor = [s \in Covering |-> 0]
  /\ \A m \in Messages, rows \in Rows : /\ RowsOf(m, rows) \in Rows
                                        /\ RowsOf(m, rows).cursor = rows.cursor
<1>1. Empty \in Rows /\ Empty.cursor = [s \in Covering |-> 0]
  BY MessageAssumption DEF Empty, Rows, Shown, Boxes
<1>2. ASSUME NEW m \in Messages, NEW rows \in Rows
      PROVE  RowsOf(m, rows) \in Rows /\ RowsOf(m, rows).cursor = rows.cursor
  BY <1>1, <1>2 DEF RowsOf, Rows
<1> QED
  BY <1>1, <1>2

(* Rows with other values for one message are rows. *)
LEMMA RowsWithTypes ==
  ASSUME RowTypes, NEW m \in Messages, NEW x \in Shown, NEW b \in BOOLEAN,
         NEW o \in Boxes
  PROVE  /\ RowsWith(m, x, b, o) \in Rows
         /\ \A n \in Messages :
               /\ RowsWith(m, x, b, o).delivery[n] = IF n = m THEN x ELSE db.delivery[n]
               /\ RowsWith(m, x, b, o).ext[n] = IF n = m THEN b ELSE db.ext[n]
               /\ RowsWith(m, x, b, o).outbox[n] = IF n = m THEN o ELSE db.outbox[n]
         /\ RowsWith(m, x, b, o).cursor = db.cursor
BY DEF RowsWith, RowTypes, Rows

(* Updates of a record, field by field. *)
LEMMA FieldUpdates ==
  ASSUME NEW d, NEW e, NEW q, NEW c, NEW r,
         r = [delivery |-> d, ext |-> e, outbox |-> q, cursor |-> c], NEW v
  PROVE  /\ [r EXCEPT !.delivery = v]
               = [delivery |-> v, ext |-> e, outbox |-> q, cursor |-> c]
         /\ [r EXCEPT !.ext = v]
               = [delivery |-> d, ext |-> v, outbox |-> q, cursor |-> c]
         /\ [r EXCEPT !.outbox = v]
               = [delivery |-> d, ext |-> e, outbox |-> v, cursor |-> c]
<1>1. [r EXCEPT !.delivery = v]
        = [delivery |-> v, ext |-> e, outbox |-> q, cursor |-> c]
  OBVIOUS
<1>2. [r EXCEPT !.ext = v]
        = [delivery |-> d, ext |-> v, outbox |-> q, cursor |-> c]
  OBVIOUS
<1>3. [r EXCEPT !.outbox = v]
        = [delivery |-> d, ext |-> e, outbox |-> v, cursor |-> c]
  OBVIOUS
<1> QED
  BY <1>1, <1>2, <1>3

(* Updates of the rows of one message, in the form above: none, of its command,
   of what it shows too. *)
LEMMA RowsAlone ==
  ASSUME RowTypes, NEW m \in Messages
  PROVE  /\ db = [delivery |-> db.delivery, ext |-> db.ext, outbox |-> db.outbox,
                   cursor |-> db.cursor]
         /\ db.delivery = [db.delivery EXCEPT ![m] = db.delivery[m]]
         /\ db.ext = [db.ext EXCEPT ![m] = db.ext[m]]
         /\ db = RowsWith(m, db.delivery[m], db.ext[m], db.outbox[m])
<1>1. db = [delivery |-> db.delivery, ext |-> db.ext, outbox |-> db.outbox,
            cursor |-> db.cursor]
  BY DEF RowTypes, Rows
<1>2. /\ db.delivery = [db.delivery EXCEPT ![m] = db.delivery[m]]
      /\ db.ext = [db.ext EXCEPT ![m] = db.ext[m]]
      /\ db.outbox = [db.outbox EXCEPT ![m] = db.outbox[m]]
  BY DEF RowTypes, Rows
<1> QED
  BY <1>1, <1>2 DEF RowsWith

(* The outbox of one message changes alone. *)
LEMMA OneRowUpdate ==
  ASSUME RowTypes, NEW m \in Messages, NEW o
  PROVE  [db EXCEPT !.outbox[m] = o] = RowsWith(m, db.delivery[m], db.ext[m], o)
<1> DEFINE qo == [db.outbox EXCEPT ![m] = o]
<1>0. db = [delivery |-> db.delivery, ext |-> db.ext, outbox |-> db.outbox,
            cursor |-> db.cursor]
  BY RowsAlone
<1>1. [db EXCEPT !.outbox[m] = o] = [db EXCEPT !.outbox = qo]
  OBVIOUS
<1> HIDE DEF qo
<1>2. [db EXCEPT !.outbox = qo] = [delivery |-> db.delivery, ext |-> db.ext,
                                   outbox |-> qo, cursor |-> db.cursor]
  BY <1>0, FieldUpdates
<1> QED
  BY <1>1, <1>2, RowsAlone DEF RowsWith, qo

(* The delivery and the outbox of one message change together. *)
LEMMA TwoRowUpdates ==
  ASSUME RowTypes, NEW m \in Messages, NEW x, NEW o
  PROVE  [db EXCEPT !.delivery[m] = x, !.outbox[m] = o] = RowsWith(m, x, db.ext[m], o)
<1> DEFINE dx == [db.delivery EXCEPT ![m] = x]
           qo == [db.outbox EXCEPT ![m] = o]
           r1 == [db EXCEPT !.delivery = dx]
<1>0. db = [delivery |-> db.delivery, ext |-> db.ext, outbox |-> db.outbox,
            cursor |-> db.cursor]
  BY RowsAlone
<1>1. [db EXCEPT !.delivery[m] = x, !.outbox[m] = o] = [r1 EXCEPT !.outbox = qo]
  BY <1>0
<1> HIDE DEF r1, dx, qo
<1>2. r1 = [delivery |-> dx, ext |-> db.ext, outbox |-> db.outbox,
            cursor |-> db.cursor]
  BY <1>0, FieldUpdates DEF r1
<1>3. [r1 EXCEPT !.outbox = qo] = [delivery |-> dx, ext |-> db.ext, outbox |-> qo,
                                   cursor |-> db.cursor]
  BY <1>2, FieldUpdates
<1>4. [r1 EXCEPT !.outbox = qo] = RowsWith(m, x, db.ext[m], o)
  BY <1>3, RowsAlone DEF RowsWith, dx, qo
<1> QED
  BY <1>1, <1>4, Zenon

(* Every step of a send has this form. *)
LEMMA SendSteps ==
  ASSUME OrderInv, NEW m \in Messages, BeginSend(m) \/ SendStep(m)
  PROVE  \E x, b, o : SendFrame(m, x, b, o)
<1> DEFINE d == db.delivery[m]
           c == snap[Send(m)].cursor
<1>t. /\ RowTypes /\ TypeOK /\ db \in Rows /\ snap \in [Transactions -> Rows]
      /\ worker \in [Messages -> Stages] /\ Send(m) \in Transactions
  BY Distinct DEF OrderInv, RowTypes, TypeOK, Stages
<1>d. d \in Shown /\ db.ext[m] \in BOOLEAN /\ db.outbox[m] \in Boxes \ {"none"}
  <2>1. db.outbox[m] # "none"
    BY DEF OrderInv, Owned, SendStep, BeginSend, CallProvider, FinishSend,
           PostponeSend, RefuseSend, DoubtSend, RetryOutcome, RestartRepair,
           GiveUpRepair
  <2>2. d # "absent"
    BY <2>1 DEF OrderInv, Owned
  <2> QED
    BY <1>t, <2>1, <2>2 DEF Rows
<1>f. Forward(d, d)
  BY DEF Forward
<1>n. ASSUME UNCHANGED db
      PROVE  db' = RowsWith(m, d, db.ext[m], db.outbox[m])
  BY <1>n, <1>t, RowsAlone
<1>e. ASSUME NEW rows, EndSend(m, rows)
      PROVE  /\ db' = rows /\ worker' \in [Messages -> Stages] /\ worker'[m] = "none"
             /\ \A n \in Messages \ {m} : worker'[n] = worker[n]
             /\ snap' \in [Transactions -> Rows] /\ snap'[Send(m)] = Empty
             /\ \A t \in Transactions \ {Send(m)} : snap'[t] = snap[t]
             /\ UNCHANGED <<event, evState, tries, last, accepted, overlapped>>
  BY <1>e, <1>t, RowsOfTypes DEF EndSend, End, Stages
<1>1. CASE BeginSend(m)
  <2>1. db' = RowsWith(m, d, db.ext[m], "processing")
    BY <1>1, <1>t, OneRowUpdate DEF BeginSend
  <2>2. db' \in Rows /\ db'.cursor = db.cursor
    BY <1>t, <1>d, <2>1, RowsWithTypes DEF Boxes
  <2>3. /\ snap' \in [Transactions -> Rows]
        /\ \A t \in Transactions \ {Send(m)} : snap'[t] = snap[t]
        /\ snap'[Send(m)].cursor = db.cursor
    BY <1>1, <1>t, <2>2, RowsOfTypes DEF BeginSend, Begin
  <2>4. worker' \in [Messages -> Stages] /\ \A n \in Messages \ {m} : worker'[n] = worker[n]
    BY <1>1, <1>t DEF BeginSend, Stages
  <2>5. SendFrame(m, d, db.ext[m], "processing")
    BY <1>1, <1>d, <1>f, <2>1, <2>3, <2>4 DEF BeginSend, SendFrame, Boxes
  <2> QED
    BY <2>5
<1>2. CASE CallProvider(m)
  <2>1. SendFrame(m, d, db.ext[m], db.outbox[m])
    BY <1>2, <1>t, <1>d, <1>f, <1>n DEF CallProvider, SendFrame, Stages
  <2> QED
    BY <2>1
<1>3. CASE FinishSend(m)
  <2>1. PICK named \in BOOLEAN : EndSend(m, [db EXCEPT
              !.delivery[m] =
                  IF named THEN Deliver(@, "sent", m, snap[Send(m)].cursor)
                  ELSE Advance(@, "sent"),
              !.ext[m] = named,
              !.outbox[m] = "done"])
    BY <1>3 DEF FinishSend
  <2> DEFINE x == IF named THEN Deliver(d, "sent", m, c) ELSE Advance(d, "sent")
  <2>2. EndSend(m, RowsWith(m, x, named, "done"))
    <3>1. [db EXCEPT !.delivery[m] =
                        IF named THEN Deliver(@, "sent", m, snap[Send(m)].cursor)
                        ELSE Advance(@, "sent"),
                     !.ext[m] = named, !.outbox[m] = "done"]
            = [db EXCEPT !.delivery[m] = x, !.ext[m] = named, !.outbox[m] = "done"]
      OBVIOUS
    <3> HIDE DEF x
    <3>2. [db EXCEPT !.delivery[m] = x, !.ext[m] = named, !.outbox[m] = "done"]
            = RowsWith(m, x, named, "done")
      <4> DEFINE dx == [db.delivery EXCEPT ![m] = x]
                 eb == [db.ext EXCEPT ![m] = named]
                 qo == [db.outbox EXCEPT ![m] = "done"]
                 r1 == [db EXCEPT !.delivery = dx]
                 r2 == [r1 EXCEPT !.ext = eb]
      <4>0. db = [delivery |-> db.delivery, ext |-> db.ext, outbox |-> db.outbox,
                  cursor |-> db.cursor]
        BY <1>t, RowsAlone
      <4>1. [db EXCEPT !.delivery[m] = x, !.ext[m] = named, !.outbox[m] = "done"]
              = [r2 EXCEPT !.outbox = qo]
        BY <4>0
      <4> HIDE DEF r2
      <4>2. r2 = [r1 EXCEPT !.ext = eb]
        BY DEF r2
      <4> HIDE DEF r1, dx, eb, qo
      <4>3. r1 = [delivery |-> dx, ext |-> db.ext, outbox |-> db.outbox,
                  cursor |-> db.cursor]
        BY <4>0, FieldUpdates DEF r1
      <4>4. r2 = [delivery |-> dx, ext |-> eb, outbox |-> db.outbox,
                  cursor |-> db.cursor]
        BY <4>2, <4>3, FieldUpdates
      <4>5. [r2 EXCEPT !.outbox = qo] = [delivery |-> dx, ext |-> eb, outbox |-> qo,
                                         cursor |-> db.cursor]
        BY <4>4, FieldUpdates
      <4>6. [r2 EXCEPT !.outbox = qo] = RowsWith(m, x, named, "done")
        BY <4>5 DEF RowsWith, dx, eb, qo
      <4> QED
        BY <4>1, <4>6, Zenon
    <3> QED
      BY <2>1, <3>1, <3>2, Zenon
  <2>3. /\ Forward(d, x)
        /\ x \in Covering => x = d \/ Covers(c[x], m)
        /\ named => \A s \in Covering : Covers(c[s], m) => AtLeast(x, s)
    <3>1. "sent" \in Positive /\ "sent" \notin Covering
      BY DEF Positive, Covering
    <3>2. CASE named
      BY <1>d, <3>1, <3>2, DeliverLaws
    <3>3. CASE ~named
      BY <1>d, <3>1, <3>3, AdvanceLaws
    <3> QED
      BY <3>2, <3>3
  <2>4. worker[m] # "none"
    BY <1>3 DEF FinishSend
  <2> HIDE DEF x
  <2>5. SendFrame(m, x, named, "done")
    BY <1>d, <1>e, <2>2, <2>3, <2>4 DEF SendFrame, Boxes
  <2> QED
    BY <2>5
<1>4. CASE PostponeSend(m) \/ DoubtSend(m)
  <2>1. PICK o \in {"pending", "uncertain"} : EndSend(m, [db EXCEPT !.outbox[m] = o])
    BY <1>4 DEF PostponeSend, DoubtSend
  <2>2. worker[m] # "none"
    BY <1>4 DEF PostponeSend, DoubtSend
  <2>3. EndSend(m, RowsWith(m, d, db.ext[m], o))
    BY <1>t, <2>1, OneRowUpdate
  <2>4. SendFrame(m, d, db.ext[m], o)
    BY <1>d, <1>e, <1>f, <2>2, <2>3 DEF SendFrame, Boxes
  <2> QED
    BY <2>4
<1>5. CASE RefuseSend(m)
  <2> DEFINE x == IF d = "queued" THEN "failed" ELSE d
  <2>1. EndSend(m, [db EXCEPT !.delivery[m] = x, !.outbox[m] = "dead"])
    BY <1>5 DEF RefuseSend
  <2>2. Forward(d, x) /\ (x \in Covering => x = d)
    BY DEF Forward, Covering
  <2>3. worker[m] # "none"
    BY <1>5 DEF RefuseSend
  <2> HIDE DEF x
  <2>4. EndSend(m, RowsWith(m, x, db.ext[m], "dead"))
    <3>1. [db EXCEPT !.delivery[m] = x, !.outbox[m] = "dead"]
            = RowsWith(m, x, db.ext[m], "dead")
      BY <1>t, TwoRowUpdates, Zenon
    <3> QED
      BY <2>1, <3>1, Zenon
  <2>5. SendFrame(m, x, db.ext[m], "dead")
    BY <1>d, <1>e, <2>2, <2>3, <2>4 DEF SendFrame, Boxes
  <2> QED
    BY <2>5
<1>6. CASE RetryOutcome(m)
  <2>1. db' = RowsWith(m, d, db.ext[m], "uncertain")
    BY <1>6, <1>t, OneRowUpdate DEF RetryOutcome
  <2>2. db' \in Rows /\ db'.cursor = db.cursor
    BY <1>t, <1>d, <2>1, RowsWithTypes DEF Boxes
  <2>3. /\ snap' \in [Transactions -> Rows]
        /\ \A t \in Transactions \ {Send(m)} : snap'[t] = snap[t]
        /\ snap'[Send(m)].cursor = db.cursor
    BY <1>6, <1>t, <2>2, RowsOfTypes DEF RetryOutcome, Begin
  <2>4. worker' \in [Messages -> Stages] /\ \A n \in Messages \ {m} : worker'[n] = worker[n]
    BY <1>6, <1>t DEF RetryOutcome, Stages
  <2>5. SendFrame(m, d, db.ext[m], "uncertain")
    BY <1>6, <1>d, <1>f, <2>1, <2>3, <2>4 DEF RetryOutcome, SendFrame, Boxes
  <2> QED
    BY <2>5
<1>7. CASE RestartRepair(m)
  <2>1. /\ snap' \in [Transactions -> Rows]
        /\ \A t \in Transactions \ {Send(m)} : snap'[t] = snap[t]
        /\ snap'[Send(m)].cursor = db.cursor
    BY <1>7, <1>t, RowsOfTypes DEF RestartRepair, Begin
  <2>2. SendFrame(m, d, db.ext[m], db.outbox[m])
    BY <1>7, <1>t, <1>d, <1>f, <1>n, <2>1 DEF RestartRepair, SendFrame
  <2> QED
    BY <2>2
<1>8. CASE GiveUpRepair(m)
  <2>1. EndSend(m, db) /\ worker[m] # "none"
    BY <1>8 DEF GiveUpRepair
  <2>2. SendFrame(m, d, db.ext[m], db.outbox[m])
    BY <1>d, <1>e, <1>f, <1>n, <2>1 DEF SendFrame, EndSend
  <2> QED
    BY <2>2
<1> QED
  BY <1>1, <1>2, <1>3, <1>4, <1>5, <1>6, <1>7, <1>8 DEF SendStep

(* What a message may show, as the type invariant puts it. *)
LEMMA DeliveryTypes == {"absent", "failed"} \cup DOMAIN Ranks = {"absent"} \cup Shown
BY RankValues DEF Shown, Positive, Covering

(* What the step of a send leaves of the rows and of the order. *)
LEMMA SendKeepsOrder ==
  ASSUME OrderInv, NEW m \in Messages, NEW x, NEW b, NEW o, SendFrame(m, x, b, o)
  PROVE  OrderInv'
<1>t. RowTypes /\ TypeOK /\ Unsent /\ Owned /\ EventsKnow /\ EchoIsNew /\ Tried
  BY DEF OrderInv, RowTypes
<1>x. x \in Shown
  BY DEF SendFrame, Forward, Shown
<1>r. /\ db' \in Rows
      /\ \A n \in Messages : /\ db'.delivery[n] = IF n = m THEN x ELSE db.delivery[n]
                             /\ db'.ext[n] = IF n = m THEN b ELSE db.ext[n]
                             /\ db'.outbox[n] = IF n = m THEN o ELSE db.outbox[n]
      /\ db'.cursor = db.cursor
  BY <1>t, <1>x, RowsWithTypes DEF SendFrame
<1>a. /\ db.delivery[m] # "absent" /\ x # "absent"
      /\ m <= last
  <2>1. db.delivery[m] # "absent" /\ x # "absent"
    BY <1>x DEF SendFrame, Shown, Positive, Covering
  <2> QED
    BY <1>t, <2>1 DEF Unsent, TypeOK, Messages
<1>1. RowTypes'
  <2>1. overlapped' \in BOOLEAN /\ accepted' \subseteq Messages
    BY <1>t DEF SendFrame, TypeOK
  <2> QED
    BY <1>t, <1>r, <2>1, DeliveryTypes DEF RowTypes, TypeOK, SendFrame, Rows, Boxes,
                                          Stages
<1>2. Unsent'
  BY <1>t, <1>r, <1>a DEF Unsent, SendFrame
<1>3. Owned'
  BY <1>t, <1>r, <1>a DEF Owned, SendFrame
<1>4. EventsKnow'
  BY <1>t DEF EventsKnow, SendFrame
<1>5. EchoIsNew'
  BY <1>t, <1>r, <1>a DEF EchoIsNew, SendFrame, TypeOK
<1>6. Tried'
  BY <1>t DEF Tried, SendFrame
<1> QED
  BY <1>1, <1>2, <1>3, <1>4, <1>5, <1>6 DEF OrderInv

(* The greater of two. *)
LEMMA MaxOfTwo ==
  ASSUME NEW a \in Int, NEW b \in Int
  PROVE  Max({a, b}) = IF a >= b THEN a ELSE b
<1>1. CASE a >= b
  BY <1>1, MaxIs
<1>2. CASE ~(a >= b)
  BY <1>2, MaxIs
<1> QED
  BY <1>1, <1>2

(* What an event makes of a message it finds or covers, if nobody wrote the message
   since its snapshot. *)
LEMMA HeardLaws ==
  ASSUME OrderInv, NEW e \in Events, ~Contended(e), NEW m \in Found(e) \cup Covered(e)
  PROVE  /\ m \in Messages /\ db.delivery[m] \in Shown
         /\ Forward(db.delivery[m], Heard(e, m))
         /\ \/ Heard(e, m) = db.delivery[m]
            \/ /\ Heard(e, m) = event[e].state
               /\ m \in event[e].names \/ Covers(event[e].mark, m)
            \/ \E c \in Covering : Heard(e, m) = c /\ Covers(Seen(e).cursor[c], m)
         /\ m \in Covered(e) => AtLeast(Heard(e, m), event[e].state)
         /\ m \in Found(e) =>
               /\ AtLeast(Heard(e, m), event[e].state)
               /\ \A c \in Covering :
                     Covers(Seen(e).cursor[c], m) => AtLeast(Heard(e, m), c)
<1> DEFINE d == db.delivery[m]
           s == event[e].state
           n == IF m \in Found(e) THEN Deliver(d, s, m, Seen(e).cursor) ELSE d
           h == IF m \in Covered(e) THEN Advance(n, s) ELSE n
<1>t. RowTypes /\ TypeOK /\ Owned
  BY DEF OrderInv, RowTypes
<1>1. m \in Messages /\ s \in Positive /\ event[e].names \subseteq Messages
  BY <1>t DEF Found, Covered, TypeOK, Positive
<1>2. /\ Seen(e).delivery[m] = d /\ Seen(e).ext[m] = db.ext[m]
  BY DEF Contended, Written, Seen
<1>3. d # "absent"
  <2>1. CASE m \in Found(e)
    BY <1>2, <2>1 DEF Found
  <2>2. CASE m \in Covered(e) /\ m \notin Found(e)
    BY <1>1, <1>2, <1>t, <2>2 DEF Covered, Owned
  <2> QED
    BY <2>1, <2>2
<1>4. d \in Shown
  BY <1>1, <1>3, <1>t DEF RowTypes, Rows
<1>5. Heard(e, m) = h
  BY <1>2 DEF Heard
<1>6. Forward(d, d)
  BY DEF Forward
<1>7. /\ Forward(d, n)
      /\ \/ n \in {d, s} /\ (n = d \/ m \in Found(e))
         \/ \E c \in Covering : n = c /\ Covers(Seen(e).cursor[c], m)
      /\ m \in Found(e) => /\ AtLeast(n, s)
                           /\ \A c \in Covering :
                                 Covers(Seen(e).cursor[c], m) => AtLeast(n, c)
  <2>1. CASE m \in Found(e)
    BY <1>1, <1>4, <2>1, DeliverLaws
  <2>2. CASE m \notin Found(e)
    BY <1>6, <2>2
  <2> QED
    BY <2>1, <2>2
<1> HIDE DEF n
<1>8. n \in Shown
  BY <1>4, <1>7 DEF Forward, Shown
<1>9. /\ Forward(n, h)
      /\ h = n \/ (h = s /\ m \in Covered(e))
      /\ m \in Covered(e) => AtLeast(h, s)
  <2>1. CASE m \in Covered(e)
    BY <1>1, <1>8, <2>1, AdvanceLaws
  <2>2. CASE m \notin Covered(e)
    BY <2>2 DEF Forward
  <2> QED
    BY <2>1, <2>2
<1> HIDE DEF h
<1>10. Forward(d, h) /\ \A c \in Positive : AtLeast(n, c) => AtLeast(h, c)
  <2>1. Forward(h, h)
    BY DEF Forward
  <2> QED
    BY <1>4, <1>7, <1>8, <1>9, <2>1, ForwardLaws
<1>11. Covering \subseteq Positive
  BY DEF Positive
<1>12. \/ h = d
       \/ h = s /\ (m \in event[e].names \/ Covers(event[e].mark, m))
       \/ \E c \in Covering : h = c /\ Covers(Seen(e).cursor[c], m)
  BY <1>7, <1>9 DEF Found, Covered
<1>13. m \in Found(e) =>
          AtLeast(h, s)
          /\ \A c \in Covering : Covers(Seen(e).cursor[c], m) => AtLeast(h, c)
  BY <1>1, <1>7, <1>10, <1>11
<1> QED
  BY <1>1, <1>4, <1>5, <1>9, <1>10, <1>12, <1>13

(* What a processed event makes of the rows. *)
ApplyFrame(e) ==
    /\ \A m \in Messages :
          /\ m \in New(e) =>
                /\ db.delivery[m] = "absent" /\ m \in event[e].names
                /\ event[e].state = "sent" /\ event[e].mark = 0
                /\ db'.delivery[m] = Deliver("queued", "sent", m, Seen(e).cursor)
          /\ m \notin New(e) /\ m \in Found(e) \cup Covered(e) =>
                db'.delivery[m] = Heard(e, m)
          /\ m \notin New(e) \cup Found(e) \cup Covered(e) =>
                db'.delivery[m] = db.delivery[m]
          /\ db'.ext[m] <=> db.ext[m] \/ m \in Found(e) \cup New(e)
          /\ db'.outbox[m] = db.outbox[m] \/ m \in Found(e)
    /\ db'.cursor = Recorded(e)

(* What the transaction of an event leaves behind when it ends. *)
LeaveFrame(e, s) ==
    /\ evState' = [evState EXCEPT ![e] = s]
    /\ UNCHANGED <<worker, event, last, accepted, overlapped>>
    /\ snap' \in [Transactions -> Rows]
    /\ snap'[Inbox(e)] = Empty
    /\ \A t \in Transactions \ {Inbox(e)} : snap'[t] = snap[t]

(* The watermarks an event records are watermarks. *)
LEMMA RecordedTypes ==
  ASSUME RowTypes, NEW e \in Events
  PROVE  /\ Recorded(e) \in [Covering -> 0 .. LastMessage]
         /\ \A s \in Covering :
               Recorded(e)[s] =
                  IF event[e].mark = 0 \/ event[e].state # s THEN db.cursor[s]
                  ELSE IF Seen(e).cursor[s] >= event[e].mark THEN Seen(e).cursor[s]
                  ELSE event[e].mark
<1> DEFINE v == event[e]
           x == Max({Seen(e).cursor[v.state], v.mark})
<1>1. /\ db.cursor \in [Covering -> 0 .. LastMessage]
      /\ Seen(e).cursor \in [Covering -> 0 .. LastMessage]
      /\ v.mark \in 0 .. LastMessage
  BY Distinct DEF RowTypes, Rows, Seen, TypeOK
<1>2. v.state \in Covering =>
         x = IF Seen(e).cursor[v.state] >= v.mark THEN Seen(e).cursor[v.state] ELSE v.mark
  BY <1>1, MaxOfTwo
<1>3. Recorded(e) = IF v.mark = 0 THEN db.cursor ELSE [db.cursor EXCEPT ![v.state] = x]
  BY DEF Recorded
<1> HIDE DEF x
<1>4. v.state \in Covering => x \in 0 .. LastMessage
  BY <1>1, <1>2
<1>5. CASE v.mark = 0
  BY <1>1, <1>3, <1>5
<1>6. CASE v.mark # 0 /\ v.state \in Covering
  BY <1>1, <1>2, <1>3, <1>4, <1>6
<1>7. CASE v.mark # 0 /\ v.state \notin Covering
  BY <1>1, <1>3, <1>7
<1> QED
  BY <1>5, <1>6, <1>7

(* A transaction that ends leaves the snapshots rows. *)
LEMMA Leaving ==
  ASSUME RowTypes, NEW e \in Events, NEW s, Leave(e, s)
  PROVE  LeaveFrame(e, s)
BY RowsOfTypes, Distinct DEF Leave, End, LeaveFrame, RowTypes

(* A processed event makes of the rows what the frame says. *)
LEMMA Applying ==
  ASSUME OrderInv, NEW e \in Events, ApplyEvent(e)
  PROVE  ApplyFrame(e) /\ LeaveFrame(e, "done") /\ db' \in Rows /\ UNCHANGED tries
<1>t. RowTypes /\ TypeOK /\ EchoIsNew /\ db \in Rows /\ Recorded(e) \in [Covering -> 0 .. LastMessage]
  BY RecordedTypes DEF OrderInv, RowTypes
<1>1. /\ evState[e] = "open" /\ ~Contended(e) /\ UNCHANGED tries
      /\ LeaveFrame(e, "done")
  BY <1>t, Leaving DEF ApplyEvent
<1> DEFINE D(m) == IF m \in New(e) THEN Deliver("queued", "sent", m, Seen(e).cursor)
                   ELSE IF m \in Found(e) \cup Covered(e) THEN Heard(e, m)
                   ELSE db.delivery[m]
           Q(m) == IF m \in Found(e) /\ Seen(e).outbox[m] \in {"pending", "uncertain"}
                   THEN "done" ELSE db.outbox[m]
<1>2. db' = [delivery |-> [m \in Messages |-> D(m)],
             ext      |-> [m \in Messages |-> db.ext[m] \/ m \in Found(e) \cup New(e)],
             outbox   |-> [m \in Messages |-> Q(m)],
             cursor   |-> Recorded(e)]
  BY DEF ApplyEvent
<1>3. ASSUME NEW m \in New(e)
      PROVE  /\ db.delivery[m] = "absent" /\ m \in event[e].names
             /\ event[e].state = "sent" /\ event[e].mark = 0
  BY <1>t, <1>1 DEF New, EchoIsNew
<1>4. "queued" \in Shown /\ "sent" \in Positive
  BY DEF Shown, Positive
<1>5. ASSUME NEW m \in Messages PROVE D(m) \in {"absent"} \cup Shown
  <2>1. CASE m \in New(e)
    BY <1>4, <2>1, DeliverLaws DEF AtLeast, Shown
  <2>2. CASE m \notin New(e) /\ m \in Found(e) \cup Covered(e)
    BY <1>1, <2>2, HeardLaws DEF Forward, Shown
  <2>3. CASE m \notin New(e) /\ m \notin Found(e) \cup Covered(e)
    BY <1>t, <2>3 DEF Rows
  <2> QED
    BY <2>1, <2>2, <2>3
<1>6. ASSUME NEW m \in Messages
      PROVE  Q(m) \in Boxes /\ (Q(m) = db.outbox[m] \/ m \in Found(e))
  BY <1>t DEF Rows, Boxes
<1>7. \A m \in Messages :
         /\ m \in New(e) => D(m) = Deliver("queued", "sent", m, Seen(e).cursor)
         /\ m \notin New(e) /\ m \in Found(e) \cup Covered(e) => D(m) = Heard(e, m)
         /\ m \notin New(e) \cup Found(e) \cup Covered(e) => D(m) = db.delivery[m]
  OBVIOUS
<1> HIDE DEF D, Q
<1>8. db' \in Rows
  BY <1>t, <1>2, <1>5, <1>6 DEF Rows
<1>9. ApplyFrame(e)
  BY <1>t, <1>2, <1>3, <1>6, <1>7 DEF ApplyFrame, Rows
<1> QED
  BY <1>1, <1>8, <1>9

(* What the processing of an event leaves of the rows and of the order. *)
LEMMA ApplyKeepsOrder ==
  ASSUME OrderInv, NEW e \in Events, ApplyEvent(e)
  PROVE  OrderInv'
<1>t. RowTypes /\ TypeOK /\ Unsent /\ Owned /\ EventsKnow /\ EchoIsNew /\ Tried
  BY DEF OrderInv, RowTypes
<1>f. /\ ApplyFrame(e) /\ LeaveFrame(e, "done") /\ db' \in Rows /\ UNCHANGED tries
      /\ evState[e] = "open" /\ ~Contended(e)
  BY Applying DEF ApplyEvent
<1>n. \A m \in New(e) : m \in Messages /\ m <= last /\ event[e].echo /\ m \in event[e].names
  BY <1>t DEF New, EventsKnow, Unsent, TypeOK
<1>d. ASSUME NEW m \in Messages, m \in New(e) \cup Found(e) \cup Covered(e)
      PROVE  db'.delivery[m] # "absent"
  <2>1. CASE m \in New(e)
    <3>1. "queued" \in Shown /\ "sent" \in Positive
      BY DEF Shown, Positive
    <3>2. db'.delivery[m] \in Positive
      BY <1>f, <2>1, <3>1, DeliverLaws DEF ApplyFrame, AtLeast
    <3> QED
      BY <3>2 DEF Positive, Covering
  <2>2. CASE m \notin New(e)
    <3>1. db'.delivery[m] = Heard(e, m)
      BY <1>d, <1>f, <2>2 DEF ApplyFrame
    <3>2. db.delivery[m] \in Shown /\ Forward(db.delivery[m], Heard(e, m))
      BY <1>d, <1>f, <2>2, HeardLaws
    <3> QED
      BY <3>1, <3>2 DEF Forward, Shown, Positive, Covering
  <2> QED
    BY <2>1, <2>2
<1>a. ASSUME NEW m \in Messages, db.delivery[m] = "absent", m \notin New(e)
      PROVE  db'.delivery[m] = "absent"
  <2>1. m \notin Found(e) \cup Covered(e)
    BY <1>a, <1>f, HeardLaws DEF Shown, Positive, Covering
  <2> QED
    BY <1>a, <1>f, <2>1 DEF ApplyFrame
<1>b. ASSUME NEW m \in Messages, db.delivery[m] # "absent"
      PROVE  db'.delivery[m] # "absent"
  BY <1>b, <1>d, <1>f DEF ApplyFrame
<1>1. RowTypes'
  BY <1>t, <1>f, DeliveryTypes DEF RowTypes, TypeOK, LeaveFrame, Rows, Boxes
<1>2. Unsent'
  <2>1. UNCHANGED <<last, accepted>>
    BY <1>f DEF LeaveFrame
  <2>2. ASSUME NEW m \in Messages, m > last PROVE db'.delivery[m] = "absent"
    <3>1. m \notin New(e)
      BY <1>n, <1>t, <2>2 DEF TypeOK, Messages
    <3> QED
      BY <1>t, <1>a, <2>2, <3>1 DEF Unsent
  <2> QED
    BY <1>t, <2>1, <2>2 DEF Unsent
<1>3. Owned'
  <2> SUFFICES ASSUME NEW m \in Messages
               PROVE  /\ worker[m] # "none" => db'.outbox[m] # "none"
                      /\ db'.outbox[m] # "none" \/ db'.ext[m] => db'.delivery[m] # "absent"
    BY <1>f DEF Owned, LeaveFrame
  <2>1. db'.outbox[m] # "none" \/ db'.ext[m] => db'.delivery[m] # "absent"
    BY <1>t, <1>f, <1>b, <1>d DEF ApplyFrame, Owned
  <2>2. db.outbox[m] # "none" => db'.outbox[m] # "none"
    BY <1>f DEF ApplyEvent
  <2> QED
    BY <1>t, <2>1, <2>2 DEF Owned
<1>4. EventsKnow'
  BY <1>t, <1>f DEF EventsKnow, LeaveFrame, TypeOK
<1>5. EchoIsNew'
  <2> SUFFICES ASSUME NEW f \in Events, event[f].echo, NEW m \in event[f].names,
                      evState'[f] # "done"
               PROVE  db'.delivery[m] = "absent"
    BY <1>t, <1>f DEF EchoIsNew, LeaveFrame
  <2>1. f # e /\ evState[f] # "done"
    BY <1>t, <1>f DEF LeaveFrame, TypeOK
  <2>2. m \in Messages /\ db.delivery[m] = "absent"
    BY <1>t, <2>1 DEF EchoIsNew, TypeOK
  <2>3. m \notin New(e)
    BY <1>t, <1>n, <2>1 DEF EchoIsNew
  <2> QED
    BY <1>a, <2>2, <2>3
<1>6. Tried'
  BY <1>t, <1>f DEF Tried, LeaveFrame, TypeOK
<1> QED
  BY <1>1, <1>2, <1>3, <1>4, <1>5, <1>6 DEF OrderInv

(* An event that arrives says what the provider knows; an echo is new. *)
LEMMA ArrivingKeepsOrder ==
  ASSUME OrderInv, NEW e \in Events, Arrive(e)
  PROVE  OrderInv'
<1>t. RowTypes /\ TypeOK /\ Unsent /\ Owned /\ EventsKnow /\ EchoIsNew /\ Tried
  BY DEF OrderInv, RowTypes
<1>1. PICK r \in Receipts \cup Echoes : event' = [event EXCEPT ![e] = r]
  BY DEF Arrive
<1>2. /\ r \in [state : {"sent"} \cup Covering, names : SUBSET Messages,
                mark : 0 .. LastMessage, echo : BOOLEAN]
      /\ r.names \subseteq accepted
      /\ r.echo => r \in Echoes
  <2>1. CASE r \in Echoes
    <3>1. PICK m \in accepted :
             r = [state |-> "sent", names |-> {m}, mark |-> 0, echo |-> TRUE]
      BY <2>1 DEF Echoes
    <3> QED
      BY <1>t, <2>1, <3>1, MessageAssumption DEF TypeOK
  <2>2. CASE r \in Receipts
    <3>1. /\ r \in [state : {"sent"} \cup Covering,
                    names : {{}} \cup {{m} : m \in accepted},
                    mark : 0 .. last, echo : {FALSE}]
      BY <2>2 DEF Receipts
    <3>2. r.names \in {{}} \cup {{m} : m \in accepted} /\ r.mark \in 0 .. last
      BY <3>1
    <3>3. r.names \subseteq accepted
      BY <3>2
    <3>4. r.mark \in 0 .. LastMessage /\ accepted \subseteq Messages
      BY <1>t, <3>2, MessageAssumption DEF TypeOK
    <3>5. /\ r = [state |-> r.state, names |-> r.names, mark |-> r.mark,
                  echo |-> r.echo]
          /\ r.state \in {"sent"} \cup Covering /\ r.echo = FALSE
      BY <3>1
    <3>6. r.names \in SUBSET Messages
      BY <3>3, <3>4
    <3> QED
      BY <3>3, <3>4, <3>5, <3>6
  <2> QED
    BY <2>1, <2>2
<1>3. /\ evState[e] = "none" /\ evState' = [evState EXCEPT ![e] = "queued"]
      /\ event[e] = Silence
      /\ UNCHANGED <<db, worker, tries, snap, last, accepted, overlapped>>
  BY <1>t DEF Arrive, EventsKnow
<1>4. RowTypes'
  BY <1>t, <1>1, <1>2, <1>3 DEF RowTypes, TypeOK
<1>5. Unsent' /\ Owned'
  BY <1>t, <1>3 DEF Unsent, Owned
<1>6. EventsKnow'
  BY <1>t, <1>1, <1>2, <1>3 DEF EventsKnow, TypeOK
<1>7. EchoIsNew'
  <2>1. r.echo => /\ r.state = "sent" /\ r.mark = 0
                  /\ \A m \in r.names :
                        /\ db.delivery[m] = "absent"
                        /\ \A f \in Events : event[f].echo => m \notin event[f].names
    BY <1>2 DEF Echoes
  <2>2. \A f \in Events \ {e} : event'[f] = event[f] /\ evState'[f] = evState[f]
    BY <1>t, <1>1, <1>3 DEF TypeOK
  <2>3. event'[e] = r
    BY <1>t, <1>1 DEF TypeOK
  <2> QED
    BY <1>t, <1>3, <2>1, <2>2, <2>3 DEF EchoIsNew
<1>8. Tried'
  BY <1>t, <1>3 DEF Tried, TypeOK
<1> QED
  BY <1>4, <1>5, <1>6, <1>7, <1>8 DEF OrderInv

(* An event that begins, or ends without having been processed, changes no row. *)
LEMMA WaitingKeepsOrder ==
  ASSUME OrderInv, NEW e \in Events,
         BeginEvent(e) \/ RestartEvent(e) \/ RetryEvent(e)
  PROVE  OrderInv' /\ UNCHANGED <<db, event>>
<1>t. RowTypes /\ TypeOK /\ Unsent /\ Owned /\ EventsKnow /\ EchoIsNew /\ Tried
  BY DEF OrderInv, RowTypes
<1>1. PICK s \in {"open", "queued", "dead"} : evState' = [evState EXCEPT ![e] = s]
  BY DEF BeginEvent, RestartEvent, RetryEvent, Leave
<1>2. /\ UNCHANGED <<db, event, worker, last, accepted>>
      /\ evState[e] \notin {"none", "done"}
  BY DEF BeginEvent, RestartEvent, RetryEvent, Leave
<1>3. snap' \in [Transactions -> Rows] /\ overlapped' \in BOOLEAN
  <2>1. CASE BeginEvent(e)
    BY <1>t, <2>1 DEF BeginEvent, Begin, RowTypes, TypeOK
  <2>2. CASE RestartEvent(e) \/ RetryEvent(e)
    BY <1>t, <2>2, Leaving DEF RestartEvent, RetryEvent, Leave, LeaveFrame, TypeOK
  <2> QED
    BY <2>1, <2>2
<1>4. tries' \in [Events -> 0 .. MaxTries] /\ Tried'
  <2>1. CASE BeginEvent(e) \/ RestartEvent(e)
    BY <1>t, <2>1 DEF BeginEvent, RestartEvent, Leave, TypeOK, Tried
  <2>2. CASE RetryEvent(e)
    <3>1. tries[e] \in 0 .. MaxTries /\ tries[e] < MaxTries
      BY <1>t, <2>2 DEF RetryEvent, TypeOK, Tried
    <3>2. /\ tries' = [tries EXCEPT ![e] = tries[e] + 1]
          /\ evState' = [evState EXCEPT
                            ![e] = IF tries'[e] >= MaxTries THEN "dead" ELSE "queued"]
      BY <2>2 DEF RetryEvent, Leave, Attempted, Exhausted
    <3>3. tries[e] + 1 \in 0 .. MaxTries
      BY <3>1, CeilingAssumption
    <3>4. tries' \in [Events -> 0 .. MaxTries]
      BY <1>t, <3>2, <3>3 DEF TypeOK
    <3>5. ASSUME NEW f \in Events, evState'[f] \in {"none", "queued", "open"}
          PROVE  tries'[f] < MaxTries
      BY <1>t, <3>2, <3>4, <3>5, CeilingAssumption DEF TypeOK, Tried
    <3> QED
      BY <3>4, <3>5 DEF Tried
  <2> QED
    BY <2>1, <2>2
<1>5. RowTypes'
  BY <1>t, <1>1, <1>2, <1>3, <1>4 DEF RowTypes, TypeOK
<1>6. Unsent' /\ Owned'
  BY <1>t, <1>2 DEF Unsent, Owned
<1>7. EventsKnow' /\ EchoIsNew'
  BY <1>t, <1>1, <1>2 DEF EventsKnow, EchoIsNew, TypeOK
<1> QED
  BY <1>2, <1>4, <1>5, <1>6, <1>7 DEF OrderInv

(* A message that an agent composes is new. *)
LEMMA Composing ==
  ASSUME OrderInv, Compose
  PROVE  \E m \in Messages :
            /\ m = last + 1 /\ last' = m /\ db.delivery[m] = "absent" /\ ~db.ext[m]
            /\ db' = RowsWith(m, "queued", db.ext[m], "pending")
            /\ UNCHANGED <<worker, event, evState, tries, snap, accepted, overlapped>>
<1> DEFINE m == last + 1
<1>t. RowTypes /\ TypeOK /\ Unsent /\ Owned
  BY DEF OrderInv, RowTypes
<1>1. m \in Messages /\ last' = m /\ m > last
  BY <1>t, MessageAssumption DEF Compose, TypeOK, Messages
<1>2. db' = [db EXCEPT !.delivery[m] = "queued", !.outbox[m] = "pending"]
  BY <1>1 DEF Compose
<1>3. db.delivery[m] = "absent" /\ ~db.ext[m]
  BY <1>t, <1>1 DEF Unsent, Owned
<1> HIDE DEF m
<1>4. [db EXCEPT !.delivery[m] = "queued", !.outbox[m] = "pending"]
        = RowsWith(m, "queued", db.ext[m], "pending")
  BY <1>t, <1>1, TwoRowUpdates, Zenon
<1>5. db' = RowsWith(m, "queued", db.ext[m], "pending")
  BY <1>2, <1>4, Zenon
<1> QED
  BY <1>1, <1>3, <1>5 DEF Compose, m

(* Messages that are sent, by an agent or from the phone, come after all the others. *)
LEMMA SendingKeepsOrder ==
  ASSUME OrderInv, Compose \/ SendFromPhone
  PROVE  OrderInv'
<1>t. RowTypes /\ TypeOK /\ Unsent /\ Owned /\ EventsKnow /\ EchoIsNew /\ Tried
  BY DEF OrderInv, RowTypes
<1>1. CASE Compose
  <2>1. PICK m \in Messages :
            /\ m = last + 1 /\ last' = m /\ db.delivery[m] = "absent" /\ ~db.ext[m]
            /\ db' = RowsWith(m, "queued", db.ext[m], "pending")
            /\ UNCHANGED <<worker, event, evState, tries, snap, accepted, overlapped>>
    BY <1>1, Composing
  <2>2. "queued" \in Shown /\ db.ext[m] \in BOOLEAN /\ "pending" \in Boxes
    BY <1>t DEF RowTypes, Rows, Shown, Boxes
  <2>3. /\ db' \in Rows /\ db'.cursor = db.cursor
        /\ \A n \in Messages :
              /\ db'.delivery[n] = IF n = m THEN "queued" ELSE db.delivery[n]
              /\ db'.ext[n] = db.ext[n]
              /\ db'.outbox[n] = IF n = m THEN "pending" ELSE db.outbox[n]
    BY <1>t, <2>1, <2>2, RowsWithTypes
  <2>4. RowTypes'
    BY <1>t, <2>1, <2>3, DeliveryTypes DEF RowTypes, TypeOK, Rows, Boxes, Messages
  <2>i. last \in Int /\ m \in Int /\ accepted \subseteq Int
    BY <1>t DEF TypeOK, Messages
  <2>5. Unsent' /\ Owned'
    <3>1. ASSUME NEW n \in Messages, n > m PROVE db'.delivery[n] = "absent"
      BY <1>t, <2>1, <2>3, <2>i, <3>1 DEF Unsent, Messages
    <3>2. ASSUME NEW n \in accepted PROVE n <= m
      BY <1>t, <2>1, <2>i DEF Unsent
    <3>3. Unsent'
      BY <2>1, <3>1, <3>2 DEF Unsent
    <3>4. Owned'
      BY <1>t, <2>1, <2>3 DEF Owned
    <3> QED
      BY <3>3, <3>4
  <2>6. EventsKnow' /\ Tried'
    BY <1>t, <2>1 DEF EventsKnow, Tried
  <2>7. EchoIsNew'
    <3>1. \A e \in Events : m \notin event[e].names
      BY <1>t, <2>1 DEF EventsKnow, Unsent, TypeOK, Messages
    <3> QED
      BY <1>t, <2>1, <2>3, <3>1 DEF EchoIsNew, TypeOK
  <2> QED
    BY <2>4, <2>5, <2>6, <2>7 DEF OrderInv
<1>2. CASE SendFromPhone
  <2>1. /\ last < LastMessage /\ last' = last + 1 /\ accepted' = accepted \cup {last + 1}
        /\ UNCHANGED <<db, worker, event, evState, tries, snap, overlapped>>
    BY <1>2 DEF SendFromPhone
  <2>2. RowTypes'
    BY <1>t, <2>1, MessageAssumption DEF RowTypes, TypeOK, Messages
  <2>3. Unsent' /\ Owned'
    <3>1. last \in Int /\ accepted \subseteq Int
      BY <1>t DEF TypeOK, Messages
    <3>2. ASSUME NEW n \in Messages, n > last + 1 PROVE db.delivery[n] = "absent"
      BY <1>t, <3>1, <3>2 DEF Unsent, Messages
    <3>3. ASSUME NEW n \in accepted \cup {last + 1} PROVE n <= last + 1
      BY <1>t, <3>1 DEF Unsent
    <3>4. Unsent'
      BY <2>1, <3>2, <3>3 DEF Unsent
    <3>5. Owned'
      BY <1>t, <2>1 DEF Owned
    <3> QED
      BY <3>4, <3>5
  <2>4. EventsKnow' /\ EchoIsNew' /\ Tried'
    BY <1>t, <2>1 DEF EventsKnow, EchoIsNew, Tried
  <2> QED
    BY <2>2, <2>3, <2>4 DEF OrderInv
<1> QED
  BY <1>1, <1>2

(* A conversation begins in order. *)
LEMMA InitOrder == Init => OrderInv
<1> SUFFICES ASSUME Init PROVE OrderInv
  OBVIOUS
<1>1. db \in Rows /\ snap \in [Transactions -> Rows]
  BY RowsOfTypes DEF Init
<1>2. Silence \in [state : {"sent"} \cup Covering, names : SUBSET Messages,
                   mark : 0 .. LastMessage, echo : BOOLEAN]
  BY MessageAssumption DEF Silence
<1>3. TypeOK
  <2>1. /\ db.delivery \in [Messages -> {"absent", "failed"} \cup DOMAIN Ranks]
        /\ db.ext \in [Messages -> BOOLEAN]
        /\ db.outbox \in [Messages -> {"none", "pending", "processing", "uncertain",
                                       "done", "dead"}]
        /\ db.cursor \in [Covering -> 0 .. LastMessage]
    BY <1>1, DeliveryTypes DEF Rows, Boxes
  <2>2. event \in [Events -> [state : {"sent"} \cup Covering, names : SUBSET Messages,
                             mark : 0 .. LastMessage, echo : BOOLEAN]]
    BY <1>2 DEF Init
  <2>3. tries \in [Events -> 0 .. MaxTries] /\ last \in 0 .. LastMessage
    BY MessageAssumption, CeilingAssumption DEF Init
  <2> QED
    BY <2>1, <2>2, <2>3 DEF Init, TypeOK
<1>4. Unsent /\ Owned
  BY DEF Init, Unsent, Owned, Empty
<1>5. EventsKnow /\ EchoIsNew /\ Tried
  BY CeilingAssumption DEF Init, EventsKnow, EchoIsNew, Tried, Silence
<1> QED
  BY <1>1, <1>3, <1>4, <1>5 DEF OrderInv, RowTypes

(* Every step keeps the order. *)
LEMMA NextOrder == OrderInv /\ [Next]_vars => OrderInv'
<1> SUFFICES ASSUME OrderInv, [Next]_vars PROVE OrderInv'
  OBVIOUS
<1>1. CASE Compose \/ SendFromPhone
  BY <1>1, SendingKeepsOrder
<1>2. ASSUME NEW m \in Messages, BeginSend(m) \/ SendStep(m) PROVE OrderInv'
  BY <1>2, SendSteps, SendKeepsOrder
<1>3. ASSUME NEW e \in Events, Arrive(e) \/ EventStep(e) PROVE OrderInv'
  BY <1>3, ArrivingKeepsOrder, WaitingKeepsOrder, ApplyKeepsOrder DEF EventStep
<1>4. CASE UNCHANGED vars
  BY <1>4 DEF OrderInv, RowTypes, TypeOK, Unsent, Owned, EventsKnow, EchoIsNew, Tried,
              vars
<1> QED
  BY <1>1, <1>2, <1>3, <1>4 DEF Next

(* The rows keep their types, and messages become known in order (message.py,
   ContactCenterMessageBinding, ContactCenterDeliveryWatermark). *)
THEOREM RowsInOrder == Spec => []OrderInv
BY InitOrder, NextOrder, PTL DEF Spec

(* The rows, jobs, events and attempts keep their types (ContactCenterMessageBinding,
   ContactCenterInbox). *)
THEOREM WatermarkTypes == Spec => []TypeOK
<1>1. OrderInv => TypeOK
  BY DEF OrderInv, RowTypes
<1> QED
  BY <1>1, RowsInOrder, PTL

-----------------------------------------------------------------------------
(* What is shown never moves back *)

(* Every step moves a message that is shown forward, or leaves it. *)
LEMMA StepsForward ==
  ASSUME OrderInv, [Next]_vars, NEW m \in Messages, db.delivery[m] # "absent"
  PROVE  Forward(db.delivery[m], db'.delivery[m])
<1>t. RowTypes /\ TypeOK
  BY DEF OrderInv, RowTypes
<1>f. Forward(db.delivery[m], db.delivery[m])
  BY DEF Forward
<1>1. CASE Compose
  <2>1. PICK n \in Messages : /\ db.delivery[n] = "absent"
                              /\ db' = RowsWith(n, "queued", db.ext[n], "pending")
    BY <1>1, Composing
  <2>2. n # m
    BY <2>1
  <2>3. "queued" \in Shown /\ db.ext[n] \in BOOLEAN /\ "pending" \in Boxes
    BY <1>t DEF RowTypes, Rows, Shown, Boxes
  <2>4. db'.delivery[m] = db.delivery[m]
    BY <1>t, <2>1, <2>2, <2>3, RowsWithTypes
  <2> QED
    BY <1>f, <2>4
<1>2. ASSUME NEW n \in Messages, BeginSend(n) \/ SendStep(n)
      PROVE  Forward(db.delivery[m], db'.delivery[m])
  <2>1. PICK x, b, o : SendFrame(n, x, b, o)
    BY <1>2, SendSteps
  <2>2. x \in Shown /\ b \in BOOLEAN /\ o \in Boxes /\ db' = RowsWith(n, x, b, o)
        /\ Forward(db.delivery[n], x)
    BY <2>1 DEF SendFrame, Forward, Shown
  <2>3. db'.delivery[m] = IF m = n THEN x ELSE db.delivery[m]
    BY <1>t, <2>2, RowsWithTypes
  <2> QED
    BY <1>f, <2>2, <2>3
<1>3. ASSUME NEW e \in Events, ApplyEvent(e)
      PROVE  Forward(db.delivery[m], db'.delivery[m])
  <2>1. ApplyFrame(e) /\ ~Contended(e)
    BY <1>3, Applying DEF ApplyEvent
  <2>2. CASE m \in Found(e) \cup Covered(e)
    BY <2>1, <2>2, HeardLaws DEF ApplyFrame
  <2>3. CASE m \notin Found(e) \cup Covered(e)
    BY <1>f, <2>1, <2>3 DEF ApplyFrame
  <2> QED
    BY <2>2, <2>3
<1>4. CASE \/ SendFromPhone \/ UNCHANGED vars
           \/ \E e \in Events : Arrive(e) \/ BeginEvent(e) \/ RestartEvent(e) \/ RetryEvent(e)
  <2>1. UNCHANGED db
    BY <1>4 DEF SendFromPhone, vars, Arrive, BeginEvent, RestartEvent, RetryEvent
  <2> QED
    BY <1>f, <2>1
<1> QED
  BY <1>1, <1>2, <1>3, <1>4 DEF Next, EventStep

(* What is shown of a message never moves back: positive states only advance, and a
   local failure yields to evidence only, whatever receipts, echoes and outcomes are
   committed in which order (message.py, _contact_center_apply_delivery). *)
THEOREM ShownAdvances == Spec => ShownNeverMovesBack
<1> DEFINE Ahead(m) ==
          /\ db.delivery[m] \in DOMAIN Ranks /\ db'.delivery[m] \in DOMAIN Ranks =>
                Ranks[db'.delivery[m]] >= Ranks[db.delivery[m]]
          /\ db.delivery[m] \in {"sent"} \cup Covering => db'.delivery[m] # "failed"
          /\ db.delivery[m] = "failed" => db'.delivery[m] # "queued"
<1>1. OrderInv /\ [Next]_vars => [\A m \in Messages : Ahead(m)]_vars
  <2> SUFFICES ASSUME OrderInv, [Next]_vars, NEW m \in Messages PROVE Ahead(m)
    OBVIOUS
  <2>1. CASE db.delivery[m] = "absent"
    BY <2>1, RankValues DEF Covering
  <2>2. CASE db.delivery[m] # "absent"
    <3>1. Forward(db.delivery[m], db'.delivery[m])
      BY <2>2, StepsForward
    <3> QED
      BY <3>1, RankValues DEF Forward, Positive, Covering
  <2> QED
    BY <2>1, <2>2
<1>2. Spec => []OrderInv
  BY RowsInOrder
<1> QED
  BY <1>1, <1>2, PTL DEF Spec, ShownNeverMovesBack

-----------------------------------------------------------------------------
(* What is shown was told *)

(* A receipt of state s covers everything up to c; a receipt of state s names message
   m or covers it. *)
Marked(c, s) == c = 0 \/ \E e \in Events : event[e].state = s /\ event[e].mark >= c
Told(m, s)   == \E e \in Events : /\ event[e].state = s
                                  /\ m \in event[e].names \/ event[e].mark >= m

(* So do the watermarks, committed or seen by somebody. *)
CursorsTold ==
    \A s \in Covering : /\ Marked(db.cursor[s], s)
                        /\ \A t \in Transactions : Marked(snap[t].cursor[s], s)

ToldInv == OrderInv /\ CursorsTold /\ ShownIsTold

(* What an event says is said once, when it arrives; it is processed once. *)
LEMMA EventsStay ==
  ASSUME OrderInv, [Next]_vars, NEW f \in Events
  PROVE  /\ event'[f] = event[f] \/ (event[f] = Silence /\ evState[f] = "none")
         /\ evState[f] = "done" => evState'[f] = "done"
         /\ evState'[f] = "done" => evState[f] = "done" \/ ApplyEvent(f)
<1>t. TypeOK /\ EventsKnow
  BY DEF OrderInv, RowTypes
<1>1. CASE \E e \in Events : Arrive(e)
  <2>1. PICK e \in Events : /\ Arrive(e) /\ evState[e] = "none" /\ event[e] = Silence
                            /\ evState' = [evState EXCEPT ![e] = "queued"]
                            /\ \A g \in Events \ {e} : event'[g] = event[g]
    BY <1>1, <1>t DEF Arrive, EventsKnow, TypeOK
  <2> QED
    BY <1>t, <2>1 DEF TypeOK
<1>2. ASSUME NEW e \in Events, EventStep(e)
      PROVE  /\ event' = event
             /\ evState[f] = "done" => evState'[f] = "done"
             /\ evState'[f] = "done" => evState[f] = "done" \/ ApplyEvent(f)
  <2>1. CASE ApplyEvent(e)
    BY <1>t, <2>1 DEF ApplyEvent, Leave, TypeOK
  <2>2. CASE BeginEvent(e)
    BY <1>t, <2>2 DEF BeginEvent, TypeOK
  <2>3. CASE RestartEvent(e)
    BY <1>t, <2>3 DEF RestartEvent, Leave, TypeOK
  <2>4. CASE RetryEvent(e)
    BY <1>t, <2>4 DEF RetryEvent, Leave, TypeOK
  <2> QED
    BY <1>2, <2>1, <2>2, <2>3, <2>4 DEF EventStep
<1>3. ASSUME NEW m \in Messages, BeginSend(m) \/ SendStep(m)
      PROVE  UNCHANGED <<event, evState>>
  BY <1>3, SendSteps DEF SendFrame
<1>4. CASE Compose \/ SendFromPhone \/ UNCHANGED vars
  BY <1>4 DEF Compose, SendFromPhone, vars
<1> QED
  BY <1>1, <1>2, <1>3, <1>4 DEF Next

(* A snapshot takes its watermarks from the rows; an event that is processed writes
   them. *)
LEMMA CursorSteps ==
  ASSUME OrderInv, [Next]_vars
  PROVE  /\ \A t \in Transactions :
               snap'[t].cursor \in {snap[t].cursor, db.cursor, Empty.cursor}
         /\ \/ db'.cursor = db.cursor
            \/ \E e \in Events : ApplyEvent(e) /\ db'.cursor = Recorded(e)
<1>t. RowTypes /\ TypeOK /\ db \in Rows /\ snap \in [Transactions -> Rows]
  BY DEF OrderInv, RowTypes
<1>1. CASE Compose
  <2>1. PICK n \in Messages : /\ db' = RowsWith(n, "queued", db.ext[n], "pending")
                              /\ UNCHANGED snap
    BY <1>1, Composing
  <2> QED
    BY <2>1 DEF RowsWith
<1>2. ASSUME NEW m \in Messages, BeginSend(m) \/ SendStep(m)
      PROVE  /\ \A t \in Transactions :
                   snap'[t].cursor \in {snap[t].cursor, db.cursor, Empty.cursor}
             /\ db'.cursor = db.cursor
  <2>1. PICK x, b, o : SendFrame(m, x, b, o)
    BY <1>2, SendSteps
  <2>2. db'.cursor = db.cursor
    BY <2>1 DEF SendFrame, RowsWith
  <2>3. snap'[Send(m)].cursor \in {snap[Send(m)].cursor, db.cursor, Empty.cursor}
    BY <2>1 DEF SendFrame
  <2>4. \A t \in Transactions \ {Send(m)} : snap'[t] = snap[t]
    BY <2>1 DEF SendFrame
  <2> QED
    BY <2>2, <2>3, <2>4
<1>3. ASSUME NEW e \in Events, ApplyEvent(e)
      PROVE  /\ \A t \in Transactions : snap'[t].cursor \in {snap[t].cursor, Empty.cursor}
             /\ db'.cursor = Recorded(e)
  BY <1>3, Applying DEF ApplyFrame, LeaveFrame
<1>4. ASSUME NEW e \in Events, RestartEvent(e) \/ RetryEvent(e)
      PROVE  /\ \A t \in Transactions : snap'[t].cursor \in {snap[t].cursor, Empty.cursor}
             /\ db' = db
  BY <1>4, <1>t, Leaving DEF RestartEvent, RetryEvent, LeaveFrame
<1>5. ASSUME NEW e \in Events, BeginEvent(e)
      PROVE  /\ \A t \in Transactions : snap'[t].cursor \in {snap[t].cursor, db.cursor}
             /\ db' = db
  BY <1>5, <1>t DEF BeginEvent, Begin
<1>6. CASE SendFromPhone \/ UNCHANGED vars \/ \E e \in Events : Arrive(e)
  BY <1>6 DEF SendFromPhone, vars, Arrive
<1> QED
  BY <1>1, <1>2, <1>3, <1>4, <1>5, <1>6 DEF Next, EventStep

(* What was told stays told. *)
LEMMA ToldStays ==
  ASSUME OrderInv, [Next]_vars, NEW s \in Covering
  PROVE  /\ \A c : Marked(c, s) =>
               c = 0 \/ \E e \in Events : event'[e].state = s /\ event'[e].mark >= c
         /\ \A m : Told(m, s) =>
               \E e \in Events : /\ event'[e].state = s
                                 /\ m \in event'[e].names \/ event'[e].mark >= m
<1>1. \A f \in Events : event[f].state = s => event'[f] = event[f]
  BY EventsStay DEF Silence, Covering
<1> QED
  BY <1>1 DEF Marked, Told

(* A watermark that covers a message was told of the message. *)
LEMMA MarksTell ==
  ASSUME OrderInv, NEW s \in Covering, NEW c \in 0 .. LastMessage, Marked(c, s),
         NEW m \in Messages, Covers(c, m)
  PROVE  Told(m, s)
<1>1. m \in Int /\ m >= 1 /\ c \in Int /\ c >= m
  BY MessageAssumption DEF Messages, Covers
<1>2. PICK e \in Events : event[e].state = s /\ event[e].mark >= c
  BY <1>1 DEF Marked
<1>3. event[e].mark \in Int
  BY DEF OrderInv, RowTypes, TypeOK
<1> QED
  BY <1>1, <1>2, <1>3 DEF Told

(* The watermarks that anybody sees were told. *)
LEMMA CursorsStayTold == ToldInv /\ [Next]_vars => CursorsTold'
<1> SUFFICES ASSUME ToldInv, [Next]_vars PROVE CursorsTold'
  OBVIOUS
<1> SUFFICES ASSUME NEW s \in Covering
             PROVE  /\ Marked(db.cursor[s], s)'
                    /\ \A t \in Transactions : Marked(snap[t].cursor[s], s)'
  BY DEF CursorsTold
<1>t. OrderInv /\ RowTypes /\ TypeOK
  BY DEF ToldInv, OrderInv, RowTypes
<1>m. /\ Marked(db.cursor[s], s) /\ Marked(Empty.cursor[s], s)
      /\ \A t \in Transactions : Marked(snap[t].cursor[s], s)
  BY RowsOfTypes DEF ToldInv, CursorsTold, Marked
<1>1. ASSUME NEW t \in Transactions PROVE Marked(snap'[t].cursor[s], s)
  BY <1>t, <1>m, CursorSteps
<1>2. Marked(db'.cursor[s], s)
  <2>1. CASE db'.cursor = db.cursor
    BY <1>m, <2>1
  <2>2. ASSUME NEW e \in Events, db'.cursor = Recorded(e)
        PROVE  Marked(db'.cursor[s], s)
    <3>1. Recorded(e)[s] \in {db.cursor[s], Seen(e).cursor[s]}
             \/ (Recorded(e)[s] = event[e].mark /\ event[e].state = s)
      BY <1>t, RecordedTypes
    <3>2. Marked(Seen(e).cursor[s], s)
      BY <1>m, Distinct DEF Seen
    <3>3. event[e].mark \in Int
      BY <1>t DEF TypeOK
    <3>4. event[e].state = s => Marked(event[e].mark, s)
      BY <3>3 DEF Marked
    <3> QED
      BY <1>m, <2>2, <3>1, <3>2, <3>4
  <2> QED
    BY <1>t, <2>1, <2>2, CursorSteps
<1>3. \A c : Marked(c, s) =>
         c = 0 \/ \E e \in Events : event'[e].state = s /\ event'[e].mark >= c
  BY <1>t, ToldStays
<1> QED
  BY <1>1, <1>2, <1>3 DEF Marked

(* What a step shows of a message was told. *)
LEMMA StepsAreTold ==
  ASSUME ToldInv, [Next]_vars, NEW m \in Messages, db'.delivery[m] \in Covering
  PROVE  Told(m, db'.delivery[m])
<1> DEFINE y == db'.delivery[m]
<1>t. OrderInv /\ RowTypes /\ TypeOK /\ db \in Rows /\ snap \in [Transactions -> Rows]
  BY DEF ToldInv, OrderInv, RowTypes
<1>a. db'.delivery[m] = db.delivery[m] => Told(m, y)
  BY DEF ToldInv, ShownIsTold, Told
<1>s. ASSUME NEW t \in Transactions, Covers(snap[t].cursor[y], m) PROVE Told(m, y)
  <2>1. snap[t].cursor[y] \in 0 .. LastMessage /\ Marked(snap[t].cursor[y], y)
    BY <1>t DEF Rows, ToldInv, CursorsTold
  <2> QED
    BY <1>t, <1>s, <2>1, MarksTell
<1>1. CASE Compose
  <2>1. PICK n \in Messages : db' = RowsWith(n, "queued", db.ext[n], "pending")
    BY <1>t, <1>1, Composing
  <2>2. "queued" \in Shown /\ db.ext[n] \in BOOLEAN /\ "pending" \in Boxes
    BY <1>t DEF Rows, Shown, Boxes
  <2>3. y = db.delivery[m] \/ y = "queued"
    BY <1>t, <2>1, <2>2, RowsWithTypes
  <2> QED
    BY <1>a, <2>3 DEF Covering
<1>2. ASSUME NEW n \in Messages, BeginSend(n) \/ SendStep(n) PROVE Told(m, y)
  <2>1. PICK x, b, o : SendFrame(n, x, b, o)
    BY <1>t, <1>2, SendSteps
  <2>2. x \in Shown /\ b \in BOOLEAN /\ o \in Boxes /\ db' = RowsWith(n, x, b, o)
    BY <2>1 DEF SendFrame, Forward, Shown
  <2>3. y = IF m = n THEN x ELSE db.delivery[m]
    BY <1>t, <2>2, RowsWithTypes
  <2>4. CASE m = n /\ x # db.delivery[m]
    BY <1>s, <2>1, <2>3, <2>4, Distinct DEF SendFrame
  <2> QED
    BY <1>a, <2>3, <2>4
<1>3. ASSUME NEW e \in Events, ApplyEvent(e) PROVE Told(m, y)
  <2>1. ApplyFrame(e) /\ ~Contended(e)
    BY <1>t, <1>3, Applying DEF ApplyEvent
  <2>2. Covers(Seen(e).cursor[y], m) => Told(m, y)
    BY <1>s, Distinct DEF Seen
  <2>3. CASE m \in New(e)
    <3>1. "queued" \in Shown /\ "sent" \in Positive
      BY DEF Shown, Positive
    <3>2. y \in {"queued", "sent"} \/ \E c \in Covering : y = c /\ Covers(Seen(e).cursor[c], m)
      BY <2>1, <2>3, <3>1, DeliverLaws DEF ApplyFrame
    <3> QED
      BY <2>2, <3>2 DEF Covering
  <2>4. CASE m \notin New(e) /\ m \in Found(e) \cup Covered(e)
    <3>1. y = Heard(e, m)
      BY <2>1, <2>4 DEF ApplyFrame
    <3>2. \/ y = db.delivery[m]
          \/ y = event[e].state /\ (m \in event[e].names \/ Covers(event[e].mark, m))
          \/ \E c \in Covering : y = c /\ Covers(Seen(e).cursor[c], m)
      BY <1>t, <2>1, <2>4, <3>1, HeardLaws
    <3>3. y = event[e].state /\ (m \in event[e].names \/ Covers(event[e].mark, m))
             => Told(m, y)
      BY DEF Told, Covers
    <3> QED
      BY <1>a, <2>2, <3>2, <3>3
  <2>5. CASE m \notin New(e) \cup Found(e) \cup Covered(e)
    BY <1>a, <2>1, <2>5 DEF ApplyFrame
  <2> QED
    BY <2>3, <2>4, <2>5
<1>4. CASE \/ SendFromPhone \/ UNCHANGED vars
           \/ \E e \in Events : Arrive(e) \/ BeginEvent(e) \/ RestartEvent(e) \/ RetryEvent(e)
  <2>1. UNCHANGED db
    BY <1>4 DEF SendFromPhone, vars, Arrive, BeginEvent, RestartEvent, RetryEvent
  <2> QED
    BY <1>a, <2>1
<1> QED
  BY <1>1, <1>2, <1>3, <1>4 DEF Next, EventStep

(* A message is shown delivered or read only if a receipt of that kind names it or
   covers its date, whatever watermark it heard it from, and when (message.py,
   _contact_center_apply_delivery, ContactCenterDeliveryWatermark). *)
THEOREM ShownWasTold == Spec => []ShownIsTold
<1>1. Init => ToldInv
  <2> SUFFICES ASSUME Init PROVE ToldInv
    OBVIOUS
  <2>1. OrderInv
    BY InitOrder
  <2>2. \A s \in Covering : /\ db.cursor[s] = 0
                            /\ \A t \in Transactions : snap[t].cursor[s] = 0
    BY RowsOfTypes DEF Init
  <2>3. \A m \in Messages : db.delivery[m] = "absent"
    BY DEF Init, Empty
  <2> QED
    BY <2>1, <2>2, <2>3 DEF ToldInv, CursorsTold, ShownIsTold, Marked, Covering
<1>2. ToldInv /\ [Next]_vars => ToldInv'
  <2> SUFFICES ASSUME ToldInv, [Next]_vars PROVE ToldInv'
    OBVIOUS
  <2>1. OrderInv /\ OrderInv' /\ CursorsTold'
    BY NextOrder, CursorsStayTold DEF ToldInv
  <2>2. ShownIsTold'
    <3> SUFFICES ASSUME NEW m \in Messages, db'.delivery[m] \in Covering
                 PROVE  \E e \in Events :
                           /\ event'[e].state = db'.delivery[m]
                           /\ m \in event'[e].names \/ event'[e].mark >= m
      BY DEF ShownIsTold
    <3>1. Told(m, db'.delivery[m])
      BY StepsAreTold
    <3> QED
      BY <2>1, <3>1, ToldStays
  <2> QED
    BY <2>1, <2>2 DEF ToldInv
<1>3. ToldInv => ShownIsTold
  BY DEF ToldInv
<1> QED
  BY <1>1, <1>2, <1>3, PTL DEF Spec

-----------------------------------------------------------------------------
(* What was processed stands *)

(* The marks of state s that were processed. *)
Processed(s) == {f \in Events : evState[f] = "done" /\ event[f].state = s}

(* A watermark is one of those processed, and none is higher... *)
CursorStands ==
    \A s \in Covering :
        /\ db.cursor[s] = 0 \/ \E f \in Processed(s) : event[f].mark = db.cursor[s]
        /\ \A f \in Processed(s) : event[f].mark <= db.cursor[s]

(* ... and a message that was named shows what it was named for at least. *)
NamedStands ==
    \A f \in Events : evState[f] = "done" /\ event[f].mark = 0 =>
        \A m \in event[f].names : AtLeast(db.delivery[m], event[f].state)

StandInv == OrderInv /\ CursorStands /\ NamedStands

(* Which is what the property says. *)
LEMMA StandInvImplies == StandInv => ReceiptsStand
<1> SUFFICES ASSUME StandInv PROVE ReceiptsStand
  OBVIOUS
<1>t. TypeOK /\ db \in Rows
  BY DEF StandInv, OrderInv, RowTypes
<1>1. \A f \in Events : evState[f] = "done" /\ event[f].mark = 0 =>
         \A m \in event[f].names :
            /\ db.delivery[m] \in DOMAIN Ranks
            /\ Ranks[db.delivery[m]] >= Ranks[event[f].state]
  BY RankValues DEF StandInv, NamedStands, AtLeast, Positive, Covering
<1>2. ASSUME NEW s \in Covering
      PROVE  db.cursor[s] = Max({0} \cup {event[e].mark : e \in Processed(s)})
  <2> DEFINE S == {0} \cup {event[e].mark : e \in Processed(s)}
  <2>1. \A f \in Processed(s) : event[f].mark \in Int
    BY <1>t DEF TypeOK, Processed
  <2>2. db.cursor[s] \in 0 .. LastMessage
    BY <1>t DEF Rows
  <2>3. db.cursor[s] = 0 \/ \E f \in Processed(s) : event[f].mark = db.cursor[s]
    BY DEF StandInv, CursorStands
  <2>4. db.cursor[s] \in S
    BY <2>3
  <2>5. \A f \in Processed(s) : event[f].mark <= db.cursor[s]
    BY DEF StandInv, CursorStands
  <2>6. \A y \in S : db.cursor[s] >= y
    BY <2>1, <2>2, <2>5
  <2>7. S \in SUBSET Int
    BY <2>1
  <2> HIDE DEF S
  <2>8. Max(S) = db.cursor[s]
    BY <2>4, <2>6, <2>7, MaxIs
  <2> QED
    BY <2>8 DEF S
<1> QED
  BY <1>1, <1>2 DEF ReceiptsStand, Processed

(* A watermark that was not written since the snapshot is recorded as the highest. *)
LEMMA CursorsStand == StandInv /\ [Next]_vars => CursorStands'
<1> SUFFICES ASSUME StandInv, [Next]_vars PROVE CursorStands'
  OBVIOUS
<1>t. OrderInv /\ RowTypes /\ TypeOK /\ db \in Rows /\ CursorStands
  BY DEF StandInv, OrderInv, RowTypes
<1>e. \A f \in Events : evState[f] = "done" => evState'[f] = "done" /\ event'[f] = event[f]
  BY <1>t, EventsStay
<1> SUFFICES ASSUME NEW s \in Covering
             PROVE  /\ db'.cursor[s] = 0
                          \/ \E f \in Events : /\ evState'[f] = "done" /\ event'[f].state = s
                                               /\ event'[f].mark = db'.cursor[s]
                    /\ \A f \in Events : evState'[f] = "done" /\ event'[f].state = s =>
                          event'[f].mark <= db'.cursor[s]
  BY DEF CursorStands, Processed
<1>s. /\ db.cursor[s] = 0 \/ \E f \in Events : /\ evState[f] = "done" /\ event[f].state = s
                                               /\ event[f].mark = db.cursor[s]
      /\ \A f \in Events : evState[f] = "done" /\ event[f].state = s =>
            event[f].mark <= db.cursor[s]
  BY <1>t DEF CursorStands, Processed
<1>c. db.cursor[s] \in Int /\ db.cursor[s] >= 0 /\ \A f \in Events : event[f].mark \in Int
  BY <1>t DEF Rows, TypeOK
<1>1. ASSUME NEW e \in Events, ApplyEvent(e)
      PROVE  /\ evState'[e] = "done" /\ event' = event /\ db'.cursor = Recorded(e)
             /\ \A f \in Events : evState'[f] = "done" => evState[f] = "done" \/ f = e
             /\ IF event[e].mark = 0 \/ event[e].state # s THEN db'.cursor[s] = db.cursor[s]
                ELSE db'.cursor[s] = IF db.cursor[s] >= event[e].mark THEN db.cursor[s]
                                     ELSE event[e].mark
  <2>1. ApplyFrame(e) /\ LeaveFrame(e, "done")
    BY <1>t, <1>1, Applying
  <2>2. /\ evState' = [evState EXCEPT ![e] = "done"] /\ event' = event
        /\ db'.cursor = Recorded(e)
    BY <2>1 DEF ApplyFrame, LeaveFrame
  <2>3. event[e].mark # 0 /\ event[e].state = s => Seen(e).cursor[s] = db.cursor[s]
    BY <1>1, <1>c, <1>t DEF ApplyEvent, Displaced, TypeOK
  <2>4. Recorded(e)[s] =
           IF event[e].mark = 0 \/ event[e].state # s THEN db.cursor[s]
           ELSE IF Seen(e).cursor[s] >= event[e].mark THEN Seen(e).cursor[s]
           ELSE event[e].mark
    BY <1>t, RecordedTypes
  <2>5. /\ evState'[e] = "done"
        /\ \A f \in Events : evState'[f] = "done" => evState[f] = "done" \/ f = e
    BY <1>t, <2>2 DEF TypeOK
  <2> QED
    BY <2>2, <2>3, <2>4, <2>5
<1>2. ASSUME NEW e \in Events, ApplyEvent(e)
      PROVE  /\ db'.cursor[s] = 0
                   \/ \E f \in Events : /\ evState'[f] = "done" /\ event'[f].state = s
                                        /\ event'[f].mark = db'.cursor[s]
             /\ \A f \in Events : evState'[f] = "done" /\ event'[f].state = s =>
                   event'[f].mark <= db'.cursor[s]
  <2>1. CASE event[e].mark = 0 \/ event[e].state # s
    <3>1. db'.cursor[s] = db.cursor[s]
      BY <1>1, <1>2, <2>1
    <3> QED
      BY <1>1, <1>2, <1>s, <1>c, <1>e, <2>1, <3>1
  <2>2. CASE event[e].mark # 0 /\ event[e].state = s /\ db.cursor[s] >= event[e].mark
    <3>1. db'.cursor[s] = db.cursor[s]
      BY <1>1, <1>2, <2>2
    <3> QED
      BY <1>1, <1>2, <1>s, <1>c, <1>e, <2>2, <3>1
  <2>3. CASE event[e].mark # 0 /\ event[e].state = s /\ ~(db.cursor[s] >= event[e].mark)
    <3>1. db'.cursor[s] = event[e].mark
      BY <1>1, <1>2, <2>3
    <3> QED
      BY <1>1, <1>2, <1>s, <1>c, <1>e, <2>3, <3>1
  <2> QED
    BY <2>1, <2>2, <2>3
<1>3. CASE ~ \E e \in Events : ApplyEvent(e)
  <2>1. /\ db'.cursor = db.cursor
        /\ \A f \in Events : evState'[f] = "done" => evState[f] = "done"
    BY <1>t, <1>3, CursorSteps, EventsStay
  <2> QED
    BY <1>s, <1>e, <2>1
<1> QED
  BY <1>2, <1>3

(* A named message hears the event that names it, and moves forward only. *)
LEMMA NamesStand == StandInv /\ [Next]_vars => NamedStands'
<1> SUFFICES ASSUME StandInv, [Next]_vars PROVE NamedStands'
  OBVIOUS
<1>t. OrderInv /\ RowTypes /\ TypeOK /\ EchoIsNew /\ NamedStands
  BY DEF StandInv, OrderInv, RowTypes
<1> SUFFICES ASSUME NEW f \in Events, evState'[f] = "done", event'[f].mark = 0,
                    NEW m \in event'[f].names
             PROVE  AtLeast(db'.delivery[m], event'[f].state)
  BY DEF NamedStands, AtLeast
<1>e. event'[f] = event[f]
  <2>1. evState[f] # "none"
    BY <1>t, EventsStay DEF ApplyEvent
  <2> QED
    BY <1>t, <2>1, EventsStay
<1>m. m \in Messages /\ event[f].state \in Positive
  BY <1>t, <1>e DEF TypeOK, Positive
<1>1. CASE evState[f] = "done"
  <2>1. AtLeast(db.delivery[m], event[f].state)
    BY <1>1, <1>e, <1>t DEF NamedStands
  <2>2. Forward(db.delivery[m], db'.delivery[m])
    BY <1>m, <1>t, <2>1, StepsForward DEF AtLeast, Positive, Covering
  <2> QED
    BY <1>e, <1>m, <2>1, <2>2, RankValues DEF AtLeast, Forward, Positive, Covering
<1>2. CASE evState[f] # "done"
  <2>1. ApplyEvent(f)
    BY <1>2, <1>t, EventsStay
  <2>2. ApplyFrame(f) /\ ~Contended(f) /\ ~Premature(f)
    BY <1>t, <2>1, Applying DEF ApplyEvent
  <2>3. m \in New(f) \cup Found(f)
    BY <1>e, <2>2 DEF Premature, New
  <2>4. CASE m \in New(f)
    <3>1. "queued" \in Shown /\ "sent" \in Positive
      BY DEF Shown, Positive
    <3>2. AtLeast(db'.delivery[m], "sent") /\ event[f].state = "sent"
      BY <1>m, <2>2, <2>4, <3>1, DeliverLaws DEF ApplyFrame
    <3> QED
      BY <1>e, <3>2
  <2>5. CASE m \notin New(f)
    <3>1. m \in Found(f) /\ db'.delivery[m] = Heard(f, m)
      BY <1>m, <2>2, <2>3, <2>5 DEF ApplyFrame
    <3> QED
      BY <1>e, <1>t, <2>2, <3>1, HeardLaws
  <2> QED
    BY <2>4, <2>5
<1> QED
  BY <1>1, <1>2

(* What a processed receipt said stands, whatever was committed since: on the message
   it names, and in the watermark of its state, which is neither lowered nor invented
   by a race (message.py, ContactCenterDeliveryWatermark, _record). *)
THEOREM WhatWasSaidStands == Spec => []ReceiptsStand
<1>1. Init => StandInv
  <2> SUFFICES ASSUME Init PROVE StandInv
    OBVIOUS
  <2>1. OrderInv /\ \A s \in Covering : db.cursor[s] = 0
    BY InitOrder, RowsOfTypes DEF Init
  <2>2. \A f \in Events : evState[f] # "done"
    BY DEF Init
  <2> QED
    BY <2>1, <2>2 DEF StandInv, CursorStands, NamedStands, Processed
<1>2. StandInv /\ [Next]_vars => StandInv'
  BY NextOrder, CursorsStand, NamesStand DEF StandInv
<1> QED
  BY <1>1, <1>2, StandInvImplies, PTL DEF Spec

-----------------------------------------------------------------------------
(* A watermark is lost by an overlap only *)

(* While transactions take turns, the open one is alone, and the watermarks and names
   it saw are those of the rows. *)
InTurn ==
    /\ \A m \in Messages : worker[m] # "none" =>
          /\ snap[Send(m)].cursor = db.cursor
          /\ \A n \in Messages \ {m} : worker[n] = "none"
          /\ \A e \in Events : evState[e] # "open"
    /\ \A e \in Events : evState[e] = "open" =>
          /\ Seen(e).cursor = db.cursor /\ Seen(e).ext = db.ext
          /\ \A m \in Messages : worker[m] = "none"
          /\ \A f \in Events \ {e} : evState[f] # "open"

(* A message known by name shows at least what every watermark that covers it says. *)
AllReached ==
    \A m \in Messages, s \in Covering :
        db.ext[m] /\ Covers(db.cursor[s], m) => AtLeast(db.delivery[m], s)

TurnInv == OrderInv /\ (~overlapped => InTurn /\ AllReached)

(* What was reached before a step that writes no watermark is reached after it, if
   the names it learns are of messages that heard the watermarks. *)
LEMMA StepsReach ==
  ASSUME OrderInv, [Next]_vars, AllReached, db'.cursor = db.cursor,
         \A m \in Messages : db'.ext[m] =>
            \/ db.ext[m]
            \/ \A s \in Covering : Covers(db.cursor[s], m) => AtLeast(db'.delivery[m], s)
  PROVE  AllReached'
<1> SUFFICES ASSUME NEW m \in Messages, NEW s \in Covering, db'.ext[m],
                    Covers(db.cursor[s], m)
             PROVE  AtLeast(db'.delivery[m], s)
  BY DEF AllReached
<1>1. CASE db.ext[m]
  <2>1. AtLeast(db.delivery[m], s)
    BY <1>1 DEF AllReached
  <2>2. Forward(db.delivery[m], db'.delivery[m])
    BY <2>1, StepsForward DEF AtLeast, Positive, Covering
  <2> QED
    BY <2>1, <2>2, RankValues DEF AtLeast, Forward, Positive, Covering
<1>2. CASE ~db.ext[m]
  BY <1>2
<1> QED
  BY <1>1, <1>2

(* Nothing is open when a transaction begins in turn. *)
LEMMA NothingOpen ==
  ASSUME Open = {}
  PROVE  /\ \A m \in Messages : worker[m] = "none"
         /\ \A e \in Events : evState[e] # "open"
BY DEF Open

(* The steps of a send, alone. *)
LEMMA SendsInTurn ==
  ASSUME OrderInv, [Next]_vars, NEW m \in Messages, NEW x, NEW b, NEW o,
         SendFrame(m, x, b, o), InTurn, AllReached, ~overlapped'
  PROVE  InTurn' /\ AllReached'
<1>t. RowTypes /\ TypeOK /\ db \in Rows /\ Send(m) \in Transactions
  BY Distinct DEF OrderInv, RowTypes
<1>x. x \in Shown /\ b \in BOOLEAN /\ o \in Boxes /\ db' = RowsWith(m, x, b, o)
  BY DEF SendFrame, Forward, Shown
<1>r. /\ db'.cursor = db.cursor /\ db'.delivery[m] = x
      /\ \A n \in Messages : db'.ext[n] = IF n = m THEN b ELSE db.ext[n]
  BY <1>t, <1>x, RowsWithTypes
<1>w. /\ \A n \in Messages \ {m} : worker'[n] = worker[n]
      /\ UNCHANGED evState
      /\ b => \/ db.ext[m]
              \/ /\ worker[m] # "none"
                 /\ \A s \in Covering :
                       Covers(snap[Send(m)].cursor[s], m) => AtLeast(x, s)
      /\ \/ snap'[Send(m)].cursor = db.cursor
         \/ worker'[m] = "none"
         \/ worker[m] # "none" /\ snap'[Send(m)].cursor = snap[Send(m)].cursor
      /\ worker[m] # "none" \/ Open = {}
  BY DEF SendFrame
<1>1. /\ \A n \in Messages \ {m} : worker[n] = "none"
      /\ \A e \in Events : evState[e] # "open"
      /\ worker[m] # "none" => snap[Send(m)].cursor = db.cursor
  BY <1>w, NothingOpen DEF InTurn
<1>2. InTurn'
  <2>1. ASSUME NEW n \in Messages, worker'[n] # "none"
        PROVE  n = m /\ snap'[Send(n)].cursor = db.cursor
    BY <1>1, <1>w, <2>1
  <2> QED
    BY <1>1, <1>r, <1>w, <2>1 DEF InTurn
<1>3. AllReached'
  <2>1. \A n \in Messages : db'.ext[n] =>
           \/ db.ext[n]
           \/ \A s \in Covering : Covers(db.cursor[s], n) => AtLeast(db'.delivery[n], s)
    BY <1>1, <1>r, <1>w
  <2> QED
    BY <1>r, <2>1, StepsReach
<1> QED
  BY <1>2, <1>3

(* The processing of an event, alone. *)
LEMMA AppliesInTurn ==
  ASSUME OrderInv, [Next]_vars, NEW e \in Events, ApplyEvent(e), InTurn, AllReached
  PROVE  InTurn' /\ AllReached'
<1>t. RowTypes /\ TypeOK /\ db \in Rows
  BY DEF OrderInv, RowTypes
<1>f. /\ ApplyFrame(e) /\ LeaveFrame(e, "done") /\ ~Contended(e) /\ evState[e] = "open"
  BY Applying DEF ApplyEvent
<1>i. /\ Seen(e).cursor = db.cursor /\ Seen(e).ext = db.ext
      /\ \A m \in Messages : worker[m] = "none"
      /\ \A g \in Events \ {e} : evState[g] # "open"
  BY <1>f DEF InTurn
<1>1. InTurn'
  <2>1. \A g \in Events : evState'[g] # "open"
    BY <1>f, <1>i, <1>t DEF LeaveFrame, TypeOK
  <2>2. \A m \in Messages : worker'[m] = "none"
    BY <1>f, <1>i DEF LeaveFrame
  <2> QED
    BY <2>1, <2>2 DEF InTurn
<1>2. AllReached'
  <2> SUFFICES ASSUME NEW m \in Messages, NEW s \in Covering, db'.ext[m],
                      Covers(db'.cursor[s], m)
               PROVE  AtLeast(db'.delivery[m], s)
    BY DEF AllReached
  <2>k. db.ext[m] \/ m \in Found(e) \/ m \in New(e)
    BY <1>f DEF ApplyFrame
  <2>c. \/ Covers(db.cursor[s], m)
        \/ event[e].mark # 0 /\ event[e].state = s /\ Covers(event[e].mark, m)
    BY <1>f, <1>i, <1>t, RecordedTypes DEF ApplyFrame
  <2>1. CASE m \in New(e)
    <3>1. "queued" \in Shown /\ "sent" \in Positive
      BY DEF Shown, Positive
    <3>2. /\ event[e].mark = 0
          /\ db'.delivery[m] = Deliver("queued", "sent", m, Seen(e).cursor)
      BY <1>f, <2>1 DEF ApplyFrame
    <3> QED
      BY <1>i, <2>c, <3>1, <3>2, DeliverLaws
  <2>2. CASE m \notin New(e) /\ m \in Found(e)
    <3>1. db'.delivery[m] = Heard(e, m)
      BY <1>f, <2>2 DEF ApplyFrame
    <3>2. Covers(db.cursor[s], m) => AtLeast(Heard(e, m), s)
      BY <1>f, <1>i, <2>2, HeardLaws
    <3>3. event[e].state = s => AtLeast(Heard(e, m), s)
      BY <1>f, <2>2, HeardLaws
    <3> QED
      BY <2>c, <3>1, <3>2, <3>3
  <2>3. CASE m \notin New(e) /\ m \notin Found(e)
    <3>1. db.ext[m]
      BY <2>k, <2>3
    <3>2. CASE Covers(db.cursor[s], m)
      <4>1. AtLeast(db.delivery[m], s)
        BY <3>1, <3>2 DEF AllReached
      <4>2. Forward(db.delivery[m], db'.delivery[m])
        BY <4>1, StepsForward DEF AtLeast, Positive, Covering
      <4> QED
        BY <4>1, <4>2, RankValues DEF AtLeast, Forward, Positive, Covering
    <3>3. CASE event[e].state = s /\ Covers(event[e].mark, m)
      <4>1. m \in Covered(e)
        BY <1>i, <3>1, <3>3 DEF Covered
      <4> QED
        BY <1>f, <2>3, <3>3, <4>1, HeardLaws DEF ApplyFrame
    <3> QED
      BY <2>c, <3>2, <3>3
  <2> QED
    BY <2>1, <2>2, <2>3
<1> QED
  BY <1>1, <1>2

(* Every step, while transactions take turns. *)
LEMMA NextInTurn == TurnInv /\ [Next]_vars => TurnInv'
<1> SUFFICES ASSUME TurnInv, [Next]_vars PROVE TurnInv'
  OBVIOUS
<1>o. OrderInv /\ OrderInv'
  BY NextOrder DEF TurnInv
<1>t. RowTypes /\ TypeOK /\ db \in Rows
  BY <1>o DEF OrderInv, RowTypes
<1>h. overlapped => overlapped'
  <2>1. ASSUME NEW m \in Messages, BeginSend(m) \/ SendStep(m), overlapped
        PROVE  overlapped'
    BY <1>o, <2>1, SendSteps DEF SendFrame
  <2>2. ASSUME NEW e \in Events, Arrive(e) \/ EventStep(e), overlapped PROVE overlapped'
    BY <2>2 DEF Arrive, EventStep, BeginEvent, ApplyEvent, RestartEvent, RetryEvent, Leave
  <2>3. CASE Compose \/ SendFromPhone \/ UNCHANGED vars
    BY <2>3 DEF Compose, SendFromPhone, vars
  <2> QED
    BY <2>1, <2>2, <2>3 DEF Next
<1> SUFFICES ASSUME ~overlapped' PROVE InTurn' /\ AllReached'
  BY <1>o DEF TurnInv
<1>i. ~overlapped /\ InTurn /\ AllReached
  BY <1>h DEF TurnInv
<1>1. CASE Compose
  <2>1. PICK n \in Messages :
           /\ db' = RowsWith(n, "queued", db.ext[n], "pending")
           /\ UNCHANGED <<worker, evState, snap>>
    BY <1>o, <1>1, Composing
  <2>2. db'.cursor = db.cursor /\ db'.ext = db.ext
    BY <1>t, <2>1, RowsAlone DEF RowsWith
  <2>3. InTurn'
    BY <1>i, <2>1, <2>2 DEF InTurn, Seen
  <2>4. AllReached'
    BY <1>o, <1>i, <2>2, StepsReach
  <2> QED
    BY <2>3, <2>4
<1>2. ASSUME NEW m \in Messages, BeginSend(m) \/ SendStep(m) PROVE InTurn' /\ AllReached'
  <2>1. PICK x, b, o : SendFrame(m, x, b, o)
    BY <1>o, <1>2, SendSteps
  <2> QED
    BY <1>o, <1>i, <2>1, SendsInTurn
<1>3. ASSUME NEW e \in Events, ApplyEvent(e) PROVE InTurn' /\ AllReached'
  BY <1>o, <1>i, <1>3, AppliesInTurn
<1>4. ASSUME NEW e \in Events, BeginEvent(e) PROVE InTurn' /\ AllReached'
  <2>1. /\ Open = {} /\ evState' = [evState EXCEPT ![e] = "open"]
        /\ snap' = [snap EXCEPT ![Inbox(e)] = db] /\ UNCHANGED <<db, worker>>
    BY <1>4 DEF BeginEvent, Begin
  <2>2. /\ \A m \in Messages : worker[m] = "none"
        /\ \A f \in Events : evState[f] # "open"
    BY <2>1, NothingOpen
  <2>3. snap'[Inbox(e)] = db /\ \A f \in Events \ {e} : evState'[f] # "open"
    BY <1>t, <2>1, <2>2, Distinct DEF RowTypes, TypeOK
  <2>4. InTurn'
    BY <2>1, <2>2, <2>3 DEF InTurn, Seen
  <2> QED
    BY <1>i, <2>1, <2>4 DEF AllReached
<1>5. ASSUME NEW e \in Events, RestartEvent(e) \/ RetryEvent(e)
      PROVE  InTurn' /\ AllReached'
  <2>1. PICK s \in {"queued", "dead"} : LeaveFrame(e, s)
    BY <1>t, <1>5, Leaving DEF RestartEvent, RetryEvent
  <2>2. UNCHANGED db /\ evState[e] = "open"
    BY <1>5 DEF RestartEvent, RetryEvent
  <2>3. /\ \A m \in Messages : worker'[m] = "none"
        /\ \A f \in Events : evState'[f] # "open"
    BY <1>i, <1>t, <2>1, <2>2 DEF LeaveFrame, InTurn, TypeOK
  <2>4. InTurn'
    BY <2>3 DEF InTurn
  <2> QED
    BY <1>i, <2>2, <2>4 DEF AllReached
<1>6. ASSUME NEW e \in Events, Arrive(e) PROVE InTurn' /\ AllReached'
  <2>1. /\ UNCHANGED <<db, worker, snap>>
        /\ \A f \in Events : evState'[f] = "open" <=> evState[f] = "open"
    BY <1>t, <1>6 DEF Arrive, TypeOK
  <2> QED
    BY <1>i, <2>1 DEF InTurn, AllReached, Seen
<1>7. CASE SendFromPhone \/ UNCHANGED vars
  <2>1. UNCHANGED <<db, worker, snap, evState>>
    BY <1>7 DEF SendFromPhone, vars
  <2> QED
    BY <1>i, <2>1 DEF InTurn, AllReached, Seen
<1> QED
  BY <1>1, <1>2, <1>3, <1>4, <1>5, <1>6, <1>7 DEF Next, EventStep

(* When no two transactions of a conversation were ever open at once, a message known
   by name shows what every watermark that covers it says: it takes an overlap to lose
   one (message.py, _apply_to_binding, _record). *)
THEOREM TurnsReachAll == Spec => []ReachAllInTurn
<1>1. Init => TurnInv
  <2> SUFFICES ASSUME Init PROVE TurnInv
    OBVIOUS
  <2>1. OrderInv /\ InTurn
    BY InitOrder DEF Init, InTurn
  <2>2. AllReached
    BY DEF Init, Empty, AllReached
  <2> QED
    BY <2>1, <2>2 DEF TurnInv
<1>2. TurnInv => ReachAllInTurn
  <2> SUFFICES ASSUME OrderInv, AllReached, NEW m \in Messages, NEW s \in Covering,
                      db.ext[m], db.cursor[s] >= m
               PROVE  db.delivery[m] # "failed" /\ Ranks[db.delivery[m]] >= Ranks[s]
    BY DEF TurnInv, ReachAllInTurn, WatermarksReachAll
  <2>1. AtLeast(db.delivery[m], s)
    BY DEF AllReached, Covers
  <2> QED
    BY <2>1 DEF AtLeast, Positive, Covering
<1> QED
  BY <1>1, <1>2, NextInTurn, PTL DEF Spec
=============================================================================
