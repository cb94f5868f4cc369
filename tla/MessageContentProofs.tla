------------------------ MODULE MessageContentProofs ------------------------
(***************************************************************************)
(* Theorems of MessageContent, for any number of mutations, any instants     *)
(* and revisions of the provider, and any attempts and requests.              *)
(***************************************************************************)
EXTENDS MessageContent, TLAPS

-----------------------------------------------------------------------------
(* Types *)

MessageRows ==
    [state : {"absent", "active", "edited", "deleted"},
     text : Texts \cup {Notice, None}, original : {First, None},
     kept : Texts \cup {None}, mode : Modes \cup {"none"},
     deletedAt : 0 .. LastInstant, reaction : [Sides -> Mutations \cup {None}],
     previewed : Texts \cup {None}, links : Texts \cup {None}]

MediaRows ==
    [state : {"none", "pending", "ready", "failed", "discarded"}, file : BOOLEAN,
     speech : {"idle", "pending", "done", "failed", "skipped"}, transcript : BOOLEAN]

MutationRows ==
    [type : Types \cup {"none"}, at : 0 .. LastInstant,
     rev : Revisions \cup {0}, side : Sides, add : BOOLEAN, mode : Modes,
     state : {"absent", "pending", "applied", "failed"}]

CommandRows ==
    [seen : SUBSET Snapshots, state :
          {"none", "queued", "processing", "done", "uncertain", "dead", "cancelled"}]

Jobs == [phase : {"none", "queued", "running", "failed"}, tries : 0 .. MaxAttempts,
         stale : SUBSET {"binding", "media", "text"}]

(* What a message that stands says is a text, at first its own. *)
TextStands ==
    /\ message.state = "active" => message.text = First
    /\ message.state = "edited" => message.text \in Mutations
    /\ message.state = "deleted" => message.text = Notice

(* Before it is there, and once it is gone, a message has no mutations. *)
NothingBefore == ~Exists => \A m \in Mutations : mutation[m].state = "absent"

(* A command and its mutation agree. *)
Owned ==
    \A m \in Mutations :
        /\ mutation[m].state = "absent" => command[m].state = "none"
        /\ command[m].state = "done" => mutation[m].state = "applied"
        /\ command[m].state \in {"queued", "processing", "uncertain"} =>
              mutation[m].state = "pending"
        /\ command[m].state \in {"dead", "cancelled"} => mutation[m].state = "failed"

(* A worker that still holds a snapshot of use holds that of now. *)
SeenIsNow ==
    \A m \in Mutations :
        /\ command[m].seen \subseteq {Now}
        /\ command[m].state # "processing" => command[m].seen = {}

(* What is shown of a mutation was applied. *)
ShownIsApplied ==
    \A m \in Mutations :
        message.text = m \/ (\E s \in Sides : message.reaction[s] = m) =>
            mutation[m].state = "applied"

RowsAre ==
    /\ shape \in Shapes /\ message \in MessageRows /\ media \in MediaRows
    /\ mutation \in [Mutations -> MutationRows]
    /\ command \in [Mutations -> CommandRows]
    /\ taken \subseteq Mutations
    /\ receipt \in BOOLEAN /\ requests \in 0 .. MaxRequests

JobsAre == download \in Jobs /\ transcribe \in Jobs /\ preview \in [Texts -> Jobs]

RowsInv == RowsAre /\ TextStands /\ NothingBefore /\ Owned /\ SeenIsNow /\ ShownIsApplied

(* The numbers that stand for no mutation. *)
LEMMA Signs ==
  /\ LastMutation \in Nat /\ LastInstant \in Nat /\ MaxAttempts \in Nat \ {0}
  /\ MaxRequests \in Nat /\ Mutations \subseteq Nat
  /\ First \notin Mutations /\ Notice \notin Mutations /\ None \notin Mutations
  /\ First # Notice /\ First # None /\ Notice # None /\ Notice \notin Texts
  /\ None \notin Texts
BY BoundsAssumption DEF Mutations, First, Notice, None, Texts

-----------------------------------------------------------------------------
(* The projection of a mutation *)

(* What a projection decides on, where it decides on the message as it is now. *)
LEMMA Decides ==
  ASSUME NEW m, NEW d
  PROVE  /\ Now.state = message.state /\ Now.text = message.text
         /\ Now.deletedAt = message.deletedAt
         /\ (Now.state = "deleted") <=> Deleted
         /\ SupersededEdit(Now, m, d) <=> \E o \in AppliedTo("edit") : Supersedes(o, m, d)
         /\ SupersededReaction(Now, m, d) <=> \E o \in Lane(d.side) : Precedes(o, m, d)
BY DEF Now, Deleted, SupersededEdit, SupersededReaction, AppliedTo, Lane

(* Mutation d, numbered m, is projected on the message. *)
Projected(m, d) ==
    /\ Exists /\ d \in MutationRows /\ mutation[m].state \in {"absent", "pending"}
    /\ Project(Now, m, d)
    /\ UNCHANGED <<shape, receipt, requests>>
    /\ taken' \in {taken, taken \cup {m}}
    /\ \/ command' = AgedCommands(command, d) /\ mutation[m].state = "absent"
       \/ command' = AgedCommands(SetCommand(m, "done"), d)

(* What comes of the message. *)
Reacted(m, d) ==
    /\ d.type = "react" /\ ~Deleted /\ ~SupersededReaction(Now, m, d)
    /\ message' = [message EXCEPT !.reaction[d.side] = IF d.add THEN m ELSE None]
    /\ UNCHANGED media

Edited(m, d) ==
    /\ d.type = "edit" /\ ~Deleted /\ ~SupersededEdit(Now, m, d)
    /\ message' \in MessageRows /\ message'.state = "edited" /\ message'.text = m
    /\ message'.original = IF message.state = "active" THEN message.text ELSE message.original
    /\ message'.reaction = message.reaction /\ message'.links = message.links
    /\ UNCHANGED media

Redated(d) ==
    /\ d.type = "delete" /\ Deleted
    /\ message' = [message EXCEPT !.deletedAt = Max(@, d.at)]
    /\ UNCHANGED media

Removed(d) ==
    /\ d.type = "delete" /\ ~Deleted
    /\ message' \in MessageRows /\ message'.state = "deleted" /\ message'.mode = d.mode
    /\ message'.text = Notice
    /\ \/ /\ d.mode = "strike" /\ UNCHANGED media
          /\ message'.reaction = message.reaction /\ message'.links = message.links
          /\ Age({"binding", "text"})
       \/ /\ d.mode = "redact" /\ media' = Discarded(media)
          /\ message'.kept = None /\ message'.original = None /\ message'.links = None
          /\ message'.reaction = [s \in Sides |-> None]
          /\ Age({"binding", "text", "media"})

Ignored(m, d) ==
    /\ message' = message /\ UNCHANGED media
    /\ \/ d.type = "react" /\ (Deleted \/ SupersededReaction(Now, m, d))
       \/ d.type = "edit" /\ (Deleted \/ SupersededEdit(Now, m, d))

(* A projection reacts, edits, dates anew, removes, or is ignored, and then the jobs
   under way do not know what it wrote. *)
LEMMA Effects ==
  ASSUME RowsInv, NEW m \in Mutations, NEW d, Projected(m, d)
  PROVE  /\ Reacted(m, d) \/ Edited(m, d) \/ Redated(d) \/ Removed(d) \/ Ignored(m, d)
         /\ message' \in MessageRows /\ media' \in MediaRows
         /\ \E rows \in SUBSET {"binding", "media", "text"} : Age(rows)
<1>t. /\ message \in MessageRows /\ media \in MediaRows /\ d \in MutationRows
      /\ Exists /\ TextStands /\ m \in Texts
  BY DEF RowsInv, RowsAre, Projected, Texts
<1>f. /\ message.text \in Texts \cup {Notice, None} /\ message.original \in {First, None}
      /\ message.kept \in Texts \cup {None} /\ message.deletedAt \in 0 .. LastInstant
      /\ message.reaction \in [Sides -> Mutations \cup {None}]
      /\ message.state \in {"absent", "active", "edited", "deleted"}
      /\ d.at \in 0 .. LastInstant /\ d.mode \in {"redact", "strike"} /\ d.side \in Sides
      /\ d.add \in BOOLEAN
  BY <1>t DEF MessageRows, MutationRows, Modes
<1>1. CASE d.type = "react" /\ React(Now, m, d)
  <2>1. CASE Deleted \/ SupersededReaction(Now, m, d)
    BY <1>1, <1>t, <2>1, Decides DEF React, Revision, Ignored
  <2>2. CASE ~(Deleted \/ SupersededReaction(Now, m, d))
    <3> DEFINE x == IF d.add THEN m ELSE None
               r == [message.reaction EXCEPT ![d.side] = x]
    <3>1. message' = [message EXCEPT !.reaction = r] /\ UNCHANGED media /\ Age({"binding"})
          /\ Reacted(m, d)
      BY <1>1, <2>2, Decides DEF React, Revision, Reacted
    <3>2. r \in [Sides -> Mutations \cup {None}]
      BY <1>f
    <3> HIDE DEF r
    <3>3. [message EXCEPT !.reaction = r] \in MessageRows
      BY <1>t, <3>2 DEF MessageRows
    <3> QED
      BY <1>t, <3>1, <3>3
  <2> QED
    BY <2>1, <2>2
<1>2. CASE d.type = "edit" /\ Edit(Now, m, d)
  <2>1. CASE Deleted \/ SupersededEdit(Now, m, d)
    BY <1>2, <1>t, <2>1, Decides DEF Edit, Revision, Ignored
  <2>2. CASE ~(Deleted \/ SupersededEdit(Now, m, d))
    <3> DEFINE x == IF message.state = "active" THEN message.text ELSE message.original
    <3>1. /\ message' = [message EXCEPT !.state = "edited", !.text = m, !.original = x]
          /\ UNCHANGED media /\ Age({"binding", "text"})
      BY <1>2, <2>2, Decides DEF Edit
    <3>2. x \in {First, None}
      BY <1>t, <1>f DEF TextStands
    <3> HIDE DEF x
    <3>3. /\ message' \in MessageRows /\ message'.state = "edited" /\ message'.text = m
          /\ message'.original = x /\ message'.reaction = message.reaction
          /\ message'.links = message.links
      BY <1>t, <3>1, <3>2 DEF MessageRows
    <3> QED
      BY <1>2, <1>t, <2>2, <3>1, <3>3 DEF Edited, x
  <2> QED
    BY <2>1, <2>2
<1>3. CASE d.type = "delete" /\ Delete(Now, m, d)
  <2>1. CASE Deleted
    <3> DEFINE x == Max(message.deletedAt, d.at)
    <3>1. message' = [message EXCEPT !.deletedAt = x] /\ UNCHANGED media /\ Age({"binding"})
      BY <1>3, <2>1, Decides DEF Delete
    <3>2. x \in 0 .. LastInstant
      BY <1>f, Signs DEF Max
    <3> HIDE DEF x
    <3>3. [message EXCEPT !.deletedAt = x] \in MessageRows
      BY <1>t, <3>2 DEF MessageRows
    <3> QED
      BY <1>3, <1>t, <2>1, <3>1, <3>3 DEF Redated, x
  <2>2. CASE ~Deleted
    <3> DEFINE k == IF d.mode = "strike" THEN message.text ELSE None
               g == IF d.mode = "redact" THEN None
                    ELSE IF message.state = "active" THEN message.text ELSE message.original
               t1 == [message EXCEPT !.state = "deleted", !.deletedAt = d.at, !.mode = d.mode]
               t2 == [t1 EXCEPT !.text = Notice, !.kept = k, !.original = g]
    <3>1. Tombstone(Now, d) = t2
      BY Decides DEF Tombstone
    <3>2. message.text \in Texts
      <4>1. message.state \in {"active", "edited"}
        BY <1>t, <1>f, <2>2 DEF Deleted, Exists
      <4> QED
        BY <1>t, <4>1 DEF TextStands, Texts
    <3>3. k \in Texts \cup {None} /\ g \in {First, None} /\ (d.mode = "redact" => k = None /\ g = None)
      BY <1>t, <1>f, <3>2 DEF TextStands
    <3> HIDE DEF k, g
    <3>4. t1 \in MessageRows /\ t1.state = "deleted" /\ t1.mode = d.mode
          /\ t1.reaction = message.reaction /\ t1.links = message.links
      BY <1>t, <1>f DEF MessageRows, Modes
    <3> HIDE DEF t1
    <3>5. t2 \in MessageRows /\ t2.state = "deleted" /\ t2.mode = d.mode /\ t2.text = Notice
          /\ t2.reaction = message.reaction /\ t2.links = message.links
          /\ t2.kept = k /\ t2.original = g
      BY <3>3, <3>4 DEF MessageRows
    <3> HIDE DEF t2
    <3>6. CASE d.mode = "redact"
      <4> DEFINE n == [s \in Sides |-> None]
                 t3 == [t2 EXCEPT !.reaction = n, !.links = None, !.previewed = None]
      <4>1. /\ message' = t3 /\ media' = Discarded(media)
            /\ Age({"binding", "text", "media"})
        BY <1>3, <2>2, <3>1, <3>6, Decides DEF Delete, Redacted
      <4>2. n \in [Sides -> Mutations \cup {None}]
        OBVIOUS
      <4> HIDE DEF n
      <4>3. /\ t3 \in MessageRows /\ t3.state = "deleted" /\ t3.mode = "redact"
            /\ t3.text = Notice /\ t3.reaction = n /\ t3.links = None /\ t3.kept = None
            /\ t3.original = None
        BY <3>3, <3>5, <3>6, <4>2 DEF MessageRows
      <4>4. Discarded(media) \in MediaRows
        BY <1>t DEF Discarded, MediaRows
      <4> HIDE DEF t3
      <4>5. Removed(d)
        BY <1>3, <2>2, <3>6, <4>1, <4>3 DEF Removed, n
      <4> QED
        BY <4>1, <4>3, <4>4, <4>5
    <3>7. CASE d.mode = "strike"
      <4>1. message' = t2 /\ UNCHANGED media /\ Age({"binding", "text"})
        BY <1>3, <2>2, <3>1, <3>7, Decides DEF Delete
      <4>2. Removed(d)
        BY <1>3, <2>2, <3>5, <3>7, <4>1 DEF Removed
      <4> QED
        BY <1>t, <3>5, <4>1, <4>2
    <3> QED
      BY <1>f, <3>6, <3>7
  <2> QED
    BY <2>1, <2>2
<1> QED
  BY <1>1, <1>2, <1>3 DEF Projected, Project

(* What the provider or the desk may ask for is a mutation not yet applied. *)
LEMMA PossibleAre ==
  ASSUME NEW at \in 1 .. LastInstant, NEW d \in Possible(at)
  PROVE  d \in MutationRows /\ d.state = "pending"
<1>1. at \in 0 .. LastInstant
  BY Signs
<1>2. d.type \in Types
  BY DEF Possible
<1>3. CASE d \in Reactions(at)
  <2>1. PICK r \in [side : Sides, add : BOOLEAN] :
          d = [NoMutation EXCEPT !.type = "react", !.at = at, !.side = r.side, !.add = r.add,
                                 !.state = "pending"]
    BY <1>3 DEF Reactions
  <2> QED
    BY <1>1, <1>2, <2>1 DEF NoMutation, MutationRows, Modes
<1>4. CASE d \in Edits(at)
  BY <1>1, <1>2, <1>4 DEF Edits, NoMutation, MutationRows, Sides, Modes
<1>5. CASE d \in Deletes(at)
  BY <1>1, <1>2, <1>5 DEF Deletes, NoMutation, MutationRows, Sides, Modes
<1> QED
  BY <1>3, <1>4, <1>5 DEF Possible

(* Four steps project a mutation: the contact's, the answer of the provider, its
   echo, and the word of an administrator.                                         *)
LEMMA Projections ==
  ASSUME RowsInv, NEW m \in Mutations,
         RemoteMutation(m) \/ Succeed(m) \/ Echo(m) \/ Confirm(m)
  PROVE  \E d : Projected(m, d)
<1>t. mutation[m] \in MutationRows
  BY DEF RowsInv, RowsAre
<1>1. CASE RemoteMutation(m)
  <2>0. PICK at \in 1 .. LastInstant :
          \E d \in Possible(at) : Project(Now, m, d) /\ command' = AgedCommands(command, d)
    BY <1>1 DEF RemoteMutation
  <2>1. PICK d \in Possible(at) : Project(Now, m, d) /\ command' = AgedCommands(command, d)
    BY <2>0
  <2>2. d \in MutationRows /\ mutation[m].state = "absent"
    BY <1>1, <2>1, PossibleAre DEF RemoteMutation, NextFree
  <2>3. Projected(m, d)
    BY <1>1, <2>1, <2>2 DEF RemoteMutation, Projected
  <2> QED
    BY <2>3
<1>2. CASE Succeed(m) \/ Echo(m) \/ Confirm(m)
  <2>1. mutation[m].state = "pending"
    BY <1>2 DEF Succeed, Echo, Confirm, RowsInv, Owned
  <2>2. Exists
    BY <2>1 DEF RowsInv, NothingBefore
  <2>3. Project(Now, m, mutation[m])
    <3>1. command[m].seen \subseteq {Now}
      BY DEF RowsInv, SeenIsNow
    <3>2. CASE Succeed(m)
      BY <3>1, <3>2 DEF Succeed
    <3>3. CASE Echo(m) \/ Confirm(m)
      BY <3>3 DEF Echo, Confirm
    <3> QED
      BY <1>2, <3>2, <3>3
  <2>4. Projected(m, mutation[m])
    BY <1>t, <1>2, <2>1, <2>2, <2>3 DEF Succeed, Echo, Confirm, Projected
  <2> QED
    BY <2>4
<1> QED
  BY <1>1, <1>2

(* What is seen now is a snapshot. *)
LEMMA NowIs ==
  ASSUME RowsAre
  PROVE  Now \in Snapshots
<1>1. /\ message.state \in {"absent", "active", "edited", "deleted"}
      /\ message.text \in Texts \cup {Notice, None} /\ message.deletedAt \in 0 .. LastInstant
  BY DEF RowsAre, MessageRows
<1>2. Applied \in SUBSET Mutations
  BY DEF Applied
<1> QED
  BY <1>1, <1>2 DEF Now, Snapshots

(* A step of the command of mutation m, which does not touch the message. *)
Commanded(m) ==
    /\ Exists /\ mutation[m].state \in {"absent", "pending"}
    /\ \E row \in MutationRows, c \in CommandRows :
          /\ mutation' = [mutation EXCEPT ![m] = row]
          /\ command' = [command EXCEPT ![m] = c]
          /\ c.seen \subseteq {Now} /\ (c.state # "processing" => c.seen = {})
          /\ \/ c.state \in {"queued", "processing", "uncertain"} /\ row.state = "pending"
             \/ c.state \in {"dead", "cancelled"} /\ row.state = "failed"
    /\ taken' \subseteq Mutations
    /\ UNCHANGED <<shape, message, media, jobs, receipt, requests>>

(* Six steps are of a command alone. *)
LEMMA Commands ==
  ASSUME RowsInv, NEW m \in Mutations,
         RequestOwn(m) \/ Claim(m) \/ BackOff(m) \/ Refuse(m) \/ Doubt(m) \/ Close(m)
  PROVE  Commanded(m)
<1>t. /\ mutation[m] \in MutationRows /\ command[m] \in CommandRows /\ taken \subseteq Mutations
      /\ mutation \in [Mutations -> MutationRows] /\ command \in [Mutations -> CommandRows]
  BY DEF RowsInv, RowsAre
<1>1. CASE RequestOwn(m)
  <2>0. PICK at \in 1 .. LastInstant :
          \E d \in Possible(at) : mutation' = [mutation EXCEPT ![m] = d]
    BY <1>1 DEF RequestOwn
  <2>1. PICK d \in Possible(at) : mutation' = [mutation EXCEPT ![m] = d]
    BY <2>0
  <2>2. d \in MutationRows /\ d.state = "pending" /\ mutation[m].state = "absent"
    BY <1>1, <2>1, PossibleAre DEF RequestOwn, NextFree
  <2> DEFINE c == [command[m] EXCEPT !.state = "queued"]
  <2>3. c \in CommandRows /\ c.state = "queued" /\ c.seen = {}
    <3>1. command[m].seen = {}
      BY <2>2 DEF RowsInv, Owned, SeenIsNow
    <3> QED
      BY <1>t, <3>1 DEF CommandRows
  <2>4. command' = [command EXCEPT ![m] = c]
    BY <1>1 DEF RequestOwn
  <2> HIDE DEF c
  <2> QED
    BY <1>1, <1>t, <2>1, <2>2, <2>3, <2>4 DEF RequestOwn, Commanded
<1>2. CASE Claim(m) \/ BackOff(m) \/ Doubt(m)
  <2>1. \E s \in {"processing", "queued", "uncertain"} : \E seen \in SUBSET {Now} :
           /\ command' = [command EXCEPT ![m] = [state |-> s, seen |-> seen]]
           /\ s # "processing" => seen = {}
    <3>1. CASE Claim(m)
      BY <3>1 DEF Claim
    <3>2. CASE BackOff(m) \/ Doubt(m)
      BY <3>2 DEF BackOff, Doubt, SetCommand
    <3> QED
      BY <1>2, <3>1, <3>2
  <2>1a. PICK s \in {"processing", "queued", "uncertain"} : \E seen \in SUBSET {Now} :
           /\ command' = [command EXCEPT ![m] = [state |-> s, seen |-> seen]]
           /\ s # "processing" => seen = {}
    BY <2>1
  <2>1b. PICK seen \in SUBSET {Now} :
           /\ command' = [command EXCEPT ![m] = [state |-> s, seen |-> seen]]
           /\ s # "processing" => seen = {}
    BY <2>1a
  <2> DEFINE c == [state |-> s, seen |-> seen]
  <2>2. /\ c \in CommandRows /\ c.state = s
        /\ c.seen \subseteq {Now} /\ (c.state # "processing" => c.seen = {})
    <3>1. seen \in SUBSET Snapshots
      BY NowIs DEF RowsInv
    <3> QED
      BY <2>1b, <3>1 DEF CommandRows
  <2>3. command' = [command EXCEPT ![m] = c]
    BY <2>1b
  <2> HIDE DEF c
  <2>4. mutation[m].state = "pending"
    BY <1>2 DEF Claim, BackOff, Doubt, RowsInv, Owned
  <2>5. Exists
    BY <2>4 DEF RowsInv, NothingBefore
  <2>6. mutation' = [mutation EXCEPT ![m] = mutation[m]] /\ taken' \subseteq Mutations
    BY <1>t, <1>2 DEF Claim, BackOff, Doubt
  <2> QED
    BY <1>t, <1>2, <2>2, <2>3, <2>4, <2>5, <2>6 DEF Claim, BackOff, Doubt, Commanded
<1>3. CASE Refuse(m) \/ Close(m)
  <2>1. PICK s \in {"dead", "cancelled"} : command' = SetCommand(m, s)
    BY <1>3 DEF Refuse, Close
  <2> DEFINE c == [state |-> s, seen |-> {}]
             r == [mutation[m] EXCEPT !.state = "failed"]
  <2>2. c \in CommandRows /\ c.state = s /\ c.seen = {} /\ r \in MutationRows /\ r.state = "failed"
    BY <1>t DEF CommandRows, MutationRows
  <2>3. command' = [command EXCEPT ![m] = c] /\ mutation' = [mutation EXCEPT ![m] = r]
    BY <1>3, <2>1 DEF SetCommand, Refuse, Close
  <2> HIDE DEF c, r
  <2>4. mutation[m].state = "pending"
    BY <1>3 DEF Refuse, Close, RowsInv, Owned
  <2>5. Exists
    BY <2>4 DEF RowsInv, NothingBefore
  <2> QED
    BY <1>t, <1>3, <2>1, <2>2, <2>3, <2>4, <2>5 DEF Refuse, Close, Commanded
<1> QED
  BY <1>1, <1>2, <1>3

-----------------------------------------------------------------------------
(* Rows and jobs keep their types *)

(* What the projection does to the mutations and to their commands. *)
LEMMA Marks ==
  ASSUME RowsInv, NEW m \in Mutations, NEW d, Projected(m, d)
  PROVE  /\ mutation' \in [Mutations -> MutationRows]
         /\ mutation'[m] = [d EXCEPT !.state = "applied"] /\ mutation'[m].state = "applied"
         /\ mutation'[m].type = d.type /\ mutation'[m].at = d.at /\ mutation'[m].rev = d.rev
         /\ mutation'[m].side = d.side /\ mutation'[m].add = d.add
         /\ \A o \in Mutations : o # m => mutation'[o] = mutation[o]
         /\ command' \in [Mutations -> CommandRows]
         /\ command'[m].state \in {"none", "done"}
         /\ \A o \in Mutations : command'[o].seen = {}
         /\ \A o \in Mutations : o # m => command'[o].state = command[o].state
<1>t. /\ mutation \in [Mutations -> MutationRows] /\ d \in MutationRows
      /\ command \in [Mutations -> CommandRows]
  BY DEF RowsInv, RowsAre, Projected
<1> DEFINE r == [d EXCEPT !.state = "applied"]
<1>1. /\ r \in MutationRows /\ r.state = "applied" /\ r.type = d.type /\ r.at = d.at
      /\ r.rev = d.rev /\ r.side = d.side /\ r.add = d.add
  BY <1>t DEF MutationRows
<1>2. mutation' = [mutation EXCEPT ![m] = r]
  BY DEF Projected, Project
<1> HIDE DEF r
<1>3. /\ mutation' \in [Mutations -> MutationRows] /\ mutation'[m] = r
      /\ \A o \in Mutations : o # m => mutation'[o] = mutation[o]
  BY <1>t, <1>1, <1>2
<1>4. ASSUME NEW c \in [Mutations -> CommandRows]
      PROVE  /\ AgedCommands(c, d) \in [Mutations -> CommandRows]
             /\ \A o \in Mutations : /\ AgedCommands(c, d)[o].state = c[o].state
                                    /\ AgedCommands(c, d)[o].seen = {}
  <2>1. ASSUME NEW o \in Mutations
        PROVE  /\ AgedCommand(c[o], Revision(d)) \in CommandRows
               /\ AgedCommand(c[o], Revision(d)).state = c[o].state
               /\ AgedCommand(c[o], Revision(d)).seen = {}
    <3>1. c[o] \in CommandRows
      BY <1>4
    <3> QED
      BY <3>1 DEF AgedCommand, Revision, CommandRows
  <2> QED
    BY <2>1 DEF AgedCommands
<1>5. CASE command' = AgedCommands(command, d) /\ mutation[m].state = "absent"
  <2>1. command[m].state = "none"
    BY <1>5 DEF RowsInv, Owned
  <2> QED
    BY <1>t, <1>1, <1>3, <1>4, <1>5, <2>1 DEF r
<1>6. CASE command' = AgedCommands(SetCommand(m, "done"), d)
  <2> DEFINE c == [state |-> "done", seen |-> {}]
             S == SetCommand(m, "done")
  <2>1. c \in CommandRows /\ c.state = "done"
    BY DEF CommandRows
  <2>2. S = [command EXCEPT ![m] = c]
    BY DEF SetCommand
  <2> HIDE DEF c
  <2>3. S \in [Mutations -> CommandRows] /\ S[m].state = "done"
        /\ \A o \in Mutations : o # m => S[o] = command[o]
    BY <1>t, <2>1, <2>2
  <2>4. command' = AgedCommands(S, d)
    BY <1>6
  <2> HIDE DEF S
  <2>5. /\ command' \in [Mutations -> CommandRows] /\ command'[m].state = "done"
        /\ \A o \in Mutations : command'[o].seen = {}
        /\ \A o \in Mutations : o # m => command'[o].state = command[o].state
    BY <1>4, <2>3, <2>4
  <2> QED
    BY <1>1, <1>3, <2>5 DEF r
<1> QED
  BY <1>5, <1>6 DEF Projected

(* A projection shows nothing new but the mutation it is of. *)
LEMMA Shows ==
  ASSUME RowsInv, NEW m \in Mutations, NEW d, Projected(m, d)
  PROVE  /\ message'.state # "absent" /\ TextStands'
         /\ message'.text \in {message.text, m, Notice}
         /\ \A s \in Sides : message'.reaction[s] \in {message.reaction[s], m, None}
<1>t. message \in MessageRows /\ Exists /\ TextStands
  BY DEF RowsInv, RowsAre, Projected
<1>f. message.reaction \in [Sides -> Mutations \cup {None}]
  BY <1>t DEF MessageRows
<1>1. CASE Reacted(m, d)
  <2> DEFINE x == IF d.add THEN m ELSE None
             r == [message.reaction EXCEPT ![d.side] = x]
  <2>1. x \in {m, None}
    OBVIOUS
  <2> HIDE DEF x
  <2>2. \A s \in Sides : r[s] \in {message.reaction[s], m, None}
    BY <1>f, <2>1
  <2>3. message' = [message EXCEPT !.reaction = r]
    BY <1>1 DEF Reacted, x
  <2> HIDE DEF r
  <2>4. message'.state = message.state /\ message'.text = message.text /\ message'.reaction = r
    BY <1>t, <2>3 DEF MessageRows
  <2> QED
    BY <1>t, <2>2, <2>4 DEF TextStands, Exists
<1>2. CASE Edited(m, d)
  BY <1>2 DEF Edited, TextStands
<1>3. CASE Redated(d)
  <2>1. /\ message'.state = message.state /\ message'.text = message.text
        /\ message'.reaction = message.reaction
    BY <1>t, <1>3 DEF Redated, MessageRows
  <2> QED
    BY <1>t, <2>1 DEF TextStands, Exists
<1>4. CASE Removed(d)
  BY <1>4 DEF Removed, TextStands
<1>5. CASE Ignored(m, d)
  BY <1>t, <1>5 DEF Ignored, TextStands, Exists
<1> QED
  BY <1>1, <1>2, <1>3, <1>4, <1>5, Effects

(* The rows after a projection. *)
LEMMA ProjectedRows ==
  ASSUME RowsInv, NEW m \in Mutations, NEW d, Projected(m, d)
  PROVE  RowsInv'
<1>t. /\ shape \in Shapes /\ taken \subseteq Mutations /\ receipt \in BOOLEAN
      /\ requests \in 0 .. MaxRequests /\ Owned /\ ShownIsApplied
  BY DEF RowsInv, RowsAre
<1>1. RowsAre'
  BY <1>t, Effects, Marks DEF RowsAre, Projected
<1>2. NothingBefore' /\ TextStands'
  BY Shows DEF NothingBefore, Exists
<1>3. Owned'
  <2> SUFFICES ASSUME NEW o \in Mutations
               PROVE  /\ mutation'[o].state = "absent" => command'[o].state = "none"
                      /\ command'[o].state = "done" => mutation'[o].state = "applied"
                      /\ command'[o].state \in {"queued", "processing", "uncertain"} =>
                            mutation'[o].state = "pending"
                      /\ command'[o].state \in {"dead", "cancelled"} =>
                            mutation'[o].state = "failed"
    BY DEF Owned
  <2>1. CASE o = m
    BY <2>1, Marks
  <2>2. CASE o # m
    <3>1. mutation'[o] = mutation[o] /\ command'[o].state = command[o].state
      BY <2>2, Marks
    <3> QED
      BY <1>t, <3>1 DEF Owned
  <2> QED
    BY <2>1, <2>2
<1>4. ShownIsApplied'
  <2> SUFFICES ASSUME NEW o \in Mutations,
                      message'.text = o \/ \E s \in Sides : message'.reaction[s] = o
               PROVE  mutation'[o].state = "applied"
    BY DEF ShownIsApplied
  <2>1. CASE o = m
    BY <2>1, Marks
  <2>2. CASE o # m
    <3>1. mutation'[o] = mutation[o]
      BY <2>2, Marks
    <3>2. message.text = o \/ \E s \in Sides : message.reaction[s] = o
      <4>1. CASE message'.text = o
        BY <2>2, <4>1, Shows, Signs
      <4>2. ASSUME NEW s \in Sides, message'.reaction[s] = o
            PROVE  message.reaction[s] = o
        BY <2>2, <4>2, Shows, Signs
      <4> QED
        BY <4>1, <4>2
    <3> QED
      BY <1>t, <3>1, <3>2 DEF ShownIsApplied
  <2> QED
    BY <2>1, <2>2
<1>5. SeenIsNow'
  BY Marks DEF SeenIsNow
<1> QED
  BY <1>1, <1>2, <1>3, <1>4, <1>5 DEF RowsInv

(* The rows after a step of a command. *)
LEMMA CommandedRows ==
  ASSUME RowsInv, NEW m \in Mutations, Commanded(m)
  PROVE  RowsInv'
<1>t. /\ RowsAre /\ Owned /\ SeenIsNow /\ ShownIsApplied /\ TextStands /\ NothingBefore
  BY DEF RowsInv
<1>1. PICK row \in MutationRows, c \in CommandRows :
         /\ mutation' = [mutation EXCEPT ![m] = row]
         /\ command' = [command EXCEPT ![m] = c]
         /\ c.seen \subseteq {Now} /\ (c.state # "processing" => c.seen = {})
         /\ \/ c.state \in {"queued", "processing", "uncertain"} /\ row.state = "pending"
            \/ c.state \in {"dead", "cancelled"} /\ row.state = "failed"
  BY DEF Commanded
<1>2. /\ mutation'[m] = row /\ command'[m] = c
      /\ \A o \in Mutations : o # m => mutation'[o] = mutation[o] /\ command'[o] = command[o]
      /\ mutation' \in [Mutations -> MutationRows] /\ command' \in [Mutations -> CommandRows]
  BY <1>t, <1>1 DEF RowsAre
<1>3. RowsAre'
  BY <1>t, <1>2 DEF RowsAre, Commanded
<1>4. NothingBefore' /\ TextStands'
  BY <1>t DEF Commanded, NothingBefore, Exists, TextStands
<1>5. Owned'
  BY <1>t, <1>1, <1>2 DEF Owned
<1>6. ShownIsApplied'
  <2> SUFFICES ASSUME NEW o \in Mutations,
                      message'.text = o \/ \E s \in Sides : message'.reaction[s] = o
               PROVE  mutation'[o].state = "applied"
    BY DEF ShownIsApplied
  <2>1. mutation[o].state = "applied"
    BY <1>t DEF Commanded, ShownIsApplied
  <2>2. o # m
    BY <2>1 DEF Commanded
  <2> QED
    BY <1>2, <2>1, <2>2
<1>7. SeenIsNow'
  <2>1. Applied' = Applied
    BY <1>1, <1>2 DEF Commanded, Applied
  <2>2. Now' = Now
    BY <2>1 DEF Commanded, Now
  <2> QED
    BY <1>t, <1>1, <1>2, <2>2 DEF SeenIsNow
<1> QED
  BY <1>3, <1>4, <1>5, <1>6, <1>7 DEF RowsInv

-----------------------------------------------------------------------------
(* Jobs *)

(* The forms a job takes; what ages one that runs only adds to what it misses. *)
LEMMA JobForms ==
  ASSUME NEW j \in Jobs, NEW rows \in SUBSET {"binding", "media", "text"}
  PROVE  /\ Idle \in Jobs /\ Idle.phase = "none" /\ Queued \in Jobs /\ Queued.phase = "queued"
         /\ Again(j) \in Jobs /\ Again(j).phase = "queued" /\ Again(j).tries = j.tries
         /\ Run(j) \in Jobs /\ Run(j).phase = "running"
         /\ Aged(j, rows) \in Jobs /\ Aged(j, rows).phase = j.phase
         /\ j.stale \subseteq Aged(j, rows).stale
         /\ j.phase = "running" => rows \subseteq Aged(j, rows).stale
<1>1. /\ j.phase \in {"none", "queued", "running", "failed"} /\ j.tries \in 0 .. MaxAttempts
      /\ j.stale \subseteq {"binding", "media", "text"} /\ 0 \in 0 .. MaxAttempts
  BY Signs DEF Jobs
<1>2. Idle \in Jobs /\ Idle.phase = "none" /\ Queued \in Jobs /\ Queued.phase = "queued"
  BY <1>1 DEF Idle, Queued, Jobs
<1>3. /\ Again(j) \in Jobs /\ Again(j).phase = "queued" /\ Again(j).tries = j.tries
      /\ Run(j) \in Jobs /\ Run(j).phase = "running"
  BY <1>1 DEF Again, Run, Jobs
<1>4. CASE j.phase = "running"
  <2> DEFINE u == j.stale \cup rows
  <2>1. u \subseteq {"binding", "media", "text"} /\ j.stale \subseteq u /\ rows \subseteq u
    BY <1>1
  <2>2. Aged(j, rows) = [j EXCEPT !.stale = u]
    BY <1>4 DEF Aged
  <2> HIDE DEF u
  <2>3. /\ Aged(j, rows) \in Jobs /\ Aged(j, rows).phase = j.phase
        /\ Aged(j, rows).stale = u
    BY <2>1, <2>2 DEF Jobs
  <2> QED
    BY <1>2, <1>3, <2>1, <2>3
<1>5. CASE j.phase # "running"
  BY <1>2, <1>3, <1>5 DEF Aged
<1> QED
  BY <1>4, <1>5

(* Aging keeps the jobs' types and phases. *)
LEMMA Ages ==
  ASSUME JobsAre, NEW rows \in SUBSET {"binding", "media", "text"}, Age(rows)
  PROVE  /\ JobsAre'
         /\ download'.phase = download.phase /\ transcribe'.phase = transcribe.phase
         /\ download.stale \subseteq download'.stale
         /\ transcribe.stale \subseteq transcribe'.stale
<1> DEFINE r == rows \cap {"binding", "media"}
           t == rows \cap {"text"}
<1>1. r \in SUBSET {"binding", "media", "text"} /\ t \in SUBSET {"binding", "media", "text"}
  OBVIOUS
<1>2. /\ download' = Aged(download, r) /\ transcribe' = Aged(transcribe, r)
      /\ preview' = [x \in Texts |-> Aged(preview[x], t)]
  BY DEF Age, AgePreviews
<1> HIDE DEF r, t
<1>3. \A x \in Texts : Aged(preview[x], t) \in Jobs
  BY <1>1, JobForms DEF JobsAre
<1> QED
  BY <1>1, <1>2, <1>3, JobForms DEF JobsAre

(* What a job does leaves the mutations alone, and of the message it changes the
   previews at most, of the text that is shown.                                    *)
Rested ==
    /\ UNCHANGED <<shape, mutation, command, taken, receipt>>
    /\ requests' \in 0 .. MaxRequests
    /\ message' \in MessageRows /\ media' \in MediaRows /\ JobsAre'
    /\ message'.state = message.state /\ message'.mode = message.mode
    /\ message'.text = message.text /\ message'.original = message.original
    /\ message'.kept = message.kept /\ message'.deletedAt = message.deletedAt
    /\ message'.reaction = message.reaction
    /\ (message'.links = message.links \/ (~Deleted /\ message'.links = message.text))

(* Previews leave the media and their jobs alone. *)
LEMMA Previews ==
  ASSUME RowsInv, JobsAre,
         AskPreview \/ \E t \in Texts : BeginPreview(t) \/ StorePreview(t) \/ RestartPreview(t)
  PROVE  Rested /\ UNCHANGED <<media, download, transcribe>>
<1>t. /\ message \in MessageRows /\ media \in MediaRows /\ requests \in 0 .. MaxRequests
      /\ download \in Jobs /\ transcribe \in Jobs /\ preview \in [Texts -> Jobs]
      /\ MaxRequests \in Nat
  BY Signs DEF RowsInv, RowsAre, JobsAre
<1>j. Idle \in Jobs /\ Queued \in Jobs
  BY <1>t, JobForms
<1>1. CASE AskPreview
  <2>1. message.text \in Texts => preview' \in [Texts -> Jobs]
    BY <1>t, <1>j, <1>1 DEF AskPreview
  <2>2. preview' \in [Texts -> Jobs]
    BY <1>t, <1>j, <1>1 DEF AskPreview
  <2>3. requests' \in 0 .. MaxRequests
    BY <1>t, <1>1 DEF AskPreview
  <2> QED
    BY <1>t, <1>1, <2>2, <2>3 DEF AskPreview, Rested, Rest, JobsAre
<1>2. ASSUME NEW t \in Texts, BeginPreview(t) \/ RestartPreview(t)
      PROVE  Rested /\ UNCHANGED <<media, download, transcribe>>
  <2>1. Run(preview[t]) \in Jobs /\ Again(preview[t]) \in Jobs
    BY <1>t, JobForms
  <2>2. PICK j \in Jobs : preview' = [preview EXCEPT ![t] = j]
    BY <1>2, <1>j, <2>1 DEF BeginPreview, RestartPreview
  <2>3. preview' \in [Texts -> Jobs]
    BY <1>t, <2>2
  <2> QED
    BY <1>t, <1>2, <2>3 DEF BeginPreview, RestartPreview, Rested, Rest, JobsAre
<1>3. ASSUME NEW t \in Texts, StorePreview(t)
      PROVE  Rested /\ UNCHANGED <<media, download, transcribe>>
  <2>1. \A o \in Texts : Aged(preview[o], {"text"}) \in Jobs
    BY <1>t, JobForms
  <2>2. preview' \in [Texts -> Jobs]
    BY <1>3, <1>j, <2>1 DEF StorePreview
  <2>3. message' = [message EXCEPT !.links = t, !.previewed = t] /\ ~Deleted /\ message.text = t
    BY <1>3 DEF StorePreview, StoredFresh, Previewable
  <2>4. /\ message' \in MessageRows /\ message'.state = message.state
        /\ message'.mode = message.mode /\ message'.text = message.text
        /\ message'.original = message.original /\ message'.kept = message.kept
        /\ message'.deletedAt = message.deletedAt /\ message'.reaction = message.reaction
        /\ message'.links = t
    BY <1>t, <1>3, <2>3 DEF MessageRows
  <2> QED
    BY <1>t, <1>3, <2>2, <2>3, <2>4 DEF StorePreview, Rested, Rest, JobsAre
<1> QED
  BY <1>1, <1>2, <1>3

-----------------------------------------------------------------------------
(* The media *)

(* A message that is hidden has no content left, and a job under way that read it
   before does not know what it wrote, and so cannot write; a transcription under
   way that may still write is of media that are there, and misses the binding once
   the message is deleted.                                                         *)
LateJobs ==
    /\ (Hidden /\ download.phase = "running") => "media" \in download.stale
    /\ (Deleted /\ transcribe.phase = "running") => "binding" \in transcribe.stale
    /\ transcribe.phase = "running" =>
          ("media" \in transcribe.stale \/ (~Hidden /\ media.state # "none"))
    /\ media.state = "none" => (~media.file /\ ~media.transcript)

MediaInv == LateJobs /\ HiddenStaysHidden

(* A row of the media with another state, file or transcription is a row. *)
LEMMA MediaForms ==
  ASSUME NEW x \in MediaRows,
         NEW s \in {"none", "pending", "ready", "failed", "discarded"}, NEW f \in BOOLEAN,
         NEW p \in {"idle", "pending", "done", "failed", "skipped"}, NEW b \in BOOLEAN
  PROVE  /\ [x EXCEPT !.state = s] \in MediaRows /\ [x EXCEPT !.state = s].state = s
         /\ [x EXCEPT !.state = s].file = x.file
         /\ [x EXCEPT !.state = s].transcript = x.transcript
         /\ [x EXCEPT !.state = s, !.file = f] \in MediaRows
         /\ [x EXCEPT !.state = s, !.file = f].state = s
         /\ [x EXCEPT !.speech = p] \in MediaRows /\ [x EXCEPT !.speech = p].state = x.state
         /\ [x EXCEPT !.speech = p].file = x.file
         /\ [x EXCEPT !.speech = p].transcript = x.transcript
         /\ [x EXCEPT !.speech = p, !.transcript = b] \in MediaRows
         /\ [x EXCEPT !.speech = p, !.transcript = b].state = x.state
         /\ [x EXCEPT !.speech = p, !.transcript = b].file = x.file
BY DEF MediaRows

(* A download cannot bring back what is hidden. *)
LEMMA Downloads ==
  ASSUME RowsInv, JobsAre, MediaInv,
         BeginDownload \/ StoreFile \/ FailDownload \/ RetryDownload \/ AskDownload
  PROVE  Rested /\ MediaInv' /\ message' = message
<1>t. /\ message \in MessageRows /\ media \in MediaRows /\ requests \in 0 .. MaxRequests
      /\ download \in Jobs /\ transcribe \in Jobs /\ preview \in [Texts -> Jobs]
      /\ MaxRequests \in Nat /\ MaxAttempts \in Nat
  BY Signs DEF RowsInv, RowsAre, JobsAre
<1>j. /\ Idle \in Jobs /\ Idle.phase = "none" /\ Queued \in Jobs /\ Queued.phase = "queued"
      /\ Run(download) \in Jobs /\ Run(download).phase = "running"
      /\ Again(download) \in Jobs /\ Again(download).phase = "queued"
      /\ Again(download).tries = download.tries
  BY <1>t, JobForms
<1>i. LateJobs /\ HiddenStaysHidden
  BY DEF MediaInv
<1>h. ASSUME message' = message
      PROVE  (Hidden' <=> Hidden) /\ (Deleted' <=> Deleted)
  BY <1>h DEF Hidden, Deleted
<1>1. CASE BeginDownload
  <2> DEFINE x == [media EXCEPT !.state = "discarded"]
  <2>1. /\ x \in MediaRows /\ x.state = "discarded" /\ x.file = media.file
        /\ x.transcript = media.transcript
    BY <1>t, MediaForms
  <2>2. /\ message' = message /\ transcribe' = transcribe /\ preview' = preview
        /\ requests' = requests
        /\ \/ download' = Idle /\ media' = media
           \/ download' = Idle /\ Hidden /\ media' = x
           \/ download' = Run(download) /\ ~Hidden /\ media' = media
    BY <1>1 DEF BeginDownload
  <2> HIDE DEF x
  <2>3. Rested
    BY <1>t, <1>j, <1>1, <2>1, <2>2 DEF BeginDownload, Rested, Rest, JobsAre
  <2>4. LateJobs'
    BY <1>i, <1>h, <1>j, <2>1, <2>2 DEF LateJobs
  <2>5. HiddenStaysHidden'
    BY <1>i, <1>h, <2>1, <2>2 DEF HiddenStaysHidden
  <2> QED
    BY <2>2, <2>3, <2>4, <2>5 DEF MediaInv
<1>2. CASE StoreFile
  <2> DEFINE x == [media EXCEPT !.state = "ready", !.file = TRUE]
             y == Asked(x)
  <2>1. x \in MediaRows /\ x.state = "ready"
    BY <1>t, MediaForms
  <2>2. /\ message' = message /\ download' = Idle /\ preview' = preview
        /\ requests' = requests
        /\ \/ media' = x /\ transcribe' = transcribe
           \/ media' = y /\ transcribe' = Queued
        /\ download.phase = "running" /\ "media" \notin download.stale
    BY <1>2 DEF StoreFile, Storable, Fresh
  <2> HIDE DEF x
  <2>3. y \in MediaRows /\ y.state = "ready"
    BY <2>1, MediaForms DEF Asked
  <2> HIDE DEF y
  <2>4. ~Hidden
    BY <1>i, <2>2 DEF LateJobs
  <2>5. Rested
    BY <1>t, <1>j, <1>2, <2>1, <2>2, <2>3 DEF StoreFile, Rested, Rest, JobsAre
  <2>6. LateJobs'
    BY <1>i, <1>h, <1>j, <2>1, <2>2, <2>3, <2>4 DEF LateJobs
  <2>7. HiddenStaysHidden'
    BY <1>h, <2>2, <2>4 DEF HiddenStaysHidden
  <2> QED
    BY <2>2, <2>5, <2>6, <2>7 DEF MediaInv
<1>3. CASE FailDownload
  <2> DEFINE x == [media EXCEPT !.state = "failed"]
  <2>1. x \in MediaRows /\ x.state = "failed"
    BY <1>t, MediaForms
  <2>2. /\ message' = message /\ download' = Idle /\ preview' = preview
        /\ requests' = requests /\ media' = x /\ transcribe' = transcribe
        /\ download.phase = "running" /\ "media" \notin download.stale
    BY <1>3 DEF FailDownload, Fresh
  <2> HIDE DEF x
  <2>4. ~Hidden
    BY <1>i, <2>2 DEF LateJobs
  <2>5. Rested
    BY <1>t, <1>j, <1>3, <2>1, <2>2 DEF FailDownload, Rested, Rest, JobsAre
  <2>6. LateJobs'
    BY <1>i, <1>h, <1>j, <2>1, <2>2, <2>4 DEF LateJobs
  <2>7. HiddenStaysHidden'
    BY <1>h, <2>2, <2>4 DEF HiddenStaysHidden
  <2> QED
    BY <2>2, <2>5, <2>6, <2>7 DEF MediaInv
<1>4. CASE RetryDownload
  <2>1. download' \in Jobs /\ download'.phase = "queued"
    <3>1. CASE download' = Again(download)
      BY <1>j, <3>1
    <3>2. CASE /\ download.tries + 1 < MaxAttempts
               /\ download' = [Again(download) EXCEPT !.tries = @ + 1]
      <4> DEFINE a == Again(download)
                 n == a.tries + 1
      <4>1. n \in 0 .. MaxAttempts
        BY <1>t, <1>j, <3>2 DEF Jobs
      <4>2. a \in Jobs /\ a.phase = "queued" /\ download' = [a EXCEPT !.tries = n]
        BY <1>j, <3>2
      <4> HIDE DEF a, n
      <4> QED
        BY <4>1, <4>2 DEF Jobs
    <3> QED
      BY <1>4, <3>1, <3>2 DEF RetryDownload
  <2>2. /\ message' = message /\ media' = media /\ transcribe' = transcribe
        /\ preview' = preview /\ requests' = requests
    BY <1>4 DEF RetryDownload
  <2>3. Rested
    BY <1>t, <1>4, <2>1, <2>2 DEF RetryDownload, Rested, Rest, JobsAre
  <2>4. LateJobs'
    BY <1>i, <1>h, <2>1, <2>2 DEF LateJobs
  <2>5. HiddenStaysHidden'
    BY <1>i, <1>h, <2>2 DEF HiddenStaysHidden
  <2> QED
    BY <2>2, <2>3, <2>4, <2>5 DEF MediaInv
<1>5. CASE AskDownload
  <2> DEFINE x == [media EXCEPT !.state = "pending"]
  <2>1. x \in MediaRows /\ x.state = "pending"
    BY <1>t, MediaForms
  <2>2. /\ message' = message /\ download' = Queued /\ preview' = preview
        /\ media' = x /\ transcribe' = transcribe /\ media.state = "failed"
    BY <1>5 DEF AskDownload
  <2>3. requests' \in 0 .. MaxRequests
    BY <1>t, <1>5 DEF AskDownload
  <2> HIDE DEF x
  <2>4. ~Hidden
    BY <1>i, <2>2 DEF HiddenStaysHidden
  <2>5. Rested
    BY <1>t, <1>j, <1>5, <2>1, <2>2, <2>3 DEF AskDownload, Rested, Rest, JobsAre
  <2>6. LateJobs'
    BY <1>i, <1>h, <1>j, <2>1, <2>2, <2>4 DEF LateJobs
  <2>7. HiddenStaysHidden'
    BY <1>h, <2>2, <2>4 DEF HiddenStaysHidden
  <2> QED
    BY <2>2, <2>5, <2>6, <2>7 DEF MediaInv
<1> QED
  BY <1>1, <1>2, <1>3, <1>4, <1>5

(* A transcription cannot bring back what is hidden. *)
LEMMA Transcriptions ==
  ASSUME RowsInv, JobsAre, MediaInv,
         \/ AskTranscript \/ BeginTranscribe \/ StoreTranscript
         \/ FailTranscript \/ RetryTranscript
  PROVE  Rested /\ MediaInv' /\ message' = message
<1>t. /\ message \in MessageRows /\ media \in MediaRows /\ requests \in 0 .. MaxRequests
      /\ download \in Jobs /\ transcribe \in Jobs /\ preview \in [Texts -> Jobs]
      /\ MaxRequests \in Nat /\ MaxAttempts \in Nat
  BY Signs DEF RowsInv, RowsAre, JobsAre
<1>j. /\ Idle \in Jobs /\ Idle.phase = "none" /\ Queued \in Jobs /\ Queued.phase = "queued"
      /\ Run(transcribe) \in Jobs /\ Run(transcribe).phase = "running"
      /\ Again(transcribe) \in Jobs /\ Again(transcribe).phase = "queued"
      /\ Again(transcribe).tries = transcribe.tries
  BY <1>t, JobForms
<1>i. LateJobs /\ HiddenStaysHidden
  BY DEF MediaInv
<1>h. ASSUME message' = message
      PROVE  (Hidden' <=> Hidden) /\ (Deleted' <=> Deleted)
  BY <1>h DEF Hidden, Deleted
<1>e. ASSUME Eligible(message, media)
      PROVE  ~Deleted /\ ~Hidden /\ media.state = "ready"
  BY <1>e DEF Eligible, Hidden, Deleted
<1>1. CASE AskTranscript
  <2> DEFINE x == Asked(media)
  <2>1. x \in MediaRows /\ x.state = media.state
    BY <1>t, MediaForms DEF Asked
  <2>2. /\ message' = message /\ transcribe' = Queued /\ preview' = preview
        /\ media' = x /\ download' = download
    BY <1>1 DEF AskTranscript
  <2>3. requests' \in 0 .. MaxRequests
    BY <1>t, <1>1 DEF AskTranscript
  <2> HIDE DEF x
  <2>4. ~Hidden /\ media.state = "ready"
    BY <1>1, <1>e DEF AskTranscript
  <2>5. Rested
    BY <1>t, <1>j, <1>1, <2>1, <2>2, <2>3 DEF AskTranscript, Rested, Rest, JobsAre
  <2>6. LateJobs'
    BY <1>i, <1>h, <1>j, <2>1, <2>2, <2>4 DEF LateJobs
  <2>7. HiddenStaysHidden'
    BY <1>h, <2>2, <2>4 DEF HiddenStaysHidden
  <2> QED
    BY <2>2, <2>5, <2>6, <2>7 DEF MediaInv
<1>2. CASE BeginTranscribe
  <2> DEFINE x == [media EXCEPT !.speech = "skipped"]
  <2>1. /\ x \in MediaRows /\ x.state = media.state /\ x.file = media.file
        /\ x.transcript = media.transcript
    BY <1>t, MediaForms
  <2>2. /\ message' = message /\ download' = download /\ preview' = preview
        /\ requests' = requests
        /\ \/ transcribe' = Idle /\ media' = media
           \/ transcribe' = Idle /\ media' = x
           \/ transcribe' = Run(transcribe) /\ Eligible(message, media) /\ media' = media
    BY <1>2 DEF BeginTranscribe
  <2> HIDE DEF x
  <2>3. Rested
    BY <1>t, <1>j, <1>2, <2>1, <2>2 DEF BeginTranscribe, Rested, Rest, JobsAre
  <2>4. LateJobs'
    BY <1>i, <1>h, <1>j, <1>e, <2>1, <2>2 DEF LateJobs
  <2>5. HiddenStaysHidden'
    BY <1>i, <1>h, <2>1, <2>2 DEF HiddenStaysHidden
  <2> QED
    BY <2>2, <2>3, <2>4, <2>5 DEF MediaInv
<1>3. CASE StoreTranscript
  <2> DEFINE x == [media EXCEPT !.speech = "done", !.transcript = TRUE]
  <2>1. x \in MediaRows /\ x.state = media.state
    BY <1>t, MediaForms
  <2>2. /\ message' = message /\ download' = download /\ preview' = preview
        /\ requests' = requests /\ media' = x /\ transcribe' = Idle
        /\ transcribe.phase = "running" /\ "media" \notin transcribe.stale
    BY <1>3 DEF StoreTranscript, Fresh
  <2> HIDE DEF x
  <2>4. ~Hidden /\ media.state # "none"
    BY <1>i, <2>2 DEF LateJobs
  <2>5. Rested
    BY <1>t, <1>j, <1>3, <2>1, <2>2 DEF StoreTranscript, Rested, Rest, JobsAre
  <2>6. LateJobs'
    BY <1>i, <1>h, <1>j, <2>1, <2>2, <2>4 DEF LateJobs
  <2>7. HiddenStaysHidden'
    BY <1>h, <2>2, <2>4 DEF HiddenStaysHidden
  <2> QED
    BY <2>2, <2>5, <2>6, <2>7 DEF MediaInv
<1>4. CASE FailTranscript
  <2> DEFINE x == [media EXCEPT !.speech = "failed"]
  <2>1. x \in MediaRows /\ x.state = media.state
    BY <1>t, MediaForms
  <2>2. /\ message' = message /\ download' = download /\ preview' = preview
        /\ requests' = requests /\ media' = x /\ transcribe' = Idle
        /\ transcribe.phase = "running" /\ "media" \notin transcribe.stale
    BY <1>4 DEF FailTranscript, Fresh
  <2> HIDE DEF x
  <2>4. ~Hidden /\ media.state # "none"
    BY <1>i, <2>2 DEF LateJobs
  <2>5. Rested
    BY <1>t, <1>j, <1>4, <2>1, <2>2 DEF FailTranscript, Rested, Rest, JobsAre
  <2>6. LateJobs'
    BY <1>i, <1>h, <1>j, <2>1, <2>2, <2>4 DEF LateJobs
  <2>7. HiddenStaysHidden'
    BY <1>h, <2>2, <2>4 DEF HiddenStaysHidden
  <2> QED
    BY <2>2, <2>5, <2>6, <2>7 DEF MediaInv
<1>5. CASE RetryTranscript
  <2>1. transcribe' \in Jobs /\ transcribe'.phase # "running"
    <3>1. CASE transcribe' = Again(transcribe)
      BY <1>j, <3>1
    <3>2. CASE /\ transcribe.tries + 1 < MaxAttempts
               /\ transcribe' = [Again(transcribe) EXCEPT !.tries = @ + 1]
      <4> DEFINE a == Again(transcribe)
                 n == a.tries + 1
      <4>1. n \in 0 .. MaxAttempts
        BY <1>t, <1>j, <3>2 DEF Jobs
      <4>2. a \in Jobs /\ a.phase = "queued" /\ transcribe' = [a EXCEPT !.tries = n]
        BY <1>j, <3>2
      <4> HIDE DEF a, n
      <4> QED
        BY <4>1, <4>2 DEF Jobs
    <3>3. CASE transcribe' = [Idle EXCEPT !.phase = "failed"]
      BY <1>j, <3>3 DEF Jobs
    <3> QED
      BY <1>5, <3>1, <3>2, <3>3 DEF RetryTranscript
  <2>2. /\ message' = message /\ media' = media /\ download' = download
        /\ preview' = preview /\ requests' = requests
    BY <1>5 DEF RetryTranscript
  <2>3. Rested
    BY <1>t, <1>5, <2>1, <2>2 DEF RetryTranscript, Rested, Rest, JobsAre
  <2>4. LateJobs'
    BY <1>i, <1>h, <2>1, <2>2 DEF LateJobs
  <2>5. HiddenStaysHidden'
    BY <1>i, <1>h, <2>2 DEF HiddenStaysHidden
  <2> QED
    BY <2>2, <2>3, <2>4, <2>5 DEF MediaInv
<1> QED
  BY <1>1, <1>2, <1>3, <1>4, <1>5

(* The rows after a step of a job. *)
LEMMA RestedRows ==
  ASSUME RowsInv, Rested
  PROVE  RowsInv'
<1>1. RowsAre'
  BY DEF RowsInv, RowsAre, Rested
<1>2. TextStands' /\ NothingBefore'
  BY DEF RowsInv, Rested, TextStands, NothingBefore, Exists
<1>3. Owned'
  BY DEF RowsInv, Rested, Owned
<1>4. ShownIsApplied'
  BY DEF RowsInv, Rested, ShownIsApplied
<1>5. SeenIsNow'
  <2>1. Now' = Now
    BY DEF Rested, Now, Applied
  <2> QED
    BY <2>1 DEF RowsInv, Rested, SeenIsNow
<1> QED
  BY <1>1, <1>2, <1>3, <1>4, <1>5 DEF RowsInv

(* Previews write nothing under a message that is hidden. *)
LEMMA PreviewsRest ==
  ASSUME Rested, UNCHANGED <<media, download, transcribe>>, MediaInv
  PROVE  MediaInv'
<1>1. (Hidden' <=> Hidden) /\ (Deleted' <=> Deleted)
  BY DEF Rested, Hidden, Deleted
<1>2. LateJobs'
  BY <1>1 DEF MediaInv, LateJobs
<1>3. HiddenStaysHidden'
  BY <1>1 DEF MediaInv, HiddenStaysHidden, Rested, Hidden
<1> QED
  BY <1>2, <1>3 DEF MediaInv

(* What is said of a deleted message is not written: not what it says, and not the
   transcript of its media.                                                        *)
Silent ==
    /\ message' = message /\ media'.transcript = media.transcript
    /\ media'.speech \in {media.speech, "skipped", "failed"}

(* Jobs under a deletion are silent: those that would write were aged by it. *)
LEMMA Silence ==
  ASSUME RowsInv, MediaInv, Deleted,
         \/ BeginDownload \/ StoreFile \/ FailDownload \/ RetryDownload \/ AskDownload
         \/ AskTranscript \/ BeginTranscribe \/ StoreTranscript
         \/ FailTranscript \/ RetryTranscript
         \/ AskPreview \/ \E t \in Texts : BeginPreview(t) \/ StorePreview(t) \/ RestartPreview(t)
  PROVE  Silent
<1>t. media \in MediaRows
  BY DEF RowsInv, RowsAre
<1>1. ASSUME UNCHANGED <<message, media>>
      PROVE  Silent
  BY <1>1 DEF Silent
<1>2. ASSUME message' = message, NEW s, NEW f,
             media' = [media EXCEPT !.state = s] \/ media' = [media EXCEPT !.state = s, !.file = f]
      PROVE  Silent
  BY <1>t, <1>2 DEF Silent, MediaRows
<1>3. ASSUME message' = message, NEW p \in {"skipped", "failed"},
             media' = [media EXCEPT !.speech = p]
      PROVE  Silent
  BY <1>t, <1>3 DEF Silent, MediaRows
<1>e. ASSUME NEW x PROVE ~Eligible(message, x)
  BY DEF Eligible, Deleted
<1>4. CASE BeginDownload
  <2>1. /\ message' = message
        /\ media' = media \/ media' = [media EXCEPT !.state = "discarded"]
    BY <1>4 DEF BeginDownload
  <2> QED
    BY <1>1, <1>2, <2>1
<1>5. CASE StoreFile
  <2>1. message' = message /\ media' = [media EXCEPT !.state = "ready", !.file = TRUE]
    BY <1>5, <1>e DEF StoreFile
  <2> QED
    BY <1>2, <2>1
<1>6. CASE FailDownload
  BY <1>2, <1>6 DEF FailDownload
<1>7. CASE AskDownload
  BY <1>2, <1>7 DEF AskDownload
<1>8. CASE RetryDownload \/ RetryTranscript
  BY <1>1, <1>8 DEF RetryDownload, RetryTranscript
<1>9. CASE AskTranscript
  BY <1>9, <1>e DEF AskTranscript
<1>10. CASE BeginTranscribe
  <2>1. /\ message' = message
        /\ media' = media \/ media' = [media EXCEPT !.speech = "skipped"]
    BY <1>10, <1>e DEF BeginTranscribe
  <2> QED
    BY <1>1, <1>3, <2>1
<1>11. CASE StoreTranscript
  BY <1>11 DEF StoreTranscript, Fresh, MediaInv, LateJobs
<1>12. CASE FailTranscript
  BY <1>3, <1>12 DEF FailTranscript
<1>13. CASE AskPreview \/ \E t \in Texts : BeginPreview(t) \/ RestartPreview(t)
  BY <1>1, <1>13 DEF AskPreview, BeginPreview, RestartPreview
<1>14. CASE \E t \in Texts : StorePreview(t)
  BY <1>14 DEF StorePreview, StoredFresh, Previewable
<1> QED
  BY <1>4, <1>5, <1>6, <1>7, <1>8, <1>9, <1>10, <1>11, <1>12, <1>13, <1>14

(* A projection that hides the message takes its content away. *)
LEMMA ProjectedMedia ==
  ASSUME RowsInv, JobsAre, MediaInv, NEW m \in Mutations, NEW d, Projected(m, d)
  PROVE  MediaInv' /\ JobsAre'
<1>t. message \in MessageRows /\ media \in MediaRows
  BY DEF RowsInv, RowsAre
<1>i. LateJobs /\ HiddenStaysHidden
  BY DEF MediaInv
<1>a. PICK rows \in SUBSET {"binding", "media", "text"} : Age(rows)
  BY Effects
<1>j. /\ JobsAre'
      /\ download'.phase = download.phase /\ transcribe'.phase = transcribe.phase
      /\ download.stale \subseteq download'.stale
      /\ transcribe.stale \subseteq transcribe'.stale
  BY <1>a, Ages
<1>1. ASSUME Hidden' <=> Hidden, UNCHANGED media,
             (Deleted' /\ transcribe.phase = "running") => "binding" \in transcribe'.stale,
             Hidden => /\ message'.text = message.text /\ message'.original = message.original
                       /\ message'.kept = message.kept /\ message'.links = message.links
                       /\ message'.reaction = message.reaction
      PROVE  MediaInv'
  <2>1. LateJobs'
    BY <1>i, <1>j, <1>1 DEF LateJobs
  <2>2. HiddenStaysHidden'
    BY <1>i, <1>1 DEF HiddenStaysHidden
  <2> QED
    BY <2>1, <2>2 DEF MediaInv
<1>k. Deleted => (transcribe.phase = "running" => "binding" \in transcribe'.stale)
  BY <1>i, <1>j DEF LateJobs
<1>2. CASE Reacted(m, d)
  <2> DEFINE r == [message.reaction EXCEPT ![d.side] = IF d.add THEN m ELSE None]
  <2>1. message' = [message EXCEPT !.reaction = r] /\ UNCHANGED media /\ ~Deleted
    BY <1>2 DEF Reacted
  <2> HIDE DEF r
  <2>2. message'.state = message.state
    BY <1>t, <2>1 DEF MessageRows
  <2> QED
    BY <1>1, <1>j, <1>k, <2>1, <2>2 DEF Hidden, Deleted
<1>3. CASE Edited(m, d)
  BY <1>1, <1>3, <1>j DEF Edited, Hidden, Deleted
<1>4. CASE Redated(d)
  <2>1. /\ message'.state = message.state /\ message'.mode = message.mode
        /\ message'.text = message.text /\ message'.original = message.original
        /\ message'.kept = message.kept /\ message'.links = message.links
        /\ message'.reaction = message.reaction /\ UNCHANGED media
    BY <1>t, <1>4 DEF Redated, MessageRows
  <2> QED
    BY <1>1, <1>j, <1>k, <2>1 DEF Hidden, Deleted
<1>5. CASE Removed(d)
  <2>1. CASE d.mode = "strike" /\ UNCHANGED media /\ Age({"binding", "text"})
    <3>1. transcribe.phase = "running" => "binding" \in transcribe'.stale
      <4> DEFINE w == {"binding"}
      <4>1. w \in SUBSET {"binding", "media", "text"} /\ transcribe' = Aged(transcribe, w)
        <5>1. {"binding", "text"} \cap {"binding", "media"} = w
          OBVIOUS
        <5> QED
          BY <2>1, <5>1 DEF Age
      <4>2. "binding" \in w
        OBVIOUS
      <4> HIDE DEF w
      <4> QED
        BY <4>1, <4>2, JobForms DEF JobsAre
    <3> QED
      BY <1>1, <1>5, <1>j, <2>1, <3>1 DEF Removed, Hidden, Deleted
  <2>2. CASE /\ d.mode = "redact" /\ media' = Discarded(media)
             /\ message'.kept = None /\ message'.original = None /\ message'.links = None
             /\ message'.reaction = [s \in Sides |-> None]
             /\ Age({"binding", "text", "media"})
    <3>1. /\ media'.state \in {"none", "discarded"} /\ ~media'.file /\ ~media'.transcript
      BY <1>t, <1>i, <2>2 DEF Discarded, MediaRows, LateJobs
    <3>2. /\ download.phase = "running" => "media" \in download'.stale
          /\ transcribe.phase = "running" => {"binding", "media"} \subseteq transcribe'.stale
      <4> DEFINE w == {"binding", "media"}
      <4>1. w \in SUBSET {"binding", "media", "text"}
            /\ download' = Aged(download, w) /\ transcribe' = Aged(transcribe, w)
        <5>1. {"binding", "text", "media"} \cap {"binding", "media"} = w
          OBVIOUS
        <5> QED
          BY <2>2, <5>1 DEF Age
      <4>2. "media" \in w /\ {"binding", "media"} = w
        OBVIOUS
      <4> HIDE DEF w
      <4> QED
        BY <4>1, <4>2, JobForms DEF JobsAre
    <3>3. LateJobs'
      BY <1>j, <3>1, <3>2 DEF LateJobs
    <3>4. HiddenStaysHidden'
      BY <1>5, <2>2, <3>1 DEF Removed, HiddenStaysHidden
    <3> QED
      BY <1>j, <3>3, <3>4 DEF MediaInv
  <2> QED
    BY <1>5, <2>1, <2>2 DEF Removed
<1>6. CASE Ignored(m, d)
  BY <1>1, <1>6, <1>j, <1>k DEF Ignored, Hidden, Deleted
<1> QED
  BY <1>j, <1>2, <1>3, <1>4, <1>5, <1>6, Effects

-----------------------------------------------------------------------------
(* The inductive invariant *)

ContentInv == RowsInv /\ JobsAre /\ MediaInv

(* No row is there before the message. *)
LEMMA EmptyRows ==
  /\ NoMessage \in MessageRows /\ NoMessage.state = "absent" /\ NoMessage.text = None
  /\ \A s \in Sides : NoMessage.reaction[s] = None
  /\ NoMedia \in MediaRows /\ NoMedia.state = "none" /\ ~NoMedia.file /\ ~NoMedia.transcript
  /\ NoMutation \in MutationRows /\ NoMutation.state = "absent"
  /\ NoCommand \in CommandRows /\ NoCommand.state = "none" /\ NoCommand.seen = {}
<1> DEFINE n == [s \in Sides |-> None]
           z == 0
           no == FALSE
           i == LastInstant
<1>1. n \in [Sides -> Mutations \cup {None}] /\ (\A s \in Sides : n[s] = None)
  OBVIOUS
<1>2. z \in 0 .. i
  BY Signs
<1>3. no \in BOOLEAN /\ ~no
  OBVIOUS
<1> HIDE DEF n
<1>4. NoMessage = [state |-> "absent", text |-> None, original |-> None, kept |-> None,
                   mode |-> "none", deletedAt |-> z, reaction |-> n, previewed |-> None,
                   links |-> None]
  BY DEF NoMessage, n
<1>5. NoMedia = [state |-> "none", file |-> no, speech |-> "idle", transcript |-> no]
  BY DEF NoMedia
<1>6. NoMutation = [type |-> "none", at |-> z, rev |-> 0, side |-> "self", add |-> no,
                    mode |-> "redact", state |-> "absent"]
  BY DEF NoMutation
<1>7. NoCommand = [state |-> "none", seen |-> {}]
  BY DEF NoCommand
<1> HIDE DEF z, no
<1>8. /\ NoMessage \in MessageRows /\ NoMessage.state = "absent" /\ NoMessage.text = None
      /\ NoMessage.reaction = n
  BY <1>1, <1>2, <1>4 DEF MessageRows
<1>9. NoMedia \in MediaRows /\ NoMedia.state = "none" /\ ~NoMedia.file /\ ~NoMedia.transcript
  BY <1>3, <1>5 DEF MediaRows
<1>10. NoMutation \in MutationRows /\ NoMutation.state = "absent"
  BY <1>2, <1>3, <1>6 DEF MutationRows, Sides, Modes
<1>11. NoCommand \in CommandRows /\ NoCommand.state = "none" /\ NoCommand.seen = {}
  BY <1>3, <1>7 DEF CommandRows
<1> QED
  BY <1>1, <1>8, <1>9, <1>10, <1>11

(* The invariant holds at first, when nothing is there. *)
LEMMA ContentInit ==
  ASSUME Init
  PROVE  ContentInv
<1>j. Idle \in Jobs /\ Idle.phase = "none"
  BY Signs DEF Idle, Jobs
<1>1. RowsAre
  <2>1. mutation \in [Mutations -> MutationRows] /\ command \in [Mutations -> CommandRows]
    BY EmptyRows DEF Init
  <2>2. requests \in 0 .. MaxRequests
    BY Signs DEF Init
  <2>3. receipt \in BOOLEAN /\ taken \subseteq Mutations
    BY DEF Init
  <2> QED
    BY <2>1, <2>2, <2>3, EmptyRows DEF Init, RowsAre
<1>2. message.state = "absent" /\ message.text = None /\ ~Exists
  BY EmptyRows DEF Init, Exists
<1>3. TextStands /\ NothingBefore
  BY <1>2, EmptyRows DEF Init, TextStands, NothingBefore
<1>4. Owned
  BY EmptyRows DEF Init, Owned
<1>5. ShownIsApplied
  BY EmptyRows, Signs DEF Init, ShownIsApplied
<1>6. JobsAre
  BY <1>j DEF Init, JobsAre
<1>7. ~Hidden
  BY <1>2 DEF Hidden, Deleted
<1>8. MediaInv
  BY <1>7, <1>j, EmptyRows DEF Init, MediaInv, LateJobs, HiddenStaysHidden
<1>9. SeenIsNow
  BY EmptyRows DEF Init, SeenIsNow
<1> QED
  BY <1>1, <1>3, <1>4, <1>5, <1>6, <1>8, <1>9 DEF ContentInv, RowsInv

(* A message that arrives keeps the invariant. *)
LEMMA ReceiveKeeps ==
  ASSUME ContentInv, Receive
  PROVE  ContentInv'
<1>t. /\ RowsAre /\ TextStands /\ NothingBefore /\ Owned /\ SeenIsNow /\ ShownIsApplied
      /\ JobsAre /\ LateJobs
  BY DEF ContentInv, RowsInv, MediaInv
<1>1. /\ message' \in MessageRows /\ message'.state = "active" /\ message'.text = First
      /\ \A s \in Sides : message'.reaction[s] = None
  <2>1. message' = [NoMessage EXCEPT !.state = "active", !.text = First]
    BY DEF Receive
  <2>2. First \in Texts
    BY DEF Texts
  <2> QED
    BY <2>1, <2>2, EmptyRows DEF MessageRows
<1>2. /\ media' \in MediaRows
      /\ \/ media' = media
         \/ media'.state = "pending"
  <2>1. media' = media \/ media' = [NoMedia EXCEPT !.state = "pending"]
    BY DEF Receive
  <2>2. [NoMedia EXCEPT !.state = "pending"] \in MediaRows
        /\ [NoMedia EXCEPT !.state = "pending"].state = "pending"
    BY EmptyRows DEF MediaRows
  <2> QED
    BY <1>t, <2>1, <2>2 DEF RowsAre
<1>3. JobsAre'
  <2>1. Queued \in Jobs
    BY <1>t, JobForms DEF JobsAre
  <2> QED
    BY <1>t, <2>1 DEF Receive, JobsAre
<1>4. RowsAre'
  BY <1>t, <1>1, <1>2 DEF RowsAre, Receive
<1>5. TextStands' /\ NothingBefore'
  BY <1>1 DEF TextStands, NothingBefore, Exists
<1>6. Owned'
  BY <1>t DEF Receive, Owned
<1>7. ShownIsApplied'
  BY <1>1, Signs DEF ShownIsApplied
<1>8. ~Hidden' /\ ~Deleted'
  BY <1>1 DEF Hidden, Deleted
<1>9. MediaInv'
  BY <1>t, <1>2, <1>8 DEF Receive, MediaInv, LateJobs, HiddenStaysHidden
<1>10. SeenIsNow'
  <2>1. ASSUME NEW m \in Mutations
        PROVE  command[m].state = "none" /\ command[m].seen = {}
    <3>1. mutation[m].state = "absent"
      BY <1>t DEF Receive, NothingBefore
    <3> QED
      BY <1>t, <3>1 DEF Owned, SeenIsNow
  <2> QED
    BY <2>1 DEF Receive, SeenIsNow
<1> QED
  BY <1>3, <1>4, <1>5, <1>6, <1>7, <1>9, <1>10 DEF ContentInv, RowsInv

(* Retention keeps the invariant: a transcription it does not look for is left with
   a snapshot that misses the media. *)
LEMMA EraseKeeps ==
  ASSUME ContentInv, Erase
  PROVE  ContentInv'
<1>t. RowsAre /\ JobsAre
  BY DEF ContentInv, RowsInv
<1>j. Idle \in Jobs /\ Idle.phase = "none"
  BY <1>t, JobForms DEF JobsAre
<1>1. RowsAre'
  BY <1>t, EmptyRows DEF Erase, RowsAre, Receipt
<1>2. message'.state = "absent" /\ message'.text = None /\ ~Exists'
  BY EmptyRows DEF Erase, Exists
<1>3. TextStands' /\ NothingBefore'
  BY <1>2, EmptyRows DEF Erase, TextStands, NothingBefore
<1>4. Owned'
  BY EmptyRows DEF Erase, Owned
<1>5. ShownIsApplied'
  BY EmptyRows, Signs DEF Erase, ShownIsApplied
<1>6. /\ transcribe' \in Jobs
      /\ transcribe'.phase = "running" => "media" \in transcribe'.stale
  <2> DEFINE w == {"binding", "media"}
  <2>1. w \in SUBSET {"binding", "media", "text"} /\ "media" \in w
    OBVIOUS
  <2>2. transcribe' = Aged(transcribe, w)
    BY DEF Erase
  <2> HIDE DEF w
  <2> QED
    BY <1>t, <2>1, <2>2, JobForms DEF JobsAre
<1>7. JobsAre'
  BY <1>j, <1>6 DEF Erase, JobsAre
<1>8. ~Hidden' /\ ~Deleted'
  BY <1>2 DEF Hidden, Deleted
<1>9. MediaInv'
  BY <1>6, <1>8, EmptyRows DEF Erase, MediaInv, LateJobs, HiddenStaysHidden
<1>10. SeenIsNow'
  BY EmptyRows DEF Erase, SeenIsNow
<1> QED
  BY <1>1, <1>3, <1>4, <1>5, <1>7, <1>9, <1>10 DEF ContentInv, RowsInv

(* Every step is of one of five kinds. *)
LEMMA Kinds ==
  ASSUME ContentInv, [Next]_vars
  PROVE  \/ Receive \/ Erase
         \/ \E m \in Mutations : \E d : Projected(m, d)
         \/ \E m \in Mutations : Commanded(m)
         \/ Rested /\ MediaInv' /\ (Deleted => Silent)
<1>t. RowsInv /\ JobsAre /\ MediaInv
  BY DEF ContentInv
<1>1. ASSUME NEW m \in Mutations, RemoteMutation(m) \/ Succeed(m) \/ Echo(m) \/ Confirm(m)
      PROVE  \E d : Projected(m, d)
  BY <1>t, <1>1, Projections
<1>2. ASSUME NEW m \in Mutations,
             RequestOwn(m) \/ Claim(m) \/ BackOff(m) \/ Refuse(m) \/ Doubt(m) \/ Close(m)
      PROVE  Commanded(m)
  BY <1>t, <1>2, Commands
<1>3. CASE BeginDownload \/ StoreFile \/ FailDownload \/ RetryDownload \/ AskDownload
  BY <1>t, <1>3, Downloads, Silence
<1>4. CASE \/ AskTranscript \/ BeginTranscribe \/ StoreTranscript
           \/ FailTranscript \/ RetryTranscript
  BY <1>t, <1>4, Transcriptions, Silence
<1>5. CASE AskPreview \/ \E t \in Texts : BeginPreview(t) \/ StorePreview(t) \/ RestartPreview(t)
  BY <1>t, <1>5, Previews, PreviewsRest, Silence
<1>6. CASE UNCHANGED vars
  <2>1. UNCHANGED <<shape, message, media, mutation, command, taken, download, transcribe,
                    preview, receipt, requests>>
    BY <1>6 DEF vars, jobs
  <2>2. Rested
    BY <1>t, <2>1 DEF Rested, RowsInv, RowsAre, JobsAre
  <2>3. Silent
    BY <2>1 DEF Silent
  <2> QED
    BY <1>t, <2>1, <2>2, <2>3, PreviewsRest
<1> QED
  BY <1>1, <1>2, <1>3, <1>4, <1>5, <1>6 DEF Next

(* Every step keeps the invariant. *)
LEMMA ContentNext ==
  ASSUME ContentInv, [Next]_vars
  PROVE  ContentInv'
<1>t. RowsInv /\ JobsAre /\ MediaInv
  BY DEF ContentInv
<1>1. CASE Receive
  BY <1>1, ReceiveKeeps
<1>2. CASE Erase
  BY <1>2, EraseKeeps
<1>3. ASSUME NEW m \in Mutations, NEW d, Projected(m, d)
      PROVE  ContentInv'
  BY <1>t, <1>3, ProjectedRows, ProjectedMedia DEF ContentInv
<1>4. ASSUME NEW m \in Mutations, Commanded(m)
      PROVE  ContentInv'
  <2>1. RowsInv'
    BY <1>t, <1>4, CommandedRows
  <2>2. UNCHANGED <<message, media, download, transcribe, preview>>
    BY <1>4 DEF Commanded, jobs
  <2>3. JobsAre'
    BY <1>t, <2>2 DEF JobsAre
  <2>4. (Hidden' <=> Hidden) /\ (Deleted' <=> Deleted)
    BY <2>2 DEF Hidden, Deleted
  <2>5. MediaInv'
    BY <1>t, <2>2, <2>4 DEF MediaInv, LateJobs, HiddenStaysHidden
  <2> QED
    BY <2>1, <2>3, <2>5 DEF ContentInv
<1>5. CASE Rested /\ MediaInv'
  BY <1>t, <1>5, RestedRows DEF ContentInv, Rested
<1> QED
  BY <1>1, <1>2, <1>3, <1>4, <1>5, Kinds

(* The invariant holds in every behaviour. *)
LEMMA ContentAlways == Spec => []ContentInv
<1>1. Init => ContentInv
  BY ContentInit
<1>2. ContentInv /\ [Next]_vars => ContentInv'
  BY ContentNext
<1> QED
  BY <1>1, <1>2, PTL DEF Spec

-----------------------------------------------------------------------------
(* The order of mutations *)

(* Of a set of mutations, the one that no other precedes. *)
IsLast(l, S) == l \in S /\ \A e \in S \ {l} : ~Precedes(e, l, mutation[l])

(* The reaction of a side is that of the last of its lane. *)
SideShown(s) ==
    \/ Lane(s) = {} /\ message.reaction[s] = None
    \/ \E l \in Lane(s) :
          /\ IsLast(l, Lane(s))
          /\ message.reaction[s] = IF mutation[l].add THEN l ELSE None

(* The edit whose text is shown is superseded by no other, where all of them have a
   revision or none has.                                                          *)
EditShown ==
    /\ message.text \in AppliedTo("edit") /\ message.original = First
    /\ Uniform => \A o \in AppliedTo("edit") \ {message.text} :
                     ~Supersedes(o, message.text, mutation[message.text])

Standing ==
    message.state \in {"active", "edited"} =>
        /\ (message.state = "active") <=> (AppliedTo("edit") = {})
        /\ message.state = "edited" => EditShown
        /\ \A s \in Sides : SideShown(s)

(* Instants, numbers and revisions can be compared. *)
LEMMA Comparable ==
  ASSUME RowsAre, NEW o \in Mutations
  PROVE  /\ o \in Int /\ mutation[o].at \in Int /\ mutation[o].rev \in Int
         /\ mutation[o].add \in BOOLEAN
<1>1. mutation[o] \in MutationRows
  BY DEF RowsAre
<1>2. LastInstant \in Int /\ 0 .. LastInstant \subseteq Int /\ Revisions \cup {0} \subseteq Int
  BY Signs, DomainsAssumption
<1> QED
  BY <1>1, <1>2, Signs DEF MutationRows

(* A set has one last mutation at most. *)
LEMMA OneLast ==
  ASSUME RowsAre, NEW S, S \subseteq Mutations, NEW l, NEW k, IsLast(l, S), IsLast(k, S)
  PROVE  l = k
<1>1. l \in Mutations /\ k \in Mutations
  BY DEF IsLast
<1>2. /\ l \in Int /\ k \in Int /\ mutation[l].at \in Int /\ mutation[k].at \in Int
  BY <1>1, Comparable
<1>3. SUFFICES ASSUME l # k PROVE FALSE
  OBVIOUS
<1>4. ~Precedes(k, l, mutation[l]) /\ ~Precedes(l, k, mutation[k])
  BY <1>3 DEF IsLast
<1> QED
  BY <1>2, <1>3, <1>4 DEF Precedes

(* What the last mutation says is what the reaction of a side has to be. *)
LEMMA LastIsLatest ==
  ASSUME RowsAre, NEW s \in Sides, SideShown(s)
  PROVE  message.reaction[s] = LatestReaction(Lane(s))
<1>1. CASE Lane(s) = {} /\ message.reaction[s] = None
  BY <1>1 DEF LatestReaction
<1>2. ASSUME NEW l \in Lane(s), IsLast(l, Lane(s)),
             message.reaction[s] = IF mutation[l].add THEN l ELSE None
      PROVE  message.reaction[s] = LatestReaction(Lane(s))
  <2> DEFINE S == Lane(s)
             k == CHOOSE o \in S : \A e \in S \ {o} : ~Precedes(e, o, mutation[o])
  <2>1. k \in S /\ \A e \in S \ {k} : ~Precedes(e, k, mutation[k])
    <3>1. \E o \in S : \A e \in S \ {o} : ~Precedes(e, o, mutation[o])
      BY <1>2 DEF IsLast
    <3> QED
      BY <3>1
  <2>2. LatestReaction(S) = IF mutation[k].add THEN k ELSE None
    BY <1>2 DEF LatestReaction
  <2>3. S \subseteq Mutations
    BY DEF Lane, AppliedTo, Applied
  <2> HIDE DEF k
  <2>4. IsLast(k, S)
    BY <2>1 DEF IsLast
  <2> HIDE DEF S
  <2>5. k = l
    BY <1>2, <2>3, <2>4, OneLast DEF S
  <2> QED
    BY <1>2, <2>2, <2>5 DEF S
<1> QED
  BY <1>1, <1>2 DEF SideShown

(* A projection adds its mutation to those applied, and changes no other. *)
LEMMA Grows ==
  ASSUME RowsInv, NEW m \in Mutations, NEW d, Projected(m, d)
  PROVE  /\ \A type : AppliedTo(type)' = IF d.type = type THEN AppliedTo(type) \cup {m}
                                         ELSE AppliedTo(type)
         /\ \A s : Lane(s)' = IF d.type = "react" /\ d.side = s THEN Lane(s) \cup {m}
                              ELSE Lane(s)
         /\ \A type : m \notin AppliedTo(type)
         /\ \A s : m \notin Lane(s)
<1>1. mutation[m].state # "applied"
  BY DEF Projected
<1>2. /\ mutation'[m].state = "applied" /\ mutation'[m].type = d.type
      /\ mutation'[m].side = d.side
      /\ \A o \in Mutations : o # m => mutation'[o] = mutation[o]
  BY Marks, ZenonT(40)
<1>3. Applied' = Applied \cup {m} /\ m \notin Applied /\ Applied \subseteq Mutations
  BY <1>1, <1>2 DEF Applied
<1>4. \A o \in Applied : mutation'[o] = mutation[o]
  BY <1>2, <1>3
<1>5. ASSUME NEW type
      PROVE  /\ AppliedTo(type)' = IF d.type = type THEN AppliedTo(type) \cup {m}
                                   ELSE AppliedTo(type)
             /\ m \notin AppliedTo(type)
  BY <1>2, <1>3, <1>4 DEF AppliedTo
<1>6. ASSUME NEW s
      PROVE  /\ Lane(s)' = IF d.type = "react" /\ d.side = s THEN Lane(s) \cup {m} ELSE Lane(s)
             /\ m \notin Lane(s)
  BY <1>2, <1>3, <1>4 DEF Lane, AppliedTo
<1> QED
  BY <1>5, <1>6

(* A mutation that comes after one that was applied does not come after the last. *)
LEMMA LastIsKept ==
  ASSUME RowsAre, NEW S, S \subseteq Mutations, NEW l, IsLast(l, S),
         NEW m \in Mutations, NEW d, d.at \in Int, NEW o \in S, m \notin S, Precedes(o, m, d)
  PROVE  ~(d.at > mutation[l].at \/ (d.at = mutation[l].at /\ m >= l))
<1>1. l \in Mutations /\ o \in Mutations
  BY DEF IsLast
<1>2. /\ l \in Int /\ o \in Int /\ m \in Int
      /\ mutation[l].at \in Int /\ mutation[o].at \in Int
  BY <1>1, Comparable
<1>3. m # l /\ m # o
  BY DEF IsLast
<1>4. o = l \/ ~Precedes(o, l, mutation[l])
  BY DEF IsLast
<1> QED
  BY <1>2, <1>3, <1>4 DEF Precedes

(* A side shows the last of its reactions after a projection too. *)
LEMMA SideProjected ==
  ASSUME RowsInv, NEW m \in Mutations, NEW d, Projected(m, d), NEW s \in Sides, SideShown(s),
         ~Deleted, Reacted(m, d) \/ Edited(m, d) \/ Ignored(m, d)
  PROVE  SideShown(s)'
<1>t. RowsAre /\ message \in MessageRows /\ d \in MutationRows
  BY DEF RowsInv, RowsAre, Projected
<1>n. /\ mutation'[m].at = d.at /\ mutation'[m].add = d.add
      /\ \A o \in Mutations : o # m => mutation'[o] = mutation[o]
  BY Marks
<1>l. /\ Lane(s)' = IF d.type = "react" /\ d.side = s THEN Lane(s) \cup {m} ELSE Lane(s)
      /\ m \notin Lane(s) /\ Lane(s) \subseteq Mutations
  BY Grows DEF Lane, AppliedTo, Applied
<1>d. d.at \in Int
  <2>1. 0 .. LastInstant \subseteq Int
    BY Signs
  <2> QED
    BY <1>t, <2>1 DEF MutationRows
<1>r. ASSUME Reacted(m, d)
      PROVE  /\ d.type = "react" /\ ~SupersededReaction(Now, m, d)
             /\ d.side = s => message'.reaction[s] = IF d.add THEN m ELSE None
             /\ d.side # s => message'.reaction[s] = message.reaction[s]
  <2> DEFINE x == IF d.add THEN m ELSE None
             r == [message.reaction EXCEPT ![d.side] = x]
  <2>1. message.reaction \in [Sides -> Mutations \cup {None}] /\ d.side \in Sides
    BY <1>t DEF MessageRows, MutationRows
  <2>2. (d.side = s => r[s] = x) /\ (d.side # s => r[s] = message.reaction[s])
    BY <2>1
  <2>3. message' = [message EXCEPT !.reaction = r]
    BY <1>r DEF Reacted
  <2> HIDE DEF r
  <2>4. message'.reaction = r
    BY <1>t, <2>3 DEF MessageRows
  <2> QED
    BY <1>r, <2>2, <2>4 DEF Reacted
<1>1. CASE ~(d.type = "react" /\ d.side = s)
  <2>1. Lane(s)' = Lane(s)
    BY <1>l, <1>1
  <2>2. message'.reaction[s] = message.reaction[s]
    BY <1>r, <1>1 DEF Edited, Ignored
  <2>3. ASSUME NEW l \in Lane(s), IsLast(l, Lane(s))
        PROVE  IsLast(l, Lane(s))' /\ mutation'[l] = mutation[l]
    <3>1. \A o \in Lane(s) : mutation'[o] = mutation[o]
      BY <1>n, <1>l
    <3> QED
      BY <2>1, <2>3, <3>1 DEF IsLast, Precedes
  <2>4. CASE Lane(s) = {} /\ message.reaction[s] = None
    BY <2>1, <2>2, <2>4 DEF SideShown
  <2>5. ASSUME NEW l \in Lane(s), IsLast(l, Lane(s)),
               message.reaction[s] = IF mutation[l].add THEN l ELSE None
        PROVE  SideShown(s)'
    BY <2>1, <2>2, <2>3, <2>5 DEF SideShown
  <2> QED
    BY <2>4, <2>5 DEF SideShown
<1>2. CASE d.type = "react" /\ d.side = s
  <2>1. Lane(s)' = Lane(s) \cup {m}
    BY <1>l, <1>2
  <2>2. CASE Reacted(m, d)
    <3>1. \A o \in Lane(s) : ~Precedes(o, m, d)
      BY <1>r, <1>2, <2>2, Decides
    <3>2. IsLast(m, Lane(s))'
      <4>1. ASSUME NEW e \in Lane(s)
            PROVE  ~(mutation'[e].at > mutation'[m].at
                       \/ (mutation'[e].at = mutation'[m].at /\ e >= m))
        <5>1. mutation'[e] = mutation[e] /\ mutation'[m].at = d.at
          BY <1>n, <1>l
        <5> QED
          BY <3>1, <5>1 DEF Precedes
      <4> QED
        BY <2>1, <4>1 DEF IsLast, Precedes
    <3>3. message'.reaction[s] = IF mutation'[m].add THEN m ELSE None
      BY <1>n, <1>r, <1>2, <2>2
    <3> QED
      BY <2>1, <3>2, <3>3 DEF SideShown
  <2>3. CASE Ignored(m, d)
    <3>1. PICK o \in Lane(s) : Precedes(o, m, d)
      BY <1>2, <2>3, Decides DEF Ignored
    <3>2. PICK l \in Lane(s) :
             /\ IsLast(l, Lane(s))
             /\ message.reaction[s] = IF mutation[l].add THEN l ELSE None
      BY <3>1 DEF SideShown
    <3>3. ~(d.at > mutation[l].at \/ (d.at = mutation[l].at /\ m >= l))
      <4> DEFINE S == Lane(s)
      <4>1. S \subseteq Mutations /\ m \notin S /\ IsLast(l, S) /\ o \in S
        BY <1>l, <3>2
      <4> HIDE DEF S
      <4> QED
        BY <1>t, <1>d, <3>1, <4>1, LastIsKept
    <3>4. mutation'[l] = mutation[l] /\ \A e \in Lane(s) : mutation'[e] = mutation[e]
      BY <1>n, <1>l
    <3>5. IsLast(l, Lane(s))'
      <4>1. ~(mutation'[m].at > mutation'[l].at
                \/ (mutation'[m].at = mutation'[l].at /\ m >= l))
        BY <1>n, <3>3, <3>4
      <4>2. ASSUME NEW e \in Lane(s) \ {l}
            PROVE  ~(mutation'[e].at > mutation'[l].at
                       \/ (mutation'[e].at = mutation'[l].at /\ e >= l))
        BY <3>2, <3>4 DEF IsLast, Precedes
      <4> QED
        BY <2>1, <4>1, <4>2 DEF IsLast, Precedes
    <3>6. message'.reaction[s] = IF mutation'[l].add THEN l ELSE None
      BY <2>3, <3>2, <3>4 DEF Ignored
    <3> QED
      BY <2>1, <3>5, <3>6 DEF SideShown
  <2> QED
    BY <1>2, <2>2, <2>3 DEF Edited
<1> QED
  BY <1>1, <1>2

(* An edit that one of those applied supersedes does not supersede the last of them. *)
LEMMA EditIsKept ==
  ASSUME RowsAre, NEW e \in Mutations, NEW o \in Mutations, NEW m \in Mutations,
         NEW d, d.at \in Int, d.rev \in Int, m # e, m # o, Supersedes(o, m, d),
         o = e \/ ~Supersedes(o, e, mutation[e]),
         (mutation[o].rev = 0) <=> (d.rev = 0), (mutation[e].rev = 0) <=> (d.rev = 0)
  PROVE  ~(IF mutation[e].rev # 0 /\ d.rev # 0 /\ d.rev # mutation[e].rev
           THEN d.rev > mutation[e].rev
           ELSE d.at > mutation[e].at \/ (d.at = mutation[e].at /\ m >= e))
<1>1. /\ e \in Int /\ o \in Int /\ m \in Int
      /\ mutation[e].at \in Int /\ mutation[o].at \in Int
      /\ mutation[e].rev \in Int /\ mutation[o].rev \in Int
  BY Comparable
<1> DEFINE ea == mutation[e].at
           er == mutation[e].rev
           oa == mutation[o].at
           or == mutation[o].rev
           da == d.at
           dr == d.rev
<1>2. IF dr # 0 /\ or # 0 /\ or # dr THEN or > dr ELSE oa > da \/ (oa = da /\ o >= m)
  BY DEF Supersedes, Precedes
<1>3. \/ o = e /\ oa = ea /\ or = er
      \/ ~(IF er # 0 /\ or # 0 /\ or # er THEN or > er ELSE oa > ea \/ (oa = ea /\ o >= e))
  BY DEF Supersedes, Precedes
<1>4. /\ ea \in Int /\ er \in Int /\ oa \in Int /\ or \in Int /\ da \in Int /\ dr \in Int
      /\ (or = 0) <=> (dr = 0)
      /\ (er = 0) <=> (dr = 0)
  BY <1>1
<1> HIDE DEF ea, er, oa, or, da, dr
<1>5. ~(IF er # 0 /\ dr # 0 /\ dr # er THEN dr > er ELSE da > ea \/ (da = ea /\ m >= e))
  BY <1>1, <1>2, <1>3, <1>4
<1> QED
  BY <1>5 DEF ea, er, da, dr

(* A message that stands shows the last of its edits after a projection too. *)
LEMMA EditProjected ==
  ASSUME RowsInv, NEW m \in Mutations, NEW d, Projected(m, d), ~Deleted,
         Reacted(m, d) \/ Edited(m, d) \/ Ignored(m, d),
         (message.state = "active") <=> (AppliedTo("edit") = {}),
         message.state = "edited" => EditShown
  PROVE  /\ (message'.state = "active") <=> (AppliedTo("edit")' = {})
         /\ message'.state = "edited" => EditShown'
<1> DEFINE S == AppliedTo("edit")
<1>t. RowsAre /\ message \in MessageRows /\ d \in MutationRows /\ TextStands /\ Exists
  BY DEF RowsInv, RowsAre, Projected
<1>s. message.state \in {"active", "edited"}
  BY <1>t DEF MessageRows, Deleted, Exists
<1>n. /\ mutation'[m].at = d.at /\ mutation'[m].rev = d.rev
      /\ \A o \in Mutations : o # m => mutation'[o] = mutation[o]
  BY Marks
<1>l. /\ S' = IF d.type = "edit" THEN S \cup {m} ELSE S
      /\ m \notin S /\ S \subseteq Mutations
  BY Grows DEF AppliedTo, Applied
<1>a. \A o \in S : mutation'[o] = mutation[o]
  BY <1>n, <1>l
<1>d. d.at \in Int /\ d.rev \in Int
  <2>1. 0 .. LastInstant \subseteq Int /\ Revisions \cup {0} \subseteq Int
    BY Signs, DomainsAssumption
  <2> QED
    BY <1>t, <2>1 DEF MutationRows
<1>1. CASE d.type # "edit"
  <2>1. S' = S
    BY <1>1, <1>l
  <2>2. /\ message'.state = message.state /\ message'.text = message.text
        /\ message'.original = message.original
    <3>1. CASE Reacted(m, d)
      <4> DEFINE r == [message.reaction EXCEPT ![d.side] = IF d.add THEN m ELSE None]
      <4>1. message' = [message EXCEPT !.reaction = r]
        BY <3>1 DEF Reacted
      <4> HIDE DEF r
      <4> QED
        BY <1>t, <4>1 DEF MessageRows
    <3> QED
      BY <1>1, <3>1 DEF Edited, Ignored
  <2>3. Uniform' => Uniform
    BY <2>1, <1>a DEF Uniform
  <2>4. ASSUME EditShown PROVE EditShown'
    <3>1. message.text \in S
      BY <2>4 DEF EditShown
    <3>2. \A o \in S : Supersedes(o, message.text, mutation[message.text])' =>
                         Supersedes(o, message.text, mutation[message.text])
      BY <1>a, <2>2, <3>1 DEF Supersedes, Precedes
    <3> QED
      BY <2>1, <2>2, <2>3, <2>4, <3>2 DEF EditShown
  <2> QED
    BY <2>1, <2>2, <2>4
<1>2. CASE d.type = "edit"
  <2>1. S' = S \cup {m}
    BY <1>2, <1>l
  <2>2. Edited(m, d) \/ Ignored(m, d)
    BY <1>2 DEF Reacted
  <2>3. CASE Edited(m, d)
    <3>1. /\ message'.state = "edited" /\ message'.text = m
          /\ message'.original = IF message.state = "active" THEN message.text
                                 ELSE message.original
      BY <2>3 DEF Edited
    <3>2. message'.original = First
      BY <1>t, <1>s, <3>1 DEF TextStands, EditShown
    <3>3. \A o \in S : ~Supersedes(o, m, d)
      BY <2>3, Decides DEF Edited
    <3>4. ASSUME NEW o \in S
          PROVE  ~(IF mutation'[m].rev # 0 /\ mutation'[o].rev # 0
                         /\ mutation'[o].rev # mutation'[m].rev
                   THEN mutation'[o].rev > mutation'[m].rev
                   ELSE mutation'[o].at > mutation'[m].at
                          \/ (mutation'[o].at = mutation'[m].at /\ o >= m))
      BY <1>n, <1>a, <3>3 DEF Supersedes, Precedes
    <3>5. \A o \in S : ~Supersedes(o, message.text, mutation[message.text])'
      BY <3>1, <3>4 DEF Supersedes, Precedes
    <3>6. EditShown'
      BY <2>1, <3>1, <3>2, <3>5 DEF EditShown
    <3> QED
      BY <2>1, <3>1, <3>6
  <2>4. CASE Ignored(m, d)
    <3>1. message' = message
      BY <2>4 DEF Ignored
    <3>2. PICK o \in S : Supersedes(o, m, d)
      BY <1>2, <2>4, Decides DEF Ignored
    <3>3. message.state = "edited" /\ EditShown
      BY <1>s, <3>2
    <3> DEFINE e == message.text
    <3>4. e \in S /\ message.original = First
      BY <3>3 DEF EditShown
    <3>5. ASSUME Uniform'
          PROVE  \A x \in S' \ {e} : ~Supersedes(x, e, mutation[e])'
      <4>1. \A x, y \in S \cup {m} : (mutation'[x].rev = 0) <=> (mutation'[y].rev = 0)
        BY <2>1, <3>5 DEF Uniform
      <4>2. Uniform
        BY <1>a, <4>1 DEF Uniform
      <4>3. \A x \in S \ {e} : ~Supersedes(x, e, mutation[e])
        BY <3>3, <4>2 DEF EditShown
      <4>4. /\ (mutation[o].rev = 0) <=> (d.rev = 0)
            /\ (mutation[e].rev = 0) <=> (d.rev = 0)
        <5>1. /\ (mutation'[o].rev = 0) <=> (mutation'[m].rev = 0)
              /\ (mutation'[e].rev = 0) <=> (mutation'[m].rev = 0)
          BY <3>4, <4>1
        <5> QED
          BY <5>1, <1>n, <1>a, <3>4
      <4>5. /\ e \in Mutations /\ o \in Mutations /\ m # e /\ m # o
            /\ o = e \/ ~Supersedes(o, e, mutation[e])
        BY <1>l, <3>4, <4>3
      <4>6. ~(IF mutation[e].rev # 0 /\ d.rev # 0 /\ d.rev # mutation[e].rev
              THEN d.rev > mutation[e].rev
              ELSE d.at > mutation[e].at \/ (d.at = mutation[e].at /\ m >= e))
        BY <1>t, <1>d, <3>2, <4>4, <4>5, EditIsKept
      <4>7. ~Supersedes(m, e, mutation[e])'
        BY <1>n, <1>a, <3>1, <3>4, <4>6 DEF Supersedes, Precedes
      <4>8. \A x \in S \ {e} : ~Supersedes(x, e, mutation[e])'
        BY <1>a, <3>1, <3>4, <4>3 DEF Supersedes, Precedes
      <4> QED
        BY <2>1, <4>7, <4>8
    <3>6. EditShown'
      BY <2>1, <3>1, <3>4, <3>5 DEF EditShown
    <3> QED
      BY <2>1, <3>1, <3>3, <3>6
  <2> QED
    BY <2>2, <2>3, <2>4
<1> QED
  BY <1>1, <1>2

(* The standing message, one kind of step after the other. *)
LEMMA StandingNext ==
  ASSUME ContentInv, Standing, [Next]_vars
  PROVE  Standing'
<1>t. RowsInv /\ RowsAre /\ NothingBefore
  BY DEF ContentInv, RowsInv
<1>1. CASE Receive
  <2>1. \A m \in Mutations : mutation'[m].state = "absent"
    BY <1>t, <1>1 DEF Receive, NothingBefore
  <2>2. AppliedTo("edit")' = {} /\ \A s \in Sides : Lane(s)' = {}
    BY <2>1 DEF AppliedTo, Applied, Lane
  <2>3. message'.state = "active" /\ \A s \in Sides : message'.reaction[s] = None
    <3>1. message' = [NoMessage EXCEPT !.state = "active", !.text = First]
      BY <1>1 DEF Receive
    <3>2. [NoMessage EXCEPT !.state = "active", !.text = First].reaction = NoMessage.reaction
      BY EmptyRows DEF MessageRows
    <3>3. [NoMessage EXCEPT !.state = "active", !.text = First].state = "active"
      BY EmptyRows DEF MessageRows
    <3> QED
      BY <3>1, <3>2, <3>3, EmptyRows
  <2> QED
    BY <2>2, <2>3 DEF Standing, SideShown
<1>2. CASE Erase
  <2>1. message'.state = "absent"
    BY <1>2, EmptyRows DEF Erase
  <2> QED
    BY <2>1 DEF Standing
<1>3. ASSUME NEW m \in Mutations, NEW d, Projected(m, d)
      PROVE  Standing'
  <2>1. CASE Reacted(m, d) \/ Edited(m, d) \/ Ignored(m, d)
    <3>1. CASE Deleted
      <4>1. message' = message
        BY <2>1, <3>1 DEF Reacted, Edited, Ignored
      <4> QED
        BY <3>1, <4>1 DEF Standing, Deleted
    <3>2. CASE ~Deleted
      <4>1. message.state \in {"active", "edited"}
        BY <1>t, <1>3, <3>2 DEF Deleted, Projected, Exists, RowsAre, MessageRows
      <4>2. /\ (message.state = "active") <=> (AppliedTo("edit") = {})
            /\ message.state = "edited" => EditShown
            /\ \A s \in Sides : SideShown(s)
        BY <4>1 DEF Standing
      <4>3. /\ (message'.state = "active") <=> (AppliedTo("edit")' = {})
            /\ message'.state = "edited" => EditShown'
        BY <1>t, <1>3, <2>1, <3>2, <4>2, EditProjected
      <4>4. \A s \in Sides : SideShown(s)'
        BY <1>t, <1>3, <2>1, <3>2, <4>2, SideProjected
      <4> QED
        BY <4>3, <4>4 DEF Standing
    <3> QED
      BY <3>1, <3>2
  <2>2. CASE Redated(d)
    <3> DEFINE x == Max(message.deletedAt, d.at)
    <3>1. message' = [message EXCEPT !.deletedAt = x] /\ message.state = "deleted"
      BY <2>2 DEF Redated, Deleted
    <3> HIDE DEF x
    <3>2. message'.state = "deleted"
      BY <1>t, <3>1 DEF RowsAre, MessageRows
    <3> QED
      BY <3>2 DEF Standing
  <2>3. CASE Removed(d)
    BY <2>3 DEF Removed, Standing
  <2> QED
    BY <1>t, <1>3, <2>1, <2>2, <2>3, Effects
<1>4. ASSUME message'.state = message.state, message'.text = message.text,
             message'.original = message.original, message'.reaction = message.reaction,
             \A type : AppliedTo(type)' = AppliedTo(type),
             \A s : Lane(s)' = Lane(s),
             \A type : \A o \in AppliedTo(type) : mutation'[o] = mutation[o]
      PROVE  Standing'
  <2>1. \A o \in AppliedTo("edit") : mutation'[o] = mutation[o]
    BY <1>4
  <2>2. ASSUME EditShown PROVE EditShown'
    <3>1. message.text \in AppliedTo("edit")
      BY <2>2 DEF EditShown
    <3>2. \A o \in AppliedTo("edit") : Supersedes(o, message.text, mutation[message.text])' =>
                                         Supersedes(o, message.text, mutation[message.text])
      BY <1>4, <2>1, <3>1 DEF Supersedes, Precedes
    <3>3. Uniform' => Uniform
      BY <1>4, <2>1 DEF Uniform
    <3> QED
      BY <1>4, <2>2, <3>2, <3>3 DEF EditShown
  <2>3. ASSUME NEW s \in Sides, SideShown(s) PROVE SideShown(s)'
    <3>1. \A o \in Lane(s) : mutation'[o] = mutation[o]
      BY <1>4 DEF Lane
    <3>2. \A l \in Lane(s) : IsLast(l, Lane(s)) => IsLast(l, Lane(s))'
      BY <1>4, <3>1 DEF IsLast, Precedes
    <3> QED
      BY <1>4, <2>3, <3>1, <3>2 DEF SideShown
  <2> QED
    BY <1>4, <2>2, <2>3 DEF Standing
<1>5. ASSUME NEW m \in Mutations, Commanded(m)
      PROVE  Standing'
  <2>1. PICK row \in MutationRows :
           /\ mutation' = [mutation EXCEPT ![m] = row]
           /\ row.state \in {"pending", "failed"}
    BY <1>5 DEF Commanded
  <2>2. /\ mutation[m].state # "applied" /\ mutation'[m].state # "applied"
        /\ \A o \in Mutations : o # m => mutation'[o] = mutation[o]
    BY <1>t, <1>5, <2>1 DEF Commanded, RowsAre
  <2>3. /\ \A type : AppliedTo(type)' = AppliedTo(type)
        /\ \A s : Lane(s)' = Lane(s)
        /\ \A type : \A o \in AppliedTo(type) : mutation'[o] = mutation[o]
    BY <2>2 DEF AppliedTo, Applied, Lane
  <2>4. message' = message
    BY <1>5 DEF Commanded
  <2> QED
    BY <1>4, <2>3, <2>4
<1>6. CASE Rested
  <2>1. /\ \A type : AppliedTo(type)' = AppliedTo(type)
        /\ \A s : Lane(s)' = Lane(s)
        /\ \A type : \A o \in AppliedTo(type) : mutation'[o] = mutation[o]
    BY <1>6 DEF Rested, AppliedTo, Applied, Lane
  <2> QED
    BY <1>4, <1>6, <2>1 DEF Rested
<1> QED
  BY <1>1, <1>2, <1>3, <1>5, <1>6, Kinds

-----------------------------------------------------------------------------
(* Theorems *)

(* Rows and jobs are always of their types, whoever writes them and in any order. *)
THEOREM ContentTypes == Spec => []TypeOK
<1>1. ContentInv => TypeOK
  <2> SUFFICES ASSUME ContentInv PROVE TypeOK
    OBVIOUS
  <2>1. RowsAre /\ JobsAre
    BY DEF ContentInv, RowsInv
  <2>2. \A j \in {download, transcribe} \cup {preview[t] : t \in Texts} : j \in Jobs
    BY <2>1 DEF JobsAre
  <2>3. DOMAIN preview = Texts
    BY <2>1 DEF JobsAre
  <2> QED
    BY <2>1, <2>2, <2>3 DEF RowsAre, TypeOK, MessageRows, MediaRows, MutationRows,
                            CommandRows, Jobs
<1> QED
  BY <1>1, ContentAlways, PTL

(* A command is done when its mutation is applied and only then, however its answer,
   its echo and the administrator raced; one refused or closed left no trace.        *)
THEOREM CommandsAreSettled == Spec => []OwnOutcome
<1>1. ContentInv => OwnOutcome
  BY DEF ContentInv, RowsInv, Owned, ShownIsApplied, OwnOutcome
<1> QED
  BY <1>1, ContentAlways, PTL

(* Nothing of a message that is hidden is left to read, whatever job ends late. *)
THEOREM HiddenForGood == Spec => []HiddenStaysHidden
<1>1. ContentInv => HiddenStaysHidden
  BY DEF ContentInv, MediaInv
<1> QED
  BY <1>1, ContentAlways, PTL

(* While a message stands it shows the last of its edits and, for each side, the last
   of its reactions, in whatever order the provider's events and the desk's commands
   were projected.                                                                   *)
THEOREM LastIsShown == Spec => []LatestIsShown
<1>1. Init => Standing
  BY EmptyRows DEF Init, Standing
<1>2. ContentInv /\ Standing /\ [Next]_vars => Standing'
  BY StandingNext
<1>3. ContentInv /\ Standing => LatestIsShown
  <2> SUFFICES ASSUME ContentInv, Standing, message.state \in {"active", "edited"}
               PROVE  /\ (message.state = "active") <=> (AppliedTo("edit") = {})
                      /\ message.state = "edited" => EditShown
                      /\ \A s \in Sides : message.reaction[s] = LatestReaction(Lane(s))
    BY DEF LatestIsShown, EditShown
  <2>1. RowsAre
    BY DEF ContentInv, RowsInv
  <2>2. \A s \in Sides : message.reaction[s] = LatestReaction(Lane(s))
    BY <2>1, LastIsLatest DEF Standing
  <2> QED
    BY <2>2 DEF Standing
<1> QED
  BY <1>1, <1>2, <1>3, ContentAlways, PTL DEF Spec

(* What a deletion left stays as it is. *)
LEMMA GoneNext ==
  ASSUME ContentInv, [Next]_vars
  PROVE  LeftGone
<1>t. RowsInv /\ message \in MessageRows /\ TextStands
  BY DEF ContentInv, RowsInv, RowsAre
<1>f. message.deletedAt \in Int
  <2>1. 0 .. LastInstant \subseteq Int
    BY Signs
  <2> QED
    BY <1>t, <2>1 DEF MessageRows
<1>1. ASSUME message' = message, Deleted => Silent
      PROVE  LeftGone
  <2>1. message = [message EXCEPT !.deletedAt = message.deletedAt]
    BY <1>t DEF MessageRows
  <2> QED
    BY <1>t, <1>f, <1>1, <2>1 DEF LeftGone, Silent, Deleted, TextStands
<1>2. CASE Receive
  <2>1. message' = [NoMessage EXCEPT !.state = "active", !.text = First] /\ ~Exists
    BY <1>2 DEF Receive
  <2>2. message'.links = None
    BY <2>1 DEF NoMessage
  <2> QED
    BY <2>1, <2>2 DEF LeftGone, Exists, Deleted
<1>3. CASE Erase
  <2>1. message'.state = "absent" /\ message'.links = None
    BY <1>3 DEF Erase, NoMessage
  <2> QED
    BY <2>1 DEF LeftGone
<1>4. ASSUME NEW m \in Mutations, NEW d, Projected(m, d)
      PROVE  LeftGone
  <2>1. CASE Reacted(m, d)
    <3> DEFINE r == [message.reaction EXCEPT ![d.side] = IF d.add THEN m ELSE None]
    <3>1. message' = [message EXCEPT !.reaction = r] /\ ~Deleted
      BY <2>1 DEF Reacted
    <3> HIDE DEF r
    <3>2. message'.links = message.links
      BY <1>t, <3>1 DEF MessageRows
    <3> QED
      BY <3>1, <3>2 DEF LeftGone
  <2>2. CASE Edited(m, d)
    BY <2>2 DEF Edited, LeftGone
  <2>3. CASE Redated(d)
    <3> DEFINE x == Max(message.deletedAt, d.at)
    <3>1. message' = [message EXCEPT !.deletedAt = x] /\ Deleted
      BY <2>3 DEF Redated
    <3>2. x \in Int /\ x >= message.deletedAt
      <4>1. d.at \in Int
        <5>1. d \in MutationRows /\ 0 .. LastInstant \subseteq Int
          BY <1>4, Signs DEF Projected
        <5> QED
          BY <5>1 DEF MutationRows
      <4> QED
        BY <1>f, <4>1 DEF Max
    <3>3. UNCHANGED media
      BY <2>3 DEF Redated
    <3> HIDE DEF x
    <3>4. /\ message'.text = message.text /\ message'.links = message.links
          /\ message'.deletedAt = x
      BY <1>t, <3>1 DEF MessageRows
    <3>5. message' = [message EXCEPT !.deletedAt = message'.deletedAt]
      BY <3>1, <3>4
    <3> QED
      BY <1>t, <3>1, <3>2, <3>3, <3>4, <3>5 DEF LeftGone, Deleted, TextStands
  <2>4. CASE Removed(d)
    BY <2>4 DEF Removed, LeftGone
  <2>5. CASE Ignored(m, d)
    BY <1>1, <2>5 DEF Ignored, Silent
  <2> QED
    BY <1>t, <1>4, <2>1, <2>2, <2>3, <2>4, <2>5, Effects
<1>5. ASSUME NEW m \in Mutations, Commanded(m)
      PROVE  LeftGone
  BY <1>1, <1>5 DEF Commanded, Silent
<1>6. CASE Rested /\ (Deleted => Silent)
  <2>1. CASE Deleted
    BY <1>1, <1>6, <2>1 DEF Silent
  <2>2. CASE ~Deleted
    BY <1>6, <2>2 DEF Rested, LeftGone
  <2> QED
    BY <2>1, <2>2
<1> QED
  BY <1>2, <1>3, <1>4, <1>5, <1>6, Kinds

(* Once a message was there it leaves a receipt, and a receipt keeps it from coming
   back.                                                                            *)
LEMMA ReceiptNext ==
  ASSUME ContentInv, [Next]_vars
  PROVE  /\ Exists => Exists' \/ receipt'
         /\ receipt => receipt'
         /\ ~Exists /\ receipt => ~Exists'
<1>1. CASE Receive
  BY <1>1 DEF Receive, Exists, Admitted
<1>2. CASE Erase
  BY <1>2 DEF Erase, Receipt
<1>3. ASSUME NEW m \in Mutations, NEW d, Projected(m, d)
      PROVE  Exists /\ Exists' /\ UNCHANGED receipt
  <2>1. RowsInv
    BY DEF ContentInv
  <2> QED
    BY <1>3, <2>1, Shows DEF Projected, Exists
<1>4. ASSUME NEW m \in Mutations, Commanded(m)
      PROVE  Exists /\ Exists' /\ UNCHANGED receipt
  BY <1>4 DEF Commanded, Exists
<1>5. CASE Rested
  BY <1>5 DEF Rested, Exists
<1> QED
  BY <1>1, <1>2, <1>3, <1>4, <1>5, Kinds

(* What is gone is gone, of a message that was deleted and of one that retention erased. *)
THEOREM GoneForGood == Spec => GoneStaysGone
<1>1. ContentInv /\ [Next]_vars => LeftGone
  BY GoneNext
<1>2. ContentInv /\ [Next]_vars =>
         /\ Exists => Exists' \/ receipt'
         /\ receipt => receipt'
         /\ ~Exists /\ receipt => ~Exists'
  BY ReceiptNext
<1>3. Spec => [][LeftGone]_vars
  BY <1>1, ContentAlways, PTL DEF Spec
<1>4. Spec => [](Exists => [](~Exists => []~Exists))
  BY <1>2, ContentAlways, PTL DEF Spec
<1> QED
  BY <1>3, <1>4, PTL DEF GoneStaysGone
=============================================================================
