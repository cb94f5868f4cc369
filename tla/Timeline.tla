------------------------------- MODULE Timeline -------------------------------
(***************************************************************************)
(* The window of a conversation's history that one browser tab shows, and the    *)
(* reads that fill it: pages back and forth by date, the page of the newest         *)
(* messages asked again and again, and the recovery, by order of arrival, of what     *)
(* those pages skip.                                                                   *)
(*                                                                                       *)
(* Messages are numbered by date; born is the order in which they became rows, which is   *)
(* that of their ids.  A read is asked, served from what is committed then, and answered    *)
(* later: meanwhile anything may happen in the tab and on the server.                        *)
(***************************************************************************)
EXTENDS Integers, FiniteSets, Sequences, FiniteSetsExt, Functions

CONSTANTS
    LastMessage,        \* bound: messages of all conversations
    Elsewhere,          \* those of the other conversation
    Behind,             \* those that may arrive after messages of a later date
    Page,               \* messages of one answer: TIMELINE_LIMIT
    MaxPages,           \* pages of one recovery: TIMELINE_FORWARD_MAX_PAGES
    MaxActs,            \* bound: what the agent does
    MaxFaults           \* bound: failed reads

ASSUME BoundsAssumption ==
    /\ LastMessage \in Nat \ {0} /\ Page \in Nat \ {0} /\ MaxPages \in Nat \ {0}
    /\ MaxActs \in Nat /\ MaxFaults \in Nat
ASSUME SetsAssumption == Elsewhere \cup Behind \subseteq 1 .. LastMessage

VARIABLES
    born,       \* the rows, in the order of their ids
    erased,     \* those retention deleted
    notice,     \* the word of it has not reached the tab
    selected,   \* the open conversation
    window,     \* what the tab shows of it, and how far that goes
    phase,      \* timelinePhase
    request,    \* the current read of the timeline, if any
    reload,     \* a purge waits for the list before it reads the timeline
    wants,      \* a refresh of the timeline is scheduled
    cycle,      \* where the running synchronization is
    answers,    \* messages in answers to sends and actions that are under way
    ghosts, missed, \* history: erased messages an answer brought back; see Overlooked
    acts, faults

tab    == <<selected, window, phase, request>>
bounds == <<acts, faults>>
vars == <<born, erased, notice, selected, window, phase, request, reload, wants, cycle,
          answers, ghosts, missed, acts, faults>>

Messages == 1 .. LastMessage
Conversations == {"here", "there"}
Home(m) == IF m \in Elsewhere THEN "there" ELSE "here"

Ids == 0 .. LastMessage     \* 0 for none
Id(m) == CHOOSE i \in DOMAIN born : born[i] = m
Rows == Range(born) \ erased
RowsOf(c) == {m \in Rows : Home(m) = c}

-----------------------------------------------------------------------------
(* What the server answers, from the rows it saw *)

Lowest(S)  == {m \in S : Cardinality({o \in S : o < m}) < Page}
Highest(S) == {m \in S : Cardinality({o \in S : o > m}) < Page}
FirstBorn(S) == {m \in S : Cardinality({o \in S : Id(o) < Id(m)}) < Page}

Read(mode, at, known) ==
    [mode |-> mode, at |-> at, known |-> known, stage |-> "asked", rows |-> {},
     auto |-> FALSE]
NoRead == Read("none", 0, 0)

Pool(r) ==
    CASE r.mode = "older"   -> {m \in r.rows : m < r.at}
      [] r.mode = "newer"   -> {m \in r.rows : m > r.at}
      [] r.mode = "anchored" -> {m \in r.rows : m >= r.at}
      [] r.mode = "forward" -> {m \in r.rows : Id(m) > r.at}
      [] OTHER              -> r.rows
Items(r) ==
    CASE r.mode \in {"newer", "anchored"} -> Lowest(Pool(r))
      [] r.mode = "forward"               -> FirstBorn(Pool(r))
      [] OTHER                            -> Highest(Pool(r))
More(r) == Items(r) # Pool(r)

(* The cursor of a page by date must still be a row. *)
CursorGone(r) == r.mode \in {"older", "newer", "anchored"} /\ r.at \notin r.rows

LatestReceived(r) == IF r.rows = {} THEN 0 ELSE Max({Id(m) : m \in r.rows})

(* Mutant: the newest page says all there is to know. *)
NothingUnloaded(r) == FALSE

HasUnloaded(r) == r.known # 0 /\ \E m \in r.rows \ Items(r) : Id(m) > r.known

-----------------------------------------------------------------------------
(* What the tab makes of an answer.  Of the window, before and after are where the
   pages back and forth go on (0: there is no more), received the highest id up to
   which all is accounted for, forward the id a recovery got to and pages its pages. *)

(* A newest page that overtook the first read of a long conversation is shown, but
   nothing counts as received: a recovery does not know where to begin. *)
Unplaced(w) == w.received = 0 /\ w.forward = 0
Blind(w)    == w.shown # {} /\ Unplaced(w)

EmptyWindow == [shown |-> {}, before |-> 0, after |-> 0, received |-> 0, forward |-> 0,
                pages |-> 0]

Contiguous == {m \in window.shown : Id(m) <= window.received}
Overlaps(r) == Contiguous \cap Items(r) # {}
Disjoint(r) == window.shown # {} /\ Items(r) # {} /\ More(r) /\ ~Overlaps(r)

BackFrom(r) == IF More(r) THEN Min(Items(r)) ELSE 0

Reset(r) ==
    [EmptyWindow EXCEPT
        !.shown = Items(r),
        !.before = IF r.mode # "anchored" THEN BackFrom(r)
                   ELSE IF \E m \in r.rows : m < r.at THEN r.at ELSE 0,
        !.after = IF r.mode = "anchored" /\ More(r) THEN Max(Items(r)) ELSE 0,
        !.received = LatestReceived(r)]

WithOlder(r) ==
    [window EXCEPT
        !.shown = @ \cup Items(r),
        !.before = BackFrom(r),
        !.received = IF @ = 0 THEN LatestReceived(r) ELSE @]

WithNewer(r) ==
    [window EXCEPT
        !.shown = @ \cup Items(r),
        !.after = IF More(r) THEN Max(Items(r)) ELSE 0,
        !.received = IF More(r) THEN @ ELSE Max({@, LatestReceived(r)})]

WithNewest(r) ==
    IF Disjoint(r) THEN Reset(r)
    ELSE [window EXCEPT
            !.shown = @ \cup Items(r),
            !.before = IF window.shown = {} THEN BackFrom(r) ELSE @,
            !.received = IF Overlaps(r) \/ ~More(r) THEN Max({@, LatestReceived(r)})
                         ELSE @]

(* A page by order of arrival: what is older than the window is left to the pages
   back. *)
WithForward(r) ==
    LET visible == {m \in Items(r) : \A o \in window.shown : m >= Min(window.shown)}
        upTo    == IF Items(r) = {} THEN r.at ELSE Max({Id(m) : m \in Items(r)})
    IN [window EXCEPT
            !.shown = @ \cup visible,
            !.before = IF visible # Items(r) /\ @ = 0 THEN Min(window.shown) ELSE @,
            !.received = Max({@, upTo}),
            !.forward = upTo,
            !.pages = @ + 1]

NeedsRecovery(r) == window.forward # 0 \/ HasUnloaded(r) \/ Disjoint(r)

-----------------------------------------------------------------------------
(* The members of a set by date *)
Ascending(S) ==
    {s \in [1 .. Cardinality(S) -> S] : \A i, j \in DOMAIN s : i < j => s[i] < s[j]}

Init ==
    /\ \E n \in 0 .. LastMessage, late \in SUBSET Behind : born \in Ascending((1 .. n) \ late)
    /\ erased = {} /\ notice = FALSE
    /\ selected = "none" /\ window = EmptyWindow /\ phase = "idle" /\ request = NoRead
    /\ reload = FALSE /\ wants = FALSE /\ cycle = "idle"
    /\ answers = {} /\ ghosts = {} /\ missed = {}
    /\ acts = 0 /\ faults = 0

(* No later read asks for what arrives behind other messages while the end of the window
   is not loaded, or between the last page of a recovery and the page of the newest. *)
EndIsOpen == window.after # 0 \/ request.mode = "anchored"

RecoveryEnds ==
    <<request.mode, request.stage>> \in {<<"forward", "served">>, <<"head", "asked">>}

Overlooked(m) ==
    /\ \E o \in RowsOf(selected) : o > m
    /\ EndIsOpen \/ RecoveryEnds

(* A message becomes a row; the lock of its conversation makes ids commit in order. *)
Arrive(m) ==
    /\ m \notin Range(born)
    /\ m \in Behind \/ \A o \in Range(born) : o < m
    /\ \A o \in erased : m > o
    /\ born' = Append(born, m)
    /\ missed' = IF selected = Home(m) /\ Overlooked(m) THEN missed \cup {m} ELSE missed
    /\ UNCHANGED <<erased, notice, tab, reload, wants, cycle, answers, ghosts, bounds>>

(* Retention deletes the oldest messages of a conversation, and says so. *)
Purge ==
    /\ erased = {}
    /\ \E m \in RowsOf("here") : erased' = {o \in RowsOf("here") : o <= m}
    /\ notice' = TRUE
    /\ UNCHANGED <<born, tab, reload, wants, cycle, answers, ghosts, missed, bounds>>

-----------------------------------------------------------------------------
(* Reads.  A new read of the tab takes the place of the current one, whose answer is
   then ignored; a synchronization that waits for it goes on waiting. *)

(* Mutant: a synchronization ignores that its read was superseded. *)
SupersededUnseen == cycle

Superseded == IF request.auto THEN "waiting" ELSE cycle

Ask(r) ==
    /\ request' = r
    /\ cycle' = Superseded

(* Mutant: the answer to a read that is under way still counts. *)
Unforgotten == UNCHANGED <<request, cycle>>

Forget == Ask(NoRead)

Act == acts < MaxActs /\ acts' = acts + 1

(* Serve: the snapshot of the read. *)
Serve ==
    /\ request.mode # "none" /\ request.stage = "asked"
    /\ request' = [request EXCEPT !.stage = "served", !.rows = RowsOf(selected)]
    /\ UNCHANGED <<born, erased, notice, selected, window, phase, reload, wants, cycle, answers,
                   ghosts, missed, bounds>>

Served(modes) == request.mode \in modes /\ request.stage = "served" /\ ~CursorGone(request)

Settled == IF request.auto THEN "idle" ELSE cycle

MissedIn(w) == IF Blind(w) THEN Messages ELSE missed

Apply(w) ==
    /\ window' = w
    /\ phase' = "ready"
    /\ request' = NoRead
    /\ cycle' = Settled
    /\ missed' = MissedIn(w)
    /\ UNCHANGED <<born, erased, notice, selected, reload, wants, answers, ghosts, bounds>>

ApplyPage ==
    \/ Served({"reset", "anchored", "reanchor"}) /\ Apply(Reset(request))
    \/ Served({"older"}) /\ Apply(WithOlder(request))
    \/ Served({"newer"}) /\ Apply(WithNewer(request))
    \/ Served({"newest"}) /\ ~NeedsRecovery(request) /\ Apply(WithNewest(request))

(* recoverTimelineGap: pages by order of arrival from what was received, ... *)
Continue(r) == request' = [r EXCEPT !.auto = request.auto]

NextForward(w, more) ==
    IF more /\ w.pages < MaxPages THEN Continue(Read("forward", w.forward, 0))
    ELSE IF more THEN Continue(Read("reanchor", 0, w.received))
    ELSE Continue(Read("head", 0, w.received))

Recover ==
    /\ Served({"newest"}) /\ NeedsRecovery(request) /\ ~Unplaced(window)
    /\ window' = IF window.forward # 0 THEN window
                 ELSE [window EXCEPT !.forward = window.received, !.pages = 0]
    /\ NextForward(window', TRUE)
    /\ UNCHANGED <<born, erased, notice, selected, phase, reload, wants, cycle, answers, ghosts,
                   missed, bounds>>

ApplyForward ==
    /\ Served({"forward"})
    /\ window' = WithForward(request)
    /\ phase' = "ready"
    /\ NextForward(window', More(request))
    /\ UNCHANGED <<born, erased, notice, selected, reload, wants, cycle, answers, ghosts,
                   missed, bounds>>

(* ... and then the newest again, unless they have moved on by more than a page. *)
FinishRecovery ==
    /\ Served({"head"})
    /\ IF Disjoint(request)
       THEN window' = window /\ wants' = TRUE
       ELSE window' = [WithNewest(request) EXCEPT !.forward = 0, !.pages = 0]
            /\ wants' = wants
    /\ phase' = IF Disjoint(request) THEN phase ELSE "ready"
    /\ request' = NoRead
    /\ cycle' = Settled
    /\ UNCHANGED <<born, erased, notice, selected, reload, answers, ghosts, missed, bounds>>

Refused ==
    /\ request.stage = "served"
    /\ \/ CursorGone(request)
       \/ request.mode = "newest" /\ NeedsRecovery(request) /\ Unplaced(window)

(* A read fails: a failed page of a recovery costs one of its pages. *)
FailRead ==
    /\ request.mode # "none"
    /\ \/ faults < MaxFaults /\ faults' = faults + 1
       \/ Refused /\ UNCHANGED faults
    /\ LET again == window.forward # 0 /\ window.pages < MaxPages
       IN IF request.auto
          THEN /\ window' = IF again THEN [window EXCEPT !.pages = @ + 1] ELSE window
               /\ wants' = (wants \/ again)
               /\ phase' = phase
          ELSE /\ phase' = "error"
               /\ UNCHANGED <<window, wants>>
    /\ request' = NoRead
    /\ cycle' = Settled
    /\ missed' = MissedIn(window')
    /\ UNCHANGED <<born, erased, notice, selected, reload, answers, ghosts, acts>>

-----------------------------------------------------------------------------
(* Synchronization *)

(* A notification, a reconnection, or the timer of every half minute. *)
Schedule ==
    /\ ~wants
    /\ wants' = TRUE
    /\ UNCHANGED <<born, erased, notice, tab, reload, cycle, answers, ghosts, missed, bounds>>

(* The list and the open conversation are read first; when the tab is hidden or a read
   of them fails, the refresh goes on waiting. *)
RefreshLatest ==
    /\ cycle = "idle" /\ wants
    /\ wants' = FALSE
    /\ IF selected = "none" \/ window.after # 0 THEN UNCHANGED <<request, cycle>>
       ELSE /\ request' = [Read("newest", 0, window.received) EXCEPT !.auto = TRUE]
            /\ cycle' = "timeline"
    /\ UNCHANGED <<born, erased, notice, selected, window, phase, reload, answers, ghosts,
                   missed, bounds>>

(* The answer to its read comes, though nobody looks at it any more. *)
EndCycle ==
    /\ cycle = "waiting"
    /\ cycle' = "idle"
    /\ UNCHANGED <<born, erased, notice, tab, reload, wants, answers, ghosts, missed, bounds>>

-----------------------------------------------------------------------------
(* The agent *)

Anchors(c) == {m \in Range(born) : Home(m) = c}

LoadReset(c) ==
    \/ Ask(Read("reset", 0, 0))
    \/ \E m \in Anchors(c) : Ask(Read("anchored", m, 0))

(* The open conversation is read again when nothing of it is shown. *)
Select(c) ==
    /\ selected # c \/ window.shown = {}
    /\ Act
    /\ selected' = c /\ phase' = "loading"
    /\ IF selected = c THEN UNCHANGED <<window, missed>>
       ELSE window' = EmptyWindow /\ missed' = {}
    /\ LoadReset(c)
    /\ UNCHANGED <<born, erased, notice, reload, wants, answers, ghosts, faults>>

Loading == phase \in {"loading", "loading_more", "loading_newer"}

LoadOlder ==
    /\ ~Loading /\ window.forward = 0 /\ window.before # 0 /\ Act
    /\ phase' = "loading_more"
    /\ Ask(Read("older", window.before, 0))
    /\ UNCHANGED <<born, erased, notice, selected, window, reload, wants, answers, ghosts,
                   missed, faults>>

LoadNewer ==
    /\ ~Loading /\ window.after # 0 /\ Act
    /\ phase' = "loading_newer"
    /\ Ask(Read("newer", window.after, 0))
    /\ UNCHANGED <<born, erased, notice, selected, window, reload, wants, answers, ghosts,
                   missed, faults>>

JumpToLatest ==
    /\ selected # "none" /\ window.after # 0 /\ Act
    /\ phase' = "loading"
    /\ Ask(Read("reset", 0, 0))
    /\ UNCHANGED <<born, erased, notice, selected, window, reload, wants, answers, ghosts,
                   missed, faults>>

(* The agent sends: the message is a row before the answer comes. *)
Send(m) ==
    /\ selected = Home(m) /\ m \notin Range(born) /\ Act
    /\ \A o \in Range(born) : o < m
    /\ born' = Append(born, m)
    /\ answers' = answers \cup {m}
    /\ missed' = IF selected = Home(m) /\ Overlooked(m) THEN missed \cup {m} ELSE missed
    /\ UNCHANGED <<erased, notice, tab, reload, wants, cycle, ghosts, faults>>

(* ... or edits a message that is shown, deletes it, reacts to it.  No answer need come. *)
ActOn(m) ==
    /\ m \in window.shown \cap Rows /\ m \notin answers /\ Act
    /\ answers' = answers \cup {m}
    /\ UNCHANGED <<born, erased, notice, tab, reload, wants, cycle, ghosts, missed, faults>>

Answer(m) ==
    /\ m \in answers
    /\ answers' = answers \ {m}
    /\ IF selected = Home(m)
       THEN /\ window' = [window EXCEPT !.shown = @ \cup {m}]
            /\ ghosts' = IF m \in erased THEN ghosts \cup {m} ELSE ghosts
       ELSE UNCHANGED <<window, ghosts>>
    /\ UNCHANGED <<born, erased, notice, selected, phase, request, reload, wants, cycle, missed,
                   bounds>>

(* The conversation is closed: by the agent, or because access to it ended. *)
Close ==
    /\ selected # "none" /\ Act
    /\ selected' = "none" /\ window' = EmptyWindow /\ phase' = "idle" /\ missed' = {}
    /\ Forget
    /\ UNCHANGED <<born, erased, notice, reload, wants, answers, ghosts, faults>>

-----------------------------------------------------------------------------
(* The word of a purge empties the window, and the list is read before it is filled
   again. *)
HearPurge ==
    /\ notice
    /\ notice' = FALSE
    /\ IF selected = "here"
       THEN /\ window' = EmptyWindow /\ phase' = "loading" /\ reload' = TRUE /\ missed' = {}
            /\ Forget
       ELSE UNCHANGED <<window, phase, request, cycle, reload, missed>>
    /\ UNCHANGED <<born, erased, selected, wants, answers, ghosts, bounds>>

Reload ==
    /\ reload
    /\ reload' = FALSE
    /\ IF selected # "here" THEN UNCHANGED <<phase, request, cycle, faults>>
       ELSE \/ phase' = "loading" /\ LoadReset("here") /\ UNCHANGED faults
            \/ /\ faults < MaxFaults /\ faults' = faults + 1
               /\ phase' = "error" /\ UNCHANGED <<request, cycle>>
    /\ UNCHANGED <<born, erased, notice, selected, window, wants, answers, ghosts, missed,
                   acts>>

-----------------------------------------------------------------------------
ReadStep == ApplyPage \/ Recover \/ ApplyForward \/ FinishRecovery
               \/ (Refused /\ FailRead)
CycleStep == RefreshLatest \/ EndCycle

Next ==
    \/ \E m \in Messages : \/ Arrive(m) \/ Send(m) \/ ActOn(m) \/ Answer(m)
    \/ Purge \/ HearPurge \/ Reload
    \/ Serve \/ ApplyPage \/ Recover \/ ApplyForward \/ FinishRecovery \/ FailRead
    \/ Schedule \/ RefreshLatest \/ EndCycle
    \/ \E c \in Conversations : Select(c)
    \/ LoadOlder \/ LoadNewer \/ JumpToLatest \/ Close

(* Reads are answered, the timer of half a minute goes on, the purge is heard. *)
Fairness ==
    /\ WF_vars(Serve) /\ WF_vars(ReadStep)
    /\ WF_vars(Schedule) /\ WF_vars(CycleStep)
    /\ WF_vars(HearPurge) /\ WF_vars(Reload)

Spec == Init /\ [][Next]_vars /\ Fairness

-----------------------------------------------------------------------------
TypeOK ==
    /\ Range(born) \subseteq Messages /\ Cardinality(Range(born)) = Len(born)
    /\ erased \subseteq Range(born) /\ notice \in BOOLEAN
    /\ selected \in Conversations \cup {"none"}
    /\ window \in [shown : SUBSET Messages, before : Ids, after : Ids, received : Ids,
                   forward : Ids, pages : 0 .. MaxPages]
    /\ phase \in {"idle", "loading", "loading_more", "loading_newer", "ready", "error"}
    /\ request.mode \in {"none", "reset", "anchored", "older", "newer", "newest", "forward",
                         "head", "reanchor"}
    /\ request.auto <=> cycle = "timeline"
    /\ cycle \in {"idle", "timeline", "waiting"}
    /\ reload \in BOOLEAN /\ wants \in BOOLEAN
    /\ answers \subseteq Range(born)

Reachable(m) ==
    \/ m \in window.shown
    \/ window.before # 0 /\ m < window.before
    \/ window.after # 0 /\ m > window.after

(* What is shown belongs to the open conversation, and once the tab heard of a purge it
   shows nothing of what was purged but what the answer to an earlier action brings. *)
OnlyCurrentIsShown ==
    \A m \in window.shown :
        Home(m) = selected /\ (m \in erased => notice \/ m \in ghosts)

(* No message of the open conversation stays out of reach, neither shown nor where the
   pages back and forth lead, but those the code overlooks. *)
CatchesUp ==
    \A m \in Messages : []<>(m \in RowsOf(selected) \ missed => Reachable(m))
==============================================================================
