--------------------------- MODULE TimelineProofs ---------------------------
(***************************************************************************)
(* Theorems of Timeline, for any number of messages, acts and failed reads, *)
(* and pages of any size.                                                   *)
(***************************************************************************)
EXTENDS Timeline, FiniteSetTheorems, SequenceTheorems, WellFoundedInduction, TLAPS

-----------------------------------------------------------------------------
(* Numbers *)

(* A set of naturals has a least member... *)
LEMMA Least ==
  ASSUME NEW S \in SUBSET Nat, S # {}
  PROVE  \E x \in S : \A y \in S : x <= y
<1> DEFINE R == {ss \in Nat \X Nat : ss[1] < ss[2]}
<1>1. IsWellFoundedOn(R, Nat)
  BY NatLessThanWellFounded DEF OpToRel
<1>2. PICK x \in S : \A y \in S : <<y, x>> \notin R
  BY <1>1, WFMin
<1>3. \A y \in S : ~ (y < x)
  BY <1>2
<1> QED
  BY <1>3

(* ... and a greatest one, if it has a bound. *)
LEMMA Greatest ==
  ASSUME NEW S \in SUBSET Nat, S # {}, NEW N \in Nat, \A x \in S : x <= N
  PROVE  \E x \in S : \A y \in S : y <= x
<1> DEFINE T == {N - x : x \in S}
<1>1. T \in SUBSET Nat /\ T # {}
  <2>1. \A x \in S : N - x \in Nat
    OBVIOUS
  <2> QED
    BY <2>1
<1>2. PICK t \in T : \A y \in T : t <= y
  BY <1>1, Least
<1>3. PICK x \in S : t = N - x
  BY <1>2
<1>4. \A y \in S : N - x <= N - y
  BY <1>2, <1>3
<1>5. \A y \in S : y <= x
  BY <1>4
<1> QED
  BY <1>5

(* The extremes of a set of numbers up to N are among them. *)
LEMMA Extremes ==
  ASSUME NEW N \in Nat, NEW S \in SUBSET (0 .. N), S # {}
  PROVE  /\ Min(S) \in S /\ \A y \in S : Min(S) <= y
         /\ Max(S) \in S /\ \A y \in S : Max(S) >= y
<1>1. S \in SUBSET Nat /\ \A x \in S : x <= N
  OBVIOUS
<1>2. \E x \in S : \A y \in S : x <= y
  BY <1>1, Least
<1>3. \E x \in S : \A y \in S : x >= y
  <2>1. PICK x \in S : \A y \in S : y <= x
    BY <1>1, Greatest
  <2>2. \A y \in S : x >= y
    BY <1>1, <2>1
  <2> QED
    BY <2>2
<1> QED
  BY <1>2, <1>3 DEF Min, Max

-----------------------------------------------------------------------------
(* The rows *)

(* No message becomes a row twice. *)
BornOnce(b) ==
    /\ b \in Seq(Messages)
    /\ \A i, j \in 1 .. Len(b) : b[i] = b[j] => i = j

(* The rows of the beginning are in order. *)
LEMMA FirstRows ==
  ASSUME NEW S \in SUBSET Messages, NEW b \in Ascending(S)
  PROVE  BornOnce(b)
<1>0. IsFiniteSet(Messages)
  BY BoundsAssumption, FS_Interval DEF Messages
<1>1. Cardinality(S) \in Nat
  BY <1>0, FS_Subset, FS_CardinalityType
<1>2. /\ b \in [1 .. Cardinality(S) -> S]
      /\ \A i, j \in DOMAIN b : i < j => b[i] < b[j]
  BY DEF Ascending
<1>3. b \in Seq(S)
  BY <1>1, <1>2, SeqDef
<1>4. b \in Seq(Messages) /\ Len(b) = Cardinality(S) /\ DOMAIN b = 1 .. Len(b)
  <2>1. DOMAIN b = 1 .. Len(b) /\ Len(b) \in Nat
    BY <1>3, LenProperties
  <2>2. Len(b) = Cardinality(S)
    BY <1>1, <1>2, <2>1
  <2> QED
    BY <1>3, <2>1, <2>2, SeqMonotonic
<1>5. ASSUME NEW i \in 1 .. Len(b), NEW j \in 1 .. Len(b), b[i] = b[j]
      PROVE  i = j
  <2>1. b[i] \in Int /\ b[j] \in Int
    <3>1. b[i] \in S /\ b[j] \in S
      BY <1>2, <1>4
    <3>2. \A m \in Messages : m \in Int
      BY DEF Messages
    <3> QED
      BY <3>1, <3>2
  <2>2. ~ (i < j) /\ ~ (j < i)
    BY <1>2, <1>4, <1>5, <2>1
  <2> QED
    BY <2>2
<1> QED
  BY <1>4, <1>5 DEF BornOnce

(* A sequence without repetitions is as long as its range is large, and the id of a row
   is one. *)
LEMMA RowIds ==
  ASSUME BornOnce(born)
  PROVE  /\ Range(born) \subseteq Messages
         /\ Cardinality(Range(born)) = Len(born)
         /\ \A m \in Range(born) : Id(m) \in 1 .. LastMessage
<1>0. LastMessage \in Nat /\ Messages = 1 .. LastMessage
  BY BoundsAssumption DEF Messages
<1>1. /\ born \in Seq(Messages) /\ Len(born) \in Nat /\ DOMAIN born = 1 .. Len(born)
      /\ born \in [1 .. Len(born) -> Messages]
  BY LenProperties DEF BornOnce
<1>2. Range(born) \subseteq Messages
  BY <1>1 DEF Range
<1>3. born \in Bijection(1 .. Len(born), Range(born))
  <2>1. born \in [1 .. Len(born) -> Range(born)]
    BY <1>1 DEF Range
  <2>2. \A y \in Range(born) : \E x \in 1 .. Len(born) : born[x] = y
    BY <1>1 DEF Range
  <2> QED
    BY <2>1, <2>2 DEF BornOnce, Bijection, Injection, Surjection, IsInjective
<1>4. Cardinality(Range(born)) = Len(born)
  BY <1>1, <1>3, FS_CountingElements DEF ExistsBijection
<1>5. Len(born) <= LastMessage
  <2>1. IsFiniteSet(Messages) /\ Cardinality(Messages) = LastMessage
    BY <1>0, FS_Interval
  <2> QED
    BY <1>2, <1>4, <2>1, FS_Subset
<1>6. ASSUME NEW m \in Range(born) PROVE Id(m) \in 1 .. LastMessage
  <2>1. \E i \in DOMAIN born : born[i] = m
    BY DEF Range
  <2>2. Id(m) \in DOMAIN born
    BY <2>1 DEF Id
  <2> QED
    BY <1>0, <1>1, <1>5, <2>2
<1> QED
  BY <1>2, <1>4, <1>6

(* A new row repeats none. *)
LEMMA NewRow ==
  ASSUME BornOnce(born), NEW m \in Messages, m \notin Range(born), born' = Append(born, m)
  PROVE  /\ BornOnce(born)'
         /\ Range(born)' = Range(born) \cup {m}
<1>1. born \in Seq(Messages) /\ Len(born) \in Nat /\ DOMAIN born = 1 .. Len(born)
  BY LenProperties DEF BornOnce
<1>2. /\ born' \in Seq(Messages) /\ Len(born') = Len(born) + 1
      /\ \A i \in 1 .. Len(born) : born'[i] = born[i]
      /\ born'[Len(born) + 1] = m
  BY <1>1, AppendProperties
<1>3. DOMAIN born' = 1 .. Len(born) + 1
  BY <1>2, LenProperties
<1>4. \A i \in 1 .. Len(born) : born[i] # m
  BY <1>1 DEF Range
<1>5. ASSUME NEW i \in 1 .. Len(born'), NEW j \in 1 .. Len(born'), born'[i] = born'[j]
      PROVE  i = j
  <2>1. i \in 1 .. Len(born) \/ i = Len(born) + 1
    BY <1>1, <1>2
  <2>2. j \in 1 .. Len(born) \/ j = Len(born) + 1
    BY <1>1, <1>2
  <2>3. \A k, l \in 1 .. Len(born) : born[k] = born[l] => k = l
    BY DEF BornOnce
  <2> QED
    BY <1>2, <1>4, <1>5, <2>1, <2>2, <2>3
<1>6. Range(born') = Range(born) \cup {m}
  <2>1. ASSUME NEW x \in Range(born') PROVE x \in Range(born) \cup {m}
    <3>1. PICK i \in 1 .. Len(born) + 1 : x = born'[i]
      BY <1>3 DEF Range
    <3>2. i \in 1 .. Len(born) \/ i = Len(born) + 1
      BY <1>1
    <3> QED
      BY <1>1, <1>2, <3>1, <3>2 DEF Range
  <2>2. ASSUME NEW x \in Range(born) PROVE x \in Range(born')
    <3>1. PICK i \in 1 .. Len(born) : x = born[i]
      BY <1>1 DEF Range
    <3>2. x = born'[i] /\ i \in DOMAIN born'
      BY <1>1, <1>2, <1>3, <3>1
    <3> QED
      BY <3>2 DEF Range
  <2>3. m \in Range(born')
    <3>1. Len(born) + 1 \in DOMAIN born'
      BY <1>1, <1>3
    <3> QED
      BY <1>2, <3>1 DEF Range
  <2> QED
    BY <2>1, <2>2, <2>3
<1> QED
  BY <1>2, <1>5, <1>6 DEF BornOnce

-----------------------------------------------------------------------------
(* Pages *)

Modes == {"none", "reset", "anchored", "older", "newer", "newest", "forward", "head",
          "reanchor"}

Reads == [mode : Modes, at : Ids, known : Ids, stage : {"asked", "served"},
          rows : SUBSET Messages, auto : BOOLEAN]

Windows == [shown : SUBSET Messages, before : Ids, after : Ids, received : Ids,
            forward : Ids, pages : 0 .. MaxPages]

(* A set of messages has finitely many subsets, all of them finite. *)
LEMMA FewMessages ==
  ASSUME NEW S \in SUBSET Messages
  PROVE  IsFiniteSet(S) /\ Cardinality(S) \in Nat
<1>1. IsFiniteSet(Messages)
  BY BoundsAssumption, FS_Interval DEF Messages
<1> QED
  BY <1>1, FS_Subset, FS_CardinalityType

(* A page of what is not empty is not empty, by whatever order. *)
LEMMA PagesAreFilled ==
  ASSUME BornOnce(born), NEW S \in SUBSET Range(born), S # {}
  PROVE  /\ Lowest(S) # {} /\ Lowest(S) \subseteq S
         /\ Highest(S) # {} /\ Highest(S) \subseteq S
         /\ FirstBorn(S) # {} /\ FirstBorn(S) \subseteq S
<1>0. LastMessage \in Nat /\ Page \in Nat \ {0} /\ Messages = 1 .. LastMessage
  BY BoundsAssumption DEF Messages
<1>1. S \in SUBSET (0 .. LastMessage) /\ \A m \in S : m \in Int
  BY <1>0, RowIds
<1>2. Cardinality({}) = 0 /\ 0 < Page
  BY <1>0, FS_EmptySet
<1>3. Lowest(S) # {}
  <2>1. Min(S) \in S /\ \A o \in S : Min(S) <= o
    BY <1>0, <1>1, Extremes
  <2>2. ASSUME NEW o \in S PROVE ~ (o < Min(S))
    <3>1. o \in Int /\ Min(S) \in Int /\ Min(S) <= o
      BY <1>1, <2>1
    <3> QED
      BY <3>1
  <2>3. {o \in S : o < Min(S)} = {}
    BY <2>2
  <2> QED
    BY <1>2, <2>1, <2>3 DEF Lowest
<1>4. Highest(S) # {}
  <2>1. Max(S) \in S /\ \A o \in S : Max(S) >= o
    BY <1>0, <1>1, Extremes
  <2>2. ASSUME NEW o \in S PROVE ~ (o > Max(S))
    <3>1. o \in Int /\ Max(S) \in Int /\ Max(S) >= o
      BY <1>1, <2>1
    <3> QED
      BY <3>1
  <2>3. {o \in S : o > Max(S)} = {}
    BY <2>2
  <2> QED
    BY <1>2, <2>1, <2>3 DEF Highest
<1>5. FirstBorn(S) # {}
  <2> DEFINE ids == {Id(m) : m \in S}
  <2>1. \A m \in S : Id(m) \in 0 .. LastMessage /\ Id(m) \in Int
    BY <1>0, RowIds
  <2>2. ids \in SUBSET (0 .. LastMessage) /\ ids # {}
    BY <2>1
  <2>3. PICK m \in S : \A o \in S : Id(m) <= Id(o)
    <3>1. Min(ids) \in ids /\ \A i \in ids : Min(ids) <= i
      BY <1>0, <2>2, Extremes
    <3> QED
      BY <3>1
  <2>4. \A o \in S : ~ (Id(o) < Id(m))
    BY <2>1, <2>3
  <2>5. {o \in S : Id(o) < Id(m)} = {}
    BY <2>4
  <2> QED
    BY <1>2, <2>5 DEF FirstBorn
<1> QED
  BY <1>3, <1>4, <1>5 DEF Lowest, Highest, FirstBorn

(* What an answer carries is what the server read; if that is not all, there is
   something; and its last id is one. *)
LEMMA Answers ==
  ASSUME BornOnce(born), NEW r \in Reads, r.rows \subseteq Range(born)
  PROVE  /\ Items(r) \subseteq r.rows
         /\ More(r) => Min(Items(r)) \in Ids /\ Max(Items(r)) \in Ids
         /\ BackFrom(r) \in Ids
         /\ LatestReceived(r) \in Ids
<1>0. LastMessage \in Nat /\ Ids = 0 .. LastMessage
  BY BoundsAssumption DEF Ids
<1>1. Range(born) \subseteq Ids /\ \A m \in Range(born) : Id(m) \in Ids
  BY <1>0, RowIds DEF Messages
<1>2. Pool(r) \subseteq r.rows
  BY DEF Pool
<1>3. Items(r) \subseteq Pool(r) /\ (Pool(r) # {} => Items(r) # {})
  <2>1. Pool(r) \in SUBSET Range(born)
    BY <1>2
  <2>2. CASE Pool(r) = {}
    BY <2>2 DEF Items, Lowest, Highest, FirstBorn
  <2>3. CASE Pool(r) # {}
    BY <2>1, <2>3, PagesAreFilled DEF Items
  <2> QED
    BY <2>2, <2>3
<1>4. ASSUME More(r) PROVE Min(Items(r)) \in Ids /\ Max(Items(r)) \in Ids
  <2>1. Items(r) # {}
    BY <1>3, <1>4 DEF More
  <2>2. Items(r) \in SUBSET (0 .. LastMessage)
    BY <1>0, <1>1, <1>2, <1>3
  <2>3. Min(Items(r)) \in Items(r) /\ Max(Items(r)) \in Items(r)
    BY <1>0, <2>1, <2>2, Extremes
  <2> QED
    BY <1>0, <2>2, <2>3
<1>5. BackFrom(r) \in Ids
  BY <1>0, <1>4 DEF BackFrom
<1>6. LatestReceived(r) \in Ids
  <2>1. CASE r.rows = {}
    BY <1>0, <2>1 DEF LatestReceived
  <2>2. CASE r.rows # {}
    <3> DEFINE ids == {Id(m) : m \in r.rows}
    <3>1. ids \in SUBSET (0 .. LastMessage) /\ ids # {}
      BY <1>0, <1>1, <2>2
    <3>2. Max(ids) \in ids
      BY <1>0, <3>1, Extremes
    <3>3. Max(ids) \in Ids
      BY <1>0, <3>1, <3>2
    <3> QED
      BY <2>2, <3>3 DEF LatestReceived
  <2> QED
    BY <2>1, <2>2
<1> QED
  BY <1>2, <1>3, <1>4, <1>5, <1>6

(* The higher of two ids is one. *)
LEMMA HigherId ==
  ASSUME NEW i \in Ids, NEW j \in Ids
  PROVE  Max({i, j}) \in Ids
<1>0. LastMessage \in Nat /\ Ids = 0 .. LastMessage
  BY BoundsAssumption DEF Ids
<1>1. {i, j} \in SUBSET (0 .. LastMessage)
  BY <1>0
<1>2. Max({i, j}) \in {i, j}
  BY <1>0, <1>1, Extremes
<1> QED
  BY <1>2

(* What an answer makes of the window. *)
LEMMA NewWindows ==
  ASSUME BornOnce(born), window \in Windows, NEW r \in Reads, r.rows \subseteq Range(born)
  PROVE  /\ Reset(r) \in Windows /\ Reset(r).shown \subseteq r.rows
         /\ WithOlder(r) \in Windows /\ WithOlder(r).shown \subseteq window.shown \cup r.rows
         /\ WithNewer(r) \in Windows /\ WithNewer(r).shown \subseteq window.shown \cup r.rows
         /\ WithNewest(r) \in Windows
         /\ WithNewest(r).shown \subseteq window.shown \cup r.rows
<1>0. LastMessage \in Nat /\ Ids = 0 .. LastMessage /\ 0 \in Ids /\ MaxPages \in Nat
  BY BoundsAssumption DEF Ids
<1>1. /\ Items(r) \subseteq r.rows /\ BackFrom(r) \in Ids /\ LatestReceived(r) \in Ids
      /\ More(r) => Max(Items(r)) \in Ids
  BY Answers
<1>2. Items(r) \subseteq Messages /\ r.at \in Ids
  BY <1>1 DEF Reads
<1>3. /\ window.shown \subseteq Messages /\ window.received \in Ids
      /\ window.before \in Ids
  BY DEF Windows
<1>4. Max({window.received, LatestReceived(r)}) \in Ids
  BY <1>1, <1>3, HigherId
<1>5. EmptyWindow \in Windows
  BY <1>0 DEF EmptyWindow, Windows
<1>6. Reset(r) \in Windows /\ Reset(r).shown = Items(r)
  <2> DEFINE back == IF r.mode # "anchored" THEN BackFrom(r)
                     ELSE IF \E m \in r.rows : m < r.at THEN r.at ELSE 0
             on   == IF r.mode = "anchored" /\ More(r) THEN Max(Items(r)) ELSE 0
  <2>1. back \in Ids /\ on \in Ids
    BY <1>0, <1>1, <1>2
  <2>2. Reset(r) = [EmptyWindow EXCEPT !.shown = Items(r), !.before = back, !.after = on,
                                       !.received = LatestReceived(r)]
    BY DEF Reset
  <2> HIDE DEF back, on
  <2> QED
    BY <1>1, <1>2, <1>5, <2>1, <2>2 DEF Windows, EmptyWindow
<1>7. WithOlder(r) \in Windows /\ WithOlder(r).shown = window.shown \cup Items(r)
  BY <1>1, <1>2, <1>3 DEF WithOlder, Windows
<1>8. WithNewer(r) \in Windows /\ WithNewer(r).shown = window.shown \cup Items(r)
  BY <1>0, <1>1, <1>2, <1>3, <1>4 DEF WithNewer, Windows
<1>9. /\ WithNewest(r) \in Windows
      /\ WithNewest(r).shown \subseteq window.shown \cup Items(r)
  BY <1>1, <1>2, <1>3, <1>4, <1>6 DEF WithNewest, Windows
<1> QED
  BY <1>1, <1>6, <1>7, <1>8, <1>9

(* What a page of a recovery makes of it. *)
LEMMA ForwardWindow ==
  ASSUME BornOnce(born), window \in Windows, NEW r \in Reads, r.rows \subseteq Range(born),
         window.pages < MaxPages
  PROVE  /\ WithForward(r) \in Windows
         /\ WithForward(r).shown \subseteq window.shown \cup r.rows
<1>0. LastMessage \in Nat /\ Ids = 0 .. LastMessage /\ 0 \in Ids /\ MaxPages \in Nat
  BY BoundsAssumption DEF Ids
<1> DEFINE visible == {m \in Items(r) : \A o \in window.shown : m >= Min(window.shown)}
           upTo    == IF Items(r) = {} THEN r.at ELSE Max({Id(m) : m \in Items(r)})
           back    == IF visible # Items(r) /\ window.before = 0 THEN Min(window.shown)
                      ELSE window.before
<1>1. Items(r) \subseteq r.rows /\ Items(r) \subseteq Messages /\ r.at \in Ids
  BY Answers DEF Reads
<1>2. /\ window.shown \subseteq Messages /\ window.received \in Ids
      /\ window.before \in Ids /\ window.pages \in 0 .. MaxPages
  BY DEF Windows
<1>3. upTo \in Ids
  <2>1. CASE Items(r) = {}
    BY <1>1, <2>1
  <2>2. CASE Items(r) # {}
    <3> DEFINE ids == {Id(m) : m \in Items(r)}
    <3>1. \A m \in Items(r) : Id(m) \in 0 .. LastMessage
      BY <1>0, <1>1, RowIds
    <3>2. ids \in SUBSET (0 .. LastMessage) /\ ids # {}
      BY <2>2, <3>1
    <3>3. Max(ids) \in ids
      BY <1>0, <3>2, Extremes
    <3>4. Max(ids) \in Ids
      BY <1>0, <3>2, <3>3
    <3> QED
      BY <2>2, <3>4
  <2> QED
    BY <2>1, <2>2
<1>4. Max({window.received, upTo}) \in Ids
  BY <1>2, <1>3, HigherId
<1>5. back \in Ids
  <2>1. CASE visible # Items(r) /\ window.before = 0
    <3>1. window.shown # {}
      BY <2>1
    <3>2. window.shown \in SUBSET (0 .. LastMessage)
      BY <1>0, <1>2 DEF Messages
    <3>3. Min(window.shown) \in window.shown
      BY <1>0, <3>1, <3>2, Extremes
    <3> QED
      BY <1>0, <2>1, <3>2, <3>3
  <2>2. CASE ~ (visible # Items(r) /\ window.before = 0)
    BY <1>2, <2>2
  <2> QED
    BY <2>1, <2>2
<1>6. window.pages + 1 \in 0 .. MaxPages
  BY <1>0, <1>2
<1>7. WithForward(r) = [window EXCEPT !.shown = @ \cup visible, !.before = back,
                                      !.received = Max({@, upTo}), !.forward = upTo,
                                      !.pages = @ + 1]
  BY DEF WithForward
<1>8. visible \subseteq Items(r)
  OBVIOUS
<1> HIDE DEF visible, upTo, back
<1>9. WithForward(r) \in Windows /\ WithForward(r).shown = window.shown \cup visible
  BY <1>1, <1>2, <1>3, <1>4, <1>5, <1>6, <1>7, <1>8 DEF Windows
<1> QED
  BY <1>1, <1>8, <1>9

-----------------------------------------------------------------------------
(* The invariant *)

(* A read knows what it was asked from, carries rows of the open conversation, nothing
   purged once that was heard, and a recovery has pages left. *)
ReadStands ==
    /\ request \in Reads
    /\ \A m \in request.rows :
          /\ m \in Range(born) /\ Home(m) = selected
          /\ m \in erased => notice
    /\ request.mode = "forward" => window.pages < MaxPages

TypesInv ==
    /\ BornOnce(born)
    /\ erased \subseteq Range(born) /\ notice \in BOOLEAN
    /\ selected \in Conversations \cup {"none"}
    /\ window \in Windows
    /\ phase \in {"idle", "loading", "loading_more", "loading_newer", "ready", "error"}
    /\ request.auto <=> cycle = "timeline"
    /\ cycle \in {"idle", "timeline", "waiting"}
    /\ reload \in BOOLEAN /\ wants \in BOOLEAN
    /\ answers \subseteq Range(born)
    /\ \A m \in erased : Home(m) = "here"

Inv == TypesInv /\ ReadStands /\ OnlyCurrentIsShown

(* The first state. *)
LEMMA InitInv == Init => Inv
<1> SUFFICES ASSUME Init PROVE Inv
  OBVIOUS
<1>0. 0 \in Ids /\ MaxPages \in Nat /\ LastMessage \in Nat
  BY BoundsAssumption DEF Ids
<1>1. BornOnce(born)
  <2>1. PICK n \in 0 .. LastMessage : \E late \in SUBSET Behind :
              born \in Ascending((1 .. n) \ late)
    BY DEF Init
  <2>2. PICK late \in SUBSET Behind : born \in Ascending((1 .. n) \ late)
    BY <2>1
  <2>3. (1 .. n) \ late \in SUBSET Messages
    BY <1>0 DEF Messages
  <2> QED
    BY <2>2, <2>3, FirstRows
<1>2. EmptyWindow \in Windows /\ EmptyWindow.shown = {}
  BY <1>0 DEF EmptyWindow, Windows
<1>3. NoRead \in Reads /\ NoRead.rows = {} /\ ~ NoRead.auto /\ NoRead.mode = "none"
  BY <1>0 DEF NoRead, Read, Reads, Modes
<1>4. TypesInv
  BY <1>1, <1>2, <1>3 DEF Init, TypesInv
<1>5. ReadStands
  BY <1>3 DEF Init, ReadStands
<1>6. OnlyCurrentIsShown
  BY <1>2 DEF Init, OnlyCurrentIsShown
<1> QED
  BY <1>4, <1>5, <1>6 DEF Inv

(* What is asked begins with no rows. *)
LEMMA NewReads ==
  ASSUME NEW mode \in Modes, NEW at \in Ids, NEW known \in Ids
  PROVE  /\ Read(mode, at, known) \in Reads
         /\ Read(mode, at, known).rows = {}
         /\ Read(mode, at, known).mode = mode
         /\ Read(mode, at, known).auto = FALSE
BY DEF Read, Reads

(* No read at all. *)
LEMMA NoReads ==
  /\ NoRead \in Reads /\ NoRead.rows = {} /\ NoRead.mode = "none" /\ NoRead.auto = FALSE
<1>1. 0 \in Ids /\ "none" \in Modes
  BY BoundsAssumption DEF Ids, Modes
<1> QED
  BY <1>1 DEF NoRead, Read, Reads

(* What a step may leave of the read: the same, or another without rows. *)
Fresh(r) ==
    /\ r \in Reads /\ r.rows = {}
    /\ r.mode = "forward" => window'.pages < MaxPages

(* Asking takes the place of the read, and frees the synchronization that waited. *)
LEMMA Asking ==
  ASSUME Inv, NEW r \in Reads, r.rows = {}, r.mode # "forward", r.auto = FALSE, Ask(r)
  PROVE  /\ Fresh(request')
         /\ cycle' \in {"idle", "timeline", "waiting"}
         /\ request'.auto <=> cycle' = "timeline"
BY DEF Inv, TypesInv, Ask, Superseded, Fresh

(* A step that brings no rows to the read, shows only what was shown or read, and takes
   no messages away, keeps what the tab shows current. *)
LEMMA TabMove ==
  ASSUME Inv, window' \in Windows, Fresh(request'),
         window'.shown \subseteq window.shown \cup request.rows,
         UNCHANGED <<selected, erased, notice, ghosts>>
  PROVE  ReadStands' /\ OnlyCurrentIsShown'
<1>1. ReadStands'
  BY DEF ReadStands, Fresh
<1>2. ASSUME NEW m \in window'.shown
      PROVE  Home(m) = selected /\ (m \in erased => notice \/ m \in ghosts)
  <2>1. CASE m \in window.shown
    BY <2>1 DEF Inv, OnlyCurrentIsShown
  <2>2. CASE m \in request.rows
    BY <2>2 DEF Inv, ReadStands
  <2> QED
    BY <1>2, <2>1, <2>2
<1>3. OnlyCurrentIsShown'
  BY <1>2 DEF OnlyCurrentIsShown
<1> QED
  BY <1>1, <1>3

-----------------------------------------------------------------------------
(* The server and the messages *)

(* A row that is new is nowhere else yet. *)
LEMMA RowBorn ==
  ASSUME Inv, NEW m \in Messages, m \notin Range(born), born' = Append(born, m),
         UNCHANGED <<erased, notice, tab, reload, wants, cycle, ghosts>>,
         answers' \subseteq answers \cup {m}
  PROVE  Inv'
<1>1. BornOnce(born)' /\ Range(born)' = Range(born) \cup {m}
  BY NewRow DEF Inv, TypesInv
<1>2. TypesInv'
  BY <1>1 DEF Inv, TypesInv, tab
<1>3. ReadStands'
  BY <1>1 DEF Inv, ReadStands, tab
<1>4. OnlyCurrentIsShown'
  BY DEF Inv, OnlyCurrentIsShown, tab
<1> QED
  BY <1>2, <1>3, <1>4 DEF Inv

LEMMA ArriveInv ==
  ASSUME Inv, NEW m \in Messages, Arrive(m)
  PROVE  Inv'
BY RowBorn DEF Arrive

LEMMA SendInv ==
  ASSUME Inv, NEW m \in Messages, Send(m)
  PROVE  Inv'
BY RowBorn DEF Send

LEMMA PurgeInv ==
  ASSUME Inv, Purge
  PROVE  Inv'
<1>1. erased' \subseteq {o \in Range(born) : Home(o) = "here"}
  BY DEF Purge, RowsOf, Rows
<1>2. TypesInv'
  BY <1>1 DEF Purge, Inv, TypesInv, tab
<1>3. ReadStands'
  BY DEF Purge, Inv, ReadStands, tab
<1>4. OnlyCurrentIsShown'
  BY DEF Purge, Inv, OnlyCurrentIsShown, tab
<1> QED
  BY <1>2, <1>3, <1>4 DEF Inv

(* The snapshot of a read has no row that is purged. *)
LEMMA ServeInv ==
  ASSUME Inv, Serve
  PROVE  Inv'
<1>1. RowsOf(selected) = {m \in Range(born) \ erased : Home(m) = selected}
  BY DEF RowsOf, Rows
<1>2. Range(born) \subseteq Messages
  BY RowIds DEF Inv, TypesInv
<1>3. /\ request' \in Reads /\ request'.rows = RowsOf(selected)
      /\ request'.mode = request.mode /\ request'.auto = request.auto
  BY <1>1, <1>2 DEF Serve, Inv, ReadStands, Reads
<1>4. TypesInv'
  BY <1>3 DEF Serve, Inv, TypesInv
<1>5. ReadStands'
  BY <1>1, <1>3 DEF Serve, Inv, ReadStands
<1>6. OnlyCurrentIsShown'
  BY DEF Serve, Inv, OnlyCurrentIsShown
<1> QED
  BY <1>4, <1>5, <1>6 DEF Inv

LEMMA ActOnInv ==
  ASSUME Inv, NEW m \in Messages, ActOn(m)
  PROVE  Inv'
<1>1. m \in Range(born)
  BY DEF ActOn, Rows
<1>2. TypesInv'
  BY <1>1 DEF ActOn, Inv, TypesInv, tab
<1>3. ReadStands'
  BY DEF ActOn, Inv, ReadStands, tab
<1>4. OnlyCurrentIsShown'
  BY DEF ActOn, Inv, OnlyCurrentIsShown, tab
<1> QED
  BY <1>2, <1>3, <1>4 DEF Inv

(* An answer may bring back what was purged, which is noted. *)
LEMMA AnswerInv ==
  ASSUME Inv, NEW m \in Messages, Answer(m)
  PROVE  Inv'
<1>1. CASE selected = Home(m)
  <2>1. /\ window' = [window EXCEPT !.shown = @ \cup {m}]
        /\ ghosts' = IF m \in erased THEN ghosts \cup {m} ELSE ghosts
    BY <1>1 DEF Answer
  <2>2. /\ window' \in Windows /\ window'.shown = window.shown \cup {m}
        /\ window'.pages = window.pages
    BY <2>1 DEF Inv, TypesInv, Windows
  <2>3. TypesInv'
    BY <2>2 DEF Answer, Inv, TypesInv
  <2>4. ReadStands'
    BY <2>2 DEF Answer, Inv, ReadStands
  <2>5. ASSUME NEW o \in window'.shown
        PROVE  Home(o) = selected /\ (o \in erased => notice \/ o \in ghosts')
    BY <1>1, <2>1, <2>2 DEF Inv, OnlyCurrentIsShown
  <2>6. OnlyCurrentIsShown'
    BY <2>5 DEF Answer, OnlyCurrentIsShown
  <2> QED
    BY <2>3, <2>4, <2>6 DEF Inv
<1>2. CASE selected # Home(m)
  <2>1. UNCHANGED <<window, ghosts>>
    BY <1>2 DEF Answer
  <2>2. TypesInv'
    BY <2>1 DEF Answer, Inv, TypesInv
  <2>3. ReadStands'
    BY <2>1 DEF Answer, Inv, ReadStands
  <2>4. OnlyCurrentIsShown'
    BY <2>1 DEF Answer, Inv, OnlyCurrentIsShown
  <2> QED
    BY <2>2, <2>3, <2>4 DEF Inv
<1> QED
  BY <1>1, <1>2

-----------------------------------------------------------------------------
(* Reads and synchronization *)

(* What a read leaves behind when it ends. *)
LEMMA Ending ==
  ASSUME Inv, request' = NoRead, cycle' = Settled
  PROVE  /\ Fresh(request')
         /\ cycle' \in {"idle", "timeline", "waiting"}
         /\ request'.auto <=> cycle' = "timeline"
BY NoReads DEF Inv, TypesInv, Fresh, Settled

(* A read that goes on has no rows again, and another page only while some are left. *)
LEMMA GoingOn ==
  ASSUME Inv, NEW w \in Windows, NEW more \in BOOLEAN, window' = w, NextForward(w, more),
         UNCHANGED cycle
  PROVE  /\ Fresh(request')
         /\ request'.auto <=> cycle' = "timeline"
<1>0. 0 \in Ids /\ w.forward \in Ids /\ w.received \in Ids
  BY BoundsAssumption DEF Ids, Windows
<1>1. request.auto \in BOOLEAN /\ (request.auto <=> cycle = "timeline")
  BY DEF Inv, TypesInv, ReadStands, Reads
<1>2. PICK r \in Reads : /\ r.rows = {} /\ (r.mode = "forward" => w.pages < MaxPages)
                         /\ request' = [r EXCEPT !.auto = request.auto]
  <2>1. CASE more /\ w.pages < MaxPages
    <3>1. Read("forward", w.forward, 0) \in Reads /\ Read("forward", w.forward, 0).rows = {}
      BY <1>0 DEF Read, Reads, Modes
    <3> QED
      BY <2>1, <3>1 DEF NextForward, Continue
  <2>2. CASE more /\ ~ (w.pages < MaxPages)
    <3>1. /\ Read("reanchor", 0, w.received) \in Reads
          /\ Read("reanchor", 0, w.received).rows = {}
          /\ Read("reanchor", 0, w.received).mode = "reanchor"
      BY <1>0 DEF Read, Reads, Modes
    <3> QED
      BY <2>2, <3>1 DEF NextForward, Continue
  <2>3. CASE ~ more
    <3>1. /\ Read("head", 0, w.received) \in Reads
          /\ Read("head", 0, w.received).rows = {}
          /\ Read("head", 0, w.received).mode = "head"
      BY <1>0 DEF Read, Reads, Modes
    <3> QED
      BY <2>3, <3>1 DEF NextForward, Continue
  <2> QED
    BY <2>1, <2>2, <2>3
<1>3. /\ request' \in Reads /\ request'.rows = {} /\ request'.mode = r.mode
      /\ request'.auto = request.auto
  BY <1>1, <1>2 DEF Reads
<1> QED
  BY <1>1, <1>2, <1>3 DEF Fresh

LEMMA ApplyPageInv ==
  ASSUME Inv, ApplyPage
  PROVE  Inv'
<1>0. /\ BornOnce(born) /\ window \in Windows /\ request \in Reads
      /\ request.rows \subseteq Range(born)
  BY DEF Inv, TypesInv, ReadStands
<1>1. PICK w \in Windows : w.shown \subseteq window.shown \cup request.rows /\ Apply(w)
  BY <1>0, NewWindows DEF ApplyPage
<1>2. window' = w /\ request' = NoRead /\ cycle' = Settled
  BY <1>1 DEF Apply
<1>3. /\ Fresh(request') /\ cycle' \in {"idle", "timeline", "waiting"}
      /\ request'.auto <=> cycle' = "timeline"
  BY <1>2, Ending
<1>4. TypesInv'
  BY <1>1, <1>2, <1>3 DEF Apply, Inv, TypesInv
<1>5. ReadStands' /\ OnlyCurrentIsShown'
  BY <1>1, <1>2, <1>3, TabMove DEF Apply
<1> QED
  BY <1>4, <1>5 DEF Inv

LEMMA RecoverInv ==
  ASSUME Inv, Recover
  PROVE  Inv'
<1>0. window \in Windows /\ 0 \in 0 .. MaxPages
  BY BoundsAssumption DEF Inv, TypesInv
<1>1. window' \in Windows /\ window'.shown = window.shown
  <2>1. \/ window' = window
        \/ window' = [window EXCEPT !.forward = window.received, !.pages = 0]
    BY DEF Recover
  <2> QED
    BY <1>0, <2>1 DEF Windows
<1>2. NextForward(window', TRUE) /\ UNCHANGED cycle
  BY DEF Recover
<1>3. Fresh(request') /\ (request'.auto <=> cycle' = "timeline")
  <2> DEFINE w == window'
             more == TRUE
  <2>1. w \in Windows /\ more \in BOOLEAN /\ window' = w /\ NextForward(w, more)
    BY <1>1, <1>2
  <2> HIDE DEF w, more
  <2> QED
    BY <1>2, <2>1, GoingOn
<1>4. TypesInv'
  BY <1>1, <1>3 DEF Recover, Inv, TypesInv
<1>5. ReadStands' /\ OnlyCurrentIsShown'
  BY <1>1, <1>3, TabMove DEF Recover
<1> QED
  BY <1>4, <1>5 DEF Inv

LEMMA ApplyForwardInv ==
  ASSUME Inv, ApplyForward
  PROVE  Inv'
<1>0. /\ BornOnce(born) /\ window \in Windows /\ request \in Reads
      /\ request.rows \subseteq Range(born) /\ window.pages < MaxPages
  BY DEF ApplyForward, Served, Inv, TypesInv, ReadStands
<1>1. window' \in Windows /\ window'.shown \subseteq window.shown \cup request.rows
  BY <1>0, ForwardWindow DEF ApplyForward
<1>2. NextForward(window', More(request)) /\ UNCHANGED cycle
  BY DEF ApplyForward
<1>3. Fresh(request') /\ (request'.auto <=> cycle' = "timeline")
  <2> DEFINE w == window'
             more == More(request)
  <2>1. w \in Windows /\ more \in BOOLEAN /\ window' = w /\ NextForward(w, more)
    BY <1>1, <1>2 DEF More
  <2> HIDE DEF w, more
  <2> QED
    BY <1>2, <2>1, GoingOn
<1>4. TypesInv'
  BY <1>1, <1>3 DEF ApplyForward, Inv, TypesInv
<1>5. ReadStands' /\ OnlyCurrentIsShown'
  BY <1>1, <1>3, TabMove DEF ApplyForward
<1> QED
  BY <1>4, <1>5 DEF Inv

LEMMA FinishRecoveryInv ==
  ASSUME Inv, FinishRecovery
  PROVE  Inv'
<1>0. /\ BornOnce(born) /\ window \in Windows /\ request \in Reads
      /\ request.rows \subseteq Range(born) /\ 0 \in Ids /\ MaxPages \in Nat
  BY BoundsAssumption DEF Inv, TypesInv, ReadStands, Ids
<1>1. window' \in Windows /\ window'.shown \subseteq window.shown \cup request.rows
  <2>1. CASE Disjoint(request)
    BY <1>0, <2>1 DEF FinishRecovery
  <2>2. CASE ~ Disjoint(request)
    <3>1. /\ WithNewest(request) \in Windows
          /\ WithNewest(request).shown \subseteq window.shown \cup request.rows
      BY <1>0, NewWindows
    <3>2. window' = [WithNewest(request) EXCEPT !.forward = 0, !.pages = 0]
      BY <2>2 DEF FinishRecovery
    <3> DEFINE w == WithNewest(request)
    <3>3. 0 \in 0 .. MaxPages /\ w \in Windows /\ window' = [w EXCEPT !.forward = 0, !.pages = 0]
      BY <1>0, <3>1, <3>2
    <3>4. w.shown \subseteq window.shown \cup request.rows
      BY <3>1
    <3> HIDE DEF w
    <3> QED
      BY <1>0, <3>3, <3>4 DEF Windows
  <2> QED
    BY <2>1, <2>2
<1>2. request' = NoRead /\ cycle' = Settled
  BY DEF FinishRecovery
<1>3. /\ Fresh(request') /\ cycle' \in {"idle", "timeline", "waiting"}
      /\ request'.auto <=> cycle' = "timeline"
  BY <1>2, Ending
<1>4. wants' \in BOOLEAN
  BY DEF FinishRecovery, Inv, TypesInv
<1>5. TypesInv'
  BY <1>1, <1>3, <1>4 DEF FinishRecovery, Inv, TypesInv
<1>6. ReadStands' /\ OnlyCurrentIsShown'
  BY <1>1, <1>3, TabMove DEF FinishRecovery
<1> QED
  BY <1>5, <1>6 DEF Inv

LEMMA FailReadInv ==
  ASSUME Inv, FailRead
  PROVE  Inv'
<1>0. window \in Windows /\ MaxPages \in Nat /\ wants \in BOOLEAN
  BY BoundsAssumption DEF Inv, TypesInv
<1> DEFINE again == window.forward # 0 /\ window.pages < MaxPages
<1>1. /\ request' = NoRead /\ cycle' = Settled
      /\ IF request.auto
         THEN /\ window' = IF again THEN [window EXCEPT !.pages = @ + 1] ELSE window
              /\ wants' = (wants \/ again)
              /\ phase' = phase
         ELSE phase' = "error" /\ UNCHANGED <<window, wants>>
      /\ UNCHANGED <<born, erased, notice, selected, reload, answers, ghosts>>
  BY DEF FailRead
<1>2. window' \in Windows /\ window'.shown = window.shown
  <2>1. again => window.pages + 1 \in 0 .. MaxPages
    BY <1>0 DEF Windows
  <2> HIDE DEF again
  <2> QED
    BY <1>0, <1>1, <2>1 DEF Windows
<1>3. wants' \in BOOLEAN /\ phase' \in {"error", phase}
  BY <1>0, <1>1
<1>4. /\ Fresh(request') /\ cycle' \in {"idle", "timeline", "waiting"}
      /\ request'.auto <=> cycle' = "timeline"
  BY <1>1, Ending
<1>5. TypesInv'
  BY <1>1, <1>2, <1>3, <1>4 DEF Inv, TypesInv
<1>6. ReadStands' /\ OnlyCurrentIsShown'
  BY <1>1, <1>2, <1>4, TabMove
<1> QED
  BY <1>5, <1>6 DEF Inv

(* Nothing but the flags of the synchronization moves. *)
LEMMA ScheduleInv ==
  ASSUME Inv, Schedule \/ EndCycle
  PROVE  Inv'
<1>1. TypesInv'
  BY DEF Schedule, EndCycle, Inv, TypesInv, tab
<1>2. ReadStands'
  BY DEF Schedule, EndCycle, Inv, ReadStands, tab
<1>3. OnlyCurrentIsShown'
  BY DEF Schedule, EndCycle, Inv, OnlyCurrentIsShown, tab
<1> QED
  BY <1>1, <1>2, <1>3 DEF Inv

LEMMA RefreshLatestInv ==
  ASSUME Inv, RefreshLatest
  PROVE  Inv'
<1>1. CASE UNCHANGED <<request, cycle>>
  <2>1. TypesInv'
    BY <1>1 DEF RefreshLatest, Inv, TypesInv
  <2>2. ReadStands'
    BY <1>1 DEF RefreshLatest, Inv, ReadStands
  <2>3. OnlyCurrentIsShown'
    BY <1>1 DEF RefreshLatest, Inv, OnlyCurrentIsShown
  <2> QED
    BY <2>1, <2>2, <2>3 DEF Inv
<1>2. CASE /\ request' = [Read("newest", 0, window.received) EXCEPT !.auto = TRUE]
           /\ cycle' = "timeline"
  <2>0. window \in Windows /\ window' = window /\ window.received \in Ids /\ 0 \in Ids
    BY BoundsAssumption DEF RefreshLatest, Inv, TypesInv, Windows, Ids
  <2>1. Fresh(request') /\ request'.auto = TRUE
    BY <1>2, <2>0 DEF Read, Reads, Modes, Fresh
  <2>2. TypesInv'
    BY <1>2, <2>0, <2>1 DEF RefreshLatest, Inv, TypesInv
  <2>3. ReadStands' /\ OnlyCurrentIsShown'
    BY <2>0, <2>1, TabMove DEF RefreshLatest
  <2> QED
    BY <2>2, <2>3 DEF Inv
<1> QED
  BY <1>1, <1>2 DEF RefreshLatest

-----------------------------------------------------------------------------
(* The agent, and the purge *)

(* What the agent asks for anew. *)
LEMMA Resets ==
  ASSUME Inv, NEW c, LoadReset(c)
  PROVE  /\ Fresh(request')
         /\ cycle' \in {"idle", "timeline", "waiting"}
         /\ request'.auto <=> cycle' = "timeline"
<1>1. Range(born) \subseteq Ids /\ 0 \in Ids
  BY RowIds, BoundsAssumption DEF Inv, TypesInv, Messages, Ids
<1>2. PICK r \in Reads : r.rows = {} /\ r.mode # "forward" /\ r.auto = FALSE /\ Ask(r)
  <2>1. CASE Ask(Read("reset", 0, 0))
    <3> DEFINE r == Read("reset", 0, 0)
    <3>1. r \in Reads /\ r.rows = {} /\ r.mode # "forward" /\ r.auto = FALSE /\ Ask(r)
      BY <1>1, <2>1 DEF Read, Reads, Modes
    <3> QED
      BY <3>1
  <2>2. ASSUME NEW m \in Anchors(c), Ask(Read("anchored", m, 0))
        PROVE  \E r \in Reads : r.rows = {} /\ r.mode # "forward" /\ r.auto = FALSE /\ Ask(r)
    <3> DEFINE r == Read("anchored", m, 0)
    <3>1. r \in Reads /\ r.rows = {} /\ r.mode # "forward" /\ r.auto = FALSE /\ Ask(r)
      BY <1>1, <2>2 DEF Read, Reads, Modes, Anchors
    <3> QED
      BY <3>1
  <2> QED
    BY <2>1, <2>2 DEF LoadReset
<1> QED
  BY <1>2, Asking

(* Forgetting the read. *)
LEMMA Forgetting ==
  ASSUME Inv, Forget
  PROVE  /\ Fresh(request')
         /\ cycle' \in {"idle", "timeline", "waiting"}
         /\ request'.auto <=> cycle' = "timeline"
BY NoReads, Asking DEF Forget

(* An empty window shows nothing. *)
LEMMA Emptied ==
  /\ EmptyWindow \in Windows /\ EmptyWindow.shown = {}
<1>1. 0 \in Ids /\ 0 \in 0 .. MaxPages
  BY BoundsAssumption DEF Ids
<1> QED
  BY <1>1 DEF EmptyWindow, Windows

(* A step of the tab that asks and shows nothing new. *)
LEMMA TabStep ==
  ASSUME Inv, window' \in Windows, Fresh(request'),
         window'.shown \subseteq window.shown,
         cycle' \in {"idle", "timeline", "waiting"}, request'.auto <=> cycle' = "timeline",
         phase' \in {"loading", "loading_more", "loading_newer", "error"},
         reload' \in BOOLEAN,
         UNCHANGED <<born, erased, notice, selected, wants, answers, ghosts>>
  PROVE  Inv'
<1>1. TypesInv'
  BY DEF Inv, TypesInv
<1>2. ReadStands' /\ OnlyCurrentIsShown'
  BY TabMove
<1> QED
  BY <1>1, <1>2 DEF Inv

LEMMA SelectInv ==
  ASSUME Inv, NEW c \in Conversations, Select(c)
  PROVE  Inv'
<1>1. /\ Fresh(request') /\ cycle' \in {"idle", "timeline", "waiting"}
      /\ request'.auto <=> cycle' = "timeline"
  BY Resets DEF Select
<1>2. CASE selected = c
  <2>1. window' = window /\ window \in Windows /\ reload' = reload /\ reload \in BOOLEAN
    BY <1>2 DEF Select, Inv, TypesInv
  <2>2. window'.shown \subseteq window.shown
    BY <2>1
  <2> QED
    BY <1>1, <1>2, <2>1, <2>2, TabStep DEF Select
<1>3. CASE selected # c
  <2>1. window' = EmptyWindow /\ window' \in Windows /\ window'.shown = {}
    BY <1>3, Emptied DEF Select
  <2>2. TypesInv'
    BY <1>1, <2>1 DEF Select, Inv, TypesInv
  <2>3. ReadStands' /\ OnlyCurrentIsShown'
    BY <1>1, <2>1 DEF ReadStands, OnlyCurrentIsShown, Fresh
  <2> QED
    BY <2>2, <2>3 DEF Inv
<1> QED
  BY <1>2, <1>3

LEMMA LoadInv ==
  ASSUME Inv, LoadOlder \/ LoadNewer \/ JumpToLatest
  PROVE  Inv'
<1>0. /\ window \in Windows /\ window' = window /\ reload' = reload /\ reload \in BOOLEAN
      /\ UNCHANGED <<born, erased, notice, selected, wants, answers, ghosts>>
  BY DEF LoadOlder, LoadNewer, JumpToLatest, Inv, TypesInv
<1>1. window.before \in Ids /\ window.after \in Ids /\ 0 \in Ids
  BY <1>0, BoundsAssumption DEF Windows, Ids
<1>2. PICK r \in Reads : r.rows = {} /\ r.mode # "forward" /\ r.auto = FALSE /\ Ask(r)
  <2>1. CASE LoadOlder
    <3> DEFINE r == Read("older", window.before, 0)
    <3>1. r \in Reads /\ r.rows = {} /\ r.mode # "forward" /\ r.auto = FALSE /\ Ask(r)
      BY <1>1, <2>1 DEF LoadOlder, Read, Reads, Modes
    <3> QED
      BY <3>1
  <2>2. CASE LoadNewer
    <3> DEFINE r == Read("newer", window.after, 0)
    <3>1. r \in Reads /\ r.rows = {} /\ r.mode # "forward" /\ r.auto = FALSE /\ Ask(r)
      BY <1>1, <2>2 DEF LoadNewer, Read, Reads, Modes
    <3> QED
      BY <3>1
  <2>3. CASE JumpToLatest
    <3> DEFINE r == Read("reset", 0, 0)
    <3>1. r \in Reads /\ r.rows = {} /\ r.mode # "forward" /\ r.auto = FALSE /\ Ask(r)
      BY <1>1, <2>3 DEF JumpToLatest, Read, Reads, Modes
    <3> QED
      BY <3>1
  <2> QED
    BY <2>1, <2>2, <2>3
<1>3. /\ Fresh(request') /\ cycle' \in {"idle", "timeline", "waiting"}
      /\ request'.auto <=> cycle' = "timeline"
  BY <1>2, Asking
<1>4. phase' \in {"loading", "loading_more", "loading_newer"}
  BY DEF LoadOlder, LoadNewer, JumpToLatest
<1> QED
  BY <1>0, <1>3, <1>4, TabStep

LEMMA CloseInv ==
  ASSUME Inv, Close
  PROVE  Inv'
<1>1. /\ Fresh(request') /\ cycle' \in {"idle", "timeline", "waiting"}
      /\ request'.auto <=> cycle' = "timeline"
  BY Forgetting DEF Close
<1>2. window' = EmptyWindow /\ window' \in Windows /\ window'.shown = {}
  BY Emptied DEF Close
<1>3. TypesInv'
  BY <1>1, <1>2 DEF Close, Inv, TypesInv
<1>4. ReadStands' /\ OnlyCurrentIsShown'
  BY <1>1, <1>2 DEF ReadStands, OnlyCurrentIsShown, Fresh
<1> QED
  BY <1>3, <1>4 DEF Inv

(* When the purge is heard nothing of the conversation is shown or on its way; of the
   other conversation nothing was purged. *)
LEMMA HearPurgeInv ==
  ASSUME Inv, HearPurge
  PROVE  Inv'
<1>1. CASE selected = "here"
  <2>1. /\ Fresh(request') /\ cycle' \in {"idle", "timeline", "waiting"}
        /\ request'.auto <=> cycle' = "timeline"
    BY <1>1, Forgetting DEF HearPurge
  <2>2. window' = EmptyWindow /\ window' \in Windows /\ window'.shown = {}
    BY <1>1, Emptied DEF HearPurge
  <2>3. TypesInv'
    BY <1>1, <2>1, <2>2 DEF HearPurge, Inv, TypesInv
  <2>4. ReadStands' /\ OnlyCurrentIsShown'
    BY <2>1, <2>2 DEF ReadStands, OnlyCurrentIsShown, Fresh
  <2> QED
    BY <2>3, <2>4 DEF Inv
<1>2. CASE selected # "here"
  <2>1. UNCHANGED <<window, phase, request, cycle, reload>>
    BY <1>2 DEF HearPurge
  <2>2. \A m \in erased : Home(m) # selected
    BY <1>2 DEF Inv, TypesInv
  <2>3. TypesInv'
    BY <2>1 DEF HearPurge, Inv, TypesInv
  <2>4. ReadStands'
    BY <2>1, <2>2 DEF HearPurge, Inv, ReadStands
  <2>5. OnlyCurrentIsShown'
    BY <2>1, <2>2 DEF HearPurge, Inv, OnlyCurrentIsShown
  <2> QED
    BY <2>3, <2>4, <2>5 DEF Inv
<1> QED
  BY <1>1, <1>2

LEMMA ReloadInv ==
  ASSUME Inv, Reload
  PROVE  Inv'
<1>0. /\ window \in Windows /\ window' = window /\ reload' = FALSE
      /\ UNCHANGED <<born, erased, notice, selected, wants, answers, ghosts>>
  BY DEF Reload, Inv, TypesInv
<1>1. CASE phase' = "loading" /\ LoadReset("here")
  <2>1. /\ Fresh(request') /\ cycle' \in {"idle", "timeline", "waiting"}
        /\ request'.auto <=> cycle' = "timeline"
    BY <1>1, Resets
  <2> QED
    BY <1>0, <1>1, <2>1, TabStep
<1>2. CASE UNCHANGED <<request, cycle>> /\ phase' \in {phase, "error"}
  <2>1. TypesInv'
    BY <1>0, <1>2 DEF Inv, TypesInv
  <2>2. ReadStands'
    BY <1>0, <1>2 DEF Inv, ReadStands
  <2>3. OnlyCurrentIsShown'
    BY <1>0, <1>2 DEF Inv, OnlyCurrentIsShown
  <2> QED
    BY <2>1, <2>2, <2>3 DEF Inv
<1> QED
  BY <1>1, <1>2 DEF Reload

-----------------------------------------------------------------------------
(* The theorems *)

LEMMA Step ==
  ASSUME Inv, [Next]_vars
  PROVE  Inv'
<1>1. ASSUME NEW m \in Messages, Arrive(m) \/ Send(m) \/ ActOn(m) \/ Answer(m)
      PROVE  Inv'
  BY <1>1, ArriveInv, SendInv, ActOnInv, AnswerInv
<1>2. ASSUME Purge \/ HearPurge \/ Reload PROVE Inv'
  BY <1>2, PurgeInv, HearPurgeInv, ReloadInv
<1>3. ASSUME \/ Serve \/ ApplyPage \/ Recover \/ ApplyForward \/ FinishRecovery \/ FailRead
      PROVE  Inv'
  BY <1>3, ServeInv, ApplyPageInv, RecoverInv, ApplyForwardInv, FinishRecoveryInv,
     FailReadInv
<1>4. ASSUME Schedule \/ RefreshLatest \/ EndCycle PROVE Inv'
  BY <1>4, ScheduleInv, RefreshLatestInv
<1>5. ASSUME NEW c \in Conversations, Select(c) PROVE Inv'
  BY <1>5, SelectInv
<1>6. ASSUME LoadOlder \/ LoadNewer \/ JumpToLatest \/ Close PROVE Inv'
  BY <1>6, LoadInv, CloseInv
<1>7. ASSUME UNCHANGED vars PROVE Inv'
  <2>1. TypesInv'
    BY <1>7 DEF Inv, TypesInv, vars
  <2>2. ReadStands'
    BY <1>7 DEF Inv, ReadStands, vars
  <2>3. OnlyCurrentIsShown'
    BY <1>7 DEF Inv, OnlyCurrentIsShown, vars
  <2> QED
    BY <2>1, <2>2, <2>3 DEF Inv
<1> QED
  BY <1>1, <1>2, <1>3, <1>4, <1>5, <1>6, <1>7 DEF Next

LEMMA InvHolds == Spec => []Inv
<1>1. Inv /\ [Next]_vars => Inv'
  BY Step
<1> QED
  BY InitInv, <1>1, PTL DEF Spec

(* The rows, the window, the read and the synchronization have their types: a window
   never goes on from, or counts as received, what is no row's id; a recovery never
   reads more pages than it may (timelineQuery, recoverTimelineGap). *)
THEOREM TimelineTypes == Spec => []TypeOK
<1>1. ASSUME Inv PROVE TypeOK
  <2>1. Range(born) \subseteq Messages /\ Cardinality(Range(born)) = Len(born)
    BY <1>1, RowIds DEF Inv, TypesInv
  <2>2. window \in [shown : SUBSET Messages, before : Ids, after : Ids, received : Ids,
                    forward : Ids, pages : 0 .. MaxPages]
    BY <1>1 DEF Inv, TypesInv, Windows
  <2>3. request.mode \in {"none", "reset", "anchored", "older", "newer", "newest",
                          "forward", "head", "reanchor"}
    BY <1>1 DEF Inv, ReadStands, Reads, Modes
  <2> QED
    BY <1>1, <2>1, <2>2, <2>3 DEF Inv, TypesInv, TypeOK
<1> QED
  BY InvHolds, <1>1, PTL

(* What is shown belongs to the open conversation, and once the tab heard of a purge it
   shows nothing purged but what the answer to an earlier action brings: no answer to a
   read that was under way when the conversation was changed, closed or purged is
   applied (selectConversation, clearConversationSelection,
   handleRetentionNotification). *)
THEOREM CurrentIsShown == Spec => []OnlyCurrentIsShown
<1>1. Inv => OnlyCurrentIsShown
  BY DEF Inv
<1> QED
  BY InvHolds, <1>1, PTL
=============================================================================
