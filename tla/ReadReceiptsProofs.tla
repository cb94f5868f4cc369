------------------------- MODULE ReadReceiptsProofs -------------------------
(***************************************************************************)
(* Theorems of ReadReceipts, for any number of agents, messages, batches    *)
(* and disturbances.  What the loop over batches queues is found by the      *)
(* least number of rounds at which it could have gone wrong: there is none.  *)
(***************************************************************************)
EXTENDS ReadReceipts, FiniteSetTheorems, WellFoundedInduction, TLAPS

-----------------------------------------------------------------------------
(* Numbers *)

(* A set of naturals has a least member... *)
LEMMA Least ==
  ASSUME NEW S \in SUBSET Nat, S # {}
  PROVE  \E x \in S : \A y \in S : x <= y
<1> DEFINE R == {ss \in Nat \X Nat : ss[1] < ss[2]}
<1>1. IsWellFoundedOn(R, Nat)
  BY NatLessThanWellFounded DEF OpToRel
<1>2. PICK x \in S : \A y \in S : <<y, x>> \notin R
  BY <1>1, WFMin
<1>3. \A y \in S : ~ (y < x)
  BY <1>2
<1> QED
  BY <1>3

(* ... and a greatest one, if it has a bound. *)
LEMMA Greatest ==
  ASSUME NEW S \in SUBSET Nat, S # {}, NEW N \in Nat, \A x \in S : x <= N
  PROVE  \E x \in S : \A y \in S : y <= x
<1> DEFINE T == {N - x : x \in S}
<1>1. T \in SUBSET Nat /\ T # {}
  <2>1. \A x \in S : N - x \in Nat
    OBVIOUS
  <2> QED
    BY <2>1
<1>2. PICK t \in T : \A y \in T : t <= y
  BY <1>1, Least
<1>3. PICK x \in S : t = N - x
  BY <1>2
<1>4. \A y \in S : N - x <= N - y
  BY <1>2, <1>3
<1>5. \A y \in S : y <= x
  BY <1>4
<1> QED
  BY <1>5

(* What holds of 0, and of a number after those it holds of, holds of all. *)
LEMMA Induction ==
  ASSUME NEW N \in Nat, NEW S, 0 \in S,
         \A n \in 1 .. N : n - 1 \in S => n \in S
  PROVE  0 .. N \subseteq S
<1> DEFINE T == (0 .. N) \ S
<1> SUFFICES ASSUME T # {} PROVE FALSE
  OBVIOUS
<1>1. T \in SUBSET Nat
  OBVIOUS
<1>2. PICK n \in T : \A k \in T : n <= k
  BY <1>1, Least
<1>3. n \in 1 .. N /\ n - 1 \in 0 .. N /\ ~ (n <= n - 1)
  BY <1>2
<1>4. n - 1 \in S
  BY <1>2, <1>3
<1> QED
  BY <1>2, <1>3, <1>4

(* The extremes of a set of pointers are among them. *)
LEMMA Extremes ==
  ASSUME NEW S \in SUBSET Pointers, S # {}
  PROVE  /\ MinOf(S) \in S /\ \A y \in S : MinOf(S) <= y
         /\ MaxOf(S) \in S /\ \A y \in S : y <= MaxOf(S)
<1>1. S \in SUBSET Nat /\ LastMessage \in Nat /\ \A x \in S : x <= LastMessage
  BY BoundsAssumption DEF Pointers
<1>2. \E x \in S : \A y \in S : x <= y
  BY <1>1, Least
<1>3. \E x \in S : \A y \in S : y <= x
  BY <1>1, Greatest
<1> QED
  BY <1>2, <1>3 DEF MinOf, MaxOf

(* Messages are pointers, and sets of them are finite. *)
LEMMA Messaging ==
  /\ LastMessage \in Nat /\ Pointers = 0 .. LastMessage /\ Messages = 1 .. LastMessage
  /\ Messages \subseteq Pointers /\ 0 \in Pointers
  /\ IsFiniteSet(Messages) /\ Cardinality(Messages) = LastMessage
  /\ \A S \in SUBSET Messages : IsFiniteSet(S) /\ Cardinality(S) \in Pointers
<1>1. LastMessage \in Nat /\ Pointers = 0 .. LastMessage /\ Messages = 1 .. LastMessage
  BY BoundsAssumption DEF Pointers, Messages
<1>2. IsFiniteSet(Messages) /\ Cardinality(Messages) = LastMessage
  BY <1>1, FS_Interval
<1>3. ASSUME NEW S \in SUBSET Messages
      PROVE  IsFiniteSet(S) /\ Cardinality(S) \in Pointers
  <2>1. /\ IsFiniteSet(S) /\ Cardinality(S) \in Nat
        /\ Cardinality(S) <= LastMessage
    BY <1>2, FS_Subset, FS_CardinalityType
  <2> QED
    BY <1>1, <2>1
<1> QED
  BY <1>1, <1>2, <1>3

(* The last message of a batch is one of it, and none of it is later. *)
LEMMA Targets ==
  ASSUME NEW ids \in SUBSET Messages, ids # {}
  PROVE  Target(ids) \in ids /\ \A m \in ids : m <= Target(ids)
BY Messaging, Extremes DEF Target

(* A batch is a set of messages that is not empty. *)
LEMMA BatchLaws ==
  ASSUME NEW ids \in Batches
  PROVE  /\ ids \subseteq Messages /\ ids # {}
         /\ Target(ids) \in ids /\ Target(ids) \in Messages
         /\ \A m \in ids : m <= Target(ids)
<1>1. ids \in SUBSET Messages /\ ids # {}
  <2>1. ids \in SUBSET Messages /\ Cardinality(ids) \in 1 .. Batch /\ Batch \in Nat
    BY BoundsAssumption DEF Batches
  <2>2. Cardinality(ids) # 0
    BY <2>1
  <2> QED
    BY <2>1, <2>2, FS_EmptySet
<1> QED
  BY <1>1, Targets

(* There are finitely many batches. *)
LEMMA FewBatches ==
  ASSUME NEW K \in SUBSET Batches
  PROVE  IsFiniteSet(K) /\ Cardinality(K) \in Nat
<1>1. IsFiniteSet(SUBSET Messages)
  BY Messaging, FS_SUBSET
<1>2. K \in SUBSET (SUBSET Messages)
  BY DEF Batches
<1> QED
  BY <1>1, <1>2, FS_Subset, FS_CardinalityType

(* The first of a set are a batch, and reach as far as the last of them. *)
LEMMA FirstOfLaws ==
  ASSUME NEW S \in SUBSET Messages, S # {}
  PROVE  /\ FirstOf(S) \subseteq S /\ FirstOf(S) # {}
         /\ FirstOf(S) \in Batches
         /\ \A m \in S : m <= Target(FirstOf(S)) => m \in FirstOf(S)
<1> DEFINE F == FirstOf(S)
           below(m) == {o \in S : o < m}
<1>0. Batch \in Nat \ {0}
  BY BoundsAssumption
<1>1. \A m \in S : m \in Int /\ m \in Pointers
  BY Messaging
<1>2. \A T \in SUBSET S : IsFiniteSet(T) /\ Cardinality(T) \in Nat
  BY Messaging
<1>3. F \subseteq S /\ \A m \in S : m \in F <=> Cardinality(below(m)) < Batch
  BY DEF FirstOf
<1>4. F # {}
  <2>1. MinOf(S) \in S /\ \A o \in S : MinOf(S) <= o
    BY <1>1, Extremes
  <2>2. ASSUME NEW o \in S PROVE ~ (o < MinOf(S))
    <3>1. o \in Int /\ MinOf(S) \in Int /\ MinOf(S) <= o
      BY <1>1, <2>1
    <3> QED
      BY <3>1
  <2>3. below(MinOf(S)) = {}
    BY <2>2
  <2>4. Cardinality(below(MinOf(S))) < Batch
    BY <1>0, <2>3, FS_EmptySet
  <2> QED
    BY <1>3, <2>1, <2>4
<1> DEFINE h == Target(F)
<1>5. h \in F /\ \A m \in F : m <= h
  BY <1>3, <1>4, Targets
<1>6. Cardinality(below(h)) < Batch /\ below(h) \in SUBSET S
  BY <1>3, <1>5
<1>7. ASSUME NEW m \in S, m <= h PROVE m \in F
  <2>1. below(m) \subseteq below(h)
    <3>1. ASSUME NEW o \in S, o < m PROVE o < h
      <4>1. o \in Int /\ m \in Int /\ h \in Int
        BY <1>1, <1>3, <1>5
      <4> QED
        BY <1>7, <3>1, <4>1
    <3> QED
      BY <3>1
  <2>2. Cardinality(below(m)) <= Cardinality(below(h))
    BY <1>2, <1>6, <2>1, FS_Subset
  <2>3. Cardinality(below(m)) \in Nat /\ Cardinality(below(h)) \in Nat
    BY <1>2
  <2>4. Cardinality(below(m)) < Batch
    BY <1>0, <1>6, <2>2, <2>3
  <2> QED
    BY <1>3, <2>4
<1>8. Cardinality(F) \in 1 .. Batch
  <2>1. F \ {h} \subseteq below(h)
    <3>1. ASSUME NEW m \in F, m # h PROVE m < h
      <4>1. m \in Int /\ h \in Int /\ m <= h
        BY <1>1, <1>3, <1>5
      <4> QED
        BY <3>1, <4>1
    <3> QED
      BY <1>3, <3>1
  <2>2. Cardinality(F \ {h}) = Cardinality(F) - 1
    BY <1>2, <1>3, <1>5, FS_RemoveElement
  <2>3. Cardinality(F \ {h}) <= Cardinality(below(h))
    BY <1>2, <1>6, <2>1, FS_Subset
  <2>4. Cardinality(F) \in Nat /\ Cardinality(below(h)) \in Nat /\ Cardinality(F) # 0
    BY <1>2, <1>3, <1>4, FS_EmptySet
  <2> QED
    BY <1>0, <1>6, <2>2, <2>3, <2>4
<1>9. F \in Batches
  BY <1>3, <1>8 DEF Batches
<1> QED
  BY <1>3, <1>4, <1>7, <1>9

-----------------------------------------------------------------------------
(* The loop *)

Start(t) == [mine |-> t.command, wrote |-> {}, stop |-> FALSE,
             barrier |-> Barrier(t.command), mark |-> Watermark(t.command)]

(* The rounds of the loop, up to n. *)
IsLoop(t, n, f) ==
    f = [i \in 0 .. n |-> IF i = 0 THEN Start(t) ELSE OneBatch(t, f[i - 1])]

LEMMA LoopExists ==
  ASSUME NEW t, NEW N \in Nat
  PROVE  \E f : IsLoop(t, N, f)
<1> DEFINE S == {n \in Nat : \E f : IsLoop(t, n, f)}
<1>1. 0 \in S
  <2> DEFINE f == [i \in 0 .. 0 |-> Start(t)]
  <2>1. IsLoop(t, 0, f)
    BY DEF IsLoop
  <2> QED
    BY <2>1
<1>2. ASSUME NEW n \in 1 .. N, n - 1 \in S PROVE n \in S
  <2>1. PICK g : IsLoop(t, n - 1, g)
    BY <1>2
  <2>2. \A i \in 0 .. n - 1 : g[i] = IF i = 0 THEN Start(t) ELSE OneBatch(t, g[i - 1])
    BY <2>1 DEF IsLoop
  <2> DEFINE f == [i \in 0 .. n |-> IF i = n THEN OneBatch(t, g[n - 1]) ELSE g[i]]
  <2>3. \A i \in 0 .. n - 1 : f[i] = g[i]
    OBVIOUS
  <2>4. ASSUME NEW i \in 0 .. n
        PROVE  f[i] = IF i = 0 THEN Start(t) ELSE OneBatch(t, f[i - 1])
    <3>1. CASE i = n
      <4>1. f[i] = OneBatch(t, g[n - 1]) /\ n - 1 \in 0 .. n - 1 /\ i # 0
        BY <3>1
      <4> QED
        BY <2>3, <3>1, <4>1
    <3>2. CASE i # n
      <4>1. i \in 0 .. n - 1 /\ (i # 0 => i - 1 \in 0 .. n - 1)
        BY <3>2
      <4> QED
        BY <2>2, <2>3, <4>1
    <3> QED
      BY <3>1, <3>2
  <2>5. f = [i \in 0 .. n |-> IF i = 0 THEN Start(t) ELSE OneBatch(t, f[i - 1])]
    <3>1. DOMAIN f = 0 .. n /\ f = [i \in 0 .. n |-> f[i]]
      OBVIOUS
    <3> HIDE DEF f
    <3> QED
      BY <2>4, <3>1
  <2>6. IsLoop(t, n, f)
    <3> HIDE DEF f
    <3> QED
      BY <2>5 DEF IsLoop
  <2>7. n \in Nat
    OBVIOUS
  <2> HIDE DEF f
  <2> QED
    BY <2>6, <2>7
<1> HIDE DEF S
<1>3. 0 .. N \subseteq S
  BY <1>1, <1>2, Induction
<1> QED
  BY <1>3 DEF S

(* What is queued is what the last round leaves. *)
LEMMA Loops ==
  ASSUME NEW t
  PROVE  \E f : IsLoop(t, MaxBatches, f) /\ Queued(t) = f[MaxBatches]
<1>1. \E f : IsLoop(t, MaxBatches, f)
  BY LoopExists, BoundsAssumption
<1> DEFINE f == CHOOSE g : g = [n \in 0 .. MaxBatches |->
                                  IF n = 0 THEN Start(t) ELSE OneBatch(t, g[n - 1])]
<1>2. IsLoop(t, MaxBatches, f)
  BY <1>1 DEF IsLoop
<1>3. Queued(t) = f[MaxBatches]
  BY DEF Queued, Start
<1> QED
  BY <1>2, <1>3

-----------------------------------------------------------------------------
(* The invariant *)

Receipts == [state : States, no : Nat]
Ledgers  == UNION {[K -> Receipts] : K \in SUBSET Batches}

Born     == [Messages -> Pointers]
Bulks    == [kind : {"bulk"}, born : Born]
Readings == [kind : {"read"}, at : Messages, born : Born, deleted : SUBSET Messages,
             stale : SUBSET Batches, command : Ledgers]
Pauses   == [kind : {"pause"}, stale : SUBSET Batches, found : SUBSET Batches]

(* Messages become rows one after the other. *)
BornInv ==
    /\ born \in Born
    /\ \A m \in Arrived : born[m] <= Cardinality(Arrived)
    /\ \A m, o \in Arrived : born[m] = born[o] => m = o

SameTarget(K, ids) == {k \in K : Target(k) = Target(ids)}

(* Receipts to the same message are numbered. *)
LedgerInv ==
    /\ command \in Ledgers
    /\ \A ids \in DOMAIN command :
          /\ ids \subseteq Arrived \ Garbled
          /\ command[ids].no <= Cardinality(SameTarget(DOMAIN command, ids))
    /\ \A ids, other \in DOMAIN command :
          Target(ids) = Target(other) /\ command[ids].no = command[other].no => ids = other

(* The snapshot of a read has the rows there are, and receipts that still are. *)
Snapshot(t) ==
    /\ t.at \in Arrived /\ t.born = born /\ t.deleted \subseteq deleted
    /\ DOMAIN t.command \subseteq DOMAIN command
    /\ \A ids \in DOMAIN t.command : t.command[ids].no = command[ids].no

RequestInv ==
    /\ request \in [Agents -> {Idle} \cup Bulks \cup Readings]
    /\ \A a \in Agents :
          /\ request[a].kind = "bulk" => request[a].born = born
          /\ request[a].kind = "read" => Snapshot(request[a])

OthersInv ==
    /\ deleted \subseteq Arrived /\ late \subseteq Arrived
    /\ seen \in [Attendants -> {0} \cup Arrived]
    /\ prepared \in [Attendants -> [at : {0} \cup Arrived, max : Pointers]]
    /\ admitted \in BOOLEAN
    /\ opened \in Pointers
    /\ pause \in {NoPause} \cup Pauses
    /\ disruptions \in 0 .. MaxDisruptions

Inv == BornInv /\ LedgerInv /\ RequestInv /\ OthersInv /\ ReceiptsFollowReading

(* A ledger is a function from some batches to receipts. *)
LEMMA LedgerLaws ==
  ASSUME NEW c
  PROVE  c \in Ledgers <=> /\ DOMAIN c \subseteq Batches
                           /\ c = [k \in DOMAIN c |-> c[k]]
                           /\ \A k \in DOMAIN c : c[k] \in Receipts
<1>1. ASSUME c \in Ledgers
      PROVE  /\ DOMAIN c \subseteq Batches
             /\ c = [k \in DOMAIN c |-> c[k]]
             /\ \A k \in DOMAIN c : c[k] \in Receipts
  <2>1. PICK K \in SUBSET Batches : c \in [K -> Receipts]
    BY <1>1 DEF Ledgers
  <2> QED
    BY <2>1
<1>2. ASSUME /\ DOMAIN c \subseteq Batches
             /\ c = [k \in DOMAIN c |-> c[k]]
             /\ \A k \in DOMAIN c : c[k] \in Receipts
      PROVE  c \in Ledgers
  <2>1. c \in [DOMAIN c -> Receipts] /\ DOMAIN c \in SUBSET Batches
    BY <1>2
  <2> QED
    BY <2>1 DEF Ledgers
<1> QED
  BY <1>1, <1>2

(* The first of the receipts that ended without being sent is one of them, and receipts
   stand where one of the others does. *)
LEMMA BarrierLaws ==
  ASSUME NEW c \in Ledgers
  PROVE  /\ Barrier(c) \in {{}} \cup Batches
         /\ Watermark(c) \in Pointers
         /\ Watermark(c) = 0 \/ \E k \in DOMAIN c : Watermark(c) = Target(k)
<1> DEFINE T == Terminals(c)
<1>0. T \subseteq Batches /\ T \subseteq DOMAIN c /\ DOMAIN c \subseteq Batches
  BY LedgerLaws DEF Terminals
<1>1. Barrier(c) \in {{}} \cup Batches
  <2>1. CASE T = {}
    BY <2>1 DEF Barrier
  <2>2. CASE T # {}
    <3> DEFINE marks == {Target(k) : k \in T}
    <3>1. marks \in SUBSET Pointers /\ marks # {}
      BY <1>0, <2>2, BatchLaws, Messaging
    <3>2. PICK lo \in marks : \A y \in marks : lo <= y
      BY <3>1, Extremes
    <3> DEFINE nos == {n \in Nat : \E k \in T : Target(k) = lo /\ c[k].no = n}
    <3>3. \A k \in T : c[k].no \in Nat /\ Target(k) \in Int
      BY <1>0, LedgerLaws, BatchLaws, Messaging DEF Receipts
    <3>4. nos \in SUBSET Nat /\ nos # {}
      <4>1. PICK k \in T : lo = Target(k)
        BY <3>2
      <4> QED
        BY <3>3, <4>1
    <3>5. PICK n \in nos : \A y \in nos : n <= y
      BY <3>4, Least
    <3>6. PICK k \in T : Target(k) = lo /\ c[k].no = n
      BY <3>5
    <3>7. ASSUME NEW l \in T PROVE Before(c, k, l)
      <4>1. lo <= Target(l) /\ lo \in Int /\ Target(l) \in Int
        BY <3>1, <3>2, <3>3, Messaging
      <4>2. CASE Target(l) = lo
        <5>1. c[l].no \in nos
          BY <3>3, <4>2
        <5>2. c[k].no <= c[l].no
          BY <3>5, <3>6, <5>1
        <5> QED
          BY <3>6, <4>2, <5>2 DEF Before
      <4>3. CASE Target(l) # lo
        BY <3>6, <4>1, <4>3 DEF Before
      <4> QED
        BY <4>2, <4>3
    <3>8. \E j \in T : \A l \in T : Before(c, j, l)
      BY <3>7
    <3>9. Barrier(c) \in T
      BY <2>2, <3>8 DEF Barrier
    <3> QED
      BY <1>0, <3>9
  <2> QED
    BY <2>1, <2>2
<1>2. /\ Watermark(c) \in Pointers
      /\ Watermark(c) = 0 \/ \E k \in DOMAIN c : Watermark(c) = Target(k)
  <2> DEFINE covered == {Target(ids) : ids \in DOMAIN c \ Terminals(c)}
             S == {m \in covered : Barrier(c) = {} \/ m < Target(Barrier(c))}
             zero == 0
  <2>1. zero \in Pointers /\ covered \subseteq Pointers
    BY <1>0, BatchLaws, Messaging
  <2>2. Watermark(c) = MaxOf({zero} \cup S)
    BY DEF Watermark
  <2>3. S \subseteq covered
    OBVIOUS
  <2> HIDE DEF zero, S
  <2>4. MaxOf({zero} \cup S) \in {zero} \cup S
    BY <2>1, <2>3, Extremes
  <2>5. MaxOf({zero} \cup S) = zero \/ MaxOf({zero} \cup S) \in covered
    BY <2>3, <2>4
  <2>6. \A m \in covered : \E k \in DOMAIN c : m = Target(k)
    OBVIOUS
  <2> QED
    BY <2>1, <2>2, <2>5, <2>6 DEF zero
<1> QED
  BY <1>1, <1>2

(* The higher of two pointers. *)
LEMMA Highers ==
  ASSUME NEW m \in Pointers, NEW o \in Pointers
  PROVE  /\ Higher(m, o) \in {m, o} /\ Higher(m, o) \in Pointers
         /\ m <= Higher(m, o) /\ o <= Higher(m, o)
BY Messaging DEF Higher

(* The number a receipt to a message would have. *)
LEMMA LastLaws ==
  ASSUME command \in Ledgers, NEW ids
  PROVE  /\ Last(ids) = Cardinality(SameTarget(DOMAIN command, ids)) + 1
         /\ Last(ids) \in Nat
<1>1. SameTarget(DOMAIN command, ids) \in SUBSET Batches
  BY LedgerLaws DEF SameTarget
<1> QED
  BY <1>1, FewBatches DEF Last, SameTarget

-----------------------------------------------------------------------------
(* The rounds *)

Rounds == [mine : Ledgers, wrote : SUBSET Batches, stop : BOOLEAN,
           barrier : {{}} \cup Batches, mark : Pointers]

Due == Arrived \ (deleted \cup Garbled \cup late)

Told(s, m) == \E k \in DOMAIN command \cup s.wrote : m \in k

(* What a round has: receipts that follow reading, with numbers of their own. *)
Base(t, s) ==
    /\ s \in Rounds
    /\ DOMAIN s.mine = DOMAIN t.command \cup s.wrote
    /\ \A k \in DOMAIN s.mine :
          /\ k \subseteq Arrived \ Garbled
          /\ Target(k) <= Higher(opened, t.at)
          /\ \A m \in Due : m < Target(k) => Told(s, m)
    /\ \A k \in DOMAIN s.mine \cap DOMAIN command : s.mine[k].no = command[k].no
    /\ \A k \in s.wrote \ DOMAIN command : s.mine[k].no = Last(k)
    /\ \A k, l \in s.wrote \ DOMAIN command : Target(k) = Target(l) => k = l

(* While it goes on all is told up to where it is, and what it made is not ahead. *)
Ahead(s) ==
    /\ \A m \in Due : m <= s.mark => Told(s, m)
    /\ \A k \in s.wrote \ DOMAIN command : Target(k) <= s.mark

Keeps(t, s) == Base(t, s) /\ (~ s.stop => Ahead(s))

(* Where it stops, where it stands and what it must send first are no part of it. *)
LEMMA BaseMoves ==
  ASSUME NEW t, NEW s, Base(t, s), NEW x \in Rounds, x.mine = s.mine, x.wrote = s.wrote
  PROVE  Base(t, x)
BY DEF Base, Told

(* Up to where the receipts of a round stand, all is told. *)
LEMMA WatermarkTold ==
  ASSUME NEW t, Snapshot(t), NEW s, Base(t, s), command \in Ledgers
  PROVE  \A m \in Due : m <= Watermark(s.mine) => Told(s, m)
<1>1. s.mine \in Ledgers /\ DOMAIN s.mine \subseteq DOMAIN command \cup s.wrote
  BY DEF Base, Rounds, Snapshot
<1>2. ASSUME NEW m \in Due, m <= Watermark(s.mine) PROVE Told(s, m)
  <2>1. m \in Messages /\ m \in Int /\ ~ (m <= 0)
    BY Messaging DEF Due, Arrived
  <2>2. PICK k \in DOMAIN s.mine : Watermark(s.mine) = Target(k)
    BY <1>1, <1>2, <2>1, BarrierLaws
  <2>3. k \in Batches /\ Target(k) \in k /\ Target(k) \in Int
    BY <1>1, LedgerLaws, BatchLaws, Messaging
  <2>4. CASE m = Target(k)
    BY <1>1, <2>3, <2>4 DEF Told
  <2>5. CASE m < Target(k)
    BY <2>5 DEF Base
  <2> QED
    BY <1>2, <2>1, <2>2, <2>3, <2>4, <2>5
<1> QED
  BY <1>2

(* The loop begins with what the snapshot has. *)
LEMMA StartKeeps ==
  ASSUME Inv, NEW t \in Readings, Snapshot(t)
  PROVE  Keeps(t, Start(t))
<1> DEFINE s == Start(t)
<1>1. /\ s.mine = t.command /\ s.wrote = {} /\ s.mark = Watermark(t.command)
      /\ s.barrier = Barrier(t.command)
  BY DEF Start
<1>2. t.command \in Ledgers /\ t.at \in Pointers /\ opened \in Pointers
  BY Messaging DEF Readings, Inv, OthersInv
<1>3. s \in Rounds
  <2>1. Barrier(t.command) \in {{}} \cup Batches /\ Watermark(t.command) \in Pointers
    BY <1>2, BarrierLaws
  <2> QED
    BY <1>2, <2>1 DEF Start, Rounds
<1>4. DOMAIN t.command \subseteq DOMAIN command /\ command \in Ledgers
  BY DEF Snapshot, Inv, LedgerInv
<1>5. ASSUME NEW k \in DOMAIN s.mine
      PROVE  /\ k \subseteq Arrived \ Garbled
             /\ Target(k) <= Higher(opened, t.at)
             /\ \A m \in Due : m < Target(k) => Told(s, m)
  <2>1. k \in DOMAIN command
    BY <1>1, <1>4
  <2>2. Target(k) <= opened /\ Target(k) \in Int
    BY <1>4, <2>1, LedgerLaws, BatchLaws, Messaging DEF Inv, ReceiptsFollowReading
  <2>3. Higher(opened, t.at) \in Int /\ opened \in Int /\ opened <= Higher(opened, t.at)
    BY <1>2, Highers, Messaging
  <2>4. \A m \in Due : m < Target(k) => \E other \in DOMAIN command : m \in other
    BY <2>1 DEF Inv, ReceiptsFollowReading, Due
  <2> QED
    BY <2>1, <2>2, <2>3, <2>4 DEF Inv, LedgerInv, Told
<1>6. Base(t, s)
  <2>1. \A k \in DOMAIN s.mine \cap DOMAIN command : s.mine[k].no = command[k].no
    BY <1>1 DEF Snapshot
  <2> HIDE DEF s
  <2> QED
    BY <1>1, <1>3, <1>5, <2>1 DEF Base
<1>7. Ahead(s)
  <2>1. \A m \in Due : m <= Watermark(s.mine) => Told(s, m)
    BY <1>4, <1>6, WatermarkTold
  <2> QED
    BY <1>1, <2>1 DEF Ahead
<1> QED
  BY <1>6, <1>7 DEF Keeps

(* A receipt that is persisted is made, made again, or stands. *)
LEMMA PersistLaws ==
  ASSUME command \in Ledgers, NEW s \in Rounds, NEW ids \in Batches,
         NEW p, p = Persist(s, ids)
  PROVE  /\ p \in Rounds
         /\ p.stop = s.stop /\ p.barrier = s.barrier /\ p.mark = s.mark
         /\ \/ p.mine = s.mine /\ p.wrote = s.wrote /\ ids \in DOMAIN s.mine \cup DOMAIN command
            \/ /\ ids \in DOMAIN s.mine
               /\ DOMAIN p.mine = DOMAIN s.mine /\ p.wrote = s.wrote \cup {ids}
            \/ /\ ids \notin DOMAIN s.mine \cup DOMAIN command
               /\ DOMAIN p.mine = DOMAIN s.mine \cup {ids} /\ p.wrote = s.wrote \cup {ids}
               /\ p.mine[ids].no = Last(ids)
         /\ \A k \in DOMAIN s.mine : p.mine[k].no = s.mine[k].no
<1>0. /\ s.mine \in Ledgers /\ s.wrote \in SUBSET Batches
      /\ DOMAIN s.mine \subseteq Batches
      /\ \A k \in DOMAIN s.mine : s.mine[k] \in Receipts
  BY LedgerLaws DEF Rounds
<1>1. CASE ids \in Terminals(s.mine)
  <2>1. ids \in DOMAIN s.mine
    BY <1>1 DEF Terminals
  <2> DEFINE mine == [s.mine EXCEPT ![ids].state = "pending"]
  <2>2. p = [s EXCEPT !.mine = mine, !.wrote = @ \cup {ids}]
    BY <1>1 DEF Persist, Rounds
  <2>3. /\ mine \in Ledgers /\ DOMAIN mine = DOMAIN s.mine
        /\ \A k \in DOMAIN s.mine : mine[k].no = s.mine[k].no
    <3>1. DOMAIN mine = DOMAIN s.mine /\ mine = [k \in DOMAIN mine |-> mine[k]]
      BY <1>0, LedgerLaws
    <3>2. ASSUME NEW k \in DOMAIN s.mine
          PROVE  mine[k] \in Receipts /\ mine[k].no = s.mine[k].no
      <4>1. mine[k] = IF k = ids THEN [s.mine[ids] EXCEPT !.state = "pending"]
                      ELSE s.mine[k]
        BY <1>0, LedgerLaws
      <4> QED
        BY <1>0, <2>1, <4>1 DEF Receipts, States
    <3> HIDE DEF mine
    <3> QED
      BY <1>0, <3>1, <3>2, LedgerLaws
  <2> HIDE DEF mine
  <2> QED
    BY <1>0, <2>1, <2>2, <2>3, ZenonT(40) DEF Rounds
<1>2. CASE ids \notin Terminals(s.mine) /\ ids \in DOMAIN s.mine \cup DOMAIN command
  <2>1. p = s
    BY <1>2 DEF Persist
  <2> QED
    BY <1>2, <2>1
<1>3. CASE ids \notin Terminals(s.mine) /\ ids \notin DOMAIN s.mine \cup DOMAIN command
  <2> DEFINE new  == [state |-> "pending", no |-> Last(ids)]
             mine == [k \in DOMAIN s.mine \cup {ids} |-> IF k = ids THEN new ELSE s.mine[k]]
  <2>1. p = [s EXCEPT !.wrote = @ \cup {ids}, !.mine = mine]
    BY <1>3 DEF Persist, Rounds
  <2>2. /\ mine \in Ledgers /\ DOMAIN mine = DOMAIN s.mine \cup {ids}
        /\ \A k \in DOMAIN s.mine : mine[k].no = s.mine[k].no
        /\ mine[ids].no = Last(ids)
    <3>1. new \in Receipts /\ new.no = Last(ids)
      BY LastLaws DEF Receipts, States
    <3>2. /\ DOMAIN mine = DOMAIN s.mine \cup {ids} /\ mine = [k \in DOMAIN mine |-> mine[k]]
          /\ \A k \in DOMAIN s.mine : mine[k] = s.mine[k]
          /\ mine[ids] = new
      BY <1>3
    <3>3. \A k \in DOMAIN mine : mine[k] \in Receipts
      BY <1>0, <3>1, <3>2
    <3> HIDE DEF mine, new
    <3> QED
      BY <1>0, <3>1, <3>2, <3>3, LedgerLaws
  <2> HIDE DEF mine
  <2> QED
    BY <1>0, <1>3, <2>1, <2>2 DEF Rounds
<1> QED
  BY <1>1, <1>2, <1>3

(* The next batch of a round, while it goes on. *)
Gap(t, s) == s.barrier # {} /\ Target(s.barrier) <= t.at
Through(t, s) == IF Gap(t, s) THEN Target(s.barrier) ELSE t.at
Open(t, s) == {m \in Readable(t.born, t.deleted) : s.mark < m /\ m <= Through(t, s)}
Drawn(t, s) == FirstOf(Open(t, s))
Ids(t, s) == Drawn(t, s) \ Garbled
Moved(t, s) == [s EXCEPT !.mark = Target(Drawn(t, s))]

(* What one round does, one way or another. *)
LEMMA RoundCases ==
  ASSUME NEW t, NEW s \in Rounds
  PROVE  LET r == OneBatch(t, s)
             p == Persist(Moved(t, s), Ids(t, s))
         IN  \/ r = s
             \/ r = [s EXCEPT !.stop = TRUE]
             \/ /\ ~ s.stop /\ Drawn(t, s) # {}
                /\ \/ Ids(t, s) = {} /\ r = [Moved(t, s) EXCEPT !.stop = Gap(t, s)]
                   \/ r = [Moved(t, s) EXCEPT !.stop = TRUE]
                   \/ /\ Ids(t, s) # {}
                      /\ \/ r = Refreshed(p, s.barrier)
                         \/ \E b \in BOOLEAN : r = [p EXCEPT !.stop = b]
<1> DEFINE r == OneBatch(t, s)
           p == Persist(Moved(t, s), Ids(t, s))
<1>1. r = CASE s.stop -> s
            [] ~ s.stop /\ Drawn(t, s) = {} -> [s EXCEPT !.stop = TRUE]
            [] ~ s.stop /\ Drawn(t, s) # {} /\ Ids(t, s) = {} ->
                  [Moved(t, s) EXCEPT !.stop = Gap(t, s)]
            [] ~ s.stop /\ Ids(t, s) # {} /\ Gap(t, s) /\ Ids(t, s) # s.barrier ->
                  [Moved(t, s) EXCEPT !.stop = TRUE]
            [] ~ s.stop /\ Ids(t, s) # {} /\ Gap(t, s) /\ Ids(t, s) = s.barrier ->
                  Refreshed(p, s.barrier)
            [] OTHER -> [p EXCEPT !.stop = Cardinality(Drawn(t, s)) < Batch]
  BY DEF OneBatch, Drawn, Open, Ids, Moved, Gap, Through
<1>2. Ids(t, s) # {} => Drawn(t, s) # {}
  BY DEF Ids
<1>3. (Cardinality(Drawn(t, s)) < Batch) \in BOOLEAN /\ s.stop \in BOOLEAN
  BY DEF Rounds
<1> HIDE DEF r, p
<1>4. \/ r = s
      \/ r = [s EXCEPT !.stop = TRUE]
      \/ /\ ~ s.stop /\ Drawn(t, s) # {}
         /\ \/ Ids(t, s) = {} /\ r = [Moved(t, s) EXCEPT !.stop = Gap(t, s)]
            \/ r = [Moved(t, s) EXCEPT !.stop = TRUE]
            \/ /\ Ids(t, s) # {}
               /\ \/ r = Refreshed(p, s.barrier)
                  \/ \E b \in BOOLEAN : r = [p EXCEPT !.stop = b]
  <2>1. CASE s.stop
    BY <1>1, <2>1
  <2>2. CASE ~ s.stop /\ Drawn(t, s) = {}
    BY <1>1, <1>2, <2>2
  <2>3. CASE ~ s.stop /\ Drawn(t, s) # {} /\ Ids(t, s) = {}
    BY <1>1, <2>3
  <2>4. CASE ~ s.stop /\ Ids(t, s) # {} /\ Gap(t, s) /\ Ids(t, s) # s.barrier
    BY <1>1, <1>2, <2>4
  <2>5. CASE ~ s.stop /\ Ids(t, s) # {} /\ Gap(t, s) /\ Ids(t, s) = s.barrier
    BY <1>1, <1>2, <2>5
  <2>6. CASE ~ s.stop /\ Ids(t, s) # {} /\ ~ Gap(t, s)
    <3>1. r = [p EXCEPT !.stop = Cardinality(Drawn(t, s)) < Batch]
      BY <1>1, <1>2, <2>6
    <3>2. \E b \in BOOLEAN : r = [p EXCEPT !.stop = b]
      BY <1>3, <3>1
    <3> QED
      BY <1>2, <2>6, <3>2
  <2> QED
    BY <1>2, <2>1, <2>2, <2>3, <2>4, <2>5, <2>6
<1> QED
  BY <1>4 DEF r, p

(* What a round draws follows what is told. *)
LEMMA DrawnLaws ==
  ASSUME Inv, NEW t \in Readings, Snapshot(t), NEW s, Keeps(t, s), ~ s.stop,
         Drawn(t, s) # {}
  PROVE  LET d == Drawn(t, s)
         IN  /\ Moved(t, s) \in Rounds /\ Moved(t, s).mark = Target(d)
             /\ Moved(t, s).mine = s.mine /\ Moved(t, s).wrote = s.wrote
             /\ Moved(t, s).stop = s.stop
             /\ d \in Batches /\ d \subseteq Arrived
             /\ \A m \in d : s.mark < m
             /\ Target(d) <= t.at /\ s.mark < Target(d)
             /\ \A m \in Due : m <= Target(d) => m \in Ids(t, s) \/ Told(s, m)
<1> DEFINE d == Drawn(t, s)
<1>0. /\ t.at \in Messages /\ t.born = born /\ t.deleted \subseteq deleted
      /\ s \in Rounds /\ s.mark \in Pointers /\ s.barrier \in {{}} \cup Batches
  BY DEF Readings, Snapshot, Keeps, Base, Rounds
<1>1. /\ Open(t, s) \subseteq Arrived /\ Open(t, s) \in SUBSET Messages
      /\ \A m \in Open(t, s) : s.mark < m /\ m <= Through(t, s)
  BY <1>0 DEF Open, Readable, Arrived
<1>2. Through(t, s) \in Messages /\ Through(t, s) <= t.at
  <2>1. t.at <= t.at
    BY <1>0, Messaging
  <2>2. s.barrier # {} => Target(s.barrier) \in Messages
    BY <1>0, BatchLaws
  <2> QED
    BY <1>0, <2>1, <2>2 DEF Through, Gap
<1>3. Open(t, s) # {}
  <2>1. SUFFICES ASSUME Open(t, s) = {} PROVE FALSE
    OBVIOUS
  <2>2. Drawn(t, s) = {}
    BY <2>1 DEF Drawn, FirstOf
  <2> QED
    BY <2>2
<1>4. /\ d \subseteq Open(t, s) /\ d \in Batches
      /\ \A m \in Open(t, s) : m <= Target(d) => m \in d
  BY <1>1, <1>3, FirstOfLaws DEF Drawn
<1>5. Target(d) \in d /\ Target(d) \in Messages
  BY <1>4, BatchLaws
<1>6. Target(d) <= t.at /\ s.mark < Target(d) /\ Target(d) <= Through(t, s)
  <2>1. s.mark < Target(d) /\ Target(d) <= Through(t, s)
    BY <1>1, <1>4, <1>5
  <2>2. Target(d) \in Int /\ Through(t, s) \in Int /\ t.at \in Int
    BY <1>0, <1>2, <1>5, Messaging
  <2> QED
    BY <1>2, <2>1, <2>2
<1>7. /\ Moved(t, s) \in Rounds /\ Moved(t, s).mark = Target(d)
      /\ Moved(t, s).mine = s.mine /\ Moved(t, s).wrote = s.wrote
      /\ Moved(t, s).stop = s.stop
  BY <1>0, <1>5, Messaging DEF Moved, Rounds
<1>8. ASSUME NEW m \in Due, m <= Target(d) PROVE m \in Ids(t, s) \/ Told(s, m)
  <2>0. m \in Messages /\ m \in Int /\ s.mark \in Int
    BY <1>0, Messaging DEF Due, Arrived
  <2>1. CASE m <= s.mark
    BY <2>1 DEF Keeps, Ahead
  <2>2. CASE s.mark < m
    <3>1. m <= Through(t, s)
      <4>1. Target(d) \in Int /\ Through(t, s) \in Int
        BY <1>2, <1>5, Messaging
      <4> QED
        BY <1>6, <1>8, <2>0, <4>1
    <3>2. m \in Readable(t.born, t.deleted)
      BY <1>0 DEF Due, Arrived, Readable
    <3>3. m \in d
      BY <1>4, <1>8, <2>2, <3>1, <3>2 DEF Open
    <3> QED
      BY <3>3 DEF Ids, Due
  <2> QED
    BY <2>0, <2>1, <2>2
<1> QED
  BY <1>1, <1>4, <1>5, <1>6, <1>7, <1>8

(* What a round persists is told, with a number of its own. *)
LEMMA PersistKeeps ==
  ASSUME Inv, NEW t \in Readings, Snapshot(t), NEW s, Keeps(t, s), ~ s.stop,
         Drawn(t, s) # {}, Ids(t, s) # {}
  PROVE  LET p == Persist(Moved(t, s), Ids(t, s))
         IN  Base(t, p) /\ Ahead(p)
<1> DEFINE n == Moved(t, s)
           ids == Ids(t, s)
           d == Drawn(t, s)
           p == Persist(n, ids)
<1>0. /\ command \in Ledgers /\ DOMAIN t.command \subseteq DOMAIN command
      /\ t.at \in Messages /\ opened \in Pointers
  BY DEF Inv, LedgerInv, OthersInv, Snapshot, Readings
<1>1. /\ n \in Rounds /\ n.mark = Target(d) /\ n.mine = s.mine /\ n.wrote = s.wrote
      /\ d \in Batches /\ d \subseteq Arrived
      /\ \A m \in d : s.mark < m
      /\ Target(d) <= t.at /\ s.mark < Target(d)
      /\ \A m \in Due : m <= Target(d) => m \in ids \/ Told(s, m)
  BY DrawnLaws
<1>2. /\ ids \subseteq d /\ ids \subseteq Arrived \ Garbled /\ ids \in Batches
      /\ Target(ids) \in d /\ Target(ids) \in Messages /\ Target(ids) <= Target(d)
      /\ \A m \in ids : m <= Target(ids)
  <2>1. ids \subseteq d /\ ids \subseteq Arrived \ Garbled
    BY <1>1 DEF Ids
  <2>2. d \in SUBSET Messages /\ Cardinality(d) \in 1 .. Batch /\ Batch \in Nat
    BY <1>1, BoundsAssumption DEF Batches
  <2>3. Cardinality(ids) <= Cardinality(d) /\ Cardinality(ids) \in Nat
    BY <2>1, <2>2, Messaging, FS_Subset, FS_CardinalityType
  <2>4. Cardinality(ids) # 0
    BY <2>1, <2>2, Messaging, FS_EmptySet
  <2>5. ids \in Batches
    BY <2>1, <2>2, <2>3, <2>4 DEF Batches
  <2> QED
    BY <1>1, <2>1, <2>5, BatchLaws
<1>3. Base(t, s) /\ Ahead(s) /\ s \in Rounds
  BY DEF Keeps, Base
<1> HIDE DEF n, ids, d
<1>4. /\ p \in Rounds /\ p.mark = Target(d)
      /\ \/ p.mine = s.mine /\ p.wrote = s.wrote /\ ids \in DOMAIN s.mine \cup DOMAIN command
         \/ /\ ids \in DOMAIN s.mine
            /\ DOMAIN p.mine = DOMAIN s.mine /\ p.wrote = s.wrote \cup {ids}
         \/ /\ ids \notin DOMAIN s.mine \cup DOMAIN command
            /\ DOMAIN p.mine = DOMAIN s.mine \cup {ids} /\ p.wrote = s.wrote \cup {ids}
            /\ p.mine[ids].no = Last(ids)
      /\ \A k \in DOMAIN s.mine : p.mine[k].no = s.mine[k].no
  BY <1>0, <1>1, <1>2, PersistLaws
<1> HIDE DEF p
<1>5. DOMAIN s.mine = DOMAIN t.command \cup s.wrote
  BY <1>3 DEF Base
<1>6. DOMAIN p.mine = DOMAIN t.command \cup p.wrote
  BY <1>4, <1>5
<1>7. \A m \in Due : (Told(s, m) \/ m \in ids) => Told(p, m)
  <2>1. s.wrote \subseteq p.wrote /\ ids \in DOMAIN command \cup p.wrote
    BY <1>0, <1>4, <1>5
  <2> QED
    BY <2>1 DEF Told
<1>8. \A m \in Due : m <= Target(d) => Told(p, m)
  BY <1>1, <1>7
<1>9. ASSUME NEW k \in DOMAIN p.mine
      PROVE  /\ k \subseteq Arrived \ Garbled
             /\ Target(k) <= Higher(opened, t.at)
             /\ \A m \in Due : m < Target(k) => Told(p, m)
  <2>1. CASE k \in DOMAIN s.mine
    BY <1>3, <1>7, <2>1 DEF Base
  <2>2. CASE k = ids
    <3>1. /\ Target(ids) \in Int /\ Target(d) \in Int /\ t.at \in Int
          /\ Higher(opened, t.at) \in Int /\ t.at <= Higher(opened, t.at)
      <4>1. Target(d) \in Messages /\ t.at \in Pointers
        BY <1>0, <1>1, BatchLaws, Messaging
      <4>2. Higher(opened, t.at) \in Pointers /\ t.at <= Higher(opened, t.at)
        BY <1>0, <4>1, Highers
      <4> QED
        BY <1>2, <4>1, <4>2, Messaging
    <3>2. Target(k) <= Higher(opened, t.at)
      BY <1>1, <1>2, <2>2, <3>1
    <3>3. ASSUME NEW m \in Due, m < Target(k) PROVE m <= Target(d)
      <4>1. m \in Int
        BY Messaging DEF Due, Arrived
      <4> QED
        BY <1>2, <2>2, <3>1, <3>3, <4>1
    <3> QED
      BY <1>2, <1>8, <2>2, <3>2, <3>3
  <2> QED
    BY <1>4, <2>1, <2>2
<1>10. \A k \in DOMAIN p.mine \cap DOMAIN command : p.mine[k].no = command[k].no
  BY <1>3, <1>4 DEF Base
<1>11. \A k \in p.wrote \ DOMAIN command : p.mine[k].no = Last(k)
  <2>1. \A k \in s.wrote \ DOMAIN command : k \in DOMAIN s.mine /\ s.mine[k].no = Last(k)
    BY <1>3, <1>5 DEF Base
  <2>2. DOMAIN s.mine \subseteq DOMAIN command \cup s.wrote
    BY <1>0, <1>5
  <2> QED
    BY <1>4, <2>1, <2>2
<1>12. ASSUME NEW k \in p.wrote \ DOMAIN command
       PROVE  \/ k \in s.wrote \ DOMAIN command
              \/ k = ids /\ ids \notin DOMAIN s.mine
  <2>1. DOMAIN s.mine \subseteq DOMAIN command \cup s.wrote
    BY <1>0, <1>5
  <2> QED
    BY <1>4, <1>12, <2>1
<1>13. ASSUME NEW k \in s.wrote \ DOMAIN command
       PROVE  Target(k) < Target(ids) /\ Target(k) <= Target(d)
  <2>1. Target(k) <= s.mark /\ k \in Batches /\ s.mark \in Pointers
    BY <1>3 DEF Ahead, Rounds
  <2>2. Target(k) \in Int /\ s.mark \in Int /\ Target(ids) \in Int /\ Target(d) \in Int
    BY <1>1, <1>2, <2>1, BatchLaws, Messaging
  <2>3. s.mark < Target(ids) /\ s.mark < Target(d)
    BY <1>1, <1>2
  <2> QED
    BY <2>1, <2>2, <2>3
<1>14. ASSUME NEW k \in p.wrote \ DOMAIN command, NEW l \in p.wrote \ DOMAIN command,
              Target(k) = Target(l)
       PROVE  k = l
  <2>1. CASE k \in s.wrote \ DOMAIN command /\ l \in s.wrote \ DOMAIN command
    BY <1>3, <1>14, <2>1 DEF Base
  <2>2. Target(ids) \in Int
    BY <1>2, Messaging
  <2>3. CASE k = ids /\ l \in s.wrote \ DOMAIN command
    BY <1>13, <1>14, <2>2, <2>3
  <2>4. CASE l = ids /\ k \in s.wrote \ DOMAIN command
    BY <1>13, <1>14, <2>2, <2>4
  <2> QED
    BY <1>12, <2>1, <2>3, <2>4
<1>15. Base(t, p)
  BY <1>4, <1>6, <1>9, <1>10, <1>11, <1>14 DEF Base
<1>16. \A k \in p.wrote \ DOMAIN command : Target(k) <= p.mark
  BY <1>2, <1>4, <1>12, <1>13
<1>17. Ahead(p)
  BY <1>4, <1>8, <1>16 DEF Ahead
<1> QED
  BY <1>15, <1>17 DEF p, n, ids

(* Receipts go on from where they stand once the gap is closed. *)
LEMMA RefreshedKeeps ==
  ASSUME Inv, NEW t \in Readings, Snapshot(t), NEW p, Base(t, p), Ahead(p), NEW barrier
  PROVE  Keeps(t, Refreshed(p, barrier))
<1>0. p \in Rounds /\ p.mine \in Ledgers /\ p.mark \in Pointers /\ p.wrote \in SUBSET Batches
  BY DEF Base, Rounds
<1> DEFINE after == Barrier(p.mine)
           mark  == Higher(p.mark, Watermark(p.mine))
<1>1. after \in {{}} \cup Batches /\ Watermark(p.mine) \in Pointers
  BY <1>0, BarrierLaws
<1>2. /\ mark \in Pointers /\ mark \in {p.mark, Watermark(p.mine)} /\ p.mark <= mark
  BY <1>0, <1>1, Highers
<1>3. CASE after = barrier
  <2>1. Refreshed(p, barrier) = [p EXCEPT !.stop = TRUE]
    BY <1>3 DEF Refreshed
  <2>2. /\ [p EXCEPT !.stop = TRUE] \in Rounds
        /\ [p EXCEPT !.stop = TRUE].mine = p.mine /\ [p EXCEPT !.stop = TRUE].wrote = p.wrote
        /\ [p EXCEPT !.stop = TRUE].stop = TRUE
    BY <1>0 DEF Rounds
  <2> QED
    BY <2>1, <2>2, BaseMoves DEF Keeps
<1>4. CASE after # barrier
  <2> DEFINE x == [p EXCEPT !.barrier = after, !.mark = mark]
  <2>1. Refreshed(p, barrier) = x
    BY <1>0, <1>4 DEF Refreshed, Rounds
  <2>2. /\ x \in Rounds /\ x.mine = p.mine /\ x.wrote = p.wrote /\ x.mark = mark
    <3> HIDE DEF after, mark
    <3> QED
      BY <1>0, <1>1, <1>2 DEF Rounds
  <2> HIDE DEF x
  <2>3. Base(t, x)
    BY <2>2, BaseMoves
  <2>4. \A m \in Due : m <= mark => Told(x, m)
    <3>1. \A m \in Due : m <= Watermark(p.mine) => Told(p, m)
      BY WatermarkTold DEF Inv, LedgerInv
    <3>2. \A m \in Due : m <= p.mark => Told(p, m)
      BY DEF Ahead
    <3> QED
      BY <1>2, <2>2, <3>1, <3>2 DEF Told
  <2>5. ASSUME NEW k \in x.wrote \ DOMAIN command PROVE Target(k) <= x.mark
    <3>1. Target(k) <= p.mark /\ k \in Batches
      BY <1>0, <2>2 DEF Ahead
    <3>2. Target(k) \in Int /\ p.mark \in Int /\ mark \in Int
      BY <1>0, <1>2, <3>1, BatchLaws, Messaging
    <3> HIDE DEF mark
    <3> QED
      BY <1>2, <2>2, <3>1, <3>2
  <2>6. Ahead(x)
    BY <2>2, <2>4, <2>5 DEF Ahead
  <2> QED
    BY <2>1, <2>3, <2>6 DEF Keeps
<1> QED
  BY <1>3, <1>4

(* A round keeps what the rounds before it have. *)
LEMMA RoundKeeps ==
  ASSUME Inv, NEW t \in Readings, Snapshot(t), NEW s, Keeps(t, s)
  PROVE  Keeps(t, OneBatch(t, s))
<1> DEFINE r == OneBatch(t, s)
           n == Moved(t, s)
           p == Persist(n, Ids(t, s))
<1>0. s \in Rounds
  BY DEF Keeps, Base
<1>1. \/ r = s
      \/ r = [s EXCEPT !.stop = TRUE]
      \/ /\ ~ s.stop /\ Drawn(t, s) # {}
         /\ \/ Ids(t, s) = {} /\ r = [n EXCEPT !.stop = Gap(t, s)]
            \/ r = [n EXCEPT !.stop = TRUE]
            \/ /\ Ids(t, s) # {}
               /\ \/ r = Refreshed(p, s.barrier)
                  \/ \E b \in BOOLEAN : r = [p EXCEPT !.stop = b]
  BY <1>0, RoundCases
<1> SUFFICES Keeps(t, r)
  OBVIOUS
<1> HIDE DEF r, p
<1>2. CASE r = s
  BY <1>2
<1>3. CASE r = [s EXCEPT !.stop = TRUE]
  <2>1. r \in Rounds /\ r.mine = s.mine /\ r.wrote = s.wrote /\ r.stop = TRUE
    BY <1>0, <1>3 DEF Rounds
  <2> QED
    BY <2>1, BaseMoves DEF Keeps
<1>4. CASE ~ s.stop /\ Drawn(t, s) # {}
  <2>1. /\ n \in Rounds /\ n.mark = Target(Drawn(t, s))
        /\ n.mine = s.mine /\ n.wrote = s.wrote
        /\ s.mark < Target(Drawn(t, s)) /\ Drawn(t, s) \in Batches
        /\ \A m \in Due : m <= Target(Drawn(t, s)) => m \in Ids(t, s) \/ Told(s, m)
    BY <1>4, DrawnLaws
  <2> HIDE DEF n
  <2>2. CASE Ids(t, s) = {} /\ r = [n EXCEPT !.stop = Gap(t, s)]
    <3>1. Gap(t, s) \in BOOLEAN
      BY DEF Gap
    <3>2. r \in Rounds /\ r.mine = s.mine /\ r.wrote = s.wrote /\ r.mark = n.mark
      BY <2>1, <2>2, <3>1 DEF Rounds
    <3>3. Base(t, r)
      BY <3>2, BaseMoves DEF Keeps
    <3>4. \A m \in Due : m <= r.mark => Told(r, m)
      BY <2>1, <2>2, <3>2 DEF Told
    <3>5. ASSUME NEW k \in r.wrote \ DOMAIN command PROVE Target(k) <= r.mark
      <4>1. Target(k) <= s.mark /\ k \in Batches /\ s.mark \in Pointers
        BY <1>0, <1>4, <3>2 DEF Keeps, Ahead, Rounds
      <4>2. Target(k) \in Int /\ s.mark \in Int /\ Target(Drawn(t, s)) \in Int
        BY <2>1, <4>1, BatchLaws, Messaging
      <4> QED
        BY <2>1, <3>2, <4>1, <4>2
    <3> QED
      BY <3>3, <3>4, <3>5 DEF Keeps, Ahead
  <2>3. CASE r = [n EXCEPT !.stop = TRUE]
    <3>1. r \in Rounds /\ r.mine = s.mine /\ r.wrote = s.wrote /\ r.stop = TRUE
      BY <2>1, <2>3 DEF Rounds
    <3> QED
      BY <3>1, BaseMoves DEF Keeps
  <2>4. CASE Ids(t, s) # {} /\ r = Refreshed(p, s.barrier)
    <3>1. Base(t, p) /\ Ahead(p)
      BY <1>4, <2>4, PersistKeeps DEF p, n
    <3> QED
      BY <2>4, <3>1, RefreshedKeeps
  <2>5. ASSUME Ids(t, s) # {}, NEW b \in BOOLEAN, r = [p EXCEPT !.stop = b]
        PROVE  Keeps(t, r)
    <3>1. Base(t, p) /\ Ahead(p)
      BY <1>4, <2>5, PersistKeeps DEF p, n
    <3>2. r \in Rounds /\ r.mine = p.mine /\ r.wrote = p.wrote /\ r.mark = p.mark
      BY <2>5, <3>1 DEF Base, Rounds
    <3>3. Base(t, r)
      BY <3>1, <3>2, BaseMoves
    <3>4. Ahead(r)
      BY <3>1, <3>2 DEF Ahead, Told
    <3> QED
      BY <3>3, <3>4 DEF Keeps
  <2> QED
    BY <1>1, <1>2, <1>3, <1>4, <2>2, <2>3, <2>4, <2>5
<1> QED
  BY <1>1, <1>2, <1>3, <1>4

(* So what a read queues follows reading. *)
LEMMA QueuedLaws ==
  ASSUME Inv, NEW t \in Readings, Snapshot(t)
  PROVE  Base(t, Queued(t))
<1>1. PICK f : IsLoop(t, MaxBatches, f) /\ Queued(t) = f[MaxBatches]
  BY Loops
<1>2. MaxBatches \in Nat
  BY BoundsAssumption
<1>3. \A i \in 0 .. MaxBatches : f[i] = IF i = 0 THEN Start(t) ELSE OneBatch(t, f[i - 1])
  BY <1>1 DEF IsLoop
<1> DEFINE S == {i \in 0 .. MaxBatches : Keeps(t, f[i])}
<1>4. 0 \in S
  <2>1. f[0] = Start(t)
    BY <1>2, <1>3
  <2> QED
    BY <1>2, <2>1, StartKeeps
<1>5. ASSUME NEW n \in 1 .. MaxBatches, n - 1 \in S PROVE n \in S
  <2>1. f[n] = OneBatch(t, f[n - 1])
    BY <1>2, <1>3
  <2>2. Keeps(t, f[n])
    BY <1>5, <2>1, RoundKeeps
  <2> QED
    BY <2>2
<1> HIDE DEF S
<1>6. MaxBatches \in S
  BY <1>2, <1>4, <1>5, Induction
<1> QED
  BY <1>1, <1>6 DEF S, Keeps

-----------------------------------------------------------------------------
(* What steps share *)

(* A request under way goes on with its snapshot, which only gets stale. *)
Similar(t, u) ==
    /\ u.kind = t.kind
    /\ t.kind = "bulk" => u.born = t.born
    /\ t.kind = "read" => /\ u.at = t.at /\ u.born = t.born /\ u.deleted = t.deleted
                          /\ u.command = t.command

Requests == {Idle} \cup Bulks \cup Readings

LEMMA StaleLaws ==
  ASSUME NEW t \in Requests, NEW rows \in SUBSET Batches
  PROVE  Stale(t, rows) \in Requests /\ Similar(t, Stale(t, rows))
<1>1. CASE t \in {Idle} \cup Bulks
  <2>1. t.kind \in {"idle", "bulk"}
    BY <1>1 DEF Idle, Bulks
  <2>2. Stale(t, rows) = t
    BY <2>1 DEF Stale, Locks
  <2> QED
    BY <2>1, <2>2 DEF Similar
<1>2. CASE t \in Readings
  <2>1. Locks(t) \cap rows \in SUBSET Batches
    OBVIOUS
  <2> DEFINE x == t.stale \cup (Locks(t) \cap rows)
  <2>2. Stale(t, rows) = t \/ Stale(t, rows) = [t EXCEPT !.stale = x]
    BY <1>2 DEF Stale, Readings
  <2>3. x \in SUBSET Batches
    BY <1>2, <2>1 DEF Readings
  <2> HIDE DEF x
  <2>4. [t EXCEPT !.stale = x] \in Readings /\ Similar(t, [t EXCEPT !.stale = x])
    BY <1>2, <2>3 DEF Readings, Similar
  <2> QED
    BY <1>2, <2>2, <2>4 DEF Requests, Similar
<1> QED
  BY <1>1, <1>2 DEF Requests

LEMMA StalePause ==
  ASSUME NEW t \in {NoPause} \cup Pauses, NEW rows \in SUBSET Batches
  PROVE  Stale(t, rows) \in {NoPause} \cup Pauses
<1>1. CASE t = NoPause
  BY <1>1 DEF Stale, Locks, NoPause
<1>2. CASE t \in Pauses
  <2> DEFINE x == t.stale \cup (Locks(t) \cap rows)
  <2>1. Stale(t, rows) = t \/ Stale(t, rows) = [t EXCEPT !.stale = x]
    BY <1>2 DEF Stale, Pauses
  <2>2. x \in SUBSET Batches
    BY <1>2 DEF Pauses
  <2> HIDE DEF x
  <2> QED
    BY <1>2, <2>1, <2>2 DEF Pauses
<1> QED
  BY <1>1, <1>2

(* Requests that end, go on, or begin now, have the rows there are, as long as no
   message arrives and receipts keep their numbers. *)
LEMMA RequestKept ==
  ASSUME Inv, UNCHANGED born, deleted \subseteq deleted',
         DOMAIN command \subseteq DOMAIN command',
         \A k \in DOMAIN command : command'[k].no = command[k].no,
         request' \in [Agents -> Requests],
         \A a \in Agents : \/ request'[a] = Idle
                           \/ Similar(request[a], request'[a])
                           \/ request'[a] \in Bulks /\ request'[a].born = born
                           \/ request'[a] \in Readings /\ Snapshot(request'[a])
  PROVE  RequestInv'
<1>1. Arrived' = Arrived
  BY DEF Arrived
<1>2. ASSUME NEW t, Snapshot(t)
      PROVE  /\ t.at \in Arrived' /\ t.born = born' /\ t.deleted \subseteq deleted'
             /\ DOMAIN t.command \subseteq DOMAIN command'
             /\ \A ids \in DOMAIN t.command : t.command[ids].no = command'[ids].no
  BY <1>1, <1>2 DEF Snapshot
<1>3. ASSUME NEW a \in Agents
      PROVE  /\ request'[a].kind = "bulk" => request'[a].born = born'
             /\ request'[a].kind = "read" =>
                   /\ request'[a].at \in Arrived' /\ request'[a].born = born'
                   /\ request'[a].deleted \subseteq deleted'
                   /\ DOMAIN request'[a].command \subseteq DOMAIN command'
                   /\ \A ids \in DOMAIN request'[a].command :
                         request'[a].command[ids].no = command'[ids].no
  <2>1. CASE request'[a] = Idle
    BY <2>1 DEF Idle
  <2>2. CASE Similar(request[a], request'[a])
    <3>1. /\ request[a].kind = "bulk" => request[a].born = born
          /\ request[a].kind = "read" => Snapshot(request[a])
      BY DEF Inv, RequestInv
    <3>2. CASE request'[a].kind = "bulk"
      BY <2>2, <3>1, <3>2 DEF Similar
    <3>3. CASE request'[a].kind = "read"
      <4>1. /\ request'[a].at = request[a].at /\ request'[a].born = request[a].born
            /\ request'[a].deleted = request[a].deleted
            /\ request'[a].command = request[a].command /\ Snapshot(request[a])
        BY <2>2, <3>1, <3>3 DEF Similar
      <4> QED
        BY <1>2, <3>3, <4>1
    <3> QED
      BY <3>2, <3>3
  <2>3. CASE request'[a] \in Bulks /\ request'[a].born = born
    BY <2>3 DEF Bulks
  <2>4. CASE request'[a] \in Readings /\ Snapshot(request'[a])
    <3>1. request'[a].kind = "read"
      BY <2>4 DEF Readings
    <3> QED
      BY <1>2, <2>4, <3>1
  <2> QED
    BY <2>1, <2>2, <2>3, <2>4
<1> QED
  BY <1>3 DEF RequestInv, Snapshot, Requests

(* Receipts that change their state and nothing else. *)
LEMMA LedgerKept ==
  ASSUME Inv, command' \in Ledgers, DOMAIN command' = DOMAIN command,
         \A k \in DOMAIN command : command'[k].no = command[k].no,
         UNCHANGED <<born, late, opened>>, deleted \subseteq deleted'
  PROVE  BornInv' /\ LedgerInv' /\ ReceiptsFollowReading'
<1>1. Arrived' = Arrived
  BY DEF Arrived
<1>2. BornInv'
  BY <1>1 DEF Inv, BornInv
<1>3. LedgerInv'
  BY <1>1 DEF Inv, LedgerInv
<1>4. ReceiptsFollowReading'
  BY <1>1 DEF Inv, ReceiptsFollowReading
<1> QED
  BY <1>2, <1>3, <1>4

(* All requests fenced. *)
LEMMA FencedLaws ==
  ASSUME Inv, request' = Fenced(request)
  PROVE  request' \in [Agents -> Requests] /\ \A a \in Agents : request'[a] = Idle
BY DEF Inv, RequestInv, Fenced, Requests

(* One request ends. *)
LEMMA IdleLaws ==
  ASSUME Inv, NEW a \in Agents, request' = [request EXCEPT ![a] = Idle]
  PROVE  /\ request' \in [Agents -> Requests]
         /\ \A o \in Agents : request'[o] = Idle \/ Similar(request[o], request'[o])
BY DEF Inv, RequestInv, Requests, Similar

(* Disturbances are counted. *)
LEMMA Disruptions ==
  ASSUME Inv, Disrupt \/ DisruptAlone
  PROVE  disruptions' \in 0 .. MaxDisruptions
BY BoundsAssumption DEF Inv, OthersInv, Disrupt, DisruptAlone

(* The policy, the pointers and the history. *)
LEMMA OthersKept ==
  ASSUME Inv, UNCHANGED born, deleted' \subseteq Arrived, UNCHANGED late,
         seen' \in [Attendants -> {0} \cup Arrived],
         prepared' \in [Attendants -> [at : {0} \cup Arrived, max : Pointers]],
         admitted' \in BOOLEAN, opened' \in Pointers, pause' \in {NoPause} \cup Pauses,
         disruptions' \in 0 .. MaxDisruptions
  PROVE  OthersInv'
<1>1. Arrived' = Arrived
  BY DEF Arrived
<1> QED
  BY <1>1 DEF Inv, OthersInv

-----------------------------------------------------------------------------
(* The customer *)

LEMMA ArriveInv ==
  ASSUME Inv, NEW m \in Messages, Arrive(m)
  PROVE  Inv'
<1>0. /\ born \in Born /\ born[m] = 0 /\ Arrived \in SUBSET Messages
      /\ born' = [born EXCEPT ![m] = Cardinality(Arrived) + 1]
  BY DEF Arrive, Inv, BornInv, Arrived
<1>1. m \notin Arrived /\ IsFiniteSet(Arrived) /\ Cardinality(Arrived) \in Nat
  BY <1>0, Messaging DEF Arrived
<1>2. Cardinality(Arrived \cup {m}) = Cardinality(Arrived) + 1
  BY <1>1, FS_AddElement
<1>3. Cardinality(Arrived) + 1 \in Pointers /\ Cardinality(Arrived) + 1 # 0
  <2>1. Cardinality(Arrived \cup {m}) \in Pointers
    BY <1>0, Messaging
  <2> QED
    BY <1>1, <1>2, <2>1
<1>4. /\ born' \in Born /\ born'[m] = Cardinality(Arrived) + 1
      /\ \A o \in Messages : o # m => born'[o] = born[o]
  BY <1>0, <1>3 DEF Born
<1>5. Arrived' = Arrived \cup {m}
  BY <1>0, <1>3, <1>4 DEF Arrived
<1>6. BornInv'
  <2>1. ASSUME NEW o \in Arrived'
        PROVE  born'[o] <= Cardinality(Arrived') /\ (o # m => born'[o] < born'[m])
    <3>1. CASE o = m
      BY <1>1, <1>2, <1>4, <1>5, <3>1
    <3>2. CASE o # m
      <4>1. o \in Arrived /\ born'[o] = born[o] /\ born[o] <= Cardinality(Arrived)
            /\ born[o] \in Int
        BY <1>0, <1>4, <1>5, <2>1, <3>2, Messaging DEF Inv, BornInv, Born
      <4> QED
        BY <1>1, <1>2, <1>4, <1>5, <4>1
    <3> QED
      BY <3>1, <3>2
  <2>2. ASSUME NEW o \in Arrived', NEW l \in Arrived', born'[o] = born'[l]
        PROVE  o = l
    <3>1. CASE o # m /\ l # m
      <4>1. o \in Arrived /\ l \in Arrived /\ born[o] = born[l]
        BY <1>0, <1>4, <1>5, <2>2, <3>1
      <4> QED
        BY <4>1 DEF Inv, BornInv
    <3>2. born'[m] \in Int
      BY <1>1, <1>4
    <3> QED
      BY <2>1, <2>2, <3>1, <3>2
  <2> QED
    BY <1>4, <2>1, <2>2 DEF BornInv
<1>7. LedgerInv'
  BY <1>5 DEF Arrive, Inv, LedgerInv
<1>8. RequestInv'
  <2>1. request' \in [Agents -> Requests] /\ \A a \in Agents : request'[a] = Idle
    BY FencedLaws DEF Arrive
  <2>2. \A a \in Agents : request'[a].kind = "idle"
    BY <2>1 DEF Idle
  <2> QED
    BY <2>1, <2>2 DEF RequestInv, Requests
<1>9. late' \in {late, late \cup {m}}
  BY DEF Arrive
<1>10. OthersInv'
  BY <1>5, <1>9 DEF Arrive, Inv, OthersInv
<1>11. ReceiptsFollowReading'
  <2>1. ASSUME NEW ids \in DOMAIN command
        PROVE  /\ Target(ids) <= opened
               /\ \A o \in Arrived' \ (deleted \cup Garbled \cup late') :
                     o < Target(ids) => \E other \in DOMAIN command : o \in other
    <3>1. ASSUME NEW o \in Arrived' \ (deleted \cup Garbled \cup late'), o < Target(ids)
          PROVE  \E other \in DOMAIN command : o \in other
      <4>1. CASE o = m
        <5>1. m \in late'
          BY <3>1, <4>1 DEF Arrive
        <5> QED
          BY <3>1, <4>1, <5>1
      <4>2. CASE o # m
        <5>1. o \in Arrived \ (deleted \cup Garbled \cup late)
          BY <1>5, <1>9, <3>1, <4>2
        <5> QED
          BY <3>1, <5>1 DEF Inv, ReceiptsFollowReading
      <4> QED
        BY <4>1, <4>2
    <3> QED
      BY <3>1 DEF Inv, ReceiptsFollowReading
  <2>2. UNCHANGED <<command, deleted, opened>>
    BY DEF Arrive
  <2> QED
    BY <2>1, <2>2 DEF ReceiptsFollowReading
<1> QED
  BY <1>6, <1>7, <1>8, <1>10, <1>11 DEF Inv

LEMMA RevokeInv ==
  ASSUME Inv, NEW m \in Messages, Revoke(m)
  PROVE  Inv'
<1>1. /\ deleted' = deleted \cup {m} /\ m \in Arrived
      /\ UNCHANGED <<born, seen, command, admitted, request, prepared, pause, opened, late>>
  BY DEF Revoke
<1>2. command' \in Ledgers
  BY <1>1 DEF Inv, LedgerInv
<1>3. BornInv' /\ LedgerInv' /\ ReceiptsFollowReading'
  BY <1>1, <1>2, LedgerKept
<1>4. RequestInv'
  <2>1. request' \in [Agents -> Requests]
    BY <1>1 DEF Inv, RequestInv, Requests
  <2>2. \A a \in Agents : Similar(request[a], request'[a])
    BY <1>1 DEF Similar
  <2> QED
    BY <1>1, <2>1, <2>2, RequestKept
<1>5. OthersInv'
  <2>1. disruptions' \in 0 .. MaxDisruptions
    BY Disruptions DEF Revoke
  <2> QED
    BY <1>1, <2>1, OthersKept DEF Inv, OthersInv
<1> QED
  BY <1>3, <1>4, <1>5 DEF Inv

-----------------------------------------------------------------------------
(* The agents *)

(* The request of a read begins with the rows there are. *)
LEMMA ReadingLaws ==
  ASSUME Inv, NEW m \in Arrived
  PROVE  Reading(m) \in Readings /\ Snapshot(Reading(m))
<1>0. /\ command \in Ledgers /\ born \in Born /\ deleted \subseteq Arrived
      /\ Arrived \subseteq Messages
  BY DEF Inv, LedgerInv, BornInv, OthersInv, Arrived
<1> DEFINE seenBy == [ids \in DOMAIN command |->
                        IF ids \in Terminals(command)
                        THEN [command[ids] EXCEPT !.state = "dead"]
                        ELSE [command[ids] EXCEPT !.state = "pending"]]
<1>1. seenBy \in Ledgers
  <2>1. DOMAIN seenBy \subseteq Batches /\ seenBy = [k \in DOMAIN seenBy |-> seenBy[k]]
    BY <1>0, LedgerLaws
  <2>2. \A k \in DOMAIN seenBy : seenBy[k] \in Receipts
    BY <1>0, LedgerLaws DEF Receipts, States
  <2> HIDE DEF seenBy
  <2> QED
    BY <2>1, <2>2, LedgerLaws
<1>2. DOMAIN seenBy = DOMAIN command /\ \A k \in DOMAIN command : seenBy[k].no = command[k].no
  BY <1>0, LedgerLaws DEF Receipts
<1> DEFINE none == {}
<1>3. none \in SUBSET Batches
  OBVIOUS
<1>4. Reading(m) = [kind |-> "read", at |-> m, born |-> born, deleted |-> deleted,
                    stale |-> none, command |-> seenBy]
  BY DEF Reading
<1> HIDE DEF seenBy, none
<1> QED
  BY <1>0, <1>1, <1>2, <1>3, <1>4 DEF Readings, Snapshot

LEMMA BeginSeenInv ==
  ASSUME Inv, NEW a \in Agents, NEW m \in Messages, BeginSeen(a, m)
  PROVE  Inv'
<1>1. /\ m \in Arrived /\ request' = [request EXCEPT ![a] = Reading(m)]
      /\ UNCHANGED <<born, deleted, seen, command, admitted, prepared, pause, opened, late>>
  BY DEF BeginSeen
<1>2. Reading(m) \in Readings /\ Snapshot(Reading(m))
  BY <1>1, ReadingLaws
<1>3. command' \in Ledgers
  BY <1>1 DEF Inv, LedgerInv
<1>4. BornInv' /\ LedgerInv' /\ ReceiptsFollowReading'
  BY <1>1, <1>3, LedgerKept
<1>5. RequestInv'
  <2>1. request' \in [Agents -> Requests]
    BY <1>1, <1>2 DEF Inv, RequestInv, Requests
  <2>2. ASSUME NEW o \in Agents
        PROVE  \/ Similar(request[o], request'[o])
               \/ request'[o] \in Readings /\ Snapshot(request'[o])
    <3>1. request'[o] = IF o = a THEN Reading(m) ELSE request[o]
      BY <1>1 DEF Inv, RequestInv
    <3> QED
      BY <1>2, <3>1 DEF Similar
  <2> QED
    BY <1>1, <2>1, <2>2, RequestKept
<1>6. OthersInv'
  <2>1. disruptions' \in 0 .. MaxDisruptions
    <3>1. disruptions' = disruptions \/ Disrupt
      BY DEF BeginSeen
    <3> QED
      BY <3>1, Disruptions DEF Inv, OthersInv
  <2> QED
    BY <1>1, <2>1, OthersKept DEF Inv, OthersInv
<1> QED
  BY <1>4, <1>5, <1>6 DEF Inv

(* The receipts a read commits, beside those it did not write. *)
LEMMA CommitLaws ==
  ASSUME Inv, NEW t \in Readings, Snapshot(t), NEW q, q = Queued(t),
         command' = [ids \in DOMAIN command \cup q.wrote |->
                       IF ids \in q.wrote THEN q.mine[ids] ELSE command[ids]],
         UNCHANGED <<born, deleted, late>>, opened' = Higher(opened, t.at)
  PROVE  /\ BornInv' /\ LedgerInv' /\ ReceiptsFollowReading'
         /\ DOMAIN command \subseteq DOMAIN command'
         /\ \A k \in DOMAIN command : command'[k].no = command[k].no
         /\ q.wrote \in SUBSET Batches
<1>0. Arrived' = Arrived
  BY DEF Arrived
<1>1. Base(t, q)
  BY QueuedLaws
<1>2. /\ q \in Rounds /\ q.mine \in Ledgers /\ q.wrote \in SUBSET Batches
      /\ q.wrote \subseteq DOMAIN q.mine
      /\ command \in Ledgers
  BY <1>1 DEF Base, Rounds, Inv, LedgerInv
<1>3. /\ DOMAIN command' = DOMAIN command \cup q.wrote
      /\ \A k \in q.wrote : command'[k] = q.mine[k]
      /\ \A k \in DOMAIN command \ q.wrote : command'[k] = command[k]
  OBVIOUS
<1>4. command' \in Ledgers
  <2>1. /\ DOMAIN command' \subseteq Batches
        /\ \A k \in DOMAIN command' : command'[k] \in Receipts
    BY <1>2, <1>3, LedgerLaws
  <2>2. command' = [k \in DOMAIN command' |-> command'[k]]
    OBVIOUS
  <2> QED
    BY <2>1, <2>2, LedgerLaws, ZenonT(40)
<1>5. \A k \in DOMAIN command : command'[k].no = command[k].no
  BY <1>1, <1>2, <1>3 DEF Base
<1>6. \A k \in q.wrote \ DOMAIN command : command'[k].no = Last(k)
  BY <1>1, <1>3 DEF Base
<1>7. ASSUME NEW k \in DOMAIN command'
      PROVE  /\ k \subseteq Arrived \ Garbled
             /\ Target(k) <= opened'
             /\ \A m \in Due : m < Target(k) => \E other \in DOMAIN command' : m \in other
  <2>1. CASE k \in q.wrote
    <3>1. /\ k \subseteq Arrived \ Garbled /\ Target(k) <= Higher(opened, t.at)
          /\ \A m \in Due : m < Target(k) => Told(q, m)
      BY <1>1, <1>2, <2>1 DEF Base
    <3> QED
      BY <1>3, <3>1 DEF Told
  <2>2. CASE k \in DOMAIN command
    <3>1. /\ k \subseteq Arrived \ Garbled /\ Target(k) <= opened
          /\ \A m \in Due : m < Target(k) => \E other \in DOMAIN command : m \in other
      BY <2>2 DEF Inv, LedgerInv, ReceiptsFollowReading, Due
    <3>2. /\ k \in Batches /\ opened \in Pointers /\ t.at \in Pointers
      BY <1>2, <2>2, LedgerLaws, Messaging DEF Inv, OthersInv, Readings
    <3>3. Target(k) \in Int /\ opened \in Int /\ Higher(opened, t.at) \in Int
          /\ opened <= Higher(opened, t.at)
      <4>1. Target(k) \in Messages
        BY <3>2, BatchLaws
      <4>2. opened <= Higher(opened, t.at) /\ Higher(opened, t.at) \in Pointers
        BY <3>2, Highers
      <4> QED
        BY <3>2, <4>1, <4>2, Messaging
    <3>4. Target(k) <= opened'
      BY <3>1, <3>3
    <3> QED
      BY <1>3, <3>1, <3>4
  <2> QED
    BY <1>3, <2>1, <2>2
<1>8. ReceiptsFollowReading'
  BY <1>0, <1>7 DEF ReceiptsFollowReading, Due
<1>9. BornInv'
  BY <1>0 DEF Inv, BornInv
<1> DEFINE same(k) == SameTarget(DOMAIN command, k)
           all(k)  == SameTarget(DOMAIN command', k)
<1>10. ASSUME NEW k \in Batches
       PROVE  /\ IsFiniteSet(same(k)) /\ IsFiniteSet(all(k)) /\ same(k) \subseteq all(k)
              /\ Cardinality(same(k)) \in Nat /\ Cardinality(all(k)) \in Nat
              /\ Cardinality(same(k)) <= Cardinality(all(k))
              /\ Last(k) = Cardinality(same(k)) + 1
  <2>1. same(k) \in SUBSET Batches /\ all(k) \in SUBSET Batches /\ same(k) \subseteq all(k)
    BY <1>2, <1>3, <1>4, LedgerLaws DEF SameTarget
  <2>2. Last(k) = Cardinality(same(k)) + 1
    BY <1>2, LastLaws
  <2> HIDE DEF same, all
  <2> QED
    BY <2>1, <2>2, FewBatches, FS_Subset
<1>11. ASSUME NEW k \in DOMAIN command' PROVE command'[k].no <= Cardinality(all(k))
  <2>0. k \in Batches
    BY <1>4, LedgerLaws
  <2>1. CASE k \in DOMAIN command
    <3>1. command'[k].no <= Cardinality(same(k)) /\ command'[k].no \in Nat
      BY <1>2, <1>5, <2>1, LedgerLaws DEF Inv, LedgerInv, Receipts
    <3> QED
      BY <1>10, <2>0, <3>1
  <2>2. CASE k \notin DOMAIN command
    <3>1. k \in q.wrote \ DOMAIN command /\ command'[k].no = Cardinality(same(k)) + 1
      BY <1>3, <1>6, <1>10, <2>0, <2>2
    <3>2. k \notin same(k) /\ k \in all(k)
      BY <2>2 DEF SameTarget
    <3>3. Cardinality(same(k) \cup {k}) = Cardinality(same(k)) + 1
      BY <1>10, <2>0, <3>2, FS_AddElement
    <3>4. same(k) \cup {k} \in SUBSET all(k)
      BY <1>10, <2>0, <3>2
    <3>5. Cardinality(same(k) \cup {k}) <= Cardinality(all(k))
      BY <1>10, <2>0, <3>4, FS_Subset
    <3> QED
      BY <3>1, <3>3, <3>5
  <2> QED
    BY <2>1, <2>2
<1>12. ASSUME NEW k \in DOMAIN command, NEW l \in q.wrote \ DOMAIN command,
              Target(k) = Target(l)
       PROVE  command'[k].no # command'[l].no
  <2>1. command'[k].no <= Cardinality(same(k)) /\ command'[k].no \in Nat
    BY <1>2, <1>5, LedgerLaws DEF Inv, LedgerInv, Receipts
  <2>2. same(k) = same(l)
    BY <1>12 DEF SameTarget
  <2>3. l \in Batches /\ k \in Batches
    BY <1>2, LedgerLaws
  <2>4. command'[l].no = Cardinality(same(l)) + 1 /\ Cardinality(same(l)) \in Nat
    BY <1>6, <1>10, <2>3
  <2> HIDE DEF same
  <2> QED
    BY <2>1, <2>2, <2>4
<1>13. ASSUME NEW k \in DOMAIN command', NEW l \in DOMAIN command',
              Target(k) = Target(l), command'[k].no = command'[l].no
       PROVE  k = l
  <2>1. CASE k \in DOMAIN command /\ l \in DOMAIN command
    BY <1>5, <1>13, <2>1 DEF Inv, LedgerInv
  <2>2. CASE k \in DOMAIN command /\ l \notin DOMAIN command
    BY <1>3, <1>12, <1>13, <2>2
  <2>3. CASE k \notin DOMAIN command /\ l \in DOMAIN command
    BY <1>3, <1>12, <1>13, <2>3
  <2>4. CASE k \notin DOMAIN command /\ l \notin DOMAIN command
    BY <1>1, <1>3, <1>13, <2>4 DEF Base
  <2> QED
    BY <2>1, <2>2, <2>3, <2>4
<1>14. LedgerInv'
  BY <1>0, <1>4, <1>7, <1>11, <1>13, ZenonT(40) DEF LedgerInv
<1> QED
  BY <1>2, <1>3, <1>5, <1>8, <1>9, <1>14

LEMMA MarkSeenInv ==
  ASSUME Inv, NEW a \in Agents, MarkSeen(a)
  PROVE  Inv'
<1> DEFINE t == request[a]
           q == Queued(t)
<1>0. /\ t.kind = "read"
      /\ seen' = IF a \in Attendants THEN [seen EXCEPT ![a] = Higher(@, t.at)] ELSE seen
      /\ opened' = Higher(opened, t.at)
      /\ UNCHANGED <<born, deleted, admitted, prepared, late, disruptions>>
  BY DEF MarkSeen
<1>1. t \in Readings /\ Snapshot(t) /\ t.at \in Arrived /\ t.at \in Pointers
  <2>1. t \in Readings
    BY <1>0 DEF Inv, RequestInv, Idle, Bulks
  <2> QED
    BY <1>0, <2>1, Messaging DEF Inv, RequestInv, Snapshot, Readings
<1>2. opened' \in Pointers
  BY <1>0, <1>1, Highers DEF Inv, OthersInv
<1>3. seen' \in [Attendants -> {0} \cup Arrived]
  <2>1. CASE a \in Attendants
    <3>1. seen[a] \in {0} \cup Arrived /\ seen \in [Attendants -> {0} \cup Arrived]
      BY <2>1 DEF Inv, OthersInv
    <3>2. seen[a] \in Pointers
      BY <3>1, Messaging DEF Arrived
    <3>3. Higher(seen[a], t.at) \in {0} \cup Arrived
      BY <1>1, <3>1, <3>2, Highers
    <3> QED
      BY <1>0, <2>1, <3>1, <3>3
  <2>2. CASE a \notin Attendants
    BY <1>0, <2>2 DEF Inv, OthersInv
  <2> QED
    BY <2>1, <2>2
<1>4. CASE admitted
  <2>1. /\ command' = [ids \in DOMAIN command \cup q.wrote |->
                         IF ids \in q.wrote THEN q.mine[ids] ELSE command[ids]]
        /\ request' = [o \in Agents |-> IF o = a THEN Idle ELSE Stale(request[o], q.wrote)]
        /\ pause' = Stale(pause, q.wrote)
    BY <1>4 DEF MarkSeen
  <2>2. /\ BornInv' /\ LedgerInv' /\ ReceiptsFollowReading'
        /\ DOMAIN command \subseteq DOMAIN command'
        /\ \A k \in DOMAIN command : command'[k].no = command[k].no
        /\ q.wrote \in SUBSET Batches
    BY <1>0, <1>1, <2>1, CommitLaws
  <2> HIDE DEF q
  <2>3. RequestInv'
    <3>1. ASSUME NEW o \in Agents
          PROVE  /\ request'[o] \in Requests
                 /\ request'[o] = Idle \/ Similar(request[o], request'[o])
      <4>1. request[o] \in Requests
        BY DEF Inv, RequestInv, Requests
      <4>2. /\ Stale(request[o], q.wrote) \in Requests
            /\ Similar(request[o], Stale(request[o], q.wrote))
        BY <2>2, <4>1, StaleLaws
      <4>3. request'[o] = IF o = a THEN Idle ELSE Stale(request[o], q.wrote)
        BY <2>1
      <4> QED
        BY <4>2, <4>3 DEF Requests
    <3>2. request' \in [Agents -> Requests]
      BY <2>1, <3>1
    <3> QED
      BY <1>0, <2>2, <3>1, <3>2, RequestKept
  <2>4. pause' \in {NoPause} \cup Pauses
    BY <2>1, <2>2, StalePause DEF Inv, OthersInv
  <2>5. OthersInv'
    BY <1>0, <1>2, <1>3, <2>4, OthersKept DEF Inv, OthersInv
  <2> QED
    BY <2>2, <2>3, <2>5 DEF Inv
<1>5. CASE ~ admitted
  <2>1. request' = [request EXCEPT ![a] = Idle] /\ UNCHANGED <<command, pause>>
    BY <1>5 DEF MarkSeen
  <2>2. Arrived' = Arrived /\ command \in Ledgers
    BY <1>0 DEF Arrived, Inv, LedgerInv
  <2>3. BornInv' /\ LedgerInv'
    BY <1>0, <2>1, <2>2 DEF Inv, BornInv, LedgerInv
  <2>4. ReceiptsFollowReading'
    <3>1. ASSUME NEW k \in DOMAIN command PROVE Target(k) <= opened'
      <4>1. k \in Batches /\ opened \in Pointers /\ Target(k) <= opened
        BY <2>2, LedgerLaws DEF Inv, OthersInv, ReceiptsFollowReading
      <4>2. /\ Target(k) \in Int /\ opened \in Int /\ opened' \in Int
            /\ opened <= Higher(opened, t.at)
        <5>1. Target(k) \in Messages
          BY <4>1, BatchLaws
        <5>2. opened <= Higher(opened, t.at)
          BY <1>1, <4>1, Highers
        <5> QED
          BY <1>2, <4>1, <5>1, <5>2, Messaging
      <4> QED
        BY <1>0, <4>1, <4>2
    <3> QED
      BY <1>0, <2>1, <2>2, <3>1 DEF Inv, ReceiptsFollowReading
  <2>5. RequestInv'
    <3>1. /\ request' \in [Agents -> Requests]
          /\ \A o \in Agents : request'[o] = Idle \/ Similar(request[o], request'[o])
      BY <2>1, IdleLaws
    <3> QED
      BY <1>0, <2>1, <3>1, RequestKept
  <2>6. OthersInv'
    BY <1>0, <1>2, <1>3, <2>1, OthersKept DEF Inv, OthersInv
  <2> QED
    BY <2>3, <2>4, <2>5, <2>6 DEF Inv
<1> QED
  BY <1>4, <1>5

(* A request ends, and nothing else does. *)
LEMMA AbandonInv ==
  ASSUME Inv, NEW a \in Agents, Abandon(a)
  PROVE  Inv'
<1>1. /\ request' = [request EXCEPT ![a] = Idle]
      /\ UNCHANGED <<born, deleted, seen, command, admitted, prepared, pause, opened, late,
                     disruptions>>
  BY DEF Abandon
<1>2. command' \in Ledgers
  BY <1>1 DEF Inv, LedgerInv
<1>3. BornInv' /\ LedgerInv' /\ ReceiptsFollowReading'
  BY <1>1, <1>2, LedgerKept
<1>4. RequestInv'
  <2>1. /\ request' \in [Agents -> Requests]
        /\ \A o \in Agents : request'[o] = Idle \/ Similar(request[o], request'[o])
    BY <1>1, IdleLaws
  <2> QED
    BY <1>1, <2>1, RequestKept
<1>5. OthersInv'
  BY <1>1, OthersKept DEF Inv, OthersInv
<1> QED
  BY <1>3, <1>4, <1>5 DEF Inv

LEMMA MarkUnreadInv ==
  ASSUME Inv, NEW a \in Attendants, MarkUnread(a)
  PROVE  Inv'
<1>0. a \in Agents
  BY SetsAssumption
<1>1. /\ request' = [request EXCEPT ![a] = Idle]
      /\ seen' = [seen EXCEPT ![a] = SecondNewest]
      /\ UNCHANGED <<born, deleted, command, admitted, prepared, pause, opened, late>>
  BY DEF MarkUnread
<1>2. command' \in Ledgers
  BY <1>1 DEF Inv, LedgerInv
<1>3. BornInv' /\ LedgerInv' /\ ReceiptsFollowReading'
  BY <1>1, <1>2, LedgerKept
<1>4. RequestInv'
  <2>1. /\ request' \in [Agents -> Requests]
        /\ \A o \in Agents : request'[o] = Idle \/ Similar(request[o], request'[o])
    BY <1>0, <1>1, IdleLaws
  <2> QED
    BY <1>1, <2>1, RequestKept
<1>5. SecondNewest \in {0} \cup Arrived
  <2> DEFINE S == {0} \cup (Arrived \ {Newest})
  <2>1. S \in SUBSET Pointers /\ S # {}
    BY Messaging DEF Arrived
  <2>2. MaxOf(S) \in S
    BY <2>1, Extremes
  <2> QED
    BY <2>2 DEF SecondNewest
<1>6. OthersInv'
  <2>1. disruptions' \in 0 .. MaxDisruptions
    BY Disruptions DEF MarkUnread
  <2>2. seen' \in [Attendants -> {0} \cup Arrived]
    BY <1>1, <1>5 DEF Inv, OthersInv
  <2> QED
    BY <1>1, <2>1, <2>2, OthersKept DEF Inv, OthersInv
<1> QED
  BY <1>3, <1>4, <1>6 DEF Inv

LEMMA PrepareBulkInv ==
  ASSUME Inv, NEW a \in Attendants, PrepareBulk(a)
  PROVE  Inv'
<1>1. /\ prepared' = [prepared EXCEPT ![a] = [at |-> Newest, max |-> Cardinality(Arrived)]]
      /\ Arrived # {}
      /\ UNCHANGED <<born, deleted, seen, command, admitted, request, pause, opened, late>>
  BY DEF PrepareBulk
<1>2. command' \in Ledgers
  BY <1>1 DEF Inv, LedgerInv
<1>3. BornInv' /\ LedgerInv' /\ ReceiptsFollowReading'
  BY <1>1, <1>2, LedgerKept
<1>4. RequestInv'
  <2>1. request' \in [Agents -> Requests]
    BY <1>1 DEF Inv, RequestInv, Requests
  <2>2. \A o \in Agents : Similar(request[o], request'[o])
    BY <1>1 DEF Similar
  <2> QED
    BY <1>1, <2>1, <2>2, RequestKept
<1>5. Newest \in Arrived /\ Cardinality(Arrived) \in Pointers
  <2>1. Arrived \in SUBSET Pointers /\ Arrived \in SUBSET Messages
    BY Messaging DEF Arrived
  <2> QED
    BY <1>1, <2>1, Extremes, Messaging DEF Newest
<1>6. OthersInv'
  <2>1. disruptions' \in 0 .. MaxDisruptions
    BY Disruptions DEF PrepareBulk
  <2>2. prepared' \in [Attendants -> [at : {0} \cup Arrived, max : Pointers]]
    BY <1>1, <1>5 DEF Inv, OthersInv
  <2> QED
    BY <1>1, <2>1, <2>2, OthersKept DEF Inv, OthersInv
<1> QED
  BY <1>3, <1>4, <1>6 DEF Inv

LEMMA BeginBulkInv ==
  ASSUME Inv, NEW a \in Attendants, BeginBulk(a)
  PROVE  Inv'
<1>1. /\ request' = [request EXCEPT ![a] = Marking]
      /\ UNCHANGED <<born, deleted, seen, command, admitted, prepared, pause, opened, late,
                     disruptions>>
  BY DEF BeginBulk
<1>2. command' \in Ledgers
  BY <1>1 DEF Inv, LedgerInv
<1>3. BornInv' /\ LedgerInv' /\ ReceiptsFollowReading'
  BY <1>1, <1>2, LedgerKept
<1>4. RequestInv'
  <2>1. Marking \in Bulks /\ Marking.born = born
    BY DEF Marking, Bulks, Inv, BornInv
  <2>2. request' \in [Agents -> Requests]
    BY <1>1, <2>1 DEF Inv, RequestInv, Requests
  <2>3. ASSUME NEW o \in Agents
        PROVE  \/ Similar(request[o], request'[o])
               \/ request'[o] \in Bulks /\ request'[o].born = born
    <3>1. request'[o] = IF o = a THEN Marking ELSE request[o]
      BY <1>1 DEF Inv, RequestInv
    <3> QED
      BY <2>1, <3>1 DEF Similar
  <2> QED
    BY <1>1, <2>2, <2>3, RequestKept
<1>5. OthersInv'
  BY <1>1, OthersKept DEF Inv, OthersInv
<1> QED
  BY <1>3, <1>4, <1>5 DEF Inv

(* A bulk read goes up to a message there was when it was prepared, and up to none that
   arrived since. *)
LEMMA BulkLaws ==
  ASSUME Inv, NEW a \in Attendants, MarkBulk(a)
  PROVE  LET limit == BulkLimit(request[a].born, prepared[a])
         IN  /\ limit \in {0} \cup Arrived
             /\ \A m \in Messages : born[m] > prepared[a].max => ~ (m <= limit)
<1> DEFINE p == prepared[a]
           arrivals == {m \in Messages : born[m] > p.max /\ m <= p.at}
           earlier == {m \in Messages : born[m] \in 1 .. p.max /\ m < MinOf(arrivals)}
           limit == BulkLimit(request[a].born, p)
<1>0. /\ request[a].born = born /\ p.at \in {0} \cup Arrived /\ p.max \in Pointers
      /\ born \in [Messages -> Pointers]
  BY SetsAssumption DEF MarkBulk, Inv, RequestInv, OthersInv, BornInv, Born
<1>1. limit = IF arrivals = {} THEN p.at ELSE MaxOf({0} \cup earlier)
  BY <1>0 DEF BulkLimit
<1>2. p.at \in Int /\ \A m \in Messages : m \in Int
  BY <1>0, Messaging DEF Arrived
<1>3. CASE arrivals = {}
  <2>1. limit = p.at
    BY <1>1, <1>3
  <2>2. \A m \in Messages : born[m] > p.max => ~ (m <= p.at)
    BY <1>3
  <2> QED
    BY <1>0, <2>1, <2>2
<1>4. CASE arrivals # {}
  <2>1. arrivals \in SUBSET Pointers
    BY Messaging
  <2>2. MinOf(arrivals) \in arrivals /\ \A m \in arrivals : MinOf(arrivals) <= m
    BY <1>4, <2>1, Extremes
  <2>3. MinOf(arrivals) \in Messages /\ MinOf(arrivals) <= p.at
    BY <2>2
  <2> DEFINE lo == MinOf(arrivals)
             S == {0} \cup earlier
  <2>4. S \in SUBSET Pointers /\ S # {}
    BY Messaging
  <2>5. MaxOf(S) \in S
    BY <2>4, Extremes
  <2>6. earlier \subseteq Arrived
    <3>1. ASSUME NEW m \in Messages, born[m] \in 1 .. p.max PROVE born[m] # 0
      BY <3>1
    <3> QED
      BY <3>1 DEF Arrived
  <2>7. limit = MaxOf(S)
    BY <1>1, <1>4
  <2>8. limit \in {0} \cup Arrived
    BY <2>5, <2>6, <2>7
  <2>9. limit < lo
    <3>1. \A m \in earlier : m < lo
      OBVIOUS
    <3>2. 0 < lo
      BY <2>3, Messaging
    <3> HIDE DEF earlier, lo
    <3> QED
      BY <2>5, <2>7, <3>1, <3>2
  <2>10. ASSUME NEW m \in Messages, born[m] > p.max, m <= limit PROVE FALSE
    <3>1. m \in Int /\ limit \in Int /\ lo \in Int
      BY <1>2, <2>3, <2>8, Messaging DEF Arrived
    <3>2. m < lo /\ m <= p.at
      <4> HIDE DEF limit, lo
      <4>1. lo <= p.at
        BY <2>3 DEF lo
      <4> QED
        BY <1>2, <2>9, <2>10, <3>1, <4>1
    <3>3. m \in arrivals
      BY <2>10, <3>2
    <3> QED
      BY <2>2, <3>1, <3>2, <3>3
  <2> QED
    BY <2>8, <2>10
<1> QED
  BY <1>3, <1>4

LEMMA MarkBulkInv ==
  ASSUME Inv, NEW a \in Attendants, MarkBulk(a)
  PROVE  Inv'
<1> DEFINE limit == BulkLimit(request[a].born, prepared[a])
<1>0. a \in Agents
  BY SetsAssumption
<1>1. /\ request' = [request EXCEPT ![a] = Idle]
      /\ seen' = [seen EXCEPT ![a] = Higher(@, limit)]
      /\ prepared' = [prepared EXCEPT ![a] = NoBulk]
      /\ UNCHANGED <<born, deleted, command, admitted, pause, opened, late, disruptions>>
  BY DEF MarkBulk
<1>2. command' \in Ledgers
  BY <1>1 DEF Inv, LedgerInv
<1>3. BornInv' /\ LedgerInv' /\ ReceiptsFollowReading'
  BY <1>1, <1>2, LedgerKept
<1>4. RequestInv'
  <2>1. /\ request' \in [Agents -> Requests]
        /\ \A o \in Agents : request'[o] = Idle \/ Similar(request[o], request'[o])
    BY <1>0, <1>1, IdleLaws
  <2> QED
    BY <1>1, <2>1, RequestKept
<1>5. limit \in {0} \cup Arrived
  BY BulkLaws
<1> HIDE DEF limit
<1>6. seen' \in [Attendants -> {0} \cup Arrived]
  <2>1. seen[a] \in {0} \cup Arrived /\ seen \in [Attendants -> {0} \cup Arrived]
    BY DEF Inv, OthersInv
  <2>2. seen[a] \in Pointers /\ limit \in Pointers
    BY <1>5, <2>1, Messaging DEF Arrived
  <2>3. Higher(seen[a], limit) \in {0} \cup Arrived
    BY <1>5, <2>1, <2>2, Highers
  <2> QED
    BY <1>1, <2>1, <2>3
<1>7. prepared' \in [Attendants -> [at : {0} \cup Arrived, max : Pointers]]
  BY <1>1, Messaging DEF Inv, OthersInv, NoBulk
<1>8. OthersInv'
  BY <1>1, <1>6, <1>7, OthersKept DEF Inv, OthersInv
<1> QED
  BY <1>3, <1>4, <1>8 DEF Inv

-----------------------------------------------------------------------------
(* The outbox and the administrators *)

(* A receipt that moves keeps its messages and its number. *)
LEMMA WriteInv ==
  ASSUME Inv, NEW ids \in DOMAIN command, NEW state \in States, Write(ids, state),
         UNCHANGED <<born, deleted, seen, admitted, prepared, opened, late>>,
         disruptions' \in 0 .. MaxDisruptions
  PROVE  Inv'
<1>0. command \in Ledgers /\ ids \in Batches /\ {ids} \in SUBSET Batches
  BY LedgerLaws DEF Inv, LedgerInv
<1>1. /\ command' = [command EXCEPT ![ids].state = state]
      /\ request' = [a \in Agents |-> Stale(request[a], {ids})]
      /\ pause' = Stale(pause, {ids})
  BY DEF Write
<1>2. /\ command' \in Ledgers /\ DOMAIN command' = DOMAIN command
      /\ \A k \in DOMAIN command : command'[k].no = command[k].no
  <2>1. DOMAIN command' = DOMAIN command /\ command' = [k \in DOMAIN command' |-> command'[k]]
    BY <1>0, <1>1, LedgerLaws
  <2>2. ASSUME NEW k \in DOMAIN command
        PROVE  command'[k] \in Receipts /\ command'[k].no = command[k].no
    <3>1. command'[k] = IF k = ids THEN [command[ids] EXCEPT !.state = state]
                        ELSE command[k]
      BY <1>0, <1>1, LedgerLaws
    <3>2. command[k] \in Receipts
      BY <1>0, LedgerLaws
    <3> QED
      BY <3>1, <3>2 DEF Receipts
  <2>3. DOMAIN command' \subseteq Batches
    BY <1>0, <2>1, LedgerLaws
  <2> QED
    BY <2>1, <2>2, <2>3, LedgerLaws
<1>3. BornInv' /\ LedgerInv' /\ ReceiptsFollowReading'
  BY <1>2, LedgerKept
<1>4. RequestInv'
  <2>1. ASSUME NEW o \in Agents
        PROVE  request'[o] \in Requests /\ Similar(request[o], request'[o])
    <3>1. request[o] \in Requests
      BY DEF Inv, RequestInv, Requests
    <3>2. request'[o] = Stale(request[o], {ids})
      BY <1>1
    <3> QED
      BY <1>0, <3>1, <3>2, StaleLaws
  <2>2. request' \in [Agents -> Requests]
    BY <1>1, <2>1
  <2> QED
    BY <1>2, <2>1, <2>2, RequestKept
<1>5. OthersInv'
  <2>1. pause' \in {NoPause} \cup Pauses
    BY <1>0, <1>1, StalePause DEF Inv, OthersInv
  <2> QED
    BY <2>1, OthersKept DEF Inv, OthersInv
<1> QED
  BY <1>3, <1>4, <1>5 DEF Inv

LEMMA OutboxInv ==
  ASSUME Inv, NEW ids \in Batches,
         Dispatch(ids) \/ Accept(ids) \/ Doubt(ids) \/ Refuse(ids) \/ Postpone(ids)
  PROVE  Inv'
<1>1. ids \in DOMAIN command
  BY DEF Dispatch, Accept, Doubt, Refuse, Postpone, InCall
<1>2. UNCHANGED <<born, deleted, seen, admitted, prepared, opened, late>>
  BY DEF Dispatch, Accept, Doubt, Refuse, Postpone
<1>3. disruptions' \in 0 .. MaxDisruptions
  <2>1. disruptions' = disruptions \/ Disrupt
    BY DEF Dispatch, Accept, Doubt, Refuse, Postpone
  <2> QED
    BY <2>1, Disruptions DEF Inv, OthersInv
<1>4. PICK state \in States : Write(ids, state)
  <2>1. CASE Dispatch(ids)
    <3> DEFINE state == IF ~ admitted THEN "cancelled"
                        ELSE IF ids \cap deleted # {} THEN "dead" ELSE "processing"
    <3>1. state \in States /\ Write(ids, state)
      BY <2>1 DEF Dispatch, States
    <3> QED
      BY <3>1
  <2>2. CASE Accept(ids)
    BY <2>2 DEF Accept, States
  <2>3. CASE Doubt(ids)
    BY <2>3 DEF Doubt, States
  <2>4. CASE Refuse(ids)
    BY <2>4 DEF Refuse, States
  <2>5. CASE Postpone(ids)
    BY <2>5 DEF Postpone, States
  <2> QED
    BY <2>1, <2>2, <2>3, <2>4, <2>5
<1> QED
  BY <1>1, <1>2, <1>3, <1>4, WriteInv

(* A transaction of the administrator that begins, or fails. *)
LEMMA PauseInv ==
  ASSUME Inv, BeginPause \/ LosePause
  PROVE  Inv'
<1>1. UNCHANGED <<born, deleted, seen, command, admitted, request, prepared, opened, late>>
  BY DEF BeginPause, LosePause
<1>2. command' \in Ledgers /\ DOMAIN command \subseteq Batches
  BY <1>1, LedgerLaws DEF Inv, LedgerInv
<1>3. BornInv' /\ LedgerInv' /\ ReceiptsFollowReading'
  BY <1>1, <1>2, LedgerKept
<1>4. RequestInv'
  <2>1. request' \in [Agents -> Requests]
    BY <1>1 DEF Inv, RequestInv, Requests
  <2>2. \A o \in Agents : Similar(request[o], request'[o])
    BY <1>1 DEF Similar
  <2> QED
    BY <1>1, <2>1, <2>2, RequestKept
<1>5. pause' \in {NoPause} \cup Pauses
  <2> DEFINE found == {ids \in DOMAIN command : command[ids].state = "pending"}
             none  == {}
  <2>1. found \in SUBSET Batches /\ none \in SUBSET Batches
    BY <1>2
  <2>2. pause' = NoPause \/ pause' = [kind |-> "pause", stale |-> none, found |-> found]
    BY DEF BeginPause, LosePause
  <2> HIDE DEF found, none
  <2> QED
    BY <2>1, <2>2 DEF Pauses
<1>6. disruptions' \in 0 .. MaxDisruptions
  <2>1. disruptions' = disruptions \/ DisruptAlone
    BY DEF BeginPause, LosePause
  <2> QED
    BY <2>1, Disruptions DEF Inv, OthersInv
<1>7. OthersInv'
  BY <1>1, <1>5, <1>6, OthersKept DEF Inv, OthersInv
<1> QED
  BY <1>3, <1>4, <1>7 DEF Inv

(* One that commits, or is taken back, fences all requests. *)
LEMMA PolicyInv ==
  ASSUME Inv, CommitPause \/ Readmit
  PROVE  Inv'
<1>0. command \in Ledgers
  BY DEF Inv, LedgerInv
<1>1. /\ request' = Fenced(request) /\ pause' \in {pause, NoPause} /\ admitted' \in BOOLEAN
      /\ UNCHANGED <<born, deleted, seen, prepared, opened, late, disruptions>>
  BY DEF CommitPause, Readmit
<1>2. /\ command' \in Ledgers /\ DOMAIN command' = DOMAIN command
      /\ \A k \in DOMAIN command : command'[k].no = command[k].no
  <2>1. CASE CommitPause
    <3>1. command' = [ids \in DOMAIN command |->
                        IF ids \in pause.found
                        THEN [command[ids] EXCEPT !.state = "cancelled"] ELSE command[ids]]
      BY <2>1 DEF CommitPause
    <3>2. ASSUME NEW k \in DOMAIN command
          PROVE  command'[k] \in Receipts /\ command'[k].no = command[k].no
      <4>1. command[k] \in Receipts
        BY <1>0, LedgerLaws
      <4> QED
        BY <3>1, <4>1 DEF Receipts, States
    <3>3. /\ DOMAIN command' = DOMAIN command /\ DOMAIN command' \subseteq Batches
          /\ command' = [k \in DOMAIN command' |-> command'[k]]
      BY <1>0, <3>1, LedgerLaws
    <3> QED
      BY <3>2, <3>3, LedgerLaws
  <2>2. CASE Readmit
    BY <1>0, <2>2 DEF Readmit
  <2> QED
    BY <2>1, <2>2
<1>3. BornInv' /\ LedgerInv' /\ ReceiptsFollowReading'
  BY <1>1, <1>2, LedgerKept
<1>4. RequestInv'
  <2>1. request' \in [Agents -> Requests] /\ \A a \in Agents : request'[a] = Idle
    BY <1>1, FencedLaws
  <2> QED
    BY <1>1, <1>2, <2>1, RequestKept
<1>5. OthersInv'
  BY <1>1, OthersKept DEF Inv, OthersInv
<1> QED
  BY <1>3, <1>4, <1>5 DEF Inv

-----------------------------------------------------------------------------
(* The theorems *)

LEMMA InitInv == Init => Inv
<1> SUFFICES ASSUME Init PROVE Inv
  OBVIOUS
<1>1. /\ born = [m \in Messages |-> 0] /\ deleted = {} /\ late = {}
      /\ seen = [a \in Attendants |-> 0] /\ prepared = [a \in Attendants |-> NoBulk]
      /\ request = [a \in Agents |-> Idle] /\ admitted = TRUE /\ opened = 0
      /\ pause = NoPause /\ disruptions = 0
  BY DEF Init
<1>2. Arrived = {}
  BY <1>1 DEF Arrived
<1>3. BornInv
  BY <1>1, <1>2, Messaging DEF BornInv, Born
<1>4. DOMAIN command = {} /\ command \in Ledgers
  <2>1. command = [ids \in {} |-> [state |-> "pending", no |-> 0]]
    BY DEF Init
  <2>2. DOMAIN command = {} /\ command = [k \in DOMAIN command |-> command[k]]
    BY <2>1
  <2> QED
    BY <2>2, LedgerLaws
<1>5. LedgerInv /\ ReceiptsFollowReading
  BY <1>4 DEF LedgerInv, ReceiptsFollowReading
<1>6. RequestInv
  BY <1>1 DEF RequestInv, Idle
<1>7. OthersInv
  <2>1. NoBulk \in [at : {0} \cup Arrived, max : Pointers]
    BY Messaging DEF NoBulk
  <2> QED
    BY <1>1, <2>1, BoundsAssumption, Messaging DEF OthersInv
<1> QED
  BY <1>3, <1>5, <1>6, <1>7 DEF Inv

LEMMA Step ==
  ASSUME Inv, [Next]_vars
  PROVE  Inv'
<1>1. ASSUME NEW m \in Messages, Arrive(m) \/ Revoke(m) PROVE Inv'
  BY <1>1, ArriveInv, RevokeInv
<1>2. ASSUME NEW a \in Agents,
             (\E m \in Messages : BeginSeen(a, m)) \/ MarkSeen(a) \/ Abandon(a)
      PROVE  Inv'
  BY <1>2, BeginSeenInv, MarkSeenInv, AbandonInv
<1>3. ASSUME NEW a \in Attendants,
             MarkUnread(a) \/ PrepareBulk(a) \/ BeginBulk(a) \/ MarkBulk(a)
      PROVE  Inv'
  BY <1>3, MarkUnreadInv, PrepareBulkInv, BeginBulkInv, MarkBulkInv
<1>4. ASSUME NEW ids \in Batches,
             Dispatch(ids) \/ Accept(ids) \/ Doubt(ids) \/ Refuse(ids) \/ Postpone(ids)
      PROVE  Inv'
  BY <1>4, OutboxInv
<1>5. ASSUME BeginPause \/ CommitPause \/ LosePause \/ Readmit PROVE Inv'
  BY <1>5, PauseInv, PolicyInv
<1>6. ASSUME UNCHANGED vars PROVE Inv'
  <2>1. /\ UNCHANGED <<born, deleted, seen, command, admitted, request, prepared, pause>>
        /\ UNCHANGED <<opened, late, disruptions>>
    BY <1>6 DEF vars
  <2>2. Arrived' = Arrived
    BY <2>1 DEF Arrived
  <2>3. BornInv' /\ LedgerInv' /\ ReceiptsFollowReading'
    BY <2>1, <2>2 DEF Inv, BornInv, LedgerInv, ReceiptsFollowReading
  <2>4. RequestInv'
    BY <2>1, <2>2 DEF Inv, RequestInv, Snapshot
  <2>5. OthersInv'
    BY <2>1, <2>2 DEF Inv, OthersInv
  <2> QED
    BY <2>3, <2>4, <2>5 DEF Inv
<1> QED
  BY <1>1, <1>2, <1>3, <1>4, <1>5, <1>6 DEF Next

LEMMA InvHolds == Spec => []Inv
<1>1. Inv /\ [Next]_vars => Inv'
  BY Step
<1> QED
  BY InitInv, <1>1, PTL DEF Spec

(* The pointers and receipts have their types: a pointer is at a message that is there,
   a receipt is a batch of such, and receipts to the same message have numbers of their
   own (_queue_direct_mark_read, _mark_member_pointer). *)
THEOREM ReceiptTypes == Spec => []TypeOK
<1>1. ASSUME Inv PROVE TypeOK
  <2>1. Arrived \subseteq Messages
    BY DEF Arrived
  <2>2. born \in [Messages -> Pointers]
    BY <1>1 DEF Inv, BornInv, Born
  <2>3. /\ DOMAIN command \subseteq Batches
        /\ \A ids \in DOMAIN command : command[ids].state \in States
    BY <1>1, LedgerLaws DEF Inv, LedgerInv, Receipts
  <2>4. \A a \in Agents : request[a].kind \in {"idle", "read", "bulk"}
    BY <1>1 DEF Inv, RequestInv, Idle, Bulks, Readings
  <2>5. prepared \in [Attendants -> [at : Pointers, max : Pointers]]
    <3>1. {0} \cup Arrived \subseteq Pointers
      BY <2>1, Messaging
    <3> QED
      BY <1>1, <3>1 DEF Inv, OthersInv
  <2>6. pause.kind \in {"none", "pause"}
    BY <1>1 DEF Inv, OthersInv, NoPause, Pauses
  <2> QED
    BY <1>1, <2>2, <2>3, <2>4, <2>5, <2>6 DEF Inv, BornInv, LedgerInv, OthersInv, TypeOK
<1> QED
  BY InvHolds, <1>1, PTL

(* Receipts follow reading, whoever read and on whatever snapshot: none goes past what
   an agent opened, and none leaves out a message before it, unless that was deleted, has
   no usable id or arrived behind a receipt (_queue_direct_mark_read). *)
THEOREM ReceiptsFollow == Spec => []ReceiptsFollowReading
<1>1. Inv => ReceiptsFollowReading
  BY DEF Inv
<1> QED
  BY InvHolds, <1>1, PTL

(* A bulk read never moves a pointer over a message that arrived after it was prepared,
   and never backwards (_bulk_read_limit). *)
THEOREM BulkReadsStopShort == Spec => BulkStopsShort
<1> DEFINE Short(a) == MarkBulk(a) =>
                          /\ seen'[a] >= seen[a]
                          /\ \A m \in Messages :
                                born[m] > prepared[a].max => ~ (seen[a] < m /\ m <= seen'[a])
<1>1. ASSUME Inv, NEW a \in Attendants, MarkBulk(a)
      PROVE  Short(a)
  <2> DEFINE limit == BulkLimit(request[a].born, prepared[a])
  <2>1. /\ limit \in {0} \cup Arrived
        /\ \A m \in Messages : born[m] > prepared[a].max => ~ (m <= limit)
    BY <1>1, BulkLaws
  <2>2. seen' = [seen EXCEPT ![a] = Higher(@, limit)]
    BY <1>1 DEF MarkBulk
  <2> HIDE DEF limit
  <2>3. seen \in [Attendants -> {0} \cup Arrived]
    BY <1>1 DEF Inv, OthersInv
  <2>4. seen[a] \in Pointers /\ limit \in Pointers
    BY <2>1, <2>3, Messaging DEF Arrived
  <2>5. seen'[a] \in {seen[a], limit} /\ seen[a] <= seen'[a] /\ seen'[a] \in Pointers
    BY <2>2, <2>3, <2>4, Highers
  <2>6. seen'[a] >= seen[a]
    BY <2>4, <2>5, Messaging
  <2>7. ASSUME NEW m \in Messages, born[m] > prepared[a].max, seen[a] < m, m <= seen'[a]
        PROVE  FALSE
    <3>1. m \in Int /\ seen[a] \in Int
      BY <2>4, Messaging
    <3>2. seen'[a] # seen[a]
      BY <2>7, <3>1
    <3> QED
      BY <2>1, <2>5, <2>7, <3>2
  <2> QED
    BY <2>6, <2>7
<1>2. Inv => [\A a \in Attendants : Short(a)]_vars
  BY <1>1
<1> QED
  BY InvHolds, <1>2, PTL DEF BulkStopsShort
=============================================================================
