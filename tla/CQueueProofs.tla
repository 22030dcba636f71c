---------------------------- MODULE CQueueProofs ----------------------------
(***************************************************************************)
(* The ring buffer of cQueue.c keeps its indices, its count and its slots  *)
(* in agreement for every capacity and every kind of record.               *)
(***************************************************************************)
EXTENDS CQueueMachine, SequenceTheorems, TLAPS

\* A queue that is well formed: what every call of cQueue.c preserves.
WellFormed(s) == s \in Queue /\ RingOK(s)

\* A queue whose fields are replaced by members of their types is a queue.  The four
\* ways the calls replace them have names, which keeps the obligations first order.
Emptied(s, i) == [s EXCEPT !.in = i, !.out = i, !.cnt = i]
Written(s, r, i, n, o) == [s EXCEPT !.slot[s.in] = r, !.in = i, !.cnt = n, !.out = o]
WithOut(s, o, n) == [s EXCEPT !.out = o, !.cnt = n]
WithIn(s, i, n) == [s EXCEPT !.in = i, !.cnt = n]

LEMMA EmptiedQueue ==
  ASSUME NEW s \in Queue, NEW i \in Idx, i \in 0 .. NbRecs
  PROVE  Emptied(s, i) \in Queue
  BY DEF Queue, Emptied

LEMMA WrittenQueue ==
  ASSUME NEW s \in Queue, NEW r \in Record, NEW i \in Idx, NEW n \in 0 .. NbRecs,
         NEW o \in Idx
  PROVE  Written(s, r, i, n, o) \in Queue
  BY DEF Queue, Written

LEMMA WithOutQueue ==
  ASSUME NEW s \in Queue, NEW o \in Idx, NEW n \in 0 .. NbRecs
  PROVE  WithOut(s, o, n) \in Queue
  BY DEF Queue, WithOut

LEMMA WithInQueue ==
  ASSUME NEW s \in Queue, NEW i \in Idx, NEW n \in 0 .. NbRecs
  PROVE  WithIn(s, i, n) \in Queue
  BY DEF Queue, WithIn

USE NbRecsAssumption, NoRecordAssumption DEF NbRecsAssumption, NoRecordAssumption

\* An index moved by inc_idx or dec_idx stays one.
LEMMA IdxStep ==
  ASSUME NEW i \in Idx
  PROVE  inc_idx(i) \in Idx /\ dec_idx(i) \in Idx
  BY DEF Idx, inc_idx, dec_idx

\* slotOf yields an index.
LEMMA SlotOfIdx ==
  ASSUME NEW s \in Queue, NEW k \in 1 .. s.cnt
  PROVE  slotOf(s, k) \in Idx
  BY DEF Queue, Idx, Impl, slotOf, first

\* q_init: an empty queue is well formed.
LEMMA InitWellFormed ==
  ASSUME NEW type \in Impl, NEW overwrite \in BOOLEAN
  PROVE  WellFormed(q_init(type, overwrite))
<1> DEFINE s == q_init(type, overwrite)
<1>1. s \in Queue
  BY DEF q_init, Queue, Idx
<1>2. RingOK(s)
  BY DEF q_init, RingOK
<1> QED BY <1>1, <1>2 DEF WellFormed

\* q_flush.
LEMMA FlushWellFormed ==
  ASSUME NEW s, WellFormed(s)
  PROVE  WellFormed(q_flush(s))
<1>1. q_flush(s) \in Queue
  <2>1. 0 \in Idx /\ 0 \in 0 .. NbRecs
    BY DEF Idx
  <2>2. q_flush(s) = Emptied(s, 0)
    BY DEF q_flush, Emptied
  <2>3. s \in Queue
    BY DEF WellFormed
  <2> QED BY <2>1, <2>2, <2>3, EmptiedQueue
<1>2. RingOK(q_flush(s))
  BY DEF WellFormed, q_flush, RingOK, Queue
<1> QED BY <1>1, <1>2 DEF WellFormed

\* q_push that is accepted, full or not.
LEMMA PushedWellFormed ==
  ASSUME NEW s, WellFormed(s), NEW r \in Record
  PROVE  WellFormed(q_pushed(s, r))
<1> DEFINE t == q_pushed(s, r)
<1>1. s \in Queue /\ RingOK(s)
  BY DEF WellFormed
<1>2. t \in Queue
  <2>1. s.in \in Idx /\ s.out \in Idx /\ s.cnt \in 0 .. NbRecs
    BY <1>1 DEF Queue
  <2>2. inc_idx(s.in) \in Idx /\ inc_idx(s.out) \in Idx
    BY <2>1, IdxStep
  <2> DEFINE n == IF q_isFull(s) THEN s.cnt ELSE s.cnt + 1
             o == IF q_isFull(s) /\ s.impl = "FIFO" THEN inc_idx(s.out) ELSE s.out
  <2>3. n \in 0 .. NbRecs /\ o \in Idx
    BY <2>1, <2>2 DEF q_isFull
  <2>4. t = Written(s, r, inc_idx(s.in), n, o)
    BY DEF q_pushed, Written
  <2> HIDE DEF t, n, o
  <2> QED BY <1>1, <2>2, <2>3, <2>4, WrittenQueue
<1>3. /\ t.impl = s.impl
      /\ t.in = inc_idx(s.in)
      /\ t.cnt = (IF s.cnt = NbRecs THEN s.cnt ELSE s.cnt + 1)
      /\ t.out = (IF s.cnt = NbRecs /\ s.impl = "FIFO" THEN inc_idx(s.out) ELSE s.out)
      /\ \A i \in Idx : t.slot[i] = IF i = s.in THEN r ELSE s.slot[i]
  BY <1>1 DEF q_pushed, q_isFull, Queue
<1>4. t.impl = "FIFO" => t.in = IF t.out + t.cnt < NbRecs
                               THEN t.out + t.cnt ELSE t.out + t.cnt - NbRecs
  BY <1>1, <1>3 DEF RingOK, Queue, Idx, inc_idx
<1>5. ASSUME NEW k \in 1 .. t.cnt
      PROVE  t.slot[slotOf(t, k)] \in Record
  <2>1. slotOf(t, k) \in Idx
    BY <1>2, SlotOfIdx
  <2>2. CASE slotOf(t, k) = s.in
    BY <1>3, <2>1, <2>2
  <2>3. CASE slotOf(t, k) # s.in
    <3>1. /\ s.in \in 0 .. NbRecs - 1 /\ s.out \in 0 .. NbRecs - 1 /\ s.cnt \in 0 .. NbRecs
          /\ s.impl = "FIFO" => s.in = IF s.out + s.cnt < NbRecs
                                       THEN s.out + s.cnt ELSE s.out + s.cnt - NbRecs
      BY <1>1 DEF RingOK, Queue, Idx
    <3>2. CASE s.cnt = NbRecs
      <4>1. k + 1 \in 1 .. s.cnt /\ slotOf(t, k) = slotOf(s, k + 1)
        BY <1>3, <2>3, <3>1, <3>2 DEF slotOf, first, inc_idx
      <4> QED BY <1>1, <1>3, <2>1, <2>3, <4>1 DEF RingOK
    <3>3. CASE s.cnt # NbRecs
      <4>1. k \in 1 .. s.cnt /\ slotOf(t, k) = slotOf(s, k)
        <5>1. CASE s.impl = "FIFO"
          BY <1>3, <2>3, <3>1, <3>3, <5>1 DEF slotOf, first, inc_idx
        <5>2. CASE s.impl # "FIFO"
          BY <1>3, <2>3, <3>1, <3>3, <5>2 DEF slotOf, first, inc_idx
        <5> QED BY <5>1, <5>2
      <4> QED BY <1>1, <1>3, <2>1, <2>3, <4>1 DEF RingOK
    <3> QED BY <3>2, <3>3
  <2> QED BY <2>2, <2>3
<1> QED BY <1>2, <1>4, <1>5 DEF WellFormed, RingOK

\* The record q_peek and q_pop hand out was pushed.
LEMMA PeekIsRecord ==
  ASSUME NEW s, WellFormed(s), ~q_isEmpty(s)
  PROVE  q_peek(s) \in Record
<1>1. s \in Queue /\ RingOK(s) /\ s.cnt \in 1 .. NbRecs
  BY DEF WellFormed, q_isEmpty, Queue
<1>2. CASE s.impl = "FIFO"
  <2>1. 1 \in 1 .. s.cnt /\ slotOf(s, 1) = s.out
    BY <1>1, <1>2 DEF slotOf, first, Queue, Idx
  <2> QED BY <1>1, <1>2, <2>1 DEF q_peek, RingOK
<1>3. CASE s.impl # "FIFO"
  <2>1. s.cnt \in 1 .. s.cnt /\ slotOf(s, s.cnt) = dec_idx(s.in)
    BY <1>1, <1>3 DEF slotOf, first, dec_idx, Queue, Idx
  <2> QED BY <1>1, <1>3, <2>1 DEF q_peek, RingOK
<1> QED BY <1>2, <1>3

\* q_drop, and so q_pop, on a queue that is not empty.
LEMMA DropWellFormed ==
  ASSUME NEW s, WellFormed(s), ~q_isEmpty(s)
  PROVE  WellFormed(q_drop(s))
<1> DEFINE t == q_drop(s)
<1>1. s \in Queue /\ RingOK(s) /\ s.cnt \in 1 .. NbRecs
  BY DEF WellFormed, q_isEmpty, Queue
<1>2. t \in Queue
  <2>1. s.in \in Idx /\ s.out \in Idx /\ s.cnt - 1 \in 0 .. NbRecs
    BY <1>1 DEF Queue
  <2>2. inc_idx(s.out) \in Idx /\ dec_idx(s.in) \in Idx
    BY <2>1, IdxStep
  <2> DEFINE n == s.cnt - 1
  <2>3. t = IF s.impl = "FIFO" THEN WithOut(s, inc_idx(s.out), n)
            ELSE WithIn(s, dec_idx(s.in), n)
    BY DEF q_drop, WithOut, WithIn
  <2>4. n \in 0 .. NbRecs
    BY <2>1
  <2> HIDE DEF t, n
  <2> QED BY <1>1, <2>2, <2>3, <2>4, WithOutQueue, WithInQueue
<1>3. /\ t.impl = s.impl /\ t.slot = s.slot /\ t.cnt = s.cnt - 1
      /\ t.in = IF s.impl = "FIFO" THEN s.in ELSE dec_idx(s.in)
      /\ t.out = IF s.impl = "FIFO" THEN inc_idx(s.out) ELSE s.out
  BY <1>1 DEF q_drop, Queue
<1>4. t.impl = "FIFO" => t.in = IF t.out + t.cnt < NbRecs
                               THEN t.out + t.cnt ELSE t.out + t.cnt - NbRecs
  BY <1>1, <1>3 DEF RingOK, Queue, Idx, inc_idx
<1>5. ASSUME NEW k \in 1 .. t.cnt
      PROVE  t.slot[slotOf(t, k)] \in Record
  <2>1. CASE s.impl = "FIFO"
    <3>1. k + 1 \in 1 .. s.cnt /\ slotOf(t, k) = slotOf(s, k + 1)
      BY <1>1, <1>3, <2>1 DEF Queue, Idx, slotOf, first, inc_idx
    <3> QED BY <1>1, <1>3, <3>1 DEF RingOK
  <2>2. CASE s.impl # "FIFO"
    <3>1. k \in 1 .. s.cnt /\ slotOf(t, k) = slotOf(s, k)
      BY <1>1, <1>3, <2>2 DEF Queue, Idx, slotOf, first, dec_idx
    <3> QED BY <1>1, <1>3, <3>1 DEF RingOK
  <2> QED BY <2>1, <2>2
<1> QED BY <1>2, <1>4, <1>5 DEF WellFormed, RingOK

\* q_peekIdx on a FIFO hands out the record that lies idx behind the oldest one.
LEMMA PeekIdxIsRecord ==
  ASSUME NEW s, WellFormed(s), s.impl = "FIFO", NEW idx \in Idx, idx < s.cnt
  PROVE  q_peekIdx(s, idx) = s.slot[slotOf(s, idx + 1)] /\ q_peekIdx(s, idx) \in Record
<1>1. s \in Queue /\ RingOK(s)
  BY DEF WellFormed
<1>2. idx + 1 \in 1 .. s.cnt
  BY <1>1 DEF Queue, Idx
<1>3. (s.out + idx) % NbRecs = slotOf(s, idx + 1)
  <2>1. s.out \in Nat /\ idx \in Nat /\ s.out < NbRecs /\ idx < NbRecs
    BY <1>1 DEF Queue, Idx
  <2>2. CASE s.out + idx < NbRecs
    BY <2>1, <2>2 DEF slotOf, first
  <2>3. CASE s.out + idx >= NbRecs
    BY <2>1, <2>3 DEF slotOf, first
  <2> QED BY <2>1, <2>2, <2>3
<1> QED BY <1>1, <1>2, <1>3 DEF q_peekIdx, RingOK

-----------------------------------------------------------------------------

IInv == TypeOK /\ RingInv

\* Whatever the mix of calls, the queue and its indices have their types, the indices
\* agree with the count, and every occupied slot holds a record that was pushed.
THEOREM QueueInvariant == Spec => [](TypeOK /\ RingInv)
<1>1. Init => IInv
  BY InitWellFormed DEF Init, IInv, TypeOK, RingInv, WellFormed
<1>2. IInv /\ [Next]_vars => IInv'
  <2> SUFFICES ASSUME IInv, [Next]_vars PROVE IInv'
    OBVIOUS
  <2>1. WellFormed(q) /\ got \in Record \cup {NoRecord}
    BY DEF IInv, TypeOK, RingInv, WellFormed
  <2> SUFFICES WellFormed(q') /\ got' \in Record \cup {NoRecord}
    BY DEF IInv, TypeOK, RingInv, WellFormed
  <2>2. ASSUME NEW type \in Impl, NEW overwrite \in BOOLEAN, Setup(type, overwrite)
        PROVE  WellFormed(q') /\ got' \in Record \cup {NoRecord}
    BY <2>2, InitWellFormed DEF Setup
  <2>3. ASSUME NEW r \in Record, Push(r)
        PROVE  WellFormed(q') /\ got' \in Record \cup {NoRecord}
    BY <2>1, <2>3, PushedWellFormed DEF Push, q_push
  <2>4. ASSUME NEW idx \in Idx, PeekIdx(idx)
        PROVE  WellFormed(q') /\ got' \in Record \cup {NoRecord}
    BY <2>1, <2>4, PeekIdxIsRecord DEF PeekIdx
  <2>5. CASE Flush
    BY <2>1, <2>5, FlushWellFormed DEF Flush
  <2>6. CASE Pop
    BY <2>1, <2>6, PeekIsRecord, DropWellFormed DEF Pop, q_pop
  <2>7. CASE Peek
    BY <2>1, <2>7, PeekIsRecord DEF Peek
  <2>8. CASE PeekDrop
    BY <2>1, <2>8, PeekIsRecord, DropWellFormed DEF PeekDrop
  <2>9. CASE UNCHANGED vars
    BY <2>1, <2>9 DEF vars
  <2> QED BY <2>2, <2>3, <2>4, <2>5, <2>6, <2>7, <2>8, <2>9 DEF Next
<1> QED BY <1>1, <1>2, PTL DEF Spec, IInv

\* In particular the indices stay inside the array of slots and the count below its size.
THEOREM QueueTypeCorrect == Spec => []TypeOK
  BY QueueInvariant, PTL

-----------------------------------------------------------------------------
(***************************************************************************)
(* The ring buffer of cQueue.c implements the bounded queue and stack of   *)
(* BoundedQueue for every capacity: every call maps to a step of the       *)
(* promised queue, or changes nothing of it.                               *)
(***************************************************************************)

HIDE DEF NbRecsAssumption, NoRecordAssumption


\* The records of a well-formed queue are a sequence of them, cnt long.
LEMMA ContentsSeq ==
  ASSUME NEW s, WellFormed(s)
  PROVE  /\ contents(s) \in Seq(Record)
         /\ Len(contents(s)) = s.cnt
         /\ s.cnt \in 0 .. NbRecs
         /\ \A k \in 1 .. s.cnt : contents(s)[k] = s.slot[slotOf(s, k)]
<1>1. s.cnt \in Nat /\ s.cnt \in 0 .. NbRecs
  BY DEF WellFormed, Queue
<1>2. contents(s) \in [1 .. s.cnt -> Record]
  BY DEF WellFormed, RingOK, contents
<1>3. contents(s) \in Seq(Record)
  BY <1>1, <1>2, SeqDef
<1>4. Len(contents(s)) = s.cnt
  BY <1>1, <1>2, <1>3, LenProperties
<1> QED BY <1>1, <1>3, <1>4 DEF contents

\* A queue is shown to hold a sequence by its length and its members.
LEMMA ContentsAre ==
  ASSUME NEW s, WellFormed(s), NEW t \in Seq(Record), Len(t) = s.cnt,
         \A k \in 1 .. s.cnt : t[k] = s.slot[slotOf(s, k)]
  PROVE  contents(s) = t
<1>1. \A k \in 1 .. Len(contents(s)) : contents(s)[k] = t[k]
  BY ContentsSeq
<1> QED BY <1>1, ContentsSeq, SeqEqual

LEMMA EmptyContents ==
  ASSUME NEW s, WellFormed(s)
  PROVE  s.cnt = 0 <=> contents(s) = << >>
BY ContentsSeq, EmptySeq

\* The place q_push writes is one behind the youngest record; the other records keep
\* their places, counted from the oldest, unless a full queue gives that one up.
LEMMA PushPlaces ==
  ASSUME NEW s, WellFormed(s), NEW r \in Record
  PROVE  LET t == q_pushed(s, r)
         IN  IF s.cnt = NbRecs
             THEN /\ t.cnt = NbRecs
                  /\ t.slot[slotOf(t, NbRecs)] = r
                  /\ \A k \in 1 .. NbRecs - 1 :
                       t.slot[slotOf(t, k)] = s.slot[slotOf(s, k + 1)]
             ELSE /\ t.cnt = s.cnt + 1
                  /\ t.slot[slotOf(t, t.cnt)] = r
                  /\ \A k \in 1 .. s.cnt : t.slot[slotOf(t, k)] = s.slot[slotOf(s, k)]
<1> DEFINE t == q_pushed(s, r)
<1>1. s \in Queue /\ RingOK(s)
  BY DEF WellFormed
<1>2. /\ t.impl = s.impl
      /\ t.in = inc_idx(s.in)
      /\ t.cnt = (IF s.cnt = NbRecs THEN s.cnt ELSE s.cnt + 1)
      /\ t.out = (IF s.cnt = NbRecs /\ s.impl = "FIFO" THEN inc_idx(s.out) ELSE s.out)
      /\ \A i \in Idx : t.slot[i] = IF i = s.in THEN r ELSE s.slot[i]
  BY <1>1 DEF q_pushed, q_isFull, Queue
<1>3. /\ s.in \in 0 .. NbRecs - 1 /\ s.out \in 0 .. NbRecs - 1 /\ s.cnt \in 0 .. NbRecs
      /\ s.impl = "FIFO" => s.in = IF s.out + s.cnt < NbRecs
                                   THEN s.out + s.cnt ELSE s.out + s.cnt - NbRecs
      /\ NbRecs \in Nat \ {0}
  BY <1>1, NbRecsAssumption DEF RingOK, Queue, Idx, NbRecsAssumption
<1> HIDE DEF t
<1>5. CASE s.cnt = NbRecs
  <2>1. slotOf(t, NbRecs) = s.in
    BY <1>2, <1>3, <1>5 DEF slotOf, first, inc_idx
  <2>2. ASSUME NEW k \in 1 .. NbRecs - 1
        PROVE  slotOf(t, k) = slotOf(s, k + 1) /\ slotOf(t, k) # s.in
    <3>1. CASE s.impl = "FIFO"
      BY <1>2, <1>3, <1>5, <3>1 DEF slotOf, first, inc_idx
    <3>2. CASE s.impl # "FIFO"
      BY <1>2, <1>3, <1>5, <3>2 DEF slotOf, first, inc_idx
    <3> QED BY <3>1, <3>2
  <2>3. ASSUME NEW k \in 1 .. NbRecs - 1
        PROVE  t.slot[slotOf(t, k)] = s.slot[slotOf(s, k + 1)]
    <3>1. slotOf(s, k + 1) \in Idx
      BY <1>1, <1>3, <1>5, SlotOfIdx
    <3> QED BY <1>2, <2>2, <3>1
  <2>4. s.in \in Idx
    BY <1>3 DEF Idx
  <2> QED BY <1>2, <1>5, <2>1, <2>3, <2>4 DEF t
<1>6. CASE s.cnt # NbRecs
  <2>1. slotOf(t, s.cnt + 1) = s.in
    <3>1. CASE s.impl = "FIFO"
      BY <1>2, <1>3, <1>6, <3>1 DEF slotOf, first, inc_idx
    <3>2. CASE s.impl # "FIFO"
      BY <1>2, <1>3, <1>6, <3>2 DEF slotOf, first, inc_idx
    <3> QED BY <3>1, <3>2
  <2>2. ASSUME NEW k \in 1 .. s.cnt
        PROVE  slotOf(t, k) = slotOf(s, k) /\ slotOf(t, k) # s.in
    <3>1. CASE s.impl = "FIFO"
      BY <1>2, <1>3, <1>6, <3>1 DEF slotOf, first, inc_idx
    <3>2. CASE s.impl # "FIFO"
      <4>1. first(t) = first(s) /\ first(s) \in 0 .. NbRecs - 1
        BY <1>2, <1>3, <1>6, <3>2 DEF first, inc_idx
      <4>2. s.in = IF first(s) + s.cnt < NbRecs
                   THEN first(s) + s.cnt ELSE first(s) + s.cnt - NbRecs
        BY <1>3, <1>6, <3>2 DEF first
      <4> QED BY <1>3, <1>6, <4>1, <4>2 DEF slotOf
    <3> QED BY <3>1, <3>2
  <2>3. ASSUME NEW k \in 1 .. s.cnt
        PROVE  t.slot[slotOf(t, k)] = s.slot[slotOf(s, k)]
    <3>1. slotOf(s, k) \in Idx
      BY <1>1, SlotOfIdx
    <3> QED BY <1>2, <2>2, <3>1
  <2>4. s.in \in Idx
    BY <1>3 DEF Idx
  <2> QED BY <1>2, <1>6, <2>1, <2>3, <2>4 DEF t
<1> QED BY <1>5, <1>6

\* What q_drop leaves are the same records without the oldest, or without the youngest
\* of a stack; q_peek answers the one it takes.
LEMMA DropPlaces ==
  ASSUME NEW s, WellFormed(s), ~q_isEmpty(s)
  PROVE  LET t == q_drop(s)
         IN  /\ t.cnt = s.cnt - 1 /\ t.slot = s.slot /\ t.impl = s.impl
             /\ \A k \in 1 .. t.cnt :
                  slotOf(t, k) = IF s.impl = "FIFO" THEN slotOf(s, k + 1) ELSE slotOf(s, k)
             /\ q_peek(s) = s.slot[slotOf(s, IF s.impl = "FIFO" THEN 1 ELSE s.cnt)]
<1> DEFINE t == q_drop(s)
<1>1. s \in Queue /\ s.cnt \in 1 .. NbRecs
  BY DEF WellFormed, q_isEmpty, Queue
<1>2. /\ t.impl = s.impl /\ t.slot = s.slot /\ t.cnt = s.cnt - 1
      /\ t.in = IF s.impl = "FIFO" THEN s.in ELSE dec_idx(s.in)
      /\ t.out = IF s.impl = "FIFO" THEN inc_idx(s.out) ELSE s.out
  BY <1>1 DEF q_drop, Queue
<1>3. /\ s.in \in 0 .. NbRecs - 1 /\ s.out \in 0 .. NbRecs - 1 /\ s.cnt \in 1 .. NbRecs
      /\ NbRecs \in Nat \ {0}
  BY <1>1, NbRecsAssumption DEF Queue, Idx, NbRecsAssumption
<1> HIDE DEF t
<1>4. CASE s.impl = "FIFO"
  <2>1. \A k \in 1 .. t.cnt : slotOf(t, k) = slotOf(s, k + 1)
    BY <1>2, <1>4, <1>3 DEF slotOf, first, inc_idx
  <2>2. slotOf(s, 1) = s.out
    BY <1>4, <1>3 DEF slotOf, first
  <2> QED BY <1>2, <1>4, <2>1, <2>2 DEF q_peek, t
<1>5. CASE s.impl # "FIFO"
  <2>1. \A k \in 1 .. t.cnt : slotOf(t, k) = slotOf(s, k)
    BY <1>2, <1>5, <1>3 DEF slotOf, first, dec_idx
  <2>2. slotOf(s, s.cnt) = dec_idx(s.in)
    BY <1>5, <1>3 DEF slotOf, first, dec_idx
  <2> QED BY <1>2, <1>5, <2>1, <2>2 DEF q_peek, t
<1> QED BY <1>4, <1>5

-----------------------------------------------------------------------------

\* q_push appends to the contents, after it has given up the oldest record when full.
LEMMA PushContents ==
  ASSUME NEW s, WellFormed(s), NEW r \in Record
  PROVE  contents(q_pushed(s, r)) =
           Append(IF q_isFull(s) THEN Tail(contents(s)) ELSE contents(s), r)
<1> DEFINE t == q_pushed(s, r)
           c == contents(s)
           u == IF q_isFull(s) THEN Tail(c) ELSE c
<1>1. WellFormed(t)
  BY PushedWellFormed
<1>2. /\ c \in Seq(Record) /\ Len(c) = s.cnt /\ s.cnt \in 0 .. NbRecs
      /\ \A k \in 1 .. s.cnt : c[k] = s.slot[slotOf(s, k)]
  BY ContentsSeq
<1>3. NbRecs \in Nat \ {0}
  BY NbRecsAssumption DEF NbRecsAssumption
<1>4. CASE q_isFull(s)
  <2>1. s.cnt = NbRecs /\ c # << >>
    BY <1>2, <1>3, <1>4, EmptySeq DEF q_isFull
  <2>2. /\ Tail(c) \in Seq(Record) /\ Len(Tail(c)) = NbRecs - 1
        /\ \A k \in 1 .. NbRecs - 1 : Tail(c)[k] = c[k + 1]
    BY <1>2, <2>1, HeadTailProperties
  <2>3. /\ Append(Tail(c), r) \in Seq(Record) /\ Len(Append(Tail(c), r)) = NbRecs
        /\ Append(Tail(c), r)[NbRecs] = r
        /\ \A k \in 1 .. NbRecs - 1 : Append(Tail(c), r)[k] = Tail(c)[k]
    BY <1>3, <2>2, AppendProperties
  <2>4. /\ t.cnt = NbRecs /\ t.slot[slotOf(t, NbRecs)] = r
        /\ \A k \in 1 .. NbRecs - 1 : t.slot[slotOf(t, k)] = s.slot[slotOf(s, k + 1)]
    BY <2>1, PushPlaces
  <2> HIDE DEF t, c
  <2>5. \A k \in 1 .. NbRecs - 1 : k + 1 \in 1 .. s.cnt
    BY <1>3, <2>1
  <2>6. \A k \in 1 .. NbRecs - 1 : Append(Tail(c), r)[k] = t.slot[slotOf(t, k)]
    BY <1>2, <2>2, <2>3, <2>4, <2>5
  <2>7. \A k \in 1 .. t.cnt : Append(Tail(c), r)[k] = t.slot[slotOf(t, k)]
    BY <1>3, <2>3, <2>4, <2>6
  <2>8. contents(t) = Append(Tail(c), r)
    BY <1>1, <2>3, <2>4, <2>7, ContentsAre
  <2> QED BY <1>4, <2>8 DEF t, c
<1>5. CASE ~q_isFull(s)
  <2>1. /\ Append(c, r) \in Seq(Record) /\ Len(Append(c, r)) = s.cnt + 1
        /\ Append(c, r)[s.cnt + 1] = r
        /\ \A k \in 1 .. s.cnt : Append(c, r)[k] = c[k]
    BY <1>2, AppendProperties
  <2>2. /\ t.cnt = s.cnt + 1 /\ t.slot[slotOf(t, t.cnt)] = r
        /\ \A k \in 1 .. s.cnt : t.slot[slotOf(t, k)] = s.slot[slotOf(s, k)]
    BY <1>5, PushPlaces DEF q_isFull
  <2> HIDE DEF t, c
  <2>3. \A k \in 1 .. t.cnt : Append(c, r)[k] = t.slot[slotOf(t, k)]
    BY <1>2, <2>1, <2>2
  <2>4. contents(t) = Append(c, r)
    BY <1>1, <2>1, <2>2, <2>3, ContentsAre
  <2> QED BY <1>5, <2>4 DEF t, c
<1> QED BY <1>4, <1>5

\* q_drop takes the oldest record of a queue, the youngest of a stack.
LEMMA DropContents ==
  ASSUME NEW s, WellFormed(s), ~q_isEmpty(s)
  PROVE  LET c == contents(s)
         IN  IF s.impl = "FIFO"
             THEN contents(q_drop(s)) = Tail(c) /\ q_peek(s) = c[1]
             ELSE contents(q_drop(s)) = SubSeq(c, 1, Len(c) - 1) /\ q_peek(s) = c[Len(c)]
<1> DEFINE t == q_drop(s)
           c == contents(s)
<1>1. WellFormed(t)
  BY DropWellFormed
<1>2. /\ c \in Seq(Record) /\ Len(c) = s.cnt /\ s.cnt \in 1 .. NbRecs
      /\ \A k \in 1 .. s.cnt : c[k] = s.slot[slotOf(s, k)]
  BY ContentsSeq DEF q_isEmpty
<1>3. /\ t.cnt = s.cnt - 1 /\ t.slot = s.slot
      /\ \A k \in 1 .. t.cnt :
           slotOf(t, k) = IF s.impl = "FIFO" THEN slotOf(s, k + 1) ELSE slotOf(s, k)
      /\ q_peek(s) = s.slot[slotOf(s, IF s.impl = "FIFO" THEN 1 ELSE s.cnt)]
  BY DropPlaces
<1> HIDE DEF t, c
<1>4. NbRecs \in Nat \ {0}
  BY NbRecsAssumption DEF NbRecsAssumption
<1>5. CASE s.impl = "FIFO"
  <2>1. c # << >>
    BY <1>2, <1>4, EmptySeq
  <2>2. /\ Tail(c) \in Seq(Record) /\ Len(Tail(c)) = s.cnt - 1
        /\ \A k \in 1 .. s.cnt - 1 : Tail(c)[k] = c[k + 1]
    BY <1>2, <2>1, HeadTailProperties
  <2>3. \A k \in 1 .. t.cnt : k + 1 \in 1 .. s.cnt
    BY <1>2, <1>3, <1>4
  <2>4. \A k \in 1 .. t.cnt : Tail(c)[k] = t.slot[slotOf(t, k)]
    BY <1>2, <1>3, <1>5, <2>2, <2>3
  <2>5. contents(t) = Tail(c)
    BY <1>1, <1>3, <2>2, <2>4, ContentsAre
  <2>6. q_peek(s) = c[1]
    BY <1>2, <1>3, <1>4, <1>5
  <2> QED BY <1>5, <2>5, <2>6 DEF t, c
<1>6. CASE s.impl # "FIFO"
  <2> DEFINE d == SubSeq(c, 1, s.cnt - 1)
  <2>1. \A k \in 1 .. s.cnt - 1 : k \in 1 .. s.cnt /\ c[k] \in Record
    BY <1>2, <1>4, ElementOfSeq
  <2>2. 1 \in Int /\ s.cnt - 1 \in Int
    BY <1>2, <1>4
  <2>3. /\ d \in Seq(Record)
        /\ Len(d) = (IF 1 <= s.cnt - 1 THEN s.cnt - 1 - 1 + 1 ELSE 0)
        /\ \A k \in 1 .. s.cnt - 1 - 1 + 1 : d[k] = c[1 + k - 1]
    BY <2>1, <2>2, SubSeqProperties
  <2> HIDE DEF d
  <2>4. Len(d) = s.cnt - 1 /\ \A k \in 1 .. s.cnt - 1 : d[k] = c[k]
    BY <1>2, <1>4, <2>3
  <2>5. \A k \in 1 .. t.cnt : d[k] = t.slot[slotOf(t, k)]
    BY <1>2, <1>3, <1>6, <2>1, <2>4
  <2>6. contents(t) = d
    BY <1>1, <1>3, <2>3, <2>4, <2>5, ContentsAre
  <2>7. q_peek(s) = c[Len(c)]
    BY <1>2, <1>3, <1>4, <1>6
  <2> QED BY <1>2, <1>6, <2>6, <2>7 DEF t, c, d
<1> QED BY <1>5, <1>6

-----------------------------------------------------------------------------

\* What cQueue.c does to its indices is what its header promises of a bounded queue or
\* stack: for every capacity and every sequence of calls, also when a full queue
\* overwrites and after the indices have wrapped.
THEOREM CQueueImplements == Spec => ImplementsQueue
<1>1. Init => Promised!Init
  <2> SUFFICES ASSUME NEW type \in Impl, NEW overwrite \in BOOLEAN,
                      q = q_init(type, overwrite), got = NoRecord
               PROVE  Promised!Init
    BY DEF Init
  <2>1. WellFormed(q)
    BY InitWellFormed
  <2>2. q.cnt = 0 /\ q.impl = type /\ q.ovw = overwrite
    BY DEF q_init
  <2> QED BY <2>1, <2>2, EmptyContents DEF Promised!Init, Impl
<1>2. TypeOK /\ RingInv /\ (TypeOK /\ RingInv)' /\ [Next]_vars => [Promised!Next]_Promised!vars
  <2> SUFFICES ASSUME TypeOK, RingInv, TypeOK', RingInv', [Next]_vars
               PROVE  [Promised!Next]_Promised!vars
    OBVIOUS
  <2> DEFINE c == contents(q)
             Kept == q'.impl = q.impl /\ q'.ovw = q.ovw
  <2>1. WellFormed(q) /\ WellFormed(q') /\ q \in Queue /\ q' \in Queue
    BY DEF TypeOK, RingInv, WellFormed
  <2>2. /\ c \in Seq(Record) /\ Len(c) = q.cnt /\ q.cnt \in 0 .. NbRecs
        /\ (q_isEmpty(q) <=> c = << >>)
        /\ (q_isFull(q) <=> Promised!Full)
    BY <2>1, ContentsSeq, EmptyContents DEF q_isEmpty, q_isFull, Promised!Full
  <2>3. ASSUME NEW type \in Impl, NEW overwrite \in BOOLEAN, Setup(type, overwrite)
        PROVE  Promised!Setup
    <3>1. q'.cnt = 0 /\ q'.impl = type /\ q'.ovw = overwrite /\ got' = NoRecord
      BY <2>3 DEF Setup, q_init
    <3> QED BY <2>1, <3>1, EmptyContents DEF Promised!Setup, Impl
  <2>4. CASE Flush
    <3>1. q'.cnt = 0 /\ Kept /\ got' = NoRecord
      BY <2>1, <2>4 DEF Flush, q_flush, Queue
    <3> QED BY <2>1, <3>1, EmptyContents DEF Promised!Flush, Promised!Next
  <2>5. ASSUME NEW r \in Record, Push(r)
        PROVE  Promised!Push(r)
    <3>1. CASE q_accepts(q)
      <4>1. q' = q_pushed(q, r) /\ got' = r
        BY <2>5, <3>1 DEF Push, q_push
      <4>2. Kept
        BY <2>1, <4>1 DEF q_pushed, Queue
      <4>3. contents(q') = Append(IF q_isFull(q) THEN Tail(c) ELSE c, r)
        BY <2>1, <4>1, PushContents
      <4> QED BY <2>2, <3>1, <4>1, <4>2, <4>3 DEF Promised!Push, q_accepts
    <3>2. CASE ~q_accepts(q)
      <4>1. q' = q /\ got' = NoRecord
        BY <2>5, <3>2 DEF Push, q_push
      <4> QED BY <2>2, <3>2, <4>1 DEF Promised!Push, q_accepts
    <3> QED BY <3>1, <3>2
  <2>6. ASSUME ~q_isEmpty(q)
        PROVE  /\ contents(q_drop(q)) = Promised!Rest(c)
               /\ q_peek(q) = Promised!Next_(c)
               /\ q_drop(q).impl = q.impl /\ q_drop(q).ovw = q.ovw
    <3>1. q_drop(q).impl = q.impl /\ q_drop(q).ovw = q.ovw
      BY <2>1 DEF q_drop, Queue
    <3> QED BY <2>1, <2>6, <3>1, DropContents DEF Promised!Rest, Promised!Next_
  <2>7. CASE Pop
    <3>1. CASE q_isEmpty(q)
      BY <2>2, <2>7, <3>1 DEF Pop, q_pop, Promised!Empty, Promised!Next
    <3>2. CASE ~q_isEmpty(q)
      BY <2>2, <2>6, <2>7, <3>2 DEF Pop, q_pop, Promised!Pop, Promised!Next
    <3> QED BY <3>1, <3>2
  <2>8. CASE Peek
    <3>1. CASE q_isEmpty(q)
      BY <2>2, <2>8, <3>1 DEF Peek, Promised!Empty, Promised!Next
    <3>2. CASE ~q_isEmpty(q)
      BY <2>2, <2>6, <2>8, <3>2 DEF Peek, Promised!Peek, Promised!Next
    <3> QED BY <3>1, <3>2
  <2>9. CASE PeekDrop
    BY <2>2, <2>6, <2>9 DEF PeekDrop, Promised!Pop, Promised!Next
  <2>10. ASSUME NEW idx \in Idx, PeekIdx(idx)
         PROVE  Promised!PeekIdx
    <3>1. got' = q.slot[slotOf(q, idx + 1)] /\ q.impl = "FIFO" /\ UNCHANGED q
      BY <2>1, <2>10, PeekIdxIsRecord DEF PeekIdx
    <3>2. idx + 1 \in 1 .. q.cnt
      BY <2>2, <2>10, NbRecsAssumption DEF PeekIdx, Idx, NbRecsAssumption
    <3>3. got' = c[idx + 1] /\ idx + 1 \in 1 .. Len(c)
      BY <2>1, <2>2, <3>1, <3>2, ContentsSeq
    <3> QED BY <3>1, <3>3 DEF Promised!PeekIdx
  <2>11. CASE UNCHANGED vars
    BY <2>11 DEF vars, Promised!vars
  <2> QED BY <2>3, <2>4, <2>5, <2>7, <2>8, <2>9, <2>10, <2>11 DEF Next, Promised!Next
<1>3. Spec => [](TypeOK /\ RingInv)
  BY QueueInvariant
<1> QED BY <1>1, <1>2, <1>3, PTL DEF Spec, ImplementsQueue, Promised!Spec
=============================================================================
