------------------------------- MODULE CQueue -------------------------------
(***************************************************************************)
(* The ring buffer of cQueue.c: a queue (FIFO) or a stack (LIFO) of NbRecs *)
(* slots, which refuses a record when it is full or overwrites the oldest  *)
(* one (ovw).  The module holds the operations as operators on a queue     *)
(* record, so that CQueueMachine can check them one by one and             *)
(* NotifyEvents can keep one queue per client.                             *)
(***************************************************************************)
EXTENDS Integers, FiniteSets

CONSTANTS Record,     \* what a slot can hold
          NoRecord,   \* the content of a slot that was never written
          NbRecs      \* rec_nb, the number of slots

\* rec_nb is a uint16_t, and the queue of a client holds HOMEKIT_EVENT_QUEUE_SIZE.
ASSUME NbRecsAssumption == NbRecs \in Nat /\ 0 < NbRecs /\ NbRecs < 65536
ASSUME NoRecordAssumption == NoRecord \notin Record

Idx == 0 .. NbRecs - 1

Impl == {"FIFO", "LIFO"}

Queue == [slot : [Idx -> Record \cup {NoRecord}],
          in   : Idx,
          out  : Idx,
          cnt  : 0 .. NbRecs,
          impl : Impl,
          ovw  : BOOLEAN]

inc_idx(i) == IF i < NbRecs - 1 THEN i + 1 ELSE 0

dec_idx(i) == IF i > 0 THEN i - 1 ELSE NbRecs - 1

q_init(type, overwrite) ==
  [slot |-> [i \in Idx |-> NoRecord], in |-> 0, out |-> 0, cnt |-> 0,
   impl |-> type, ovw |-> overwrite]

q_flush(q) == [q EXCEPT !.in = 0, !.out = 0, !.cnt = 0]

q_isEmpty(q) == q.cnt = 0

q_isFull(q) == q.cnt = NbRecs

\* Whether q_push accepts a record.
q_accepts(q) == q.ovw \/ ~q_isFull(q)

\* A wrong q_pushed: a full FIFO is overwritten and out stays where it is.
q_pushed_in_place(q, r) ==
  [q EXCEPT !.slot[q.in] = r,
            !.in  = inc_idx(q.in),
            !.cnt = IF q_isFull(q) THEN q.cnt ELSE q.cnt + 1]

\* The queue after q_push accepted r: a full FIFO moves past the oldest record.
q_pushed(q, r) ==
  [q EXCEPT !.slot[q.in] = r,
            !.in  = inc_idx(q.in),
            !.cnt = IF q_isFull(q) THEN q.cnt ELSE q.cnt + 1,
            !.out = IF q_isFull(q) /\ q.impl = "FIFO" THEN inc_idx(q.out) ELSE q.out]

q_push(q, r) == IF q_accepts(q) THEN q_pushed(q, r) ELSE q

\* A wrong q_peek: a LIFO is looked at where it writes next.
q_peek_at_in(q) == IF q.impl = "FIFO" THEN q.slot[q.out] ELSE q.slot[q.in]

\* The record q_pop and q_peek copy out of a queue that is not empty.
q_peek(q) == IF q.impl = "FIFO" THEN q.slot[q.out] ELSE q.slot[dec_idx(q.in)]

\* What q_pop and q_drop leave of a queue that is not empty.
q_drop(q) ==
  IF q.impl = "FIFO"
  THEN [q EXCEPT !.out = inc_idx(q.out), !.cnt = q.cnt - 1]
  ELSE [q EXCEPT !.in  = dec_idx(q.in),  !.cnt = q.cnt - 1]

q_pop(q) == IF q_isEmpty(q) THEN q ELSE q_drop(q)

\* The record q_peekIdx copies out when idx is below the count.
q_peekIdx(q, idx) ==
  IF q.impl = "FIFO" THEN q.slot[(q.out + idx) % NbRecs] ELSE q.slot[idx]

-----------------------------------------------------------------------------
(* The records a queue holds, oldest first: the view of it the abstract     *)
(* BoundedQueue has.  The first record of a stack lies cnt slots behind in. *)

first(q) ==
  IF q.impl = "FIFO" THEN q.out
  ELSE IF q.cnt <= q.in THEN q.in - q.cnt ELSE q.in - q.cnt + NbRecs

slotOf(q, k) ==
  IF first(q) + k - 1 < NbRecs THEN first(q) + k - 1 ELSE first(q) + k - 1 - NbRecs

contents(q) == [k \in 1 .. q.cnt |-> q.slot[slotOf(q, k)]]

\* The indices agree with the count.
RingOK(q) ==
  /\ q.impl = "FIFO" => q.in = IF q.out + q.cnt < NbRecs
                               THEN q.out + q.cnt ELSE q.out + q.cnt - NbRecs
  /\ \A k \in 1 .. q.cnt : q.slot[slotOf(q, k)] \in Record
=============================================================================
