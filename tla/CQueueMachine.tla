--------------------------- MODULE CQueueMachine ----------------------------
(***************************************************************************)
(* One queue of cQueue.c under every sequence of calls.                    *)
(***************************************************************************)
EXTENDS CQueue, Sequences

VARIABLES q,     \* the Queue_t
          got    \* the record of the last call that answered true, else NoRecord

vars == <<q, got>>

Init ==
  /\ \E type \in Impl, overwrite \in BOOLEAN : q = q_init(type, overwrite)
  /\ got = NoRecord

\* q_init on a queue in use frees it first (q_kill).
Setup(type, overwrite) ==
  /\ q' = q_init(type, overwrite)
  /\ got' = NoRecord

Flush ==
  /\ q' = q_flush(q)
  /\ got' = NoRecord

Push(r) ==
  /\ q' = q_push(q, r)
  /\ got' = IF q_accepts(q) THEN r ELSE NoRecord

Pop ==
  /\ q' = q_pop(q)
  /\ got' = IF q_isEmpty(q) THEN NoRecord ELSE q_peek(q)

Peek ==
  /\ got' = IF q_isEmpty(q) THEN NoRecord ELSE q_peek(q)
  /\ UNCHANGED q

\* q_drop answers without a record: on a queue that holds one it is the second
\* half of "peek, then drop", which the module keeps as one call.
PeekDrop ==
  /\ ~q_isEmpty(q)
  /\ got' = q_peek(q)
  /\ q' = q_drop(q)

PeekIdx(idx) ==
  /\ q.impl = "FIFO" /\ idx < q.cnt
  /\ got' = q_peekIdx(q, idx)
  /\ UNCHANGED q

Next ==
  \/ \E type \in Impl, overwrite \in BOOLEAN : Setup(type, overwrite)
  \/ \E r \in Record : Push(r)
  \/ \E idx \in Idx : PeekIdx(idx)
  \/ Flush \/ Pop \/ Peek \/ PeekDrop

Spec == Init /\ [][Next]_vars

-----------------------------------------------------------------------------

\* The queue and its indices have their types.
TypeOK == q \in Queue /\ got \in Record \cup {NoRecord}

\* The two indices and the count never drift apart, whatever the mix of calls, and
\* no slot that counts as occupied is one that was never written.
RingInv == RingOK(q)

\* The ring is a bounded sequence: q_push, q_pop, q_peek, q_drop, q_peekIdx and q_flush
\* answer what the promised queue or stack answers, also after the indices have
\* wrapped and after a full queue has overwritten records.
Promised == INSTANCE BoundedQueue
              WITH Capacity <- NbRecs, Refused <- NoRecord, items <- contents(q),
                   impl <- q.impl, ovw <- q.ovw

ImplementsQueue == Promised!Spec
=============================================================================
