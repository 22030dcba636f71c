---------------------------- MODULE BoundedQueue ----------------------------
(***************************************************************************)
(* What cQueue.h promises: a sequence of at most Capacity records, oldest  *)
(* first.  A full queue refuses the next record, or loses its oldest one   *)
(* when it may overwrite; a FIFO hands out the oldest record and a LIFO    *)
(* the youngest.  got is what the last call answered.                      *)
(***************************************************************************)
EXTENDS Naturals, Sequences

CONSTANTS Record, Capacity, Refused

VARIABLES items, impl, ovw, got

vars == <<items, impl, ovw, got>>

Init ==
  /\ items = << >>
  /\ impl \in {"FIFO", "LIFO"}
  /\ ovw \in BOOLEAN
  /\ got = Refused

Full == Len(items) = Capacity

Setup ==
  /\ items' = << >>
  /\ impl' \in {"FIFO", "LIFO"}
  /\ ovw' \in BOOLEAN
  /\ got' = Refused

Push(r) ==
  \/ /\ ~Full
     /\ items' = Append(items, r)
     /\ got' = r
     /\ UNCHANGED <<impl, ovw>>
  \/ /\ Full /\ ovw
     /\ items' = Append(Tail(items), r)
     /\ got' = r
     /\ UNCHANGED <<impl, ovw>>
  \/ /\ Full /\ ~ovw
     /\ got' = Refused
     /\ UNCHANGED <<items, impl, ovw>>

Next_(s) == IF impl = "FIFO" THEN s[1] ELSE s[Len(s)]

Rest(s) == IF impl = "FIFO" THEN Tail(s) ELSE SubSeq(s, 1, Len(s) - 1)

\* Pop, drop and peek on an empty queue refuse and change nothing.
Empty ==
  /\ items = << >>
  /\ got' = Refused
  /\ UNCHANGED <<items, impl, ovw>>

Pop ==
  /\ items # << >>
  /\ items' = Rest(items)
  /\ got' = Next_(items)
  /\ UNCHANGED <<impl, ovw>>

Peek ==
  /\ items # << >>
  /\ got' = Next_(items)
  /\ UNCHANGED <<items, impl, ovw>>

\* Looking at the record at an index is promised for a FIFO only.
PeekIdx ==
  /\ impl = "FIFO"
  /\ got' \in {items[k] : k \in 1 .. Len(items)}
  /\ UNCHANGED <<items, impl, ovw>>

Flush ==
  /\ items' = << >>
  /\ got' = Refused
  /\ UNCHANGED <<impl, ovw>>

Next ==
  \/ \E r \in Record : Push(r)
  \/ Setup \/ Empty \/ Pop \/ Peek \/ PeekIdx \/ Flush

Spec == Init /\ [][Next]_vars
=============================================================================
