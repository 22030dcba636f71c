------------------------- MODULE NotifyEventsProofs -------------------------
(***************************************************************************)
(* The list of clients, its traversals, the callbacks and the event queues *)
(* of the server loop stay consistent, for every number of clients, of     *)
(* characteristics and of places in a queue.                               *)
(***************************************************************************)
EXTENDS NotifyEvents, SequenceTheorems, FiniteSetTheorems, WellFoundedInduction, TLAPS

\* The conjunction of the safety invariants is inductive.
Inv == TypeOK /\ ListOK /\ CursorListed /\ NoDangling /\ EventsNeedVerify

Injective(s) == \A i, j \in 1 .. Len(s) : s[i] = s[j] => i = j

Elements(s) == {s[i] : i \in 1 .. Len(s)}

Bounded == [Ctx -> {s \in Seq(Event) : Len(s) <= QueueSize}]

-----------------------------------------------------------------------------
(* The list.                                                                *)

\* PosOf finds the place of a listed context.
LEMMA PosOfListed ==
  ASSUME NEW c \in Listed
  PROVE  PosOf(c) \in 1 .. Len(clients) /\ clients[PosOf(c)] = c
  BY DEF Listed, PosOf

\* Unlinking a context leaves a list without it, and with all the others.
LEMMA UnlinkedList ==
  ASSUME clients \in Seq(Ctx), Injective(clients), NEW c \in Listed
  PROVE  /\ Unlinked(c) \in Seq(Ctx)
         /\ Len(Unlinked(c)) = Len(clients) - 1
         /\ Injective(Unlinked(c))
         /\ Elements(Unlinked(c)) = Listed \ {c}
<1> DEFINE n == Len(clients) - 1
           u == Unlinked(c)
           p == PosOf(c)
<1>1. p \in 1 .. Len(clients) /\ clients[p] = c
  BY PosOfListed
<1>2. Len(clients) \in Nat /\ n \in Nat /\ \A i \in 1 .. Len(clients) : clients[i] \in Ctx
  BY <1>1, LenProperties, ElementOfSeq
<1>3. u = [k \in 1 .. n |-> IF k < p THEN clients[k] ELSE clients[k + 1]]
  BY DEF Unlinked
<1> HIDE DEF p, u
<1>4. u \in [1 .. n -> Ctx]
  BY <1>1, <1>2, <1>3
<1>5. u \in Seq(Ctx) /\ Len(u) = n
  <2>1. u \in Seq(Ctx)
    BY <1>2, <1>4, SeqDef
  <2>2. Len(u) \in Nat /\ DOMAIN u = 1 .. Len(u)
    BY <2>1, LenProperties
  <2>3. DOMAIN u = 1 .. n
    BY <1>4
  <2> QED BY <1>2, <2>1, <2>2, <2>3
<1>6. \A k \in 1 .. n : u[k] = IF k < p THEN clients[k] ELSE clients[k + 1]
  BY <1>3
<1>7. Injective(u)
  <2> SUFFICES ASSUME NEW i \in 1 .. n, NEW j \in 1 .. n, u[i] = u[j]
               PROVE  i = j
    BY <1>5 DEF Injective
  <2>1. /\ i \in 1 .. Len(clients) /\ i + 1 \in 1 .. Len(clients)
        /\ j \in 1 .. Len(clients) /\ j + 1 \in 1 .. Len(clients)
    BY <1>2
  <2> QED BY <1>1, <1>2, <1>6, <2>1 DEF Injective
<1>8. Elements(u) \subseteq Listed \ {c}
  <2> SUFFICES ASSUME NEW i \in 1 .. n PROVE u[i] \in Listed \ {c}
    BY <1>5 DEF Elements
  <2>1. i \in 1 .. Len(clients) /\ i + 1 \in 1 .. Len(clients)
    BY <1>2
  <2> QED BY <1>1, <1>2, <1>6, <2>1 DEF Injective, Listed
<1>9. Listed \ {c} \subseteq Elements(u)
  <2> SUFFICES ASSUME NEW i \in 1 .. Len(clients), clients[i] # c
               PROVE  clients[i] \in Elements(u)
    BY DEF Listed
  <2>1. CASE i < p
    <3>1. i \in 1 .. n /\ u[i] = clients[i]
      BY <1>1, <1>2, <1>6, <2>1
    <3> QED BY <1>5, <3>1 DEF Elements
  <2>2. CASE i > p
    <3>1. i - 1 \in 1 .. n /\ u[i - 1] = clients[i]
      BY <1>1, <1>2, <1>6, <2>2
    <3> QED BY <1>5, <3>1 DEF Elements
  <2> QED BY <1>1, <1>2, <2>1, <2>2
<1> QED BY <1>5, <1>7, <1>8, <1>9 DEF u

\* The context read from a listed one is another listed one, or none.
LEMMA NextOfListed ==
  ASSUME clients \in Seq(Ctx), Injective(clients), NEW c \in Listed
  PROVE  NextOf(c) \in (Listed \ {c}) \cup {nil}
<1>1. PosOf(c) \in 1 .. Len(clients) /\ clients[PosOf(c)] = c
  BY PosOfListed
<1>2. Len(clients) \in Nat
  BY LenProperties
<1>3. CASE PosOf(c) < Len(clients)
  <2>1. PosOf(c) + 1 \in 1 .. Len(clients)
    BY <1>1, <1>2, <1>3
  <2>2. clients[PosOf(c) + 1] # c
    BY <1>1, <1>2, <2>1 DEF Injective
  <2> QED BY <1>3, <2>1, <2>2 DEF NextOf, Listed
<1>4. CASE ~(PosOf(c) < Len(clients))
  BY <1>4 DEF NextOf
<1> QED BY <1>3, <1>4

-----------------------------------------------------------------------------
(* The queues.                                                              *)

\* q_push keeps the bound of a queue, and leaves it with an event.
LEMMA PushBounded ==
  ASSUME NEW s \in Seq(Event), Len(s) <= QueueSize, NEW e \in Event
  PROVE  /\ Push(s, e) \in Seq(Event)
         /\ Len(Push(s, e)) <= QueueSize
<1>1. QueueSize \in Nat \ {0} /\ Len(s) \in Nat
  BY SizeAssumption, LenProperties DEF SizeAssumption
<1>2. CASE Len(s) = QueueSize
  <2>1. s # << >>
    BY <1>1, <1>2, EmptySeq
  <2>2. Tail(s) \in Seq(Event) /\ Len(Tail(s)) = Len(s) - 1
    BY <2>1, HeadTailProperties
  <2>3. Append(Tail(s), e) \in Seq(Event) /\ Len(Append(Tail(s), e)) = Len(Tail(s)) + 1
    BY <2>2, AppendProperties
  <2> QED BY <1>1, <1>2, <2>2, <2>3 DEF Push
<1>3. CASE Len(s) # QueueSize
  <2>1. Append(s, e) \in Seq(Event) /\ Len(Append(s, e)) = Len(s) + 1
    BY AppendProperties
  <2> QED BY <1>1, <1>3, <2>1 DEF Push
<1> QED BY <1>2, <1>3

\* A notification reaches the subscribers and no other queue.
LEMMA NotifyQueues ==
  ASSUME NEW q \in Bounded, NEW ch \in Char, NEW v \in Value, NEW writer
  PROVE  /\ Notify(q, ch, v, writer) \in Bounded
         /\ \A c \in Ctx : c \notin callbacks[ch] => Notify(q, ch, v, writer)[c] = q[c]
<1>1. <<ch, v>> \in Event
  BY DEF Event
<1>2. \A c \in Ctx : q[c] \in Seq(Event) /\ Len(q[c]) <= QueueSize
  BY DEF Bounded
<1>3. \A c \in Ctx : /\ Push(q[c], <<ch, v>>) \in Seq(Event)
                     /\ Len(Push(q[c], <<ch, v>>)) <= QueueSize
  BY <1>1, <1>2, PushBounded
<1>4. \A c \in Ctx : Notify(q, ch, v, writer)[c] =
        IF c \in callbacks[ch] /\ c # writer THEN Push(q[c], <<ch, v>>) ELSE q[c]
  BY DEF Notify
<1>5. Notify(q, ch, v, writer) \in Bounded
  BY <1>2, <1>3 DEF Notify, Bounded
<1> QED BY <1>4, <1>5

\* What a notification makes late are characteristics.
LEMMA LateChars ==
  ASSUME NEW l \in SUBSET Char, NEW q \in Bounded, NEW ch \in Char, NEW writer,
         callbacks \in [Char -> SUBSET Ctx]
  PROVE  LateAfter(l, q, ch, writer) \in SUBSET Char
<1>1. ASSUME NEW c \in Ctx, Len(q[c]) = QueueSize
      PROVE  q[c][1][1] \in Char
  <2>1. q[c] \in Seq(Event) /\ 1 \in 1 .. Len(q[c])
    BY <1>1, SizeAssumption DEF Bounded, SizeAssumption
  <2>2. q[c][1] \in Event
    BY <2>1, ElementOfSeq
  <2> QED BY <2>2 DEF Event
<1>2. Overwritten(q, ch, writer) \subseteq Char
  BY <1>1 DEF Overwritten
<1> QED BY <1>2 DEF LateAfter

\* A set of numbers that is not empty has a least one.
LEMMA LeastElement ==
  ASSUME NEW T \in SUBSET Nat, T # {}
  PROVE  \E m \in T : \A k \in T : m <= k
<1> DEFINE R == OpToRel(<, Nat)
<1>1. IsWellFoundedOn(R, Nat)
  BY NatLessThanWellFounded
<1> HIDE DEF R
<1>2. PICK m \in T : \A k \in T : ~ (<<k, m>> \in R)
  BY <1>1, WFMin
<1>3. \A k \in T : ~ (k < m)
  BY <1>2 DEF R, OpToRel
<1> QED BY <1>3

\* What a client is sent are values of the characteristics.
LEMMA CoalescedValues ==
  ASSUME NEW s \in Seq(Event)
  PROVE  \A ch \in DOMAIN Coalesced(s) : Coalesced(s)[ch] \in Value
<1> SUFFICES ASSUME NEW ch \in Queued(s) PROVE Oldest(s, ch) \in Value
  BY DEF Coalesced
<1> DEFINE T == {k \in 1 .. Len(s) : s[k][1] = ch}
           First(k) == k \in 1 .. Len(s) /\ s[k][1] = ch /\ \A j \in 1 .. k - 1 : s[j][1] # ch
<1>1. Len(s) \in Nat /\ \A k \in 1 .. Len(s) : s[k] \in Event
  BY LenProperties, ElementOfSeq
<1>2. T \in SUBSET Nat /\ T # {}
  BY <1>1 DEF Queued
<1>3. PICK m \in T : \A k \in T : m <= k
  BY <1>2, LeastElement
<1>4. First(m)
  BY <1>1, <1>3
<1>5. s[CHOOSE k \in 1 .. Len(s) : s[k][1] = ch /\ \A j \in 1 .. k - 1 : s[j][1] # ch]
        \in Event
  BY <1>1, <1>4
<1> QED BY <1>5 DEF Oldest, Event

\* A controller that is sent the events of a queue learns values.
LEMMA LearnView ==
  ASSUME NEW known \in [Char -> Known], NEW s \in Seq(Event)
  PROVE  Learn(known, Coalesced(s)) \in [Char -> Known]
  BY CoalescedValues DEF Learn, Known

-----------------------------------------------------------------------------
(* Replying and closing.                                                    *)

\* What a handler may leave to its reply: callbacks and queues in which only verified
\* clients of the list occur, c being at step st.
Handled(c, st, cb, q) ==
  /\ cb \in [Char -> SUBSET Ctx]
  /\ q \in Bounded
  /\ st \in {"none", "verified"}
  /\ \A d \in Ctx : (q[d] # << >> \/ \E ch \in Char : d \in cb[ch])
                      => d \in Listed /\ (IF d = c THEN st ELSE step[d]) = "verified"

\* The variables of the application and of the pass.
Scene(v, p, l) ==
  /\ v \in [Char -> Value]
  /\ p \in {"idle", "clients", "notify"}
  /\ l \subseteq Char

\* Without a handler, nothing is left that the invariant does not allow.
LEMMA Unhandled ==
  ASSUME Inv, NEW c \in Ctx
  PROVE  Handled(c, step[c], callbacks, queue)
  BY DEF Inv, TypeOK, NoDangling, EventsNeedVerify, Handled, Bounded

\* A client that is closed while the traversal moves on from it.
LEMMA CloseInv ==
  ASSUME Inv, NEW c \in Listed, NEW cb, NEW q, NEW st,
         Handled(c, st, cb, q), Close(c, cb, q), cur' = NextOf(c),
         Scene(value', pc', late')
  PROVE  Inv'
<1>1. clients \in Seq(Ctx) /\ Injective(clients) /\ c \in Ctx /\ nfds = Len(clients)
  BY ElementOfSeq DEF Inv, TypeOK, ListOK, Injective, Listed
<1>2. Len(clients) \in Nat /\ Len(clients) <= MaxClients /\ MaxClients \in Nat
  BY <1>1, LenProperties, SizeAssumption DEF Inv, ListOK, SizeAssumption
<1>3. /\ clients' = Unlinked(c) /\ nfds' = nfds - 1
      /\ clients' \in Seq(Ctx) /\ Len(clients') = Len(clients) - 1 /\ Injective(clients')
      /\ Listed' = Listed \ {c}
  BY <1>1, UnlinkedList DEF Close, Listed, Elements
<1>4. /\ sock' \in [Ctx -> {"none", "up", "last", "down"}]
      /\ \A d \in Ctx : sock'[d] = IF d = c THEN "none" ELSE sock[d]
  BY <1>1 DEF Inv, TypeOK, Close
<1>5. /\ step' \in [Ctx -> {"none", "verified"}]
      /\ \A d \in Ctx : step'[d] = IF d = c THEN "none" ELSE step[d]
  BY <1>1 DEF Inv, TypeOK, Close
<1>6. /\ callbacks' \in [Char -> SUBSET Ctx]
      /\ \A ch \in Char : callbacks'[ch] = cb[ch] \ {c}
  BY DEF Handled, Close
<1>7. /\ queue' \in Bounded
      /\ \A d \in Ctx : queue'[d] = IF d = c THEN << >> ELSE q[d]
  <2>1. << >> \in Seq(Event) /\ Len(<< >>) <= QueueSize
    BY EmptySeq, SizeAssumption DEF SizeAssumption
  <2>2. q \in Bounded /\ queue' = [q EXCEPT ![c] = << >>]
    BY DEF Handled, Close
  <2> QED BY <1>1, <2>1, <2>2 DEF Bounded
<1>8. view' \in [Ctx -> [Char -> Known]]
  BY <1>1 DEF Inv, TypeOK, Close, Known
<1>9. cur' \in Listed' \cup {nil} /\ cur' \in Ctx \cup {nil}
  <2>1. NextOf(c) \in (Listed \ {c}) \cup {nil}
    BY <1>1, NextOfListed
  <2>2. Listed \subseteq Ctx
    BY <1>1, ElementOfSeq DEF Listed
  <2> QED BY <1>3, <2>1, <2>2
<1>10. TypeOK'
  BY <1>1, <1>2, <1>3, <1>4, <1>5, <1>6, <1>7, <1>8, <1>9 DEF TypeOK, Scene, Bounded, Known
<1>11. ListOK'
  BY <1>1, <1>2, <1>3 DEF ListOK, Injective
<1>12. CursorListed'
  BY <1>9 DEF CursorListed
<1>13. NoDangling'
  <2> SUFFICES ASSUME NEW d \in Ctx, d \notin Listed'
               PROVE  /\ \A ch \in Char : d \notin callbacks'[ch]
                      /\ queue'[d] = << >> /\ sock'[d] = "none" /\ step'[d] = "none"
    BY DEF NoDangling
  <2>1. CASE d = c
    BY <1>4, <1>5, <1>6, <1>7, <2>1
  <2>2. CASE d # c
    <3>1. d \notin Listed
      BY <1>3, <2>2
    <3>2. sock[d] = "none" /\ step[d] = "none"
      BY <3>1 DEF Inv, NoDangling
    <3> QED BY <1>4, <1>5, <1>6, <1>7, <2>2, <3>1, <3>2 DEF Handled
  <2> QED BY <2>1, <2>2
<1>14. EventsNeedVerify'
  <2> SUFFICES ASSUME NEW d \in Ctx, queue'[d] # << >> \/ \E ch \in Char : d \in callbacks'[ch]
               PROVE  step'[d] = "verified"
    BY DEF EventsNeedVerify
  <2>1. d # c
    BY <1>6, <1>7
  <2> QED BY <1>5, <1>6, <1>7, <2>1 DEF Handled
<1> QED BY <1>10, <1>11, <1>12, <1>13, <1>14 DEF Inv

\* A step that leaves the list as it is, and the traversal somewhere in it.
LEMMA KeepInv ==
  ASSUME Inv, NEW c \in Listed, NEW cb, NEW q, NEW st, Handled(c, st, cb, q),
         UNCHANGED <<clients, nfds>>, cur' \in Listed \cup {nil},
         sock' \in [Ctx -> {"none", "up", "last", "down"}],
         \A d \in Ctx \ Listed : sock'[d] = sock[d],
         step' = [step EXCEPT ![c] = st], callbacks' = cb, queue' = q,
         view' \in [Ctx -> [Char -> Known]], Scene(value', pc', late')
  PROVE  Inv'
<1>1. clients \in Seq(Ctx) /\ c \in Ctx /\ Listed \subseteq Ctx
  BY ElementOfSeq DEF Inv, TypeOK, Listed
<1>2. Listed' = Listed
  BY DEF Listed
<1>3. /\ step' \in [Ctx -> {"none", "verified"}]
      /\ \A d \in Ctx : step'[d] = IF d = c THEN st ELSE step[d]
  BY <1>1 DEF Inv, TypeOK, Handled
<1>4. TypeOK'
  BY <1>1, <1>3 DEF Inv, TypeOK, Scene, Bounded, Handled, Known
<1>5. ListOK'
  BY DEF Inv, ListOK
<1>6. CursorListed'
  BY <1>2 DEF CursorListed
<1>7. NoDangling'
  BY <1>2, <1>3 DEF Inv, NoDangling, Handled
<1>8. EventsNeedVerify'
  BY <1>3 DEF EventsNeedVerify, Handled
<1> QED BY <1>4, <1>5, <1>6, <1>7, <1>8 DEF Inv

\* The end of a handler, whatever its write does.
LEMMA ReplyInv ==
  ASSUME Inv, NEW c \in Listed, NEW outcome, NEW st, NEW cb, NEW q,
         NEW known \in [Char -> Known], Handled(c, st, cb, q),
         Reply(c, outcome, st, cb, q, known), Scene(value', pc', late')
  PROVE  Inv'
<1>1. clients \in Seq(Ctx) /\ Injective(clients) /\ c \in Ctx
  BY ElementOfSeq DEF Inv, TypeOK, ListOK, Injective, Listed
<1>2. CASE outcome = "failed"
  BY <1>2, CloseInv DEF Reply
<1>3. CASE outcome # "failed"
  <2>1. cur' \in Listed \cup {nil}
    BY <1>1, NextOfListed DEF Reply
  <2>2. sock' = [sock EXCEPT ![c] = IF @ = "last" THEN "down" ELSE @]
    BY <1>3 DEF Reply
  <2>3. /\ sock' \in [Ctx -> {"none", "up", "last", "down"}]
        /\ \A d \in Ctx \ Listed : sock'[d] = sock[d]
    BY <1>1, <2>2 DEF Inv, TypeOK
  <2>4. view' = [view EXCEPT ![c] = IF outcome = "sent" THEN Kept(c, cb, known) ELSE @]
    BY <1>3 DEF Reply
  <2>5. view' \in [Ctx -> [Char -> Known]]
    <3>1. Kept(c, cb, known) \in [Char -> Known]
      BY DEF Kept, Known
    <3> QED BY <1>1, <2>4, <3>1 DEF Inv, TypeOK
  <2>6. step' = [step EXCEPT ![c] = st] /\ callbacks' = cb /\ queue' = q
        /\ UNCHANGED <<clients, nfds>>
    BY <1>3 DEF Reply
  <2> QED BY <2>1, <2>3, <2>5, <2>6, KeepInv
<1> QED BY <1>2, <1>3

\* A step of the pass that only moves the traversal on.
LEMMA MoveInv ==
  ASSUME Inv, cur' \in Listed \cup {nil}, pc' \in {"idle", "clients", "notify"},
         UNCHANGED <<clients, nfds, sock, step, callbacks, queue, value, view, late>>
  PROVE  Inv'
<1>1. Listed \subseteq Ctx /\ Listed' = Listed
  BY ElementOfSeq DEF Inv, TypeOK, Listed
<1>2. TypeOK'
  BY <1>1 DEF Inv, TypeOK
<1> QED BY <1>1, <1>2 DEF Inv, ListOK, CursorListed, NoDangling, EventsNeedVerify

-----------------------------------------------------------------------------
(* The actions.                                                             *)

\* A context that a traversal is at is in the list.
LEMMA ServedListed ==
  ASSUME Inv, NEW c \in Ctx, Serving(c) \/ Notifying(c)
  PROVE  c \in Listed /\ NextOf(c) \in Listed \cup {nil}
<1>1. c \in Listed
  BY DEF Inv, CursorListed, Serving, Notifying
<1> QED BY <1>1, NextOfListed DEF Inv, TypeOK, ListOK, Injective

\* A traversal starts in the list.
LEMMA HeadListed ==
  ASSUME Inv
  PROVE  Head_ \in Listed \cup {nil}
<1>1. CASE clients = << >>
  BY <1>1 DEF Head_
<1>2. CASE clients # << >>
  <2>1. 1 \in 1 .. Len(clients)
    BY <1>2, EmptySeq DEF Inv, TypeOK
  <2> QED BY <2>1, <1>2 DEF Head_, Listed
<1> QED BY <1>1, <1>2

\* homekit_server_accept_client.
LEMMA AcceptInv ==
  ASSUME Inv, NEW c \in Ctx, Accept(c)
  PROVE  Inv'
<1>1. clients \in Seq(Ctx) /\ <<c>> \in Seq(Ctx) /\ Len(<<c>>) = 1 /\ <<c>>[1] = c
  BY DEF Inv, TypeOK
<1>2. /\ clients' \in Seq(Ctx) /\ Len(clients') = Len(clients) + 1 /\ Len(clients) \in Nat
      /\ \A i \in 1 .. Len(clients) + 1 :
           clients'[i] = IF i <= 1 THEN c ELSE clients[i - 1]
  BY <1>1, ConcatProperties, LenProperties DEF Accept
<1>3. \A i \in 1 .. Len(clients) : clients[i] \in Ctx /\ clients[i] # c
  BY <1>1, ElementOfSeq DEF Accept, Listed
<1>4. Listed' = Listed \cup {c}
  <2>1. Listed' \subseteq Listed \cup {c}
    <3> SUFFICES ASSUME NEW i \in 1 .. Len(clients) + 1 PROVE clients'[i] \in Listed \cup {c}
      BY <1>2 DEF Listed
    <3>1. CASE i = 1
      BY <1>2, <3>1
    <3>2. CASE i # 1
      <4>1. i - 1 \in 1 .. Len(clients)
        BY <1>2, <3>2
      <4> QED BY <1>2, <3>2, <4>1 DEF Listed
    <3> QED BY <3>1, <3>2
  <2>2. c \in Listed'
    <3>1. 1 \in 1 .. Len(clients') /\ clients'[1] = c
      BY <1>2
    <3> QED BY <3>1 DEF Listed
  <2>3. Listed \subseteq Listed'
    <3> SUFFICES ASSUME NEW i \in 1 .. Len(clients) PROVE clients[i] \in Listed'
      BY DEF Listed
    <3>1. i + 1 \in 1 .. Len(clients') /\ clients'[i + 1] = clients[i]
      BY <1>2
    <3> QED BY <3>1 DEF Listed
  <2> QED BY <2>1, <2>2, <2>3
<1>5. Injective(clients')
  <2> SUFFICES ASSUME NEW i \in 1 .. Len(clients) + 1, NEW j \in 1 .. Len(clients) + 1,
                      clients'[i] = clients'[j]
               PROVE  i = j
    BY <1>2 DEF Injective
  <2>1. i # 1 => i - 1 \in 1 .. Len(clients)
    BY <1>2
  <2>2. j # 1 => j - 1 \in 1 .. Len(clients)
    BY <1>2
  <2>3. CASE i = 1 \/ j = 1
    BY <1>2, <1>3, <2>1, <2>2, <2>3
  <2>4. CASE i # 1 /\ j # 1
    BY <1>2, <2>1, <2>2, <2>4 DEF Inv, ListOK
  <2> QED BY <2>3, <2>4
<1>6. sock' \in [Ctx -> {"none", "up", "last", "down"}]
      /\ \A d \in Ctx : d # c => sock'[d] = sock[d]
  BY DEF Inv, TypeOK, Accept
<1>7. TypeOK'
  BY <1>2, <1>6 DEF Inv, TypeOK, Accept
<1>8. ListOK'
  BY <1>2, <1>5, SizeAssumption DEF Inv, ListOK, Accept, Injective, SizeAssumption
<1>9. CursorListed'
  BY <1>4 DEF CursorListed, Accept
<1>10. NoDangling'
  BY <1>4, <1>6 DEF Inv, NoDangling, Accept
<1>11. EventsNeedVerify'
  BY DEF Inv, EventsNeedVerify, Accept
<1> QED BY <1>7, <1>8, <1>9, <1>10, <1>11 DEF Inv

\* A request or a drain that leaves the application as it is.
LEMMA SceneKept ==
  ASSUME Inv, UNCHANGED <<value, pc, late>>
  PROVE  Scene(value', pc', late')
  BY DEF Inv, TypeOK, Scene

\* homekit_client_process that finds its peer gone.
LEMMA DisconnectedInv ==
  ASSUME Inv, NEW c \in Ctx, Disconnected(c)
  PROVE  Inv'
<1>1. c \in Listed
  BY ServedListed DEF Disconnected
<1>2. Handled(c, step[c], callbacks, queue)
  BY Unhandled
<1>3. Scene(value', pc', late')
  BY SceneKept DEF Disconnected
<1> QED BY <1>1, <1>2, <1>3, CloseInv DEF Disconnected

\* A handler that serves a request: its client is listed, and what it knows are values.
LEMMA RequestListed ==
  ASSUME Inv, NEW c \in Ctx, HasRequest(c)
  PROVE  c \in Listed /\ view[c] \in [Char -> Known]
  BY ServedListed DEF HasRequest, Inv, TypeOK, Known

\* Pair-verify.
LEMMA PairVerifyInv ==
  ASSUME Inv, NEW c \in Ctx, NEW outcome, PairVerify(c, outcome)
  PROVE  Inv'
<1>1. c \in Listed /\ view[c] \in [Char -> Known]
  BY RequestListed DEF PairVerify
<1>2. Handled(c, "verified", callbacks, queue)
  BY Unhandled DEF Handled
<1>3. Scene(value', pc', late')
  BY SceneKept DEF PairVerify
<1> QED BY <1>1, <1>2, <1>3, ReplyInv DEF PairVerify

\* GET /characteristics.
LEMMA GetCharacteristicInv ==
  ASSUME Inv, NEW c \in Ctx, NEW ch \in Char, NEW outcome, GetCharacteristic(c, ch, outcome)
  PROVE  Inv'
<1>1. c \in Listed /\ view[c] \in [Char -> Known] /\ value[ch] \in Known
  BY RequestListed DEF GetCharacteristic, Inv, TypeOK, Known
<1>2. [view[c] EXCEPT ![ch] = value[ch]] \in [Char -> Known]
  BY <1>1
<1>3. Scene(value', pc', late')
  BY SceneKept DEF GetCharacteristic
<1> QED BY <1>1, <1>2, <1>3, Unhandled, ReplyInv DEF GetCharacteristic

\* A notification queues events for listed, verified clients only: the subscribers.
LEMMA NotifyHandled ==
  ASSUME Inv, NEW c \in Ctx, NEW q, Handled(c, step[c], callbacks, q),
         NEW ch \in Char, NEW v \in Value, NEW writer
  PROVE  Handled(c, step[c], callbacks, Notify(q, ch, v, writer))
<1>1. q \in Bounded
  BY DEF Handled
<1>2. /\ Notify(q, ch, v, writer) \in Bounded
      /\ \A d \in Ctx : d \notin callbacks[ch] => Notify(q, ch, v, writer)[d] = q[d]
  BY <1>1, NotifyQueues
<1> QED BY <1>2 DEF Handled

\* PUT /characteristics with a value.
LEMMA PutValueInv ==
  ASSUME Inv, NEW c \in Ctx, NEW ch \in Char, NEW v \in Value, NEW outcome,
         PutValue(c, ch, v, outcome)
  PROVE  Inv'
<1>1. c \in Listed /\ view[c] \in [Char -> Known]
  BY RequestListed DEF PutValue
<1>2. [view[c] EXCEPT ![ch] = v] \in [Char -> Known]
  BY <1>1 DEF Known
<1>3. Handled(c, step[c], callbacks, Notify(queue, ch, v, c))
  BY Unhandled, NotifyHandled
<1>4. Scene(value', pc', late')
  <2>1. queue \in Bounded /\ late \in SUBSET Char /\ value \in [Char -> Value]
        /\ callbacks \in [Char -> SUBSET Ctx] /\ pc \in {"idle", "clients", "notify"}
    BY DEF Inv, TypeOK, Bounded
  <2> QED BY <2>1, LateChars DEF PutValue, Scene
<1> QED BY <1>1, <1>2, <1>3, <1>4, ReplyInv DEF PutValue

\* The same, with a setter that changes another characteristic.
LEMMA PutValueChangingInv ==
  ASSUME Inv, NEW c \in Ctx, NEW ch \in Char, NEW v \in Value, NEW ch2 \in Char,
         NEW v2 \in Value, NEW outcome, PutValueChanging(c, ch, v, ch2, v2, outcome)
  PROVE  Inv'
<1>1. c \in Listed /\ view[c] \in [Char -> Known]
  BY RequestListed DEF PutValueChanging
<1>2. [view[c] EXCEPT ![ch] = v] \in [Char -> Known]
  BY <1>1 DEF Known
<1>3. Handled(c, step[c], callbacks, Notify(queue, ch2, v2, nil))
  BY Unhandled, NotifyHandled
<1>4. Handled(c, step[c], callbacks, Notify(Notify(queue, ch2, v2, nil), ch, v, c))
  BY <1>3, NotifyHandled
<1>5. Scene(value', pc', late')
  <2>1. /\ queue \in Bounded /\ late \in SUBSET Char /\ value \in [Char -> Value]
        /\ callbacks \in [Char -> SUBSET Ctx] /\ pc' \in {"idle", "clients", "notify"}
    BY DEF PutValueChanging, Inv, TypeOK, Bounded
  <2>2. value' \in [Char -> Value]
    BY <2>1 DEF PutValueChanging
  <2>3. Notify(queue, ch2, v2, nil) \in Bounded
    BY <2>1, NotifyQueues
  <2>4. LateAfter(late, queue, ch2, nil) \in SUBSET Char
    BY <2>1, LateChars
  <2>5. LateAfter(LateAfter(late, queue, ch2, nil), Notify(queue, ch2, v2, nil), ch, c)
          \in SUBSET Char
    BY <2>1, <2>3, <2>4, LateChars, Zenon
  <2>6. late' \in SUBSET Char
    BY <2>5 DEF PutValueChanging
  <2> QED BY <2>1, <2>2, <2>6 DEF Scene
<1> QED BY <1>1, <1>2, <1>4, <1>5, ReplyInv DEF PutValueChanging

\* PUT /characteristics with "ev".
LEMMA SubscribeInv ==
  ASSUME Inv, NEW c \in Ctx, NEW ch \in Char, NEW on \in BOOLEAN, NEW outcome,
         Subscribe(c, ch, on, outcome)
  PROVE  Inv'
<1> DEFINE cb == [callbacks EXCEPT ![ch] = IF on THEN @ \cup {c} ELSE @ \ {c}]
<1>1. c \in Listed /\ view[c] \in [Char -> Known] /\ step[c] = "verified"
  BY RequestListed DEF Subscribe
<1>2. [view[c] EXCEPT ![ch] = Unknown] \in [Char -> Known]
  BY <1>1 DEF Known
<1>3. callbacks \in [Char -> SUBSET Ctx] /\ Handled(c, step[c], callbacks, queue)
  BY Unhandled DEF Inv, TypeOK
<1>4. /\ cb \in [Char -> SUBSET Ctx]
      /\ \A h \in Char : cb[h] \subseteq callbacks[h] \cup {c}
  BY <1>3
<1> HIDE DEF cb
<1>5. Handled(c, step[c], cb, queue)
  BY <1>1, <1>3, <1>4 DEF Handled
<1>6. Scene(value', pc', late')
  BY SceneKept DEF Subscribe
<1> QED BY <1>1, <1>2, <1>5, <1>6, ReplyInv DEF Subscribe, cb

\* send_client_events.
LEMMA SendEventsInv ==
  ASSUME Inv, NEW c \in Ctx, NEW outcome, SendEvents(c, outcome)
  PROVE  Inv'
<1> DEFINE q == [queue EXCEPT ![c] = << >>]
<1>1. c \in Listed
  BY ServedListed DEF SendEvents
<1>2. view[c] \in [Char -> Known] /\ queue[c] \in Seq(Event)
  BY DEF Inv, TypeOK, Known
<1>3. Learn(view[c], Coalesced(queue[c])) \in [Char -> Known]
  BY <1>2, LearnView
<1>4. Handled(c, step[c], callbacks, queue)
  BY Unhandled
<1>5. q \in Bounded /\ \A d \in Ctx : q[d] # << >> => queue[d] # << >>
  <2>1. << >> \in Seq(Event) /\ Len(<< >>) <= QueueSize
    BY EmptySeq, SizeAssumption DEF SizeAssumption
  <2> QED BY <1>4, <2>1 DEF Handled, Bounded
<1> HIDE DEF q
<1>6. Handled(c, step[c], callbacks, q)
  BY <1>4, <1>5 DEF Handled
<1>7. Scene(value', pc', late')
  BY SceneKept DEF SendEvents
<1> QED BY <1>1, <1>3, <1>6, <1>7, ReplyInv DEF SendEvents, q

\* The steps that only move the traversals on.
LEMMA MovingInv ==
  ASSUME Inv, NoAccept \/ ClientsDone \/ NotifyDone
                \/ \E c \in Ctx : NoData(c) \/ NothingToSend(c)
  PROVE  Inv'
<1>1. pc \in {"idle", "clients", "notify"}
  BY DEF Inv, TypeOK
<1>2. CASE NoAccept \/ ClientsDone
  BY <1>1, <1>2, HeadListed, MoveInv DEF NoAccept, ClientsDone
<1>3. CASE NotifyDone
  BY <1>1, <1>3, MoveInv DEF NotifyDone
<1>4. ASSUME NEW c \in Ctx, NoData(c) \/ NothingToSend(c)
      PROVE  Inv'
  <2>1. NextOf(c) \in Listed \cup {nil}
    BY <1>4, ServedListed DEF NoData, NothingToSend
  <2> QED BY <1>1, <1>4, <2>1, MoveInv DEF NoData, NothingToSend
<1> QED BY <1>2, <1>3, <1>4

\* The empty list of a server that has just started.
LEMMA EmptyInv ==
  ASSUME clients = << >>, nfds = 0, sock = [c \in Ctx |-> "none"],
         step = [c \in Ctx |-> "none"], callbacks = [ch \in Char |-> {}],
         queue = [c \in Ctx |-> << >>], value \in [Char -> Value], pc = "idle", cur = nil,
         view = [c \in Ctx |-> [ch \in Char |-> Unknown]], late = {}
  PROVE  Inv
<1>1. clients \in Seq(Ctx) /\ Len(clients) = 0
  BY EmptySeq
<1>2. << >> \in Seq(Event) /\ Len(<< >>) = 0
  BY EmptySeq
<1>3. TypeOK
  BY <1>1, <1>2, SizeAssumption DEF TypeOK, Known, SizeAssumption
<1>4. ListOK
  BY <1>1, SizeAssumption DEF ListOK, SizeAssumption
<1> QED BY <1>3, <1>4 DEF Inv, CursorListed, NoDangling, EventsNeedVerify

\* A fault restarts the program with that list.
LEMMA FaultInv ==
  ASSUME NEW c \in Ctx, Fault(c)
  PROVE  Inv'
<1>1. Len(clients') = 0 /\ clients' \in Seq(Ctx)
  BY EmptySeq DEF Fault
<1>2. << >> \in Seq(Event) /\ Len(<< >>) = 0
  BY EmptySeq
<1>3. TypeOK'
  BY <1>1, <1>2, SizeAssumption DEF TypeOK, Known, SizeAssumption, Fault
<1>4. ListOK'
  BY <1>1, SizeAssumption DEF ListOK, SizeAssumption, Fault
<1> QED BY <1>3, <1>4 DEF Inv, CursorListed, NoDangling, EventsNeedVerify, Fault

\* modify_value_and_notify between two passes.
LEMMA AppChangeInv ==
  ASSUME Inv, NEW ch \in Char, NEW v \in Value, AppChange(ch, v)
  PROVE  Inv'
<1>1. queue \in Bounded
  BY DEF Inv, TypeOK, Bounded
<1>2. /\ queue' \in Bounded
      /\ \A c \in Ctx : c \notin callbacks[ch] => queue'[c] = queue[c]
  BY <1>1, NotifyQueues DEF AppChange
<1>3. \A c \in Ctx : c \in callbacks[ch] => c \in Listed /\ step[c] = "verified"
  BY DEF Inv, NoDangling, EventsNeedVerify
<1>4. TypeOK'
  <2>1. late' \subseteq Char
    BY <1>1, LateChars DEF Inv, TypeOK, AppChange
  <2> QED BY <1>2, <2>1 DEF Inv, TypeOK, AppChange, Bounded
<1>5. ListOK' /\ CursorListed' /\ Listed' = Listed
  BY DEF Inv, ListOK, CursorListed, AppChange, Listed
<1>6. NoDangling'
  BY <1>2, <1>3, <1>5 DEF Inv, NoDangling, AppChange
<1>7. EventsNeedVerify'
  BY <1>2, <1>3 DEF Inv, EventsNeedVerify, AppChange
<1> QED BY <1>4, <1>5, <1>6, <1>7 DEF Inv

\* A peer that closes its connection: it has one, so that its context is listed.
LEMMA PeerGoneInv ==
  ASSUME Inv, NEW c \in Ctx, PeerGone(c)
  PROVE  Inv'
<1>1. c \in Listed
  BY DEF Inv, NoDangling, PeerGone
<1>2. /\ sock' \in [Ctx -> {"none", "up", "last", "down"}]
      /\ \A d \in Ctx : d # c => sock'[d] = sock[d]
  BY DEF Inv, TypeOK, PeerGone
<1>3. Listed' = Listed
  BY DEF PeerGone, Listed
<1>4. TypeOK'
  BY <1>2 DEF Inv, TypeOK, PeerGone, Known
<1>5. ListOK' /\ CursorListed' /\ EventsNeedVerify'
  BY <1>3 DEF Inv, ListOK, CursorListed, EventsNeedVerify, PeerGone
<1>6. NoDangling'
  BY <1>1, <1>2, <1>3 DEF Inv, NoDangling, PeerGone
<1> QED BY <1>4, <1>5, <1>6 DEF Inv

\* A step that changes nothing.
LEMMA StutterInv ==
  ASSUME Inv, UNCHANGED vars
  PROVE  Inv'
  BY DEF Inv, TypeOK, ListOK, CursorListed, NoDangling, EventsNeedVerify, Listed, vars

-----------------------------------------------------------------------------

\* The server's data structures are consistent after every step of the pass, of a peer
\* and of the application: the list is counted and bounded, a traversal that read next
\* from a freed context is still in it, no callback or event remains of a client that is
\* gone, and only verified clients have any.  NoDangling needs EventsNeedVerify and the
\* list's injectivity, CursorListed the injectivity, and they need TypeOK: the
\* conjunction is inductive, no part is by itself.
THEOREM NotifyInvariant ==
  Spec => [](TypeOK /\ ListOK /\ CursorListed /\ NoDangling /\ EventsNeedVerify)
<1>1. Init => Inv
  BY EmptyInv DEF Init
<1>2. Inv /\ [Next]_vars => Inv'
  <2> SUFFICES ASSUME Inv, [Next]_vars PROVE Inv'
    OBVIOUS
  <2>1. CASE NoAccept \/ ClientsDone \/ NotifyDone
               \/ \E c \in Ctx : NoData(c) \/ NothingToSend(c)
    BY <2>1, MovingInv
  <2>2. CASE \E c \in Ctx : Accept(c)
    BY <2>2, AcceptInv
  <2>3. CASE \E c \in Ctx : Disconnected(c)
    BY <2>3, DisconnectedInv
  <2>4. CASE \E c \in Ctx : Request(c)
    <3>1. PICK c \in Ctx, outcome \in Outcome :
            \/ PairVerify(c, outcome)
            \/ \E ch \in Char : GetCharacteristic(c, ch, outcome)
            \/ \E ch \in Char, v \in Value : PutValue(c, ch, v, outcome)
            \/ \E ch, ch2 \in Char, v, v2 \in Value :
                 PutValueChanging(c, ch, v, ch2, v2, outcome)
            \/ \E ch \in Char, on \in BOOLEAN : Subscribe(c, ch, on, outcome)
      BY <2>4 DEF Request
    <3> QED BY <3>1, PairVerifyInv, GetCharacteristicInv, PutValueInv, PutValueChangingInv,
               SubscribeInv
  <2>5. CASE \E c \in Ctx : Fault(c)
    BY <2>5, FaultInv
  <2>6. CASE \E c \in Ctx, outcome \in Outcome : SendEvents(c, outcome)
    BY <2>6, SendEventsInv
  <2>7. CASE \E ch \in Char, v \in Value : AppChange(ch, v)
    BY <2>7, AppChangeInv
  <2>8. CASE \E c \in Ctx : PeerGone(c)
    BY <2>8, PeerGoneInv
  <2>9. CASE UNCHANGED vars
    BY <2>9, StutterInv
  <2> QED BY <2>1, <2>2, <2>3, <2>4, <2>5, <2>6, <2>7, <2>8, <2>9 DEF Next, LoopStep
<1> QED BY <1>1, <1>2, PTL DEF Spec, Inv

\* The youngest event of a queue is the one pushed last, full or not.
LEMMA PushYoungest ==
  ASSUME NEW s \in Seq(Event), NEW e \in Event
  PROVE  Push(s, e) # << >> /\ Push(s, e)[Len(Push(s, e))] = e
<1>1. QueueSize \in Nat \ {0}
  BY SizeAssumption DEF SizeAssumption
<1>2. \A t \in Seq(Event) : Append(t, e) # << >> /\ Append(t, e)[Len(Append(t, e))] = e
  <2> SUFFICES ASSUME NEW t \in Seq(Event)
               PROVE  Append(t, e) # << >> /\ Append(t, e)[Len(Append(t, e))] = e
    OBVIOUS
  <2>1. /\ Len(t) \in Nat /\ Len(Append(t, e)) = Len(t) + 1
        /\ Append(t, e)[Len(t) + 1] = e
    BY AppendProperties, LenProperties
  <2> QED BY <2>1, EmptySeq
<1>3. CASE Len(s) = QueueSize
  <2>1. Tail(s) \in Seq(Event)
    BY <1>1, <1>3, EmptySeq, HeadTailProperties
  <2> QED BY <1>2, <1>3, <2>1 DEF Push
<1>4. CASE Len(s) # QueueSize
  BY <1>2, <1>4 DEF Push
<1> QED BY <1>3, <1>4

\* Of a value that a client writes, every other subscriber has an event queued after
\* the step, whether the writer's reply is sent or its connection is lost over it: for
\* every queue size, a full queue gives up an older event.
THEOREM EveryoneElseIsNotified == Spec => OthersAreNotified
<1>1. ASSUME Inv, NEW c \in Ctx, NEW ch \in Char, NEW v \in Value, NEW outcome,
             PutValue(c, ch, v, outcome), NEW d \in callbacks[ch]
      PROVE  IF d = c THEN queue'[d] \in {queue[d], << >>}
             ELSE queue'[d] # << >> /\ queue'[d][Len(queue'[d])] = <<ch, v>>
  <2> DEFINE q == Notify(queue, ch, v, c)
  <2>1. d \in Ctx /\ queue[d] \in Seq(Event) /\ <<ch, v>> \in Event
    BY <1>1 DEF Inv, TypeOK, Event
  <2>2. q[d] = IF d # c THEN Push(queue[d], <<ch, v>>) ELSE queue[d]
    BY <1>1, <2>1 DEF Notify
  <2>3. q = [e \in Ctx |-> q[e]]
    BY DEF Notify
  <2> HIDE DEF q
  <2>4. queue' = q \/ queue' = [q EXCEPT ![c] = << >>]
    BY <1>1 DEF PutValue, Reply, Close, q
  <2>5. queue'[d] = q[d] \/ (d = c /\ queue'[d] = << >>)
    BY <2>1, <2>3, <2>4
  <2> QED BY <2>1, <2>2, <2>5, PushYoungest
<1>2. Inv => [\A c \in Ctx, ch \in Char, v \in Value :
                (\E outcome \in Outcome : PutValue(c, ch, v, outcome)) =>
                  \A d \in callbacks[ch] :
                    IF d = c THEN queue'[d] \in {queue[d], << >>}
                    ELSE queue'[d] # << >> /\ queue'[d][Len(queue'[d])] = <<ch, v>>]_vars
  BY <1>1
<1>3. Spec => []Inv
  BY NotifyInvariant, PTL DEF Inv
<1> QED BY <1>2, <1>3, PTL DEF OthersAreNotified

\* The parts of NotifyInvariant, each by itself: the types and the bound of the queues,
THEOREM NotifyTypeCorrect == Spec => []TypeOK
  BY NotifyInvariant, PTL

\* the list of clients, which nfds counts and HOMEKIT_MAX_CLIENTS bounds,
THEOREM ClientsCounted == Spec => []ListOK
  BY NotifyInvariant, PTL

\* the traversals, which go on from a context that was freed under them,
THEOREM TraversalsStay == Spec => []CursorListed
  BY NotifyInvariant, PTL

\* the callbacks and events of clients that are gone,
THEOREM NothingDangles == Spec => []NoDangling
  BY NotifyInvariant, PTL

\* and those of clients that never authenticated.
THEOREM OnlyVerifiedGetEvents == Spec => []EventsNeedVerify
  BY NotifyInvariant, PTL

-----------------------------------------------------------------------------
(* What a subscriber has learnt is the value.                               *)

\* A queued event of a characteristic that is not late has its value.
Truthful(s, v, l) == \A k \in 1 .. Len(s) : s[k][1] \notin l => s[k][2] = v[s[k][1]]

EventsTrue(q, v, l) == \A c \in Ctx : Truthful(q[c], v, l)

\* Who is behind with a characteristic that is not late has an event of it.
Heard(cb, so, vw, v, q, l) ==
  \A c \in Ctx, ch \in Char \ l :
    c \in cb[ch] /\ so[c] = "up" /\ vw[c][ch] \notin {Unknown, v[ch]} => ch \in Queued(q[c])

Fresh ==
  /\ EventsTrue(queue, value, late)
  /\ Heard(callbacks, sock, view, value, queue, late)

\* The events of a queue after a push: the new one, and the old ones but for the oldest
\* of a full queue.
LEMMA PushEvents ==
  ASSUME NEW s \in Seq(Event), NEW e \in Event
  PROVE  /\ \A k \in 1 .. Len(Push(s, e)) :
              Push(s, e)[k] = e \/ \E j \in 1 .. Len(s) : Push(s, e)[k] = s[j]
         /\ \A j \in 1 .. Len(s) :
              \/ Len(s) = QueueSize /\ j = 1
              \/ \E k \in 1 .. Len(Push(s, e)) : Push(s, e)[k] = s[j]
         /\ \E k \in 1 .. Len(Push(s, e)) : Push(s, e)[k] = e
<1> DEFINE n == Len(s)
<1>1. n \in Nat /\ QueueSize \in Nat \ {0}
  BY LenProperties, SizeAssumption DEF SizeAssumption
<1>2. CASE Len(s) = QueueSize
  <2> DEFINE t == Tail(s)
             p == Append(t, e)
  <2>1. t \in Seq(Event) /\ Len(t) = n - 1 /\ \A k \in 1 .. n - 1 : t[k] = s[k + 1]
    BY <1>1, <1>2, EmptySeq, HeadTailProperties
  <2>2. Len(p) = n /\ p[n] = e /\ \A k \in 1 .. n - 1 : p[k] = t[k]
    BY <1>1, <2>1, AppendProperties
  <2>3. Push(s, e) = p
    BY <1>2 DEF Push
  <2> HIDE DEF t, p
  <2>4. ASSUME NEW k \in 1 .. n
        PROVE  p[k] = e \/ \E j \in 1 .. n : p[k] = s[j]
    <3>1. CASE k = n
      BY <2>2, <3>1
    <3>2. CASE k # n
      <4>1. k \in 1 .. n - 1 /\ k + 1 \in 1 .. n
        BY <1>1, <3>2
      <4> QED BY <2>1, <2>2, <4>1
    <3> QED BY <3>1, <3>2
  <2>5. ASSUME NEW j \in 1 .. n, j # 1
        PROVE  \E k \in 1 .. n : p[k] = s[j]
    <3>1. j - 1 \in 1 .. n - 1 /\ j - 1 \in 1 .. n /\ (j - 1) + 1 = j
      BY <1>1, <2>5
    <3>2. p[j - 1] = s[j]
      BY <2>1, <2>2, <3>1
    <3> QED BY <3>1, <3>2
  <2>6. n \in 1 .. n
    BY <1>1, <1>2
  <2> QED BY <1>2, <2>2, <2>3, <2>4, <2>5, <2>6
<1>3. CASE Len(s) # QueueSize
  <2> DEFINE p == Append(s, e)
  <2>1. Len(p) = n + 1 /\ p[n + 1] = e /\ \A k \in 1 .. n : p[k] = s[k]
    BY <1>1, AppendProperties
  <2>2. Push(s, e) = p
    BY <1>3 DEF Push
  <2> HIDE DEF p
  <2>3. \A k \in 1 .. n + 1 : k \in 1 .. n \/ k = n + 1
    BY <1>1
  <2>4. n + 1 \in 1 .. n + 1 /\ \A k \in 1 .. n : k \in 1 .. n + 1
    BY <1>1
  <2> QED BY <2>1, <2>2, <2>3, <2>4
<1> QED BY <1>2, <1>3

\* A notification takes no event from a queue but those of the characteristics that it
\* makes late.
LEMMA NotifyKeeps ==
  ASSUME NEW q \in Bounded, NEW ch \in Char, NEW x \in Value, NEW writer,
         NEW l \in SUBSET Char, NEW c \in Ctx, NEW h \in Char,
         h \notin LateAfter(l, q, ch, writer), h \in Queued(q[c])
  PROVE  h \in Queued(Notify(q, ch, x, writer)[c])
<1> DEFINE e == <<ch, x>>
<1>1. q[c] \in Seq(Event) /\ e \in Event
  BY DEF Event, Bounded
<1>2. Notify(q, ch, x, writer)[c]
        = IF c \in callbacks[ch] /\ c # writer THEN Push(q[c], e) ELSE q[c]
  BY DEF Notify
<1>3. c \in callbacks[ch] /\ c # writer /\ Len(q[c]) = QueueSize => q[c][1][1] # h
  BY DEF LateAfter, Overwritten
<1> HIDE DEF e
<1>4. CASE c \in callbacks[ch] /\ c # writer
  <2>1. PICK j \in 1 .. Len(q[c]) : q[c][j][1] = h
    BY DEF Queued
  <2>2. ~(Len(q[c]) = QueueSize /\ j = 1)
    BY <1>3, <1>4, <2>1
  <2>3. \E k \in 1 .. Len(Push(q[c], e)) : Push(q[c], e)[k] = q[c][j]
    <3>1. q[c] \in Seq(Event) /\ e \in Event /\ j \in 1 .. Len(q[c])
      BY <1>1
    <3>2. \A i \in 1 .. Len(q[c]) :
            \/ Len(q[c]) = QueueSize /\ i = 1
            \/ \E k \in 1 .. Len(Push(q[c], e)) : Push(q[c], e)[k] = q[c][i]
      BY ONLY <3>1, PushEvents
    <3> QED BY <2>2, <3>1, <3>2, Zenon
  <2> QED BY <1>2, <1>4, <2>1, <2>3 DEF Queued, e
<1>5. CASE ~(c \in callbacks[ch] /\ c # writer)
  BY <1>2, <1>5
<1> QED BY <1>4, <1>5

\* ... and reaches every subscriber but the writer.
LEMMA NotifyReaches ==
  ASSUME NEW q \in Bounded, NEW ch \in Char, NEW x \in Value, NEW writer,
         NEW c \in Ctx, c \in callbacks[ch], c # writer
  PROVE  ch \in Queued(Notify(q, ch, x, writer)[c])
<1> DEFINE e == <<ch, x>>
<1>1. q[c] \in Seq(Event) /\ e \in Event /\ e[1] = ch
  BY DEF Event, Bounded
<1>2. Notify(q, ch, x, writer)[c] = Push(q[c], e)
  BY DEF Notify
<1> HIDE DEF e
<1>3. \E k \in 1 .. Len(Push(q[c], e)) : Push(q[c], e)[k] = e
  BY ONLY <1>1, PushEvents
<1> QED BY <1>1, <1>2, <1>3 DEF Queued

\* A notification leaves the queues truthful, whatever is queued already: an event of a
\* characteristic that it does not make late is the only one of it, and is in no queue that
\* has given it up.
LEMMA NotifyTrue ==
  ASSUME NEW q \in Bounded, NEW ch \in Char, NEW x \in Value, NEW writer,
         NEW v \in [Char -> Value], NEW l \in SUBSET Char, EventsTrue(q, v, l),
         callbacks \in [Char -> SUBSET Ctx]
  PROVE  /\ EventsTrue(Notify(q, ch, x, writer), [v EXCEPT ![ch] = x],
                       LateAfter(l, q, ch, writer))
         /\ \A h \in Char \ LateAfter(l, q, ch, writer) : h # ch => h \notin l
<1> DEFINE e == <<ch, x>>
           r == Notify(q, ch, x, writer)
           m == LateAfter(l, q, ch, writer)
           w == [v EXCEPT ![ch] = x]
<1>1. e \in Event /\ e[1] = ch /\ e[2] = x /\ w[ch] = x /\ \A h \in Char \ {ch} : w[h] = v[h]
  BY DEF Event
<1>2. \A c \in Ctx : q[c] \in Seq(Event) /\ Len(q[c]) \in Nat
                     /\ \A k \in 1 .. Len(q[c]) : q[c][k][1] \in Char
  <2> SUFFICES ASSUME NEW c \in Ctx
               PROVE  /\ q[c] \in Seq(Event) /\ Len(q[c]) \in Nat
                      /\ \A k \in 1 .. Len(q[c]) : q[c][k][1] \in Char
    OBVIOUS
  <2>1. q[c] \in Seq(Event)
    BY DEF Bounded
  <2> QED BY <2>1, LenProperties, ElementOfSeq DEF Event
<1>3. \A c \in Ctx : r[c] = IF c \in callbacks[ch] /\ c # writer THEN Push(q[c], e) ELSE q[c]
  BY DEF Notify
<1>4. /\ \A h \in Char : h \notin m => h = ch \/ h \notin l
      /\ ch \notin m => \A c \in Ctx : ch \notin Queued(q[c])
      /\ \A c \in Ctx : c \in callbacks[ch] /\ c # writer /\ Len(q[c]) = QueueSize
                          => q[c][1][1] \in m
  BY DEF LateAfter, Overwritten
<1> HIDE DEF e, r, m, w
<1>5. ASSUME NEW c \in Ctx PROVE Truthful(r[c], w, m)
  <2>1. \A j \in 1 .. Len(q[c]) : q[c][j][1] \notin m => q[c][j][2] = w[q[c][j][1]]
    <3> SUFFICES ASSUME NEW j \in 1 .. Len(q[c]), q[c][j][1] \notin m
                 PROVE  q[c][j][2] = w[q[c][j][1]]
      OBVIOUS
    <3>1. q[c][j][1] \in Char /\ q[c][j][1] \in Queued(q[c])
      BY <1>2 DEF Queued
    <3>2. q[c][j][1] # ch /\ q[c][j][1] \notin l
      BY <1>4, <3>1
    <3>3. q[c][j][2] = v[q[c][j][1]]
      BY <3>2 DEF EventsTrue, Truthful
    <3> QED BY <1>1, <3>1, <3>2, <3>3
  <2>2. CASE c \in callbacks[ch] /\ c # writer
    <3>1. r[c] = Push(q[c], e)
      BY <1>3, <2>2
    <3>2. \A k \in 1 .. Len(Push(q[c], e)) :
            Push(q[c], e)[k] = e \/ \E j \in 1 .. Len(q[c]) : Push(q[c], e)[k] = q[c][j]
      <4>1. q[c] \in Seq(Event) /\ e \in Event
        BY <1>1, <1>2
      <4> QED BY ONLY <4>1, PushEvents
    <3> QED BY <1>1, <2>1, <3>1, <3>2 DEF Truthful
  <2>3. CASE ~(c \in callbacks[ch] /\ c # writer)
    <3>1. r[c] = q[c]
      BY <1>3, <2>3
    <3> QED BY <2>1, <3>1 DEF Truthful
  <2> QED BY <2>2, <2>3
<1>6. EventsTrue(r, w, m)
  BY <1>5 DEF EventsTrue
<1> QED BY <1>4, <1>6 DEF r, m, w

\* What is sent of a characteristic that is not late is its value.
LEMMA OldestIsValue ==
  ASSUME NEW s \in Seq(Event), NEW v, NEW l, Truthful(s, v, l), NEW ch \in Queued(s), ch \notin l
  PROVE  Oldest(s, ch) = v[ch]
<1> DEFINE T == {k \in 1 .. Len(s) : s[k][1] = ch}
           First(k) == k \in 1 .. Len(s) /\ s[k][1] = ch /\ \A j \in 1 .. k - 1 : s[j][1] # ch
<1>1. Len(s) \in Nat /\ T \in SUBSET Nat /\ T # {}
  BY LenProperties DEF Queued
<1>2. PICK m \in T : \A k \in T : m <= k
  BY <1>1, LeastElement
<1>3. First(m)
  BY <1>1, <1>2
<1> DEFINE f == CHOOSE k \in 1 .. Len(s) : s[k][1] = ch /\ \A j \in 1 .. k - 1 : s[j][1] # ch
<1>4. f \in 1 .. Len(s) /\ s[f][1] = ch
  BY <1>3
<1> HIDE DEF f
<1>5. s[f][2] = v[ch]
  BY <1>4 DEF Truthful
<1> QED BY <1>5 DEF Oldest, f

\* A client that is closed has no event and is owed none.
LEMMA CloseFresh ==
  ASSUME Inv, NEW c \in Ctx, NEW cb \in [Char -> SUBSET Ctx], NEW q \in Bounded,
         Close(c, cb, q), EventsTrue(q, value', late'),
         \A d \in Ctx \ {c}, ch \in Char \ late' :
           d \in cb[ch] /\ sock[d] = "up" /\ view[d][ch] \notin {Unknown, value'[ch]}
             => ch \in Queued(q[d])
  PROVE  Fresh'
<1>1. \A d \in Ctx : queue'[d] = IF d = c THEN << >> ELSE q[d]
  BY DEF Close, Bounded
<1>2. \A d \in Ctx \ {c} : sock'[d] = sock[d] /\ view'[d] = view[d]
  BY DEF Close, Inv, TypeOK
<1>3. \A ch \in Char : callbacks'[ch] = cb[ch] \ {c}
  BY DEF Close
<1>4. EventsTrue(queue, value, late)'
  <2> SUFFICES ASSUME NEW d \in Ctx PROVE Truthful(queue'[d], value', late')
    BY DEF EventsTrue
  <2>1. CASE d = c
    BY <1>1, <2>1, EmptySeq DEF Truthful
  <2>2. CASE d # c
    BY <1>1, <2>2 DEF EventsTrue
  <2> QED BY <2>1, <2>2
<1>5. Heard(callbacks, sock, view, value, queue, late)'
  BY <1>1, <1>2, <1>3 DEF Heard
<1> QED BY <1>4, <1>5 DEF Fresh

\* The end of a handler: its client learns what it is answered, or is closed, or has left.
LEMMA ReplyFresh ==
  ASSUME Inv, NEW c \in Listed, NEW outcome, NEW st, NEW cb, NEW q,
         NEW known \in [Char -> Known], Handled(c, st, cb, q),
         Reply(c, outcome, st, cb, q, known), EventsTrue(q, value', late'),
         \A d \in Ctx, ch \in Char \ late' :
           d \in cb[ch] /\ sock[d] = "up"
             /\ (IF d = c THEN known[ch] ELSE view[d][ch]) \notin {Unknown, value'[ch]}
               => ch \in Queued(q[d])
  PROVE  Fresh'
<1>1. c \in Ctx /\ q \in Bounded /\ cb \in [Char -> SUBSET Ctx]
  BY ElementOfSeq DEF Inv, TypeOK, Listed, Handled
<1>2. CASE outcome = "failed"
  <2>1. Close(c, cb, q)
    BY <1>2 DEF Reply
  <2> QED BY <1>1, <2>1, CloseFresh
<1>3. CASE outcome # "failed"
  <2>1. /\ callbacks' = cb /\ queue' = q
        /\ sock' = [sock EXCEPT ![c] = IF @ = "last" THEN "down" ELSE @]
        /\ view' = [view EXCEPT ![c] = IF outcome = "sent" THEN Kept(c, cb, known) ELSE @]
    BY <1>3 DEF Reply
  <2>2. \A d \in Ctx : sock'[d] = "up" => sock[d] = "up" /\ (d # c => view'[d] = view[d])
    BY <2>1 DEF Inv, TypeOK
  <2>3. sock'[c] = "up" => view'[c] = Kept(c, cb, known)
    <3>1. sock'[c] = "up" => outcome = "sent"
      BY <1>1, <1>3, <2>2 DEF Reply, Writes
    <3> QED BY <1>1, <2>1, <3>1 DEF Inv, TypeOK
  <2>4. \A ch \in Char : c \in cb[ch] => Kept(c, cb, known)[ch] = known[ch]
    BY DEF Kept
  <2>5. Heard(callbacks, sock, view, value, queue, late)'
    BY <1>1, <2>1, <2>2, <2>3, <2>4 DEF Heard
  <2>6. EventsTrue(queue, value, late)'
    BY <2>1
  <2> QED BY <2>5, <2>6 DEF Fresh
<1> QED BY <1>2, <1>3

\* A handler that changes no value and queues nothing.
LEMMA AnswerFresh ==
  ASSUME Inv, Fresh, NEW c \in Ctx, HasRequest(c), NEW outcome, NEW st \in {step[c], "verified"},
         NEW cb, NEW known \in [Char -> Known], Handled(c, st, cb, queue),
         Reply(c, outcome, st, cb, queue, known), UNCHANGED <<value, pc, late>>,
         \A d \in Ctx, ch \in Char : d \in cb[ch] /\ d # c => d \in callbacks[ch],
         \A ch \in Char : known[ch] \in {Unknown, value[ch]}
                            \/ (known[ch] = view[c][ch] /\ (c \in cb[ch] => c \in callbacks[ch]))
  PROVE  Fresh'
<1>1. c \in Listed
  BY RequestListed
<1>2. EventsTrue(queue, value', late')
  BY DEF Fresh
<1>3. \A d \in Ctx, ch \in Char \ late' :
        d \in cb[ch] /\ sock[d] = "up"
          /\ (IF d = c THEN known[ch] ELSE view[d][ch]) \notin {Unknown, value'[ch]}
            => ch \in Queued(queue[d])
  BY DEF Fresh, Heard
<1> QED BY <1>1, <1>2, <1>3, ReplyFresh

\* Pair-verify, GET, and PUT with "ev".
LEMMA AnsweringFresh ==
  ASSUME Inv, Fresh, NEW c \in Ctx, NEW outcome,
         \/ PairVerify(c, outcome)
         \/ \E ch \in Char : GetCharacteristic(c, ch, outcome)
         \/ \E ch \in Char, on \in BOOLEAN : Subscribe(c, ch, on, outcome)
  PROVE  Fresh'
<1>1. HasRequest(c) /\ UNCHANGED <<value, pc, late>>
  BY DEF PairVerify, GetCharacteristic, Subscribe
<1>2. view[c] \in [Char -> Known] /\ Handled(c, step[c], callbacks, queue)
  BY <1>1, RequestListed, Unhandled
<1>3. CASE PairVerify(c, outcome)
  <2>1. Handled(c, "verified", callbacks, queue)
    BY <1>2 DEF Handled
  <2>2. Reply(c, outcome, "verified", callbacks, queue, view[c])
    BY <1>3 DEF PairVerify
  <2> QED BY <1>1, <1>2, <2>1, <2>2, AnswerFresh
<1>4. ASSUME NEW ch \in Char, GetCharacteristic(c, ch, outcome)
      PROVE  Fresh'
  <2> DEFINE known == [view[c] EXCEPT ![ch] = value[ch]]
  <2>1. /\ known \in [Char -> Known] /\ known[ch] = value[ch]
        /\ \A h \in Char \ {ch} : known[h] = view[c][h]
    BY <1>2 DEF Inv, TypeOK, Known
  <2>2. Reply(c, outcome, step[c], callbacks, queue, known)
    BY <1>4 DEF GetCharacteristic
  <2> HIDE DEF known
  <2> QED BY <1>1, <1>2, <2>1, <2>2, AnswerFresh
<1>5. ASSUME NEW ch \in Char, NEW on \in BOOLEAN, Subscribe(c, ch, on, outcome)
      PROVE  Fresh'
  <2> DEFINE known == [view[c] EXCEPT ![ch] = Unknown]
             cb == [callbacks EXCEPT ![ch] = IF on THEN @ \cup {c} ELSE @ \ {c}]
  <2>1. /\ known \in [Char -> Known] /\ known[ch] = Unknown
        /\ \A h \in Char \ {ch} : known[h] = view[c][h]
    BY <1>2 DEF Known
  <2>2. callbacks \in [Char -> SUBSET Ctx] /\ step[c] = "verified"
    BY <1>5 DEF Inv, TypeOK, Subscribe
  <2>3. /\ cb \in [Char -> SUBSET Ctx]
        /\ \A h \in Char : cb[h] \subseteq callbacks[h] \cup {c}
        /\ \A h \in Char \ {ch} : cb[h] = callbacks[h]
    BY <2>2
  <2>4. Reply(c, outcome, step[c], cb, queue, known)
    BY <1>5 DEF Subscribe
  <2> HIDE DEF known, cb
  <2>5. Handled(c, step[c], cb, queue)
    BY <1>1, <1>2, <2>2, <2>3, RequestListed DEF Handled
  <2>6. \A d \in Ctx, h \in Char : d \in cb[h] /\ d # c => d \in callbacks[h]
    BY <2>3
  <2> QED BY <1>1, <2>1, <2>3, <2>4, <2>5, <2>6, AnswerFresh
<1> QED BY <1>3, <1>4, <1>5

\* PUT with a value: the writer knows it, the others have its event.
LEMMA PutValueFresh ==
  ASSUME Inv, Fresh, NEW c \in Ctx, NEW ch \in Char, NEW v \in Value, NEW outcome,
         PutValue(c, ch, v, outcome)
  PROVE  Fresh'
<1> DEFINE q == Notify(queue, ch, v, c)
           known == [view[c] EXCEPT ![ch] = v]
<1>1. c \in Listed /\ view[c] \in [Char -> Known]
  BY RequestListed DEF PutValue
<1>2. /\ value \in [Char -> Value] /\ queue \in Bounded /\ late \in SUBSET Char
      /\ callbacks \in [Char -> SUBSET Ctx]
  BY DEF Inv, TypeOK, Bounded
<1>3. /\ value' = [value EXCEPT ![ch] = v] /\ late' = LateAfter(late, queue, ch, c)
      /\ q = Notify(queue, ch, v, c) /\ EventsTrue(queue, value, late)
  BY DEF PutValue, Fresh
<1>4. /\ known \in [Char -> Known] /\ known[ch] = v
      /\ \A h \in Char \ {ch} : known[h] = view[c][h]
  BY <1>1 DEF Known
<1>5. Handled(c, step[c], callbacks, q)
  BY Unhandled, NotifyHandled
<1>6. Reply(c, outcome, step[c], callbacks, q, known)
  BY DEF PutValue
<1>7. /\ EventsTrue(q, value', late')
      /\ \A d \in Ctx, h \in Char \ late' : h \in Queued(queue[d]) => h \in Queued(q[d])
      /\ \A d \in callbacks[ch] : d # c => ch \in Queued(q[d])
      /\ \A h \in Char \ late' : h # ch => h \notin late
  <2> DEFINE l == LateAfter(late, queue, ch, c)
             w == [value EXCEPT ![ch] = v]
  <2>1. /\ EventsTrue(q, w, l)
        /\ \A d \in Ctx, h \in Char \ l : h \in Queued(queue[d]) => h \in Queued(q[d])
        /\ \A d \in callbacks[ch] : d # c => ch \in Queued(q[d])
        /\ \A h \in Char \ l : h # ch => h \notin late
    <3>1. callbacks \in [Char -> SUBSET Ctx]
      BY <1>2
    <3> QED BY <1>2, <1>3, <3>1, NotifyTrue, NotifyKeeps, NotifyReaches
  <2> HIDE DEF q
  <2> QED BY <1>3, <2>1
<1>8. value'[ch] = v /\ \A h \in Char \ {ch} : value'[h] = value[h]
  BY <1>2, <1>3
<1> HIDE DEF q, known
<1>9. \A d \in Ctx, h \in Char \ late' :
        d \in callbacks[h] /\ sock[d] = "up"
          /\ (IF d = c THEN known[h] ELSE view[d][h]) \notin {Unknown, value'[h]}
            => h \in Queued(q[d])
  <2> SUFFICES ASSUME NEW d \in Ctx, NEW h \in Char \ late', d \in callbacks[h], sock[d] = "up",
                      (IF d = c THEN known[h] ELSE view[d][h]) \notin {Unknown, value'[h]}
               PROVE  h \in Queued(q[d])
    OBVIOUS
  <2>1. CASE h = ch
    BY <1>4, <1>7, <1>8, <2>1
  <2>2. CASE h # ch
    BY <1>4, <1>7, <1>8, <2>2 DEF Fresh, Heard
  <2> QED BY <2>1, <2>2
<1> QED BY <1>1, <1>4, <1>5, <1>6, <1>7, <1>9, ReplyFresh

\* The same with a setter that changes another characteristic: the writer has its event too.
LEMMA PutValueChangingFresh ==
  ASSUME Inv, Fresh, NEW c \in Ctx, NEW ch \in Char, NEW v \in Value, NEW ch2 \in Char,
         NEW v2 \in Value, NEW outcome, PutValueChanging(c, ch, v, ch2, v2, outcome)
  PROVE  Fresh'
<1> DEFINE q2 == Notify(queue, ch2, v2, nil)
           l2 == LateAfter(late, queue, ch2, nil)
           q == Notify(q2, ch, v, c)
           known == [view[c] EXCEPT ![ch] = v]
           w == [value EXCEPT ![ch2] = v2]
<1>1. c \in Listed /\ view[c] \in [Char -> Known] /\ ch2 # ch
  BY RequestListed DEF PutValueChanging
<1>2. /\ value \in [Char -> Value] /\ queue \in Bounded /\ late \in SUBSET Char
      /\ callbacks \in [Char -> SUBSET Ctx]
  BY DEF Inv, TypeOK, Bounded
<1>3. value' = [w EXCEPT ![ch] = v] /\ late' = LateAfter(l2, q2, ch, c)
  <2>1. value' = [value EXCEPT ![ch] = v, ![ch2] = v2]
    BY DEF PutValueChanging
  <2>2. value' = [w EXCEPT ![ch] = v]
    BY <1>1, <1>2, <2>1
  <2> QED BY <2>2 DEF PutValueChanging
<1>4. /\ known \in [Char -> Known] /\ known[ch] = v
      /\ \A h \in Char \ {ch} : known[h] = view[c][h]
  BY <1>1 DEF Known
<1>5. Handled(c, step[c], callbacks, q)
  BY Unhandled, NotifyHandled
<1>6. Reply(c, outcome, step[c], callbacks, q, known)
  BY DEF PutValueChanging
<1>7. /\ EventsTrue(q2, w, l2)
      /\ \A d \in Ctx, h \in Char \ l2 : h \in Queued(queue[d]) => h \in Queued(q2[d])
      /\ \A d \in callbacks[ch2] : d # nil => ch2 \in Queued(q2[d])
      /\ \A h \in Char \ l2 : h # ch2 => h \notin late
  <2>0. callbacks \in [Char -> SUBSET Ctx]
    BY <1>2
  <2>1. /\ queue \in Bounded /\ value \in [Char -> Value] /\ late \in SUBSET Char
        /\ EventsTrue(queue, value, late)
    BY <1>2 DEF Fresh
  <2>2. EventsTrue(Notify(queue, ch2, v2, nil), [value EXCEPT ![ch2] = v2],
                   LateAfter(late, queue, ch2, nil))
    BY <2>0, <2>1, NotifyTrue
  <2>3. \A d \in Ctx, h \in Char \ LateAfter(late, queue, ch2, nil) :
          h \in Queued(queue[d]) => h \in Queued(Notify(queue, ch2, v2, nil)[d])
    BY <2>1, NotifyKeeps
  <2>4. \A d \in callbacks[ch2] : d # nil => ch2 \in Queued(Notify(queue, ch2, v2, nil)[d])
    BY <2>0, <2>1, NotifyReaches
  <2>5. \A h \in Char \ LateAfter(late, queue, ch2, nil) : h # ch2 => h \notin late
    BY <2>0, <2>1, NotifyTrue
  <2> QED BY <2>2, <2>3, <2>4, <2>5
<1>8. q2 \in Bounded /\ w \in [Char -> Value] /\ l2 \in SUBSET Char
  BY <1>1, <1>2, NotifyQueues, LateChars
<1>9. /\ value'[ch] = v /\ value'[ch2] = v2
      /\ \A h \in Char \ {ch, ch2} : value'[h] = value[h]
  BY <1>1, <1>2, <1>3
<1> HIDE DEF q2, l2, known, w
<1>10. /\ EventsTrue(q, value', late')
       /\ \A d \in Ctx, h \in Char \ late' : h \in Queued(q2[d]) => h \in Queued(q[d])
       /\ \A d \in callbacks[ch] : d # c => ch \in Queued(q[d])
       /\ \A h \in Char \ late' : h # ch => h \notin l2
  <2>0. callbacks \in [Char -> SUBSET Ctx]
    BY <1>2
  <2>1. q2 \in Bounded /\ w \in [Char -> Value] /\ l2 \in SUBSET Char /\ EventsTrue(q2, w, l2)
    BY <1>7, <1>8
  <2>2. EventsTrue(Notify(q2, ch, v, c), [w EXCEPT ![ch] = v], LateAfter(l2, q2, ch, c))
    BY <2>0, <2>1, NotifyTrue
  <2>3. \A d \in Ctx, h \in Char \ LateAfter(l2, q2, ch, c) :
          h \in Queued(q2[d]) => h \in Queued(Notify(q2, ch, v, c)[d])
    BY <2>1, NotifyKeeps
  <2>4. \A d \in callbacks[ch] : d # c => ch \in Queued(Notify(q2, ch, v, c)[d])
    BY <2>0, <2>1, NotifyReaches
  <2>5. \A h \in Char \ LateAfter(l2, q2, ch, c) : h # ch => h \notin l2
    BY <2>0, <2>1, NotifyTrue
  <2>6. q = Notify(q2, ch, v, c)
    BY DEF q, q2
  <2> HIDE DEF q
  <2> QED BY <1>3, <2>2, <2>3, <2>4, <2>5, <2>6
<1> HIDE DEF q
<1>11. \A d \in Ctx, h \in Char \ late' :
         d \in callbacks[h] /\ sock[d] = "up"
           /\ (IF d = c THEN known[h] ELSE view[d][h]) \notin {Unknown, value'[h]}
             => h \in Queued(q[d])
  <2> SUFFICES ASSUME NEW d \in Ctx, NEW h \in Char \ late', d \in callbacks[h], sock[d] = "up",
                      (IF d = c THEN known[h] ELSE view[d][h]) \notin {Unknown, value'[h]}
               PROVE  h \in Queued(q[d])
    OBVIOUS
  <2>1. CASE h = ch
    BY <1>4, <1>9, <1>10, <2>1
  <2>2. CASE h = ch2
    BY <1>7, <1>10, <2>2, NilAssumption
  <2>3. CASE h # ch /\ h # ch2
    <3>1. h \notin l2 /\ h \notin late
      BY <1>7, <1>10, <2>3
    <3> QED BY <1>4, <1>7, <1>9, <1>10, <2>3, <3>1 DEF Fresh, Heard
  <2> QED BY <2>1, <2>2, <2>3
<1> QED BY <1>1, <1>4, <1>5, <1>6, <1>10, <1>11, ReplyFresh

\* send_client_events: the client learns the oldest of what is queued.
LEMMA SendEventsFresh ==
  ASSUME Inv, Fresh, NEW c \in Ctx, NEW outcome, SendEvents(c, outcome)
  PROVE  Fresh'
<1> DEFINE q == [queue EXCEPT ![c] = << >>]
           known == Learn(view[c], Coalesced(queue[c]))
<1>1. /\ c \in Listed /\ view[c] \in [Char -> Known] /\ queue[c] \in Seq(Event)
      /\ queue \in [Ctx -> Seq(Event)]
  BY ServedListed DEF SendEvents, Notifying, Inv, TypeOK, Known
<1>2. known \in [Char -> Known]
  BY <1>1, LearnView
<1>3. \A h \in Queued(queue[c]) \cap (Char \ late) : known[h] = value[h]
  <2> SUFFICES ASSUME NEW h \in Queued(queue[c]), h \in Char \ late PROVE known[h] = value[h]
    OBVIOUS
  <2>1. known[h] = Oldest(queue[c], h)
    BY DEF Learn, Coalesced
  <2> QED BY <1>1, <2>1, OldestIsValue DEF Fresh, EventsTrue
<1>4. \A h \in Char : h \notin Queued(queue[c]) => known[h] = view[c][h]
  BY DEF Learn, Coalesced
<1>5. q[c] = << >> /\ \A d \in Ctx \ {c} : q[d] = queue[d]
  BY <1>1
<1>6. Reply(c, outcome, step[c], callbacks, q, known) /\ UNCHANGED <<value, pc, late>>
  BY DEF SendEvents
<1> HIDE DEF q, known
<1>7. Handled(c, step[c], callbacks, q)
  <2>1. Handled(c, step[c], callbacks, queue)
    BY Unhandled
  <2>2. q \in Bounded
    BY <2>1, EmptySeq, SizeAssumption DEF Handled, Bounded, SizeAssumption, q
  <2> QED BY <1>5, <2>1, <2>2 DEF Handled
<1>8. EventsTrue(q, value', late')
  <2> SUFFICES ASSUME NEW d \in Ctx PROVE Truthful(q[d], value, late)
    BY <1>6 DEF EventsTrue
  <2>1. CASE d = c
    BY <1>5, <2>1, EmptySeq DEF Truthful
  <2>2. CASE d # c
    BY <1>5, <2>2 DEF Fresh, EventsTrue
  <2> QED BY <2>1, <2>2
<1>9. \A d \in Ctx, h \in Char \ late' :
        d \in callbacks[h] /\ sock[d] = "up"
          /\ (IF d = c THEN known[h] ELSE view[d][h]) \notin {Unknown, value'[h]}
            => h \in Queued(q[d])
  <2> SUFFICES ASSUME NEW d \in Ctx, NEW h \in Char \ late, d \in callbacks[h], sock[d] = "up",
                      (IF d = c THEN known[h] ELSE view[d][h]) \notin {Unknown, value[h]}
               PROVE  h \in Queued(q[d])
    BY <1>6
  <2>1. CASE d = c
    BY <1>3, <1>4, <2>1 DEF Fresh, Heard
  <2>2. CASE d # c
    BY <1>5, <2>2 DEF Fresh, Heard
  <2> QED BY <2>1, <2>2
<1> QED BY <1>1, <1>2, <1>6, <1>7, <1>8, <1>9, ReplyFresh

\* The steps that leave the values, the queues and what is known of them.
LEMMA UntouchedFresh ==
  ASSUME Fresh, UNCHANGED <<queue, value, callbacks, sock, view, late>>
  PROVE  Fresh'
  BY DEF Fresh, EventsTrue, Truthful, Heard

\* modify_value_and_notify: every subscriber has the event.
LEMMA AppChangeFresh ==
  ASSUME Inv, Fresh, NEW ch \in Char, NEW v \in Value, AppChange(ch, v)
  PROVE  Fresh'
<1>1. /\ value \in [Char -> Value] /\ queue \in Bounded /\ late \in SUBSET Char
      /\ callbacks \in [Char -> SUBSET Ctx]
  BY DEF Inv, TypeOK, Bounded
<1>2. /\ value' = [value EXCEPT ![ch] = v] /\ late' = LateAfter(late, queue, ch, nil)
      /\ queue' = Notify(queue, ch, v, nil) /\ UNCHANGED <<callbacks, sock, view>>
      /\ EventsTrue(queue, value, late)
  BY DEF AppChange, Fresh
<1>3. /\ EventsTrue(queue', value', late')
      /\ \A d \in Ctx, h \in Char \ late' : h \in Queued(queue[d]) => h \in Queued(queue'[d])
      /\ \A d \in callbacks[ch] : d # nil => ch \in Queued(queue'[d])
      /\ \A h \in Char \ late' : h # ch => h \notin late
  <2> DEFINE l == LateAfter(late, queue, ch, nil)
             w == [value EXCEPT ![ch] = v]
             q == Notify(queue, ch, v, nil)
  <2>1. /\ EventsTrue(q, w, l)
        /\ \A d \in Ctx, h \in Char \ l : h \in Queued(queue[d]) => h \in Queued(q[d])
        /\ \A d \in callbacks[ch] : d # nil => ch \in Queued(q[d])
        /\ \A h \in Char \ l : h # ch => h \notin late
    <3>1. callbacks \in [Char -> SUBSET Ctx]
      BY <1>1
    <3> QED BY <1>1, <1>2, <3>1, NotifyTrue, NotifyKeeps, NotifyReaches
  <2> QED BY <1>2, <2>1
<1>4. \A h \in Char \ {ch} : value'[h] = value[h]
  BY <1>1, <1>2
<1>5. Heard(callbacks, sock, view, value, queue, late)'
  <2> SUFFICES ASSUME NEW d \in Ctx, NEW h \in Char \ late', d \in callbacks[h], sock[d] = "up",
                      view[d][h] \notin {Unknown, value'[h]}
               PROVE  h \in Queued(queue'[d])
    BY <1>2 DEF Heard
  <2>1. CASE h = ch
    BY <1>3, <2>1, NilAssumption
  <2>2. CASE h # ch
    BY <1>3, <1>4, <2>2 DEF Fresh, Heard
  <2> QED BY <2>1, <2>2
<1> QED BY <1>3, <1>5 DEF Fresh

\* Connections that come and go.
LEMMA ConnectionFresh ==
  ASSUME Inv, Fresh, NEW c \in Ctx, Accept(c) \/ Disconnected(c) \/ PeerGone(c)
  PROVE  Fresh'
<1>1. CASE Accept(c)
  <2>1. \A d \in Ctx : d # c => sock'[d] = sock[d]
    BY <1>1 DEF Accept, Inv, TypeOK
  <2>2. \A ch \in Char : c \notin callbacks[ch]
    BY <1>1 DEF Accept, Inv, NoDangling
  <2>3. Heard(callbacks, sock, view, value, queue, late)'
    BY <1>1, <2>1, <2>2 DEF Heard, Fresh, Accept
  <2>4. EventsTrue(queue, value, late)'
    BY <1>1 DEF EventsTrue, Truthful, Fresh, Accept
  <2> QED BY <2>3, <2>4 DEF Fresh
<1>2. CASE Disconnected(c)
  <2>1. UNCHANGED <<value, late>> /\ Close(c, callbacks, queue)
    BY <1>2 DEF Disconnected
  <2>2. /\ callbacks \in [Char -> SUBSET Ctx] /\ queue \in Bounded
        /\ EventsTrue(queue, value', late')
    BY <2>1 DEF Fresh, Inv, TypeOK, Bounded
  <2>3. \A d \in Ctx \ {c}, ch \in Char \ late' :
          d \in callbacks[ch] /\ sock[d] = "up" /\ view[d][ch] \notin {Unknown, value'[ch]}
            => ch \in Queued(queue[d])
    BY <2>1 DEF Fresh, Heard
  <2> QED BY <2>1, <2>2, <2>3, CloseFresh
<1>3. CASE PeerGone(c)
  <2>1. \A d \in Ctx : sock'[d] = "up" => sock[d] = "up" /\ view'[d] = view[d]
    BY <1>3 DEF PeerGone, Inv, TypeOK
  <2>2. Heard(callbacks, sock, view, value, queue, late)'
    BY <1>3, <2>1 DEF Heard, Fresh, PeerGone
  <2>3. EventsTrue(queue, value, late)'
    BY <1>3 DEF EventsTrue, Truthful, Fresh, PeerGone
  <2> QED BY <2>2, <2>3 DEF Fresh
<1> QED BY <1>1, <1>2, <1>3

\* Nobody is subscribed at a start.
LEMMA EmptyFresh ==
  ASSUME callbacks = [ch \in Char |-> {}], queue = [c \in Ctx |-> << >>]
  PROVE  Fresh
<1>1. EventsTrue(queue, value, late)
  BY EmptySeq DEF EventsTrue, Truthful
<1> QED BY <1>1 DEF Fresh, Heard

\* A fault starts anew.
LEMMA FaultFresh ==
  ASSUME NEW c \in Ctx, Fault(c)
  PROVE  Fresh'
<1>1. EventsTrue(queue, value, late)'
  BY EmptySeq DEF EventsTrue, Truthful, Fault
<1> QED BY <1>1 DEF Fresh, Heard, Fault

\* A subscriber with an empty queue has the present value, or none, of every characteristic it
\* asked for and that is not late: for any number of clients, characteristics and places in a
\* queue, and however often a characteristic changes before a drain, no order of requests,
\* changes, failed writes and events leaves it behind otherwise.  The invariant that it needs
\* says of a characteristic that is not late that all its queued events have the present value
\* (so that the order of sending does not matter) and that whoever is behind has one.
THEOREM SubscribersAreUpToDate == Spec => []FreshView
<1> DEFINE I == Inv /\ Fresh
<1>1. Init => I
  BY EmptyInv, EmptyFresh DEF Init
<1>2. I /\ [Next]_vars /\ Inv' => I'
  <2> SUFFICES ASSUME Inv, Fresh, [Next]_vars PROVE Fresh'
    OBVIOUS
  <2>1. CASE NoAccept \/ ClientsDone \/ NotifyDone
               \/ \E c \in Ctx : NoData(c) \/ NothingToSend(c)
    BY <2>1, UntouchedFresh DEF NoAccept, ClientsDone, NotifyDone, NoData, NothingToSend
  <2>2. CASE \E c \in Ctx : Accept(c) \/ Disconnected(c) \/ PeerGone(c)
    BY <2>2, ConnectionFresh
  <2>3. CASE \E c \in Ctx : Request(c)
    <3>1. PICK c \in Ctx, outcome \in Outcome :
            \/ PairVerify(c, outcome)
            \/ \E ch \in Char : GetCharacteristic(c, ch, outcome)
            \/ \E ch \in Char, v \in Value : PutValue(c, ch, v, outcome)
            \/ \E ch, ch2 \in Char, v, v2 \in Value :
                 PutValueChanging(c, ch, v, ch2, v2, outcome)
            \/ \E ch \in Char, on \in BOOLEAN : Subscribe(c, ch, on, outcome)
      BY <2>3 DEF Request
    <3> QED BY <3>1, AnsweringFresh, PutValueFresh, PutValueChangingFresh
  <2>4. CASE \E c \in Ctx : Fault(c)
    BY <2>4, FaultFresh
  <2>5. CASE \E c \in Ctx, outcome \in Outcome : SendEvents(c, outcome)
    BY <2>5, SendEventsFresh
  <2>6. CASE \E ch \in Char, v \in Value : AppChange(ch, v)
    BY <2>6, AppChangeFresh
  <2>7. CASE UNCHANGED vars
    BY <2>7, UntouchedFresh DEF vars
  <2> QED BY <2>1, <2>2, <2>3, <2>4, <2>5, <2>6, <2>7 DEF Next, LoopStep
<1>3. I => FreshView
  BY DEF Fresh, Heard, FreshView, Queued
<1>4. Spec => []Inv
  BY NotifyInvariant, PTL DEF Inv
<1> QED BY <1>1, <1>2, <1>3, <1>4, PTL DEF Spec
=============================================================================
