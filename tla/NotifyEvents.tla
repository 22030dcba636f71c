---------------------------- MODULE NotifyEvents ----------------------------
(***************************************************************************)
(* The loop of the HomeKit server and the events it sends: accepting and   *)
(* closing connections, requests that read, write and subscribe to         *)
(* characteristics, the queue of events each client has, and the pass that *)
(* drains it (arduino_homekit_server.cpp, accessories.c).                  *)
(*                                                                         *)
(* The program has one thread.  One pass of homekit_server_process is a    *)
(* sequence of steps: accept, one client after the other, then the events  *)
(* of one client after the other; the peers and the network act between    *)
(* any two of them, the application between two passes.                    *)
(*                                                                         *)
(* A client's event_queue is the LIFO of cQueue.c that overwrites; it is   *)
(* kept here as the sequence BoundedQueue shows CQueue to implement, the   *)
(* oldest event first.                                                     *)
(***************************************************************************)
EXTENDS Integers, Sequences, FiniteSets

CONSTANTS
  Ctx,          \* the memory blocks client contexts are allocated in
  nil,          \* the null pointer
  Char,         \* the characteristics
  Value,        \* their values
  Unknown,      \* a value a controller has not learnt
  MaxClients,   \* HOMEKIT_MAX_CLIENTS
  QueueSize     \* HOMEKIT_EVENT_QUEUE_SIZE

ASSUME NilAssumption == nil \notin Ctx
ASSUME UnknownAssumption == Unknown \notin Value
ASSUME SizeAssumption ==
  /\ MaxClients \in Nat \ {0}
  /\ QueueSize \in Nat \ {0}

VARIABLES
  clients,     \* server->clients, the linked list from its head
  nfds,        \* server->nfds
  sock,        \* the connection of a context, as the network has it
  step,        \* context->step, "verified" from PAIR_VERIFY_2OF2 on
  callbacks,   \* ch->callback, the contexts that asked for events
  queue,       \* context->event_queue
  value,       \* ch->value
  pc,          \* where homekit_server_process is
  cur,         \* the context its traversal is at
  view         \* what a connected controller knows of what it is subscribed to

\* A history variable: it records what happened, and no step depends on it.
VARIABLE
  late         \* the characteristics whose last change came while an earlier event of
               \* theirs was still queued, or has lost an event in a full queue since

vars == <<clients, nfds, sock, step, callbacks, queue, value, pc, cur, view, late>>

Event == Char \X Value

Listed == {clients[i] : i \in 1 .. Len(clients)}

Head_ == IF clients = << >> THEN nil ELSE clients[1]

PosOf(c) == CHOOSE i \in 1 .. Len(clients) : clients[i] = c

\* context->next, read after the context may have been unlinked and freed: the block
\* still holds the pointer when nothing was allocated in between (else see Fault).
NextOf(c) == IF PosOf(c) < Len(clients) THEN clients[PosOf(c) + 1] ELSE nil

Unlinked(c) ==
  [k \in 1 .. Len(clients) - 1 |-> IF k < PosOf(c) THEN clients[k] ELSE clients[k + 1]]

Init ==
  /\ clients = << >>
  /\ nfds = 0
  /\ sock = [c \in Ctx |-> "none"]
  /\ step = [c \in Ctx |-> "none"]
  /\ callbacks = [ch \in Char |-> {}]
  /\ queue = [c \in Ctx |-> << >>]
  /\ value \in [Char -> Value]
  /\ pc = "idle"
  /\ cur = nil
  /\ view = [c \in Ctx |-> [ch \in Char |-> Unknown]]
  /\ late = {}

-----------------------------------------------------------------------------
(* Events.                                                                  *)

\* A wrong Push: a full queue refuses the event.
PushRefused(s, e) == IF Len(s) = QueueSize THEN s ELSE Append(s, e)

\* q_push on the LIFO: a full queue loses its oldest event.
Push(s, e) == IF Len(s) = QueueSize THEN Append(Tail(s), e) ELSE Append(s, e)

\* A wrong Notify: the writer is told its own value.
NotifyWriterToo(q, ch, v, writer) ==
  [c \in Ctx |-> IF c \in callbacks[ch] THEN Push(q[c], <<ch, v>>) ELSE q[c]]

\* homekit_characteristic_notify: every subscriber's callback queues the event, but
\* for the one that is being served a write of this very value (writer).
Notify(q, ch, v, writer) ==
  [c \in Ctx |-> IF c \in callbacks[ch] /\ c # writer THEN Push(q[c], <<ch, v>>) ELSE q[c]]

Queued(s) == {s[k][1] : k \in 1 .. Len(s)}

\* The characteristics that lose an event to that notification.
Overwritten(q, ch, writer) ==
  {q[c][1][1] : c \in {d \in callbacks[ch] \ {writer} : Len(q[d]) = QueueSize}}

\* late after that notification.
LateAfter(l, q, ch, writer) ==
  (IF \E c \in Ctx : ch \in Queued(q[c]) THEN l \cup {ch} ELSE l \ {ch})
    \cup Overwritten(q, ch, writer)

Oldest(s, ch) ==
  s[CHOOSE k \in 1 .. Len(s) : s[k][1] = ch /\ \A j \in 1 .. k - 1 : s[j][1] # ch][2]

\* The body of the EVENT message: the queue is popped from its youngest event down,
\* and an event popped later replaces the value of the same characteristic.
Coalesced(s) == [ch \in Queued(s) |-> Oldest(s, ch)]

Learn(known, msg) == [ch \in Char |-> IF ch \in DOMAIN msg THEN msg[ch] ELSE known[ch]]

-----------------------------------------------------------------------------
(* Replies and closing.                                                     *)

\* What a write to the socket does: a short one fails, one to a socket the peer has
\* closed is dropped without a word.
Writes(c) == IF sock[c] = "up" THEN {"sent", "failed"} ELSE {"dropped"}

\* A wrong Close: the callbacks stay with the characteristics.
CloseKeepsCallbacks(c, cb, q) ==
  /\ clients' = Unlinked(c)
  /\ nfds' = nfds - 1
  /\ sock' = [sock EXCEPT ![c] = "none"]
  /\ step' = [step EXCEPT ![c] = "none"]
  /\ callbacks' = cb
  /\ queue' = [q EXCEPT ![c] = << >>]
  /\ view' = [view EXCEPT ![c] = [ch \in Char |-> Unknown]]

\* homekit_server_close_client, after a handler left the callbacks cb and queues q.
Close(c, cb, q) ==
  /\ clients' = Unlinked(c)
  /\ nfds' = nfds - 1
  /\ sock' = [sock EXCEPT ![c] = "none"]
  /\ step' = [step EXCEPT ![c] = "none"]
  /\ callbacks' = [ch \in Char |-> cb[ch] \ {c}]
  /\ queue' = [q EXCEPT ![c] = << >>]
  /\ view' = [view EXCEPT ![c] = [ch \in Char |-> Unknown]]

\* Of what it is told a controller keeps the values it is subscribed to.
Kept(c, cb, known) == [ch \in Char |-> IF c \in cb[ch] THEN known[ch] ELSE Unknown]

\* The end of a handler: its reply is written, and the traversal goes on.
Reply(c, outcome, st, cb, q, known) ==
  /\ outcome \in Writes(c)
  /\ cur' = NextOf(c)
  /\ \/ /\ outcome = "failed"
        /\ Close(c, cb, q)
     \/ /\ outcome # "failed"
        /\ sock' = [sock EXCEPT ![c] = IF @ = "last" THEN "down" ELSE @]
        /\ step' = [step EXCEPT ![c] = st]
        /\ callbacks' = cb
        /\ queue' = q
        /\ view' = [view EXCEPT ![c] = IF outcome = "sent" THEN Kept(c, cb, known) ELSE @]
        /\ UNCHANGED <<clients, nfds>>

-----------------------------------------------------------------------------
(* The pass of homekit_server_process.                                      *)

\* A wrong Accept: no limit of clients.
AcceptAlways(c) ==
  /\ pc = "idle"
  /\ c \notin Listed
  /\ clients' = <<c>> \o clients
  /\ nfds' = nfds + 1
  /\ sock' = [sock EXCEPT ![c] = "up"]
  /\ pc' = "clients"
  /\ cur' = c
  /\ UNCHANGED <<step, callbacks, queue, value, view, late>>

\* homekit_server_accept_client with a connection waiting and room for it.
Accept(c) ==
  /\ pc = "idle"
  /\ nfds < MaxClients
  /\ c \notin Listed
  /\ clients' = <<c>> \o clients
  /\ nfds' = nfds + 1
  /\ sock' = [sock EXCEPT ![c] = "up"]
  /\ pc' = "clients"
  /\ cur' = c
  /\ UNCHANGED <<step, callbacks, queue, value, view, late>>

\* No connection waits, or it is stopped at once for want of room.
NoAccept ==
  /\ pc = "idle"
  /\ pc' = "clients"
  /\ cur' = Head_
  /\ UNCHANGED <<clients, nfds, sock, step, callbacks, queue, value, view, late>>

Serving(c) == pc = "clients" /\ cur = c /\ c # nil

\* A wrong NoData: a connection that has no data is not looked at.
NoDataIsEnough(c) ==
  /\ Serving(c)
  /\ sock[c] \in {"up", "down"}
  /\ cur' = NextOf(c)
  /\ UNCHANGED <<clients, nfds, sock, step, callbacks, queue, value, pc, view, late>>

\* homekit_client_process finds no data.
NoData(c) ==
  /\ Serving(c)
  /\ sock[c] = "up"
  /\ cur' = NextOf(c)
  /\ UNCHANGED <<clients, nfds, sock, step, callbacks, queue, value, pc, view, late>>

\* A wrong Disconnected: the loop stays at the client it has closed.
DisconnectedAgain(c) ==
  /\ Serving(c)
  /\ sock[c] = "down"
  /\ Close(c, callbacks, queue)
  /\ UNCHANGED <<value, pc, cur, late>>

\* ... or finds that the peer is gone.
Disconnected(c) ==
  /\ Serving(c)
  /\ sock[c] = "down"
  /\ cur' = NextOf(c)
  /\ Close(c, callbacks, queue)
  /\ UNCHANGED <<value, pc, late>>

HasRequest(c) == Serving(c) /\ sock[c] \in {"up", "last"}

\* Pair-verify succeeds (its two messages are those of PairingServer).
PairVerify(c, outcome) ==
  /\ HasRequest(c)
  /\ step[c] = "none"
  /\ Reply(c, outcome, "verified", callbacks, queue, view[c])
  /\ UNCHANGED <<value, pc, late>>

\* GET /characteristics of one characteristic.
GetCharacteristic(c, ch, outcome) ==
  /\ HasRequest(c)
  /\ step[c] = "verified"
  /\ Reply(c, outcome, step[c], callbacks, queue, [view[c] EXCEPT ![ch] = value[ch]])
  /\ UNCHANGED <<value, pc, late>>

\* PUT /characteristics with a value.  The setter stores the value, then every
\* subscriber but the writer is notified, whether the value changed or not.
PutValue(c, ch, v, outcome) ==
  /\ HasRequest(c)
  /\ step[c] = "verified"
  /\ value' = [value EXCEPT ![ch] = v]
  /\ late' = LateAfter(late, queue, ch, c)
  /\ Reply(c, outcome, step[c], callbacks, Notify(queue, ch, v, c),
           [view[c] EXCEPT ![ch] = v])
  /\ UNCHANGED pc

\* The same, with a setter that changes another characteristic and notifies that
\* change (modify_value_and_notify): this event goes to the writer as well.
PutValueChanging(c, ch, v, ch2, v2, outcome) ==
  /\ HasRequest(c)
  /\ step[c] = "verified"
  /\ ch2 # ch /\ v2 # value[ch2]
  /\ value' = [value EXCEPT ![ch] = v, ![ch2] = v2]
  /\ LET told == Notify(queue, ch2, v2, nil) IN
       /\ late' = LateAfter(LateAfter(late, queue, ch2, nil), told, ch, c)
       /\ Reply(c, outcome, step[c], callbacks, Notify(told, ch, v, c),
                [view[c] EXCEPT ![ch] = v])
  /\ UNCHANGED pc

\* A wrong Subscribe: pair-verify is not asked for.
SubscribeUnverified(c, ch, on, outcome) ==
  /\ HasRequest(c)
  /\ Reply(c, outcome, step[c],
           [callbacks EXCEPT ![ch] = IF on THEN @ \cup {c} ELSE @ \ {c}], queue,
           [view[c] EXCEPT ![ch] = Unknown])
  /\ UNCHANGED <<value, pc, late>>

\* PUT /characteristics with "ev".  What the controller knew of the characteristic
\* before is no longer taken for its value.
Subscribe(c, ch, on, outcome) ==
  /\ HasRequest(c)
  /\ step[c] = "verified"
  /\ Reply(c, outcome, step[c],
           [callbacks EXCEPT ![ch] = IF on THEN @ \cup {c} ELSE @ \ {c}], queue,
           [view[c] EXCEPT ![ch] = Unknown])
  /\ UNCHANGED <<value, pc, late>>

ClientsDone ==
  /\ pc = "clients" /\ cur = nil
  /\ pc' = "notify"
  /\ cur' = Head_
  /\ UNCHANGED <<clients, nfds, sock, step, callbacks, queue, value, view, late>>

Notifying(c) == pc = "notify" /\ cur = c /\ c # nil

NothingToSend(c) ==
  /\ Notifying(c)
  /\ step[c] # "verified" \/ queue[c] = << >>
  /\ cur' = NextOf(c)
  /\ UNCHANGED <<clients, nfds, sock, step, callbacks, queue, value, pc, view, late>>

\* A wrong SendEvents: the events are read and not dropped.
SendEventsPeeked(c, outcome) ==
  /\ Notifying(c)
  /\ step[c] = "verified" /\ queue[c] # << >>
  /\ Reply(c, outcome, step[c], callbacks, queue, Learn(view[c], Coalesced(queue[c])))
  /\ UNCHANGED <<value, pc, late>>

\* send_client_events with all that the queue holds.
SendEvents(c, outcome) ==
  /\ Notifying(c)
  /\ step[c] = "verified" /\ queue[c] # << >>
  /\ Reply(c, outcome, step[c], callbacks, [queue EXCEPT ![c] = << >>],
           Learn(view[c], Coalesced(queue[c])))
  /\ UNCHANGED <<value, pc, late>>

\* What is left of a handler after a failed write runs on the freed context: more writes,
\* with allocations in between, and a second free of its body.  The program comes through
\* as in Reply, or faults and restarts.
Fault(c) ==
  /\ \/ HasRequest(c)
     \/ Notifying(c) /\ step[c] = "verified" /\ queue[c] # << >>
  /\ "failed" \in Writes(c)
  /\ clients' = << >>
  /\ nfds' = 0
  /\ sock' = [d \in Ctx |-> "none"]
  /\ step' = [d \in Ctx |-> "none"]
  /\ callbacks' = [ch \in Char |-> {}]
  /\ queue' = [d \in Ctx |-> << >>]
  /\ value' \in [Char -> Value]
  /\ pc' = "idle"
  /\ cur' = nil
  /\ view' = [d \in Ctx |-> [ch \in Char |-> Unknown]]
  /\ late' = {}

NotifyDone ==
  /\ pc = "notify" /\ cur = nil
  /\ pc' = "idle"
  /\ UNCHANGED <<clients, nfds, sock, step, callbacks, queue, value, cur, view, late>>

-----------------------------------------------------------------------------
(* The application and the peers.                                           *)

\* modify_value_and_notify, called by a ticker or a web page between two passes.
AppChange(ch, v) ==
  /\ pc = "idle"
  /\ v # value[ch]
  /\ queue' = Notify(queue, ch, v, nil)
  /\ value' = [value EXCEPT ![ch] = v]
  /\ late' = LateAfter(late, queue, ch, nil)
  /\ UNCHANGED <<clients, nfds, sock, step, callbacks, pc, cur, view>>

\* A peer closes its connection, with or without a last request in the buffer.
PeerGone(c) ==
  /\ sock[c] = "up"
  /\ \E s \in {"last", "down"} : sock' = [sock EXCEPT ![c] = s]
  /\ view' = [view EXCEPT ![c] = [ch \in Char |-> Unknown]]
  /\ UNCHANGED <<clients, nfds, step, callbacks, queue, value, pc, cur, late>>

Outcome == {"sent", "failed", "dropped"}

Request(c) ==
  \E outcome \in Outcome :
    \/ PairVerify(c, outcome)
    \/ \E ch \in Char : GetCharacteristic(c, ch, outcome)
    \/ \E ch \in Char, v \in Value : PutValue(c, ch, v, outcome)
    \/ \E ch, ch2 \in Char, v, v2 \in Value : PutValueChanging(c, ch, v, ch2, v2, outcome)
    \/ \E ch \in Char, on \in BOOLEAN : Subscribe(c, ch, on, outcome)

\* One step of the pass.
LoopStep ==
  \/ NoAccept \/ ClientsDone \/ NotifyDone
  \/ \E c \in Ctx :
       \/ Accept(c) \/ NoData(c) \/ Disconnected(c) \/ Request(c) \/ NothingToSend(c)
       \/ Fault(c)
       \/ \E outcome \in Outcome : SendEvents(c, outcome)

Next ==
  \/ LoopStep
  \/ \E ch \in Char, v \in Value : AppChange(ch, v)
  \/ \E c \in Ctx : PeerGone(c)

Spec == Init /\ [][Next]_vars

\* loop() is called for ever and no pass waits for anything.
FairSpec == Spec /\ []<><<<<pc, cur>>' # <<pc, cur>>>>_vars

-----------------------------------------------------------------------------

Known == Value \cup {Unknown}

\* The variables have their types and the queues their bound.
TypeOK ==
  /\ clients \in Seq(Ctx)
  /\ nfds \in Int
  /\ sock \in [Ctx -> {"none", "up", "last", "down"}]
  /\ step \in [Ctx -> {"none", "verified"}]
  /\ callbacks \in [Char -> SUBSET Ctx]
  /\ queue \in [Ctx -> Seq(Event)]
  /\ value \in [Char -> Value]
  /\ pc \in {"idle", "clients", "notify"}
  /\ cur \in Ctx \cup {nil}
  /\ view \in [Ctx -> [Char -> Known]]
  /\ late \subseteq Char
  /\ \A c \in Ctx : Len(queue[c]) <= QueueSize

\* The list holds a context once, nfds counts it, and it never outgrows the room:
\* whatever the order of accepts, failed writes and disconnects in a pass.
ListOK ==
  /\ \A i, j \in 1 .. Len(clients) : clients[i] = clients[j] => i = j
  /\ nfds = Len(clients)
  /\ nfds <= MaxClients

\* The traversals of the list, which read next from a context that a failed write or a
\* disconnect has just freed, never arrive at a context that is no longer in it.
CursorListed == cur # nil => cur \in Listed

\* A context that is not in the list is in no characteristic's callbacks, has no
\* event queued and no connection: a notification never reaches freed memory, and a
\* new client in the same block does not inherit the old one's subscriptions.
NoDangling ==
  \A c \in Ctx \ Listed :
    /\ \A ch \in Char : c \notin callbacks[ch]
    /\ queue[c] = << >> /\ sock[c] = "none" /\ step[c] = "none"

\* Only a client that has completed pair-verify is subscribed or has events queued, so
\* that nothing is queued up for a peer that is not authenticated.
EventsNeedVerify ==
  \A c \in Ctx : (queue[c] # << >> \/ \E ch \in Char : c \in callbacks[ch])
                   => step[c] = "verified"

\* A change reaches every subscriber except the client that wrote it: after the step
\* that stores a value the others have that event as their youngest one.
OthersAreNotified ==
  [][\A c \in Ctx, ch \in Char, v \in Value :
       (\E outcome \in Outcome : PutValue(c, ch, v, outcome)) =>
         \A d \in callbacks[ch] :
           IF d = c THEN queue'[d] \in {queue[d], << >>}
           ELSE queue'[d] # << >> /\ queue'[d][Len(queue'[d])] = <<ch, v>>]_vars

\* A connected subscriber for which nothing is queued any more knows the value, if it
\* has learnt one since it subscribed, whatever the order of requests, changes, events,
\* failed writes and disconnects -- but for a characteristic whose last change came
\* while an earlier one was still queued, or lost its event in a full queue: there the
\* drain, youngest event first, leaves it with an older value (and "the new value is
\* sent to the client", hb_homekit.cpp:454, does not hold).  When such a characteristic
\* changes next with no event of it queued, its value arrives again.
FreshView ==
  \A c \in Ctx, ch \in Char \ late :
    (c \in callbacks[ch] /\ sock[c] = "up" /\ queue[c] = << >> /\ view[c][ch] # Unknown)
      => view[c][ch] = value[ch]

\* What is queued for a client is sent or given up with its connection.
QueueDrains == \A c \in Ctx : queue[c] # << >> ~> queue[c] = << >>

\* A connection the peer has closed does not stay in the list.
GoneIsClosed == \A c \in Ctx : sock[c] = "down" ~> c \notin Listed
=============================================================================
