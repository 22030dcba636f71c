--------------------------- MODULE SecureChannel ---------------------------
(***************************************************************************)
(* One connection of a controller: the frames of the encrypted session,    *)
(* their way through the read buffer of the client context into the HTTP   *)
(* parser, the choice of the handler and the frames of its answer          *)
(* (arduino_homekit_server.cpp).                                           *)
(*                                                                         *)
(* A message is an HTTP request of some units: the first stands for its    *)
(* request line and headers, the others for its body.  In the clear unit k *)
(* of message m goes over the wire as <<m, k>>; a frame f goes over it as  *)
(* <<f, 0>>, its header, then a <<f, k>> for every unit it carries, then   *)
(* its tag.  The 2 + 16 bytes of header and tag are two units here, and    *)
(* the 1024 bytes a frame may carry are MaxChunk units.                    *)
(*                                                                         *)
(* The controller waits for an answer before it sends the next request, as *)
(* controllers do; TCP keeps the order and delivers in pieces of any size. *)
(***************************************************************************)
EXTENDS Integers, Sequences, SequencesExt

CONSTANTS
  Endpoint,     \* what the requests of an encrypted session are for
  Units,        \* the number of units of such a request
  Answers,      \* the number of frames of its answer
  MaxChunk,     \* 1024 bytes of a frame
  MaxMessages   \* bound: requests on one connection

ASSUME ChunkAssumption == MaxChunk \in Nat \ {0} /\ MaxMessages \in Nat
ASSUME EndpointAssumption ==
  Units \in [Endpoint -> Nat \ {0}] /\ Answers \in [Endpoint -> Nat \ {0}]

VARIABLES
  sock,         \* the connection: "none", "up", or "gone" when the peer has closed it
  wire,         \* bytes on their way to the accessory
  back,         \* frames on their way to the controller
  data,         \* context->data, up to context->data_available
  encrypted,    \* context->encrypted
  writes,       \* context->count_writes: the frame the decryption is at
  reads,        \* context->count_reads: the frame the encryption is at
  parser,       \* context->parser and context->body
  heap,         \* what the block malloc hands out for a plain text holds
  sent,         \* the requests of this connection
  frames,       \* the frames they were sent in
  waiting,      \* the controller waits for an answer
  secure,       \* the controller has read the last answer of pair-verify
  heard,        \* frames the controller has decrypted
  handled,      \* history: the requests that reached a handler
  pieces        \* history: how the reads cut the stream, see Cut

controller == <<sent, frames, waiting, secure, heard>>
vars == <<sock, wire, back, data, encrypted, writes, reads, parser, heap, controller,
          handled, pieces>>

Overhead == 2                           \* 2 bytes of length and 16 of tag
DataSize == MaxChunk + Overhead         \* sizeof(context->data), and block_size
Junk == <<0, 0>>                        \* a byte that malloc left as it was

\* Pair-verify is two requests in the clear; the second answer opens the session.
Verify == <<"verify1", "verify2">>

UnitsOf(m) == IF m <= Len(Verify) THEN 2 ELSE Units[sent[m]]

-----------------------------------------------------------------------------
(* The parser.                                                              *)

\* done collects what homekit_server_on_message_complete is called with.
NoRequest == [at |-> "start", of |-> 0, left |-> 0, intact |-> TRUE, done |-> << >>]

\* homekit_server_on_url, on_body: one more unit.  When it is the last one the request
\* goes to its handler, and the body is emptied for the next one.
Take(p, m, intact, left) ==
  IF left > 0 THEN [p EXCEPT !.at = "body", !.of = m, !.intact = intact, !.left = left]
  ELSE [NoRequest EXCEPT !.done = Append(p.done, [of |-> m, intact |-> intact])]

\* Outside of a request the parser takes only the first unit of one, or white space (a
\* blank byte); anything else ends it for good.  Within one it takes what comes.
ParseUnit(p, unit, blank) ==
  CASE p.at = "error" -> p
    [] p.at = "start" /\ unit = Junk /\ blank -> p
    [] p.at = "start" /\ unit # Junk /\ unit[2] = 1 ->
         Take(p, unit[1], TRUE, UnitsOf(unit[1]) - 1)
    [] p.at = "body" ->
         Take(p, p.of, p.intact /\ unit = <<p.of, UnitsOf(p.of) - p.left + 1>>, p.left - 1)
    [] OTHER -> [p EXCEPT !.at = "error"]

\* http_parser_execute; an empty buffer is an end of file.
Parse(p, units, blank) ==
  LET After[i \in 0 .. Len(units)] ==
        IF i = 0 THEN p ELSE ParseUnit(After[i - 1], units[i], blank)
  IN  IF units = << >> /\ p.at = "body" THEN [p EXCEPT !.at = "error"]
      ELSE After[Len(units)]

-----------------------------------------------------------------------------
(* Decryption.                                                              *)

FrameUnits(f) == [k \in 1 .. frames[f].n |-> <<frames[f].of, frames[f].from + k - 1>>]

\* The length read at a place of the buffer: that of the frame whose header is there, and
\* any length if something else is.
ChunkAt(buf, at) ==
  IF buf[at + 1][2] = 0 THEN {frames[buf[at + 1][1]].n} ELSE 0 .. MaxChunk + 1

\* The frame the counter stands for is at a place of the first n bytes, whole and as it was
\* sent: only then does it authenticate.
IsThere(buf, n, at, count) ==
  /\ count \in DOMAIN frames
  /\ at + frames[count].n + Overhead <= n
  /\ \A k \in 0 .. frames[count].n + 1 : buf[at + k + 1] = <<count, k>>

\* A wrong PlainSize: header and tag are counted.
PlainSizeWithTag(n) == n

\* What n bytes would hold if they were whole frames.
PlainSize(n) == n - Overhead

\* The block that malloc hands out, as it was left.
Block(n) == [k \in 1 .. PlainSize(n) |-> IF k <= Len(heap) THEN heap[k] ELSE Junk]

\* Every frame is decrypted to the start of the block.
Overlaid(f, block) ==
  [k \in DOMAIN block |-> IF k <= frames[f].n THEN FrameUnits(f)[k] ELSE block[k]]

\* A turn of the loop of client_decrypt_ over the first n bytes of a buffer.
Decrypted(r, buf, n) ==
  IF IsThere(buf, n, r.used, r.count)
  THEN [used |-> r.used + frames[r.count].n + Overhead, count |-> r.count + 1,
        plain |-> Overlaid(r.count, r.plain)]
  ELSE r

\* The loop up to the first bytes that are not the frame the counter stands for.
Decrypt(buf, n) ==
  LET After[i \in 0 .. n] ==
        IF i = 0 THEN [used |-> 0, count |-> writes, plain |-> Block(n)]
        ELSE Decrypted(After[i - 1], buf, n)
  IN  After[n]

\* There it ends, with the bytes used up or too few for the length that is read ...
Ends(r, buf, n) ==
  r.used < n => \E chunk \in ChunkAt(buf, r.used) : r.used + chunk + Overhead > n

\* ... or it fails, because they do not authenticate.
Fails(r, buf, n) ==
  r.used < n /\ \E chunk \in ChunkAt(buf, r.used) : r.used + chunk + Overhead <= n

-----------------------------------------------------------------------------
(* The connection.                                                          *)

Init ==
  /\ sock = "none"
  /\ wire = << >> /\ back = << >> /\ data = << >>
  /\ encrypted = FALSE /\ writes = 1 /\ reads = 1
  /\ parser = NoRequest
  /\ heap = << >>
  /\ sent = << >> /\ frames = << >>
  /\ waiting = FALSE /\ secure = FALSE /\ heard = 0
  /\ handled = << >>
  /\ pieces = "frame"

\* The context is freed, or the accessory restarts: the controller may connect again.
Gone ==
  /\ sock' = "none"
  /\ wire' = << >> /\ back' = << >> /\ data' = << >>
  /\ encrypted' = FALSE /\ writes' = 1 /\ reads' = 1
  /\ parser' = NoRequest
  /\ heap' = << >>
  /\ sent' = << >> /\ frames' = << >>
  /\ waiting' = FALSE /\ secure' = FALSE /\ heard' = 0
  /\ handled' = << >>
  /\ pieces' = "frame"

\* homekit_server_accept_client, client_context_new.
Connect ==
  /\ sock = "none"
  /\ sock' = "up"
  /\ UNCHANGED <<wire, back, data, encrypted, writes, reads, parser, heap, controller,
                 handled, pieces>>

\* The frames of a request of n units, of no more than size units each.
Framed(m, n, size) ==
  [i \in 1 .. (n + size - 1) \div size |->
     [of |-> m, from |-> (i - 1) * size + 1,
      n |-> IF i * size <= n THEN size ELSE n - (i - 1) * size]]

Bytes(f, n) == [k \in 1 .. n + Overhead |-> <<f, k - 1>>]

Clear(m) == [k \in 1 .. 2 |-> <<m, k>>]

SendVerify ==
  /\ sock = "up" /\ ~waiting /\ Len(sent) < Len(Verify)
  /\ sent' = Append(sent, Verify[Len(sent) + 1])
  /\ wire' = wire \o Clear(Len(sent'))
  /\ waiting' = TRUE
  /\ UNCHANGED <<sock, back, data, encrypted, writes, reads, parser, heap, frames, secure,
                 heard, handled, pieces>>

\* The bytes of new frames, when there are f others.
Stream(new, f) ==
  LET After[i \in 0 .. Len(new)] ==
        IF i = 0 THEN << >> ELSE After[i - 1] \o Bytes(f + i, new[i].n)
  IN  After[Len(new)]

\* A request of the encrypted session, in frames that may be smaller than they need be.
Send(e, size) ==
  /\ sock = "up" /\ ~waiting /\ secure /\ Len(sent) < MaxMessages
  /\ sent' = Append(sent, e)
  /\ \E new \in {Framed(Len(sent) + 1, Units[e], size)} :
       /\ frames' = frames \o new
       /\ wire' = wire \o Stream(new, Len(frames))
  /\ waiting' = TRUE
  /\ UNCHANGED <<sock, back, data, encrypted, writes, reads, parser, heap, secure, heard,
                 handled, pieces>>

\* The frames of the answers to the requests of done.  The answers of pair-verify are in
\* the clear; the second of them is written before the session is encrypted.
ClearAnswer(m) == [enc |-> FALSE, nr |-> 0, last |-> TRUE, opens |-> Verify[m] = "verify2"]

Encrypted(e, nr) ==
  [i \in 1 .. Answers[e] |->
     [enc |-> TRUE, nr |-> nr + i - 1, last |-> i = Answers[e], opens |-> FALSE]]

\* A wrong AnswerTo: the session is encrypted before its last clear answer.
EncryptedTooEarly(m, nr) ==
  IF m = 1 THEN <<ClearAnswer(m)>>
  ELSE <<[ClearAnswer(m) EXCEPT !.enc = TRUE, !.nr = nr]>>

AnswerTo(m, nr) ==
  IF m <= Len(Verify) THEN <<ClearAnswer(m)>> ELSE Encrypted(sent[m], nr)

\* client_send counts the frames that it encrypts.
AnswersTo(done, nr) ==
  LET After[i \in 0 .. Len(done)] ==
        IF i = 0 THEN [out |-> << >>, nr |-> nr]
        ELSE LET r == After[i - 1]
                 answer == AnswerTo(done[i].of, r.nr)
             IN  [out |-> r.out \o answer,
                  nr |-> IF answer[1].enc THEN r.nr + Len(answer) ELSE r.nr]
  IN  After[Len(done)]

\* The handlers of what the parser has completed, and the writes of their answers: one to
\* a connection the peer has closed is dropped, a short one closes the connection.
Handlers(p, outcome) ==
  /\ parser' = [p EXCEPT !.done = << >>]
  /\ handled' = handled \o p.done
  /\ encrypted' = (encrypted \/ \E i \in DOMAIN p.done : p.done[i].of = Len(Verify))
  /\ \E answers \in {AnswersTo(p.done, reads)} :
       /\ reads' = answers.nr
       /\ back' = IF outcome = "sent" THEN back \o answers.out ELSE back
  /\ outcome = IF sock = "up" THEN "sent" ELSE "dropped"

\* A read of the n bytes that have arrived and have room in the buffer.
CanRead(n) == sock # "none" /\ n <= Len(wire) /\ n <= DataSize - Len(data)

Arrived(n) == SubSeq(wire, 1, n)

HasRead(n) == CanRead(n) /\ wire' = SubSeq(wire, n + 1, Len(wire))

\* homekit_client_process before the session is encrypted.
ReadClear(n, outcome) ==
  /\ HasRead(n)
  /\ ~encrypted
  /\ Handlers(Parse(parser, Arrived(n), TRUE), outcome)
  /\ UNCHANGED <<sock, data, writes, heap, controller, pieces>>

\* How a read cuts the stream: a whole frame, whole frames, or within a frame.
Cut(n) ==
  LET f == wire[1][1]
      g == wire[n][1]
  IN  IF data = << >> /\ wire[1][2] = 0 /\ wire[n] = <<g, frames[g].n + 1>>
      THEN IF f = g THEN "frame" ELSE "frames"
      ELSE "inside"

Worse(cut) ==
  IF "inside" \in {pieces, cut} THEN "inside"
  ELSE IF "frames" \in {pieces, cut} THEN "frames" ELSE "frame"

\* A wrong ReadFrames: the counter of frames is not kept.
ReadFramesUncounted(n, blank, outcome) ==
  /\ HasRead(n)
  /\ encrypted /\ n >= Overhead
  /\ \E r \in {Decrypt(data \o Arrived(n), n)} :
       /\ Ends(r, data \o Arrived(n), n)
       /\ data' = SubSeq(data \o Arrived(n), r.used + 1, n)
       /\ heap' = r.plain
       /\ Handlers(Parse(parser, heap', blank), outcome)
  /\ pieces' = Worse(Cut(n))
  /\ UNCHANGED <<sock, writes, controller>>

\* homekit_client_process with frames.  client_decrypt_ is given the buffer from its start
\* but the length of this read alone.
ReadFrames(n, blank, outcome) ==
  /\ HasRead(n)
  /\ encrypted /\ n >= Overhead
  /\ \E r \in {Decrypt(data \o Arrived(n), n)} :
       /\ Ends(r, data \o Arrived(n), n)
       /\ writes' = r.count
       /\ data' = SubSeq(data \o Arrived(n), r.used + 1, n)
       /\ heap' = r.plain
       /\ Handlers(Parse(parser, heap', blank), outcome)
  /\ pieces' = Worse(Cut(n))
  /\ UNCHANGED <<sock, controller>>

\* ... with one that does not authenticate.  With room for no plain text the call that asks
\* for its size has met that frame before.
ReadInvalid(n) ==
  /\ HasRead(n)
  /\ encrypted /\ n >= Overhead
  /\ \E r \in {Decrypt(data \o Arrived(n), n)} :
       /\ Fails(r, data \o Arrived(n), n)
       /\ writes' = r.count + IF n = Overhead THEN 2 ELSE 1
  /\ pieces' = Worse(Cut(n))
  /\ UNCHANGED <<sock, back, data, encrypted, reads, parser, heap, controller, handled>>

\* ... with less than header and tag.  The size of the plain text wraps around, no block is
\* that large, and the parser runs through address 0: the accessory faults and restarts.
\* A parser in error looks at nothing.
ReadTooShort(n) ==
  /\ encrypted /\ n < Overhead
  /\ \/ /\ parser.at = "error"
        /\ HasRead(n)
        /\ data' = SubSeq(data \o Arrived(n), 1, n)
        /\ pieces' = "inside"
        /\ UNCHANGED <<sock, back, encrypted, writes, reads, parser, heap, controller,
                       handled>>
     \/ /\ parser.at # "error"
        /\ CanRead(n)
        /\ Gone

\* A read completes a request whose answer is cut short: write closes the connection.
WriteFails(n, blank) ==
  /\ sock = "up" /\ CanRead(n)
  /\ \/ ~encrypted /\ Parse(parser, Arrived(n), TRUE).done # << >>
     \/ /\ encrypted /\ n >= Overhead
        /\ \E r \in {Decrypt(data \o Arrived(n), n)} :
             Ends(r, data \o Arrived(n), n) /\ Parse(parser, r.plain, blank).done # << >>
  /\ Gone

\* A read brings nothing, because nothing is left or the buffer is full, and the peer is
\* gone: homekit_server_close_client.
Disconnected ==
  /\ sock = "gone" /\ (wire = << >> \/ Len(data) = DataSize)
  /\ Gone

\* The controller reads a frame.
Hear ==
  /\ sock = "up" /\ back # << >>
  /\ back' = Tail(back)
  /\ heard' = heard + IF Head(back).enc THEN 1 ELSE 0
  /\ waiting' = ~Head(back).last
  /\ secure' = (secure \/ Head(back).opens)
  /\ UNCHANGED <<sock, wire, data, encrypted, writes, reads, parser, heap, sent, frames,
                 handled, pieces>>

\* The controller closes the connection.
Leave ==
  /\ sock = "up"
  /\ sock' = "gone"
  /\ UNCHANGED <<wire, back, data, encrypted, writes, reads, parser, heap, controller,
                 handled, pieces>>

Read ==
  \E n \in 1 .. DataSize :
    \/ \E outcome \in {"sent", "dropped"} :
         ReadClear(n, outcome) \/ \E blank \in BOOLEAN : ReadFrames(n, blank, outcome)
    \/ \E blank \in BOOLEAN : WriteFails(n, blank)
    \/ ReadInvalid(n)
    \/ ReadTooShort(n)

Next ==
  \/ Connect \/ SendVerify \/ Read \/ Disconnected \/ Hear \/ Leave
  \/ \E e \in Endpoint, size \in 1 .. MaxChunk : Send(e, size)

Spec == Init /\ [][Next]_vars

\* loop() reads for ever what has arrived, and the controller reads its answers.
FairSpec == Spec /\ WF_vars(Read) /\ WF_vars(Hear)
-----------------------------------------------------------------------------

\* While every read brings one whole frame, whatever its size, the requests reach their
\* handlers as they were sent, in their order and once, and the parser stays usable: the
\* counters of both sides and the leftovers in the buffers never get between them.
CleanDelivery ==
  pieces = "frame" =>
    /\ parser.at # "error"
    /\ Len(handled) \in {Len(sent) - 1, Len(sent)}
    /\ \A i \in DOMAIN handled : handled[i] = [of |-> i, intact |-> TRUE]

\* The controller can read what it is sent: it gets the answers of pair-verify in the
\* clear, every frame after them encrypted, and numbered as it counts them itself.  This
\* holds however the requests were cut up and whatever became of them.
AnswersReadable ==
  \A i \in DOMAIN back :
    /\ back[i].enc <=> (secure \/ \E j \in 1 .. i - 1 : back[j].opens)
    /\ back[i].enc =>
         back[i].nr = heard + 1 + Cardinality({j \in 1 .. i - 1 : back[j].enc})

\* A controller whose requests arrive as they were framed is not left waiting: it gets
\* its answer or its connection ends.
RequestAnswered ==
  (waiting /\ sock = "up" /\ pieces = "frame") ~> (~waiting \/ sock # "up" \/ pieces # "frame")
=============================================================================
