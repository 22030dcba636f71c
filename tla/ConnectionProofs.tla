-------------------------- MODULE ConnectionProofs --------------------------
(***************************************************************************)
(* The safety properties of the two layers of a connection, for every      *)
(* value of their constants: of the network (WiFiConnection), and of the   *)
(* secure channel of a controller above it (SecureChannel).  The two share *)
(* no state, so that the specification of each is reasoned about alone.    *)
(*                                                                         *)
(* WiFiConnection.  What RestartFindsBack lacks to be inductive is that    *)
(* the last WiFi.begin of a station has been with the stored credentials   *)
(* even while the link is lost (Saved): Reconnect brings it back with      *)
(* those.                                                                  *)
(*                                                                         *)
(* SecureChannel.  ChannelInv has a part for each direction.               *)
(*  - To the controller: some number k of the frames on their way is in    *)
(*    the clear, the last of them opens the session, and all others are    *)
(*    numbered on from those that have been heard (BackInv).  This needs   *)
(*    nothing of the other direction but that only requests of the         *)
(*    encrypted session reach the parser when it is encrypted              *)
(*    (EncryptedInv), however the reads cut the stream.                    *)
(*  - To the accessory: in the clear the wire holds what the parser lacks  *)
(*    of the last request (ClearInv).  Later, as long as every read has    *)
(*    brought one whole frame, the frames that the counter has not passed  *)
(*    lie on the wire without gaps, and the parser has got as far in the   *)
(*    last request as the frame the counter is at (CleanInv).              *)
(* The operators of the model that walk along a sequence are functions     *)
(* defined by recursion; RecursionExists says that they exist, UpTo is     *)
(* the induction along them, and a lemma for each says what it returns.    *)
(***************************************************************************)
EXTENDS WiFiConnection, SecureChannel, WellFoundedInduction, FiniteSetTheorems, TLAPS

-----------------------------------------------------------------------------
(* The network.                                                             *)

\* What the stack holds a link with answers, and STAConnect has saved it.
Saved == /\ link => CanJoin(creds)
         /\ mode = "STA" /\ ~wiped => stored = creds

WiFiInv == WiFiTypeOK /\ Watched /\ Saved

\* A start leaves the accessory in a consistent state, whatever is in the file system.
LEMMA SetupConsistent ==
  ASSUME WiFiTypeOK, NEW c \in Cred \cup {None}, NEW p \in BOOLEAN, paired' \in BOOLEAN,
         wiped' \in BOOLEAN, paired' => p, Setup(c, p), stored' = c, router' = router
  PROVE  WiFiInv'
<1>1. WiFiTypeOK'
  BY DEF WiFiTypeOK, Setup
<1>2. Watched' /\ Saved'
  BY DEF Setup, Watched, Watching, Saved, CanJoin
<1> QED BY <1>1, <1>2 DEF WiFiInv

\* So does a connection that is tried while the accessory runs.
LEMMA JoinedConsistent ==
  ASSUME WiFiInv, NEW c \in Cred, CanJoin(c), Joined(c), server,
         UNCHANGED <<router, dog, server, paired, known>>
  PROVE  WiFiInv'
  BY DEF WiFiInv, WiFiTypeOK, Watched, Watching, Saved, Joined, Connected, CanJoin

LEMMA NotJoinedConsistent ==
  ASSUME WiFiInv, NEW c \in Cred, NotJoined(c),
         UNCHANGED <<router, dog, server, paired, known>>
  PROVE  WiFiInv'
  BY DEF WiFiInv, WiFiTypeOK, Watched, Watching, Saved, NotJoined, CanJoin

LEMMA InductiveStep == WiFiInv /\ [WiFiNext]_wifi => WiFiInv'
<1> SUFFICES ASSUME WiFiInv, [WiFiNext]_wifi PROVE WiFiInv'
  OBVIOUS
<1>1. /\ WiFiTypeOK /\ stored \in Cred \cup {None} /\ items \in Cred \cup {None}
      /\ paired \in BOOLEAN /\ wiped \in BOOLEAN
  BY DEF WiFiInv, WiFiTypeOK
<1>2. CASE RouterChanges
  BY <1>2 DEF RouterChanges, flash, WiFiInv, WiFiTypeOK, Watched, Watching, Saved, CanJoin
<1>3. CASE Drop \/ Reconnect \/ Request \/ FormatFileSystem
  <2>1. CASE Drop
    BY <2>1 DEF Drop, flash, WiFiInv, WiFiTypeOK, Watched, Watching, Saved, CanJoin
  <2>2. CASE Reconnect
    BY <2>2 DEF Reconnect, flash, WiFiInv, WiFiTypeOK, Watched, Watching, Saved, CanJoin
  <2>3. CASE Request
    BY <2>3 DEF Request, flash, WiFiInv, WiFiTypeOK, Watched, Watching, Saved, CanJoin
  <2>4. CASE FormatFileSystem
    BY <2>4 DEF FormatFileSystem, WiFiInv, WiFiTypeOK, Watched, Watching, Saved, CanJoin
  <2> QED BY <1>3, <2>1, <2>2, <2>3, <2>4
<1>4. CASE PowerCycle
  BY <1>1, <1>4, SetupConsistent DEF PowerCycle, flash
<1>5. ASSUME NEW c \in Cred, Login(c)
      PROVE  WiFiInv'
  <2>1. CASE mode = "STA" /\ LoginAndGoOn(c)
    BY <1>5, <2>1, JoinedConsistent DEF LoginAndGoOn, WiFiInv, Watched
  <2>2. CASE /\ mode # "STA" /\ stored' = c /\ wiped' = FALSE
             /\ Setup(c, paired) /\ UNCHANGED <<router, paired>>
    BY <1>1, <1>5, <2>2, SetupConsistent
  <2> QED BY <1>5, <2>1, <2>2 DEF Login
<1>6. ASSUME NEW c \in Cred, LoginFails(c) \/ EnterWLogin(c)
      PROVE  WiFiInv'
  <2>1. CASE LoginFails(c)
    BY <2>1, NotJoinedConsistent DEF LoginFails
  <2>2. CASE EnterWLogin(c)
    BY <2>2 DEF EnterWLogin, flash, WiFiInv, WiFiTypeOK, Watched, Watching, Saved, CanJoin
  <2> QED BY <1>6, <2>1, <2>2
<1>7. CASE Pair \/ Unpair
  <2>1. Watched' /\ Saved'
    BY <1>7 DEF Pair, Unpair, WiFiInv, Watched, Watching, Saved, CanJoin, Online
  <2>2. WiFiTypeOK'
    <3>1. CASE Pair
      BY <3>1 DEF Pair, WiFiInv, WiFiTypeOK
    <3>2. CASE Unpair
      BY <3>2 DEF Unpair, WiFiInv, WiFiTypeOK
    <3> QED BY <1>7, <3>1, <3>2
  <2> QED BY <2>1, <2>2 DEF WiFiInv
<1>8. CASE ResetPairing
  BY <1>1, <1>8, SetupConsistent DEF ResetPairing
<1>9. CASE StaWatchdog
  <2>1. server /\ dog = "sta"
    BY <1>9 DEF StaWatchdog, WiFiInv, Watched
  <2>2. CASE CanJoin(items) /\ Joined(items) /\ UNCHANGED <<dog, server, known>>
    <3>1. items \in Cred
      BY <1>1, <2>2 DEF CanJoin
    <3> QED BY <1>9, <2>1, <2>2, <3>1, JoinedConsistent DEF StaWatchdog
  <2>3. CASE Setup(stored, paired) /\ UNCHANGED <<stored, wiped>>
    BY <1>1, <1>9, <2>3, SetupConsistent DEF StaWatchdog
  <2> QED BY <1>9, <2>2, <2>3 DEF StaWatchdog
<1>10. CASE ApWatchdog
  <2>1. CASE inUse /\ dog' = "none" /\ UNCHANGED <<items, creds, mode, link, inUse, server, known>>
    BY <1>10, <2>1 DEF ApWatchdog, flash, WiFiInv, WiFiTypeOK, Watched, Watching, Saved, CanJoin
  <2>2. CASE Setup(stored, paired)
    BY <1>1, <1>10, <2>2, SetupConsistent DEF ApWatchdog, flash
  <2> QED BY <1>10, <2>1, <2>2 DEF ApWatchdog
<1>11. CASE UNCHANGED wifi
  BY <1>11 DEF wifi, flash, WiFiInv, WiFiTypeOK, Watched, Watching, Saved, CanJoin
<1> QED BY <1>2, <1>3, <1>4, <1>5, <1>6, <1>7, <1>8, <1>9, <1>10, <1>11 DEF WiFiNext

\* WiFiInv holds from the first start on.
LEMMA Consistent == WiFiSpec => []WiFiInv
<1>1. WiFiInit => WiFiInv
  <2>1. WiFiInit => Watched /\ Saved
    BY DEF WiFiInit, Watched, Watching, Saved, CanJoin
  <2>2. ASSUME WiFiInit PROVE WiFiTypeOK
    <3>1. CASE CanJoin(stored)
      BY <2>2, <3>1 DEF WiFiInit, WiFiTypeOK
    <3>2. CASE ~CanJoin(stored)
      BY <2>2, <3>2 DEF WiFiInit, WiFiTypeOK
    <3> QED BY <3>1, <3>2
  <2> QED BY <2>1, <2>2 DEF WiFiInv
<1> QED BY <1>1, InductiveStep, PTL DEF WiFiSpec

-----------------------------------------------------------------------------

\* The types, and that the tickers run whenever an administrator is stored.
THEOREM ConnectionTypeCorrect == WiFiSpec => []WiFiTypeOK
  BY Consistent, PTL DEF WiFiInv

\* In the mode STA the server runs, in the mode AP it does not, and an accessory that takes
\* itself for paired has a watchdog that runs or an access point that somebody has used: no
\* mixture of restarts, logins, watchdogs and losses of the link parts the mode from what
\* Setup started for it.
THEOREM AlwaysWatched == WiFiSpec => []Watched
  BY Consistent, PTL DEF WiFiInv

\* A restart uses the credentials of the connection that runs, and they answer, unless the
\* file system has been formatted since they were saved.
THEOREM RestartsFindBack == WiFiSpec => []RestartFindsBack
<1>1. WiFiInv => RestartFindsBack
  BY DEF WiFiInv, Saved, RestartFindsBack
<1> QED BY <1>1, Consistent, PTL

\* Of all the steps of the accessory, of its users and of the network only a LOGIN that
\* fails, in the access point or in a station that does not take itself for paired, leaves it
\* with neither network nor access point and with nothing that tries the network again.
THEOREM NothingElseStrands == WiFiSpec => OnlyLoginStrands
<1>1. WiFiInv /\ [WiFiNext]_wifi =>
        [~OffTheAir /\ OffTheAir' =>
           (mode = "AP" \/ ~known) /\ \E c \in Cred : LoginFails(c)]_wifi
  <2> SUFFICES ASSUME WiFiInv, [WiFiNext]_wifi, ~OffTheAir, OffTheAir'
               PROVE  (mode = "AP" \/ ~known) /\ \E c \in Cred : LoginFails(c)
    OBVIOUS
  <2>1. /\ mode' = "OFF" /\ (dog' # "sta" \/ ~known')
        /\ mode = "OFF" => dog = "sta" /\ known
        /\ mode \in {"OFF", "STA", "AP"} /\ (mode = "STA" => dog = "sta")
    BY DEF OffTheAir, Watching, WiFiInv, WiFiTypeOK, Watched
  <2>2. \A c, p : ~Setup(c, p)
    BY <2>1 DEF Setup
  <2>3. \A c : ~Joined(c)
    BY <2>1 DEF Joined, Connected
  <2>4. ~(PowerCycle \/ ResetPairing \/ StaWatchdog)
    BY <2>2, <2>3 DEF PowerCycle, ResetPairing, StaWatchdog
  <2>5. \A c \in Cred : ~Login(c)
    BY <2>2, <2>3 DEF Login, LoginAndGoOn
  <2>6. ASSUME UNCHANGED mode PROVE FALSE
    <3>1. dog = "sta" /\ known /\ (dog' # dog \/ known' # known)
      BY <2>1, <2>6
    <3> QED BY <2>2, <2>4, <2>5, <3>1
            DEF WiFiNext, RouterChanges, Drop, Reconnect, Request, EnterWLogin,
                FormatFileSystem, LoginFails, Pair, Unpair, ApWatchdog, flash, wifi
  <2>7. \E c \in Cred : LoginFails(c)
    BY <2>2, <2>4, <2>5, <2>6
       DEF WiFiNext, RouterChanges, Drop, Reconnect, Request, EnterWLogin, FormatFileSystem,
           Pair, Unpair, ApWatchdog, flash, wifi
  <2>8. UNCHANGED <<dog, known>>
    BY <2>7 DEF LoginFails
  <2> QED BY <2>1, <2>6, <2>7, <2>8
<1> QED BY <1>1, Consistent, PTL DEF WiFiSpec, OnlyLoginStrands

-----------------------------------------------------------------------------
(* The secure channel.                                                      *)

-----------------------------------------------------------------------------
(* Recursion and induction over the natural numbers.                        *)

\* A set of natural numbers has a least member.
LEMMA LeastOf ==
  ASSUME NEW S, S \subseteq Nat, S # {}
  PROVE  \E x \in S : x \in Nat /\ \A y \in S : x <= y
<1>1. PICK x \in S : \A y \in S : ~(<<y, x>> \in OpToRel(<, Nat))
  BY NatLessThanWellFounded, WFMin
<1>2. ASSUME NEW y \in S, ~(x <= y) PROVE FALSE
  <2>1. x \in Nat /\ y \in Nat /\ y < x
    BY <1>2
  <2>2. <<y, x>> \in OpToRel(<, Nat)
    BY <2>1 DEF OpToRel
  <2> QED BY <1>1, <2>2
<1> QED BY <1>2

\* Induction up to n, over the set of the numbers of which something holds.
LEMMA UpTo ==
  ASSUME NEW n \in Nat, NEW T, 0 \in T, \A i \in 0 .. n - 1 : i \in T => i + 1 \in T
  PROVE  \A i \in 0 .. n : i \in T
<1> DEFINE bad == {i \in 0 .. n : i \notin T}
<1> SUFFICES ASSUME bad # {} PROVE FALSE
  OBVIOUS
<1>1. PICK m \in bad : m \in Nat /\ \A y \in bad : m <= y
  <2>1. bad \subseteq Nat
    OBVIOUS
  <2> HIDE DEF bad
  <2> QED BY <2>1, LeastOf
<1>2. m \in 1 .. n
  BY <1>1
<1>3. m - 1 \in 0 .. n - 1 /\ m - 1 \in T
  BY <1>1, <1>2
<1>4. (m - 1) + 1 \in T
  BY <1>3
<1> QED BY <1>1, <1>2, <1>4

\* A function on 1 .. n is a sequence of length n.
LEMMA SequenceOf ==
  ASSUME NEW S, NEW n \in Nat, NEW s \in [1 .. n -> S]
  PROVE  s \in Seq(S) /\ Len(s) = n /\ DOMAIN s = 1 .. n
OBVIOUS

\* Where the items of two sequences are in the joined one.
LEMMA Concatenated ==
  ASSUME NEW S, NEW s \in Seq(S), NEW t \in Seq(S)
  PROVE  /\ s \o t \in Seq(S) /\ Len(s \o t) = Len(s) + Len(t)
         /\ Len(s) \in Nat /\ Len(t) \in Nat
         /\ DOMAIN s = 1 .. Len(s) /\ DOMAIN t = 1 .. Len(t)
         /\ DOMAIN (s \o t) = 1 .. Len(s) + Len(t)
         /\ \A i \in 1 .. Len(s) : (s \o t)[i] = s[i]
         /\ \A i \in 1 .. Len(t) : (s \o t)[Len(s) + i] = t[i]
OBVIOUS

\* f starts with x and goes on with step up to n.
IsRun(f, n, x, step) == f[0] = x /\ \A i \in 1 .. n : f[i] = step[<<i, f[i - 1]>>]

\* A function that is defined by recursion up to n exists if every step stays in a set.
LEMMA RecursionExists ==
  ASSUME NEW S, NEW n \in Nat, NEW x \in S, NEW step \in [(1 .. n) \X S -> S]
  PROVE  \E f \in [0 .. n -> S] : IsRun(f, n, x, step)
<1> USE DEF IsRun
<1> DEFINE T == {m \in 0 .. n : \E f \in [0 .. m -> S] : IsRun(f, m, x, step)}
<1>1. 0 \in T
  <2> DEFINE g == [i \in 0 .. 0 |-> x]
  <2>1. g \in [0 .. 0 -> S] /\ g[0] = x /\ 1 .. 0 = {}
    OBVIOUS
  <2>2. \E f \in [0 .. 0 -> S] : IsRun(f, 0, x, step)
    <3> HIDE DEF g
    <3> QED BY <2>1
  <2> QED BY <2>2
<1>2. ASSUME NEW m \in 0 .. n - 1, m \in T PROVE m + 1 \in T
  <2>1. PICK f \in [0 .. m -> S] : IsRun(f, m, x, step)
    BY <1>2
  <2> DEFINE g == [i \in 0 .. m + 1 |-> IF i = m + 1 THEN step[<<m + 1, f[m]>>] ELSE f[i]]
  <2>2. m \in Nat /\ m + 1 \in 1 .. n /\ f[m] \in S
    OBVIOUS
  <2>3. g \in [0 .. m + 1 -> S]
    BY <2>2
  <2>4. ASSUME NEW i \in 1 .. m + 1 PROVE g[i] = step[<<i, g[i - 1]>>]
    <3>1. g[i - 1] = f[i - 1]
      BY <2>2
    <3>2. CASE i = m + 1
      <4>1. i - 1 = m /\ g[i] = step[<<m + 1, f[m]>>] /\ g[m] = f[m]
        BY <2>2, <3>1, <3>2
      <4> QED BY <3>2, <4>1
    <3>3. CASE i # m + 1
      BY <2>1, <2>2, <3>1, <3>3
    <3> QED BY <3>2, <3>3
  <2>5. g[0] = x
    BY <2>1, <2>2
  <2>6. \E h \in [0 .. m + 1 -> S] : IsRun(h, m + 1, x, step)
    <3> HIDE DEF g
    <3> QED BY <2>3, <2>4, <2>5
  <2>7. m + 1 \in 0 .. n
    OBVIOUS
  <2> QED BY <2>6, <2>7
<1>3. n \in T
  <2> HIDE DEF T
  <2> QED BY <1>1, <1>2, UpTo
<1> QED BY <1>3

-----------------------------------------------------------------------------
(* The requests and the parser.                                             *)

\* The first requests are those of pair-verify, the others are for an endpoint.
SentOK ==
  /\ sent \in Seq(Endpoint \cup Range(Verify))
  /\ \A m \in 3 .. Len(sent) : sent[m] \in Endpoint

Messages == 1 .. Len(sent)

\* What a plain text holds of the messages in M.
PlainUnits(M) == {Junk} \cup (M \X (Nat \ {0}))

Requests(M) == [of : M, intact : BOOLEAN]

ParserFields(M) ==
  [at : {"start", "body", "error"}, of : Nat, left : Int, intact : BOOLEAN, done : Seq(Requests(M))]

ParserStates(M) ==
  {p \in ParserFields(M) : p.at = "body" => p.of \in M /\ p.left > 0}

\* The parser has taken c units of message m.
Reached(m, c) ==
  IF c = 0 THEN NoRequest
  ELSE [at |-> "body", of |-> m, left |-> UnitsOf(m) - c, intact |-> TRUE, done |-> << >>]

\* A request has at least one unit.
LEMMA UnitsTyped ==
  ASSUME SentOK
  PROVE  \A m \in Messages : UnitsOf(m) \in Nat \ {0}
<1> SUFFICES ASSUME NEW m \in Messages PROVE UnitsOf(m) \in Nat \ {0}
  OBVIOUS
<1>1. Len(sent) \in Nat /\ Len(Verify) = 2
  BY DEF SentOK, Verify
<1>2. CASE m <= 2
  BY <1>1, <1>2 DEF UnitsOf
<1>3. CASE m > 2
  <2>1. sent[m] \in Endpoint
    BY <1>1, <1>3 DEF SentOK, Messages
  <2> QED BY <1>1, <1>3, <2>1, EndpointAssumption DEF UnitsOf, EndpointAssumption, Messages
<1> QED BY <1>1, <1>2, <1>3 DEF Messages

\* An idle parser is a state of the parser.
LEMMA NoRequestTyped ==
  ASSUME NEW M
  PROVE  NoRequest \in ParserStates(M)
  BY DEF NoRequest, ParserStates, ParserFields

\* A unit leaves the parser within a request, or completes it.
LEMMA TakeTyped ==
  ASSUME NEW M, M \subseteq Nat, NEW p \in ParserStates(M), NEW m \in M, NEW b \in BOOLEAN,
         NEW left \in Int
  PROVE  Take(p, m, b, left) \in ParserStates(M)
<1>1. m \in Nat /\ [of |-> m, intact |-> b] \in Requests(M) /\ p \in ParserFields(M)
  BY DEF Requests, ParserStates
<1>2. CASE left > 0
  BY <1>1, <1>2 DEF Take, ParserStates, ParserFields
<1>3. CASE ~(left > 0)
  <2>1. Append(p.done, [of |-> m, intact |-> b]) \in Seq(Requests(M))
    BY <1>1 DEF ParserFields
  <2> DEFINE d == Append(p.done, [of |-> m, intact |-> b])
  <2>2. Take(p, m, b, left) = [NoRequest EXCEPT !.done = d]
    BY <1>3 DEF Take
  <2>3. d \in Seq(Requests(M))
    BY <2>1
  <2> HIDE DEF d
  <2>4. [NoRequest EXCEPT !.done = d] \in
          [at : {"start"}, of : {0}, left : {0}, intact : BOOLEAN, done : {d}]
    BY DEF NoRequest
  <2>5. [at : {"start"}, of : {0}, left : {0}, intact : BOOLEAN, done : {d}]
          \subseteq ParserStates(M)
    BY <2>3 DEF ParserStates, ParserFields
  <2> QED BY <2>2, <2>4, <2>5
<1> QED BY <1>2, <1>3

\* The parser stays within the messages of the units it is given.
LEMMA UnitTyped ==
  ASSUME SentOK, NEW M, M \subseteq Messages, NEW p \in ParserStates(M),
         NEW u \in PlainUnits(M), NEW blank
  PROVE  ParseUnit(p, u, blank) \in ParserStates(M)
<1>1. M \subseteq Nat /\ p \in ParserFields(M) /\ p.at \in {"start", "body", "error"}
  BY DEF SentOK, Messages, ParserStates, ParserFields
<1>2. [p EXCEPT !.at = "error"] \in ParserStates(M)
  BY <1>1 DEF ParserStates, ParserFields
<1>3. CASE p.at = "start" /\ u # Junk /\ u[2] = 1
  <2>1. u[1] \in M
    BY <1>3 DEF PlainUnits
  <2>2. UnitsOf(u[1]) - 1 \in Int
    BY <2>1, UnitsTyped
  <2>3. ParseUnit(p, u, blank) = Take(p, u[1], TRUE, UnitsOf(u[1]) - 1)
    BY <1>3 DEF ParseUnit
  <2> HIDE DEF Messages
  <2> QED BY <1>1, <2>1, <2>2, <2>3, TakeTyped
<1>4. CASE p.at = "body"
  <2> DEFINE b == p.intact /\ u = <<p.of, UnitsOf(p.of) - p.left + 1>>
  <2>1. p.of \in M /\ b \in BOOLEAN /\ p.left - 1 \in Int
    BY <1>1, <1>4 DEF ParserStates, ParserFields
  <2>2. ParseUnit(p, u, blank) = Take(p, p.of, b, p.left - 1)
    BY <1>4 DEF ParseUnit
  <2> HIDE DEF b, Messages
  <2> QED BY <1>1, <2>1, <2>2, TakeTyped
<1>5. CASE ~(p.at = "start" /\ u # Junk /\ u[2] = 1) /\ p.at # "body"
  BY <1>1, <1>2, <1>5 DEF ParseUnit
<1> QED BY <1>3, <1>4, <1>5

\* Parse goes through the states f of the parser.
ParserRun(f, p, units, blank) ==
  /\ f[0] = p
  /\ \A i \in 1 .. Len(units) : f[i] = ParseUnit(f[i - 1], units[i], blank)
  /\ Parse(p, units, blank) =
       IF units = << >> /\ p.at = "body" THEN [p EXCEPT !.at = "error"] ELSE f[Len(units)]

\* Parse is defined by recursion: it exists.
LEMMA ParseIs ==
  ASSUME SentOK, NEW M, M \subseteq Messages, NEW p \in ParserStates(M),
         NEW units \in Seq(PlainUnits(M)), NEW blank
  PROVE  \E f \in [0 .. Len(units) -> ParserStates(M)] : ParserRun(f, p, units, blank)
<1> DEFINE n == Len(units)
           S == ParserStates(M)
           step == [x \in (1 .. n) \X S |-> ParseUnit(x[2], units[x[1]], blank)]
           After == CHOOSE f : f = [i \in 0 .. n |->
                                     IF i = 0 THEN p ELSE ParseUnit(f[i - 1], units[i], blank)]
           T == {i \in 0 .. n : After[i] \in S}
<1>1. n \in Nat /\ \A i \in 1 .. n : units[i] \in PlainUnits(M)
  OBVIOUS
<1>2. \A i \in 1 .. n : \A q \in S : ParseUnit(q, units[i], blank) \in S
  BY <1>1, UnitTyped
<1>3. step \in [(1 .. n) \X S -> S] /\ p \in S
  BY <1>2
<1>4. PICK r \in [0 .. n -> S] : IsRun(r, n, p, step)
  <2> HIDE DEF n, S, step
  <2> QED BY <1>1, <1>3, RecursionExists
<1>5. r = [i \in 0 .. n |-> IF i = 0 THEN p ELSE ParseUnit(r[i - 1], units[i], blank)]
  <2> SUFFICES ASSUME NEW i \in 0 .. n
               PROVE  r[i] = IF i = 0 THEN p ELSE ParseUnit(r[i - 1], units[i], blank)
    BY <1>4
  <2>1. CASE i = 0
    BY <1>4, <2>1 DEF IsRun
  <2>2. CASE i # 0
    <3>1. i \in 1 .. n /\ r[i - 1] \in S
      BY <1>1, <1>4, <2>2
    <3> QED BY <1>4, <2>2, <3>1 DEF IsRun
  <2> QED BY <2>1, <2>2
<1>6. After = [i \in 0 .. n |-> IF i = 0 THEN p ELSE ParseUnit(After[i - 1], units[i], blank)]
  <2> HIDE DEF n, S
  <2> QED BY <1>5
<1>7. /\ After[0] = p
      /\ \A i \in 1 .. n : After[i] = ParseUnit(After[i - 1], units[i], blank)
  <2> HIDE DEF After
  <2> QED BY <1>1, <1>6
<1>8. \A i \in 0 .. n : After[i] \in S
  <2> HIDE DEF After, S
  <2>1. 0 \in T
    BY <1>1, <1>7 DEF S
  <2>2. ASSUME NEW i \in 0 .. n - 1, i \in T PROVE i + 1 \in T
    <3>1. i + 1 \in 1 .. n /\ (i + 1) - 1 = i
      BY <1>1
    <3> QED BY <1>2, <1>7, <2>2, <3>1
  <2> HIDE DEF T
  <2>3. \A i \in 0 .. n : i \in T
    BY <1>1, <2>1, <2>2, UpTo
  <2> QED BY <2>3 DEF T
<1>9. Parse(p, units, blank) =
        IF units = << >> /\ p.at = "body" THEN [p EXCEPT !.at = "error"] ELSE After[n]
  BY DEF Parse
<1>10. After \in [0 .. n -> S]
  <2> HIDE DEF After, S
  <2> QED BY <1>6, <1>8
<1> HIDE DEF After
<1> QED BY <1>7, <1>9, <1>10 DEF ParserRun

\* A request that was sent is complete.
Completed(m) == [NoRequest EXCEPT !.done = <<[of |-> m, intact |-> TRUE]>>]

\* A parser that has taken c units of a request, short of the last, is a state of it.
LEMMA ReachedTyped ==
  ASSUME SentOK, NEW M, M \subseteq Messages, NEW m \in M, NEW c \in Nat, c < UnitsOf(m)
  PROVE  /\ Reached(m, c) \in ParserStates(M)
         /\ Reached(m, c).done = << >> /\ Reached(m, c).at # "error"
<1>1. UnitsOf(m) \in Nat /\ m \in Nat
  BY UnitsTyped DEF SentOK, Messages
<1>2. CASE c = 0
  BY <1>2, NoRequestTyped DEF Reached, NoRequest
<1>3. CASE c # 0
  <2>1. UnitsOf(m) - c \in Int /\ UnitsOf(m) - c > 0 /\ << >> \in Seq(Requests(M))
    BY <1>1
  <2> QED BY <1>1, <1>3, <2>1 DEF Reached, ParserStates, ParserFields
<1> QED BY <1>2, <1>3

\* The next unit of a request is taken.
LEMMA NextUnitTaken ==
  ASSUME SentOK, NEW m \in Messages, NEW a \in Nat, a < UnitsOf(m), NEW blank
  PROVE  ParseUnit(Reached(m, a), <<m, a + 1>>, blank) =
           IF a + 1 = UnitsOf(m) THEN Completed(m) ELSE Reached(m, a + 1)
<1> DEFINE U == UnitsOf(m)
           r == [of |-> m, intact |-> TRUE]
           p == Reached(m, a)
<1>1. U \in Nat /\ m \in Nat /\ m >= 1
  BY UnitsTyped DEF SentOK, Messages
<1>2. p.done = << >>
  BY DEF Reached, NoRequest
<1>3. ParseUnit(p, <<m, a + 1>>, blank) = Take(p, m, TRUE, U - (a + 1))
  <2>1. CASE a = 0
    <3>1. p.at = "start" /\ <<m, a + 1>> # Junk /\ <<m, a + 1>>[2] = 1 /\ <<m, a + 1>>[1] = m
      BY <1>1, <2>1 DEF Reached, NoRequest, Junk
    <3> QED BY <2>1, <3>1 DEF ParseUnit
  <2>2. CASE a # 0
    <3>1. p.at = "body" /\ p.of = m /\ p.left = U - a /\ p.intact = TRUE
      BY <2>2 DEF Reached
    <3>2. U - (U - a) + 1 = a + 1 /\ (U - a) - 1 = U - (a + 1)
      BY <1>1
    <3>3. ParseUnit(p, <<m, a + 1>>, blank) =
            Take(p, p.of, p.intact /\ <<m, a + 1>> = <<p.of, UnitsOf(p.of) - p.left + 1>>,
                 p.left - 1)
      BY <3>1 DEF ParseUnit
    <3> QED BY <3>1, <3>2, <3>3
  <2> QED BY <2>1, <2>2
<1>4. CASE a + 1 = U
  <2>1. Take(p, m, TRUE, U - (a + 1)) = [NoRequest EXCEPT !.done = Append(p.done, r)]
    BY <1>1, <1>4 DEF Take
  <2>2. Append(<< >>, r) = <<r>>
    OBVIOUS
  <2> QED BY <1>2, <1>3, <1>4, <2>1, <2>2 DEF Completed
<1>5. CASE a + 1 # U
  <2>1. U - (a + 1) > 0 /\ a + 1 # 0
    BY <1>1, <1>5
  <2>2. Take(p, m, TRUE, U - (a + 1)) =
          [p EXCEPT !.at = "body", !.of = m, !.intact = TRUE, !.left = U - (a + 1)]
    BY <2>1 DEF Take
  <2>3. [p EXCEPT !.at = "body", !.of = m, !.intact = TRUE, !.left = U - (a + 1)] \in
          [at : {"body"}, of : {m}, left : {U - (a + 1)}, intact : {TRUE}, done : {<< >>}]
    BY DEF Reached, NoRequest
  <2>4. Reached(m, a + 1) = [at |-> "body", of |-> m, left |-> U - (a + 1), intact |-> TRUE,
                            done |-> << >>]
    BY <2>1 DEF Reached
  <2> DEFINE q == Take(p, m, TRUE, U - (a + 1))
  <2>5. q \in [at : {"body"}, of : {m}, left : {U - (a + 1)}, intact : {TRUE}, done : {<< >>}]
    BY <2>2, <2>3
  <2> HIDE DEF q
  <2>6. q = Reached(m, a + 1)
    BY <2>4, <2>5
  <2> QED BY <1>3, <1>5, <2>6 DEF q
<1> QED BY <1>4, <1>5

\* n units of a request, after a others.
Piece(m, a, n) == [k \in 1 .. n |-> <<m, a + k>>]

\* A piece of a request as it was sent brings the parser to the end of the piece.
LEMMA PieceParsed ==
  ASSUME SentOK, NEW m \in Messages, NEW a \in Nat, NEW n \in Nat \ {0},
         a + n <= UnitsOf(m), NEW units, units = Piece(m, a, n), NEW blank
  PROVE  Parse(Reached(m, a), units, blank) =
           IF a + n = UnitsOf(m) THEN Completed(m) ELSE Reached(m, a + n)
<1> DEFINE U == UnitsOf(m)
           After(i) == IF a + i = U THEN Completed(m) ELSE Reached(m, a + i)
<1> USE DEF Piece
<1>1. U \in Nat /\ m \in Nat /\ m >= 1 /\ a < U
  BY UnitsTyped DEF SentOK, Messages
<1>2. units \in Seq(PlainUnits(Messages)) /\ Len(units) = n /\ units # << >>
  <2>1. units \in [1 .. n -> PlainUnits(Messages)] /\ n \in Nat
    BY <1>1 DEF PlainUnits
  <2> HIDE DEF Messages
  <2>2. units \in Seq(PlainUnits(Messages)) /\ Len(units) = n
    BY <2>1, SequenceOf
  <2> QED BY <2>2
<1>3. PICK f \in [0 .. n -> ParserStates(Messages)] :
        /\ f[0] = Reached(m, a)
        /\ \A i \in 1 .. n : f[i] = ParseUnit(f[i - 1], units[i], blank)
        /\ Parse(Reached(m, a), units, blank) = f[n]
  <2> DEFINE p == Reached(m, a)
  <2>1. p \in ParserStates(Messages)
    BY <1>1, ReachedTyped
  <2> HIDE DEF p
  <2>2. \E f \in [0 .. Len(units) -> ParserStates(Messages)] : ParserRun(f, p, units, blank)
    BY <1>2, <2>1, ParseIs
  <2> QED BY <1>2, <2>2 DEF p, ParserRun
<1> DEFINE T == {i \in 0 .. n : f[i] = After(i)}
<1>4. 0 \in T
  BY <1>1, <1>3
<1>5. ASSUME NEW i \in 0 .. n - 1, i \in T PROVE i + 1 \in T
  <2>1. a + i < U /\ a + i \in Nat /\ i + 1 \in 1 .. n /\ (i + 1) - 1 = i
    BY <1>1
  <2>2. f[i] = Reached(m, a + i)
    BY <1>5, <2>1
  <2>3. units[i + 1] = <<m, (a + i) + 1>>
    BY <2>1
  <2>4. f[i + 1] = ParseUnit(Reached(m, a + i), <<m, (a + i) + 1>>, blank)
    BY <1>3, <2>1, <2>2, <2>3
  <2>5. f[i + 1] = After(i + 1)
    BY <2>1, <2>4, NextUnitTaken
  <2> QED BY <2>1, <2>5
<1>6. n \in T
  <2>1. n \in Nat /\ n \in 0 .. n
    OBVIOUS
  <2> HIDE DEF T
  <2>2. \A i \in 0 .. n : i \in T
    BY <1>4, <1>5, <2>1, UpTo
  <2> QED BY <2>1, <2>2
<1> QED BY <1>3, <1>6

-----------------------------------------------------------------------------
(* The frames and their decryption.                                         *)

\* The requests of the encrypted session.
Later == 3 .. Len(sent)

\* The frames carry these requests, each a piece of one, one after the other.
FrameOK(f) ==
  LET this == frames[f]
      next == frames[f + 1]
      ends == this.from + this.n - 1 = UnitsOf(this.of)
  IN  /\ this.from + this.n - 1 <= UnitsOf(this.of)
      /\ f = Len(frames) => ends /\ this.of = Len(sent)
      /\ f < Len(frames) =>
           \/ next.of = this.of /\ next.from = this.from + this.n
           \/ next.of = this.of + 1 /\ next.from = 1 /\ ends

FrameRecords == [of : Later, from : Nat \ {0}, n : 1 .. MaxChunk]

FramesOK == frames \in Seq(FrameRecords) /\ \A f \in DOMAIN frames : FrameOK(f)

BlockStates(n) == [used : 0 .. n, count : Nat, plain : [1 .. PlainSize(n) -> PlainUnits(Later)]]

\* What malloc hands out holds units of the requests that have been decrypted before, or junk.
LEMMA BlockTyped ==
  ASSUME heap \in Seq(PlainUnits(Later)), NEW n \in Nat
  PROVE  Block(n) \in [1 .. PlainSize(n) -> PlainUnits(Later)]
<1> DEFINE V == PlainUnits(Later)
<1>1. Junk \in V
  BY DEF PlainUnits
<1> HIDE DEF V
<1>2. heap \in Seq(V)
  BY DEF V
<1>3. PlainSize(n) \in Int
  BY DEF PlainSize, Overhead
<1>4. \A k \in 1 .. PlainSize(n) : k <= Len(heap) => heap[k] \in V
  BY <1>2, <1>3
<1>5. Block(n) \in [1 .. PlainSize(n) -> V]
  BY <1>1, <1>4 DEF Block
<1> QED BY <1>5 DEF V

\* The units of a frame are units of a request of the session.
LEMMA FrameUnitsTyped ==
  ASSUME FramesOK, NEW f \in DOMAIN frames
  PROVE  /\ frames[f] \in FrameRecords
         /\ FrameUnits(f) \in [1 .. frames[f].n -> PlainUnits(Later)]
<1>1. frames[f] \in FrameRecords
  <2> HIDE DEF FrameRecords
  <2> QED BY DEF FramesOK
<1>2. \A k \in 1 .. frames[f].n : frames[f].from + k - 1 \in Nat \ {0}
  BY <1>1, ChunkAssumption DEF FrameRecords, ChunkAssumption
<1>3. frames[f].of \in Later
  BY <1>1 DEF FrameRecords
<1> HIDE DEF Later
<1> QED BY <1>1, <1>2, <1>3 DEF FrameUnits, PlainUnits

\* A turn of the loop of client_decrypt_ stays within the bytes it was given.
LEMMA DecryptedTyped ==
  ASSUME FramesOK, NEW n \in Nat, NEW r \in BlockStates(n), NEW buf
  PROVE  Decrypted(r, buf, n) \in BlockStates(n)
<1> DEFINE c == r.count
<1>1. CASE ~IsThere(buf, n, r.used, c)
  BY <1>1 DEF Decrypted
<1>2. CASE IsThere(buf, n, r.used, c)
  <2>1. c \in DOMAIN frames /\ r.used + frames[c].n + Overhead <= n
    BY <1>2 DEF IsThere
  <2>2. frames[c] \in FrameRecords /\ FrameUnits(c) \in [1 .. frames[c].n -> PlainUnits(Later)]
    BY <2>1, FrameUnitsTyped
  <2>3. frames[c].n \in Nat /\ c \in Nat /\ r.used \in Nat
        /\ r.plain \in [1 .. PlainSize(n) -> PlainUnits(Later)]
    BY <2>2, ChunkAssumption DEF FrameRecords, BlockStates, ChunkAssumption
  <2>4. PlainSize(n) \in Int
    BY DEF PlainSize, Overhead
  <2> HIDE DEF c
  <2>5. Overlaid(c, r.plain) \in [1 .. PlainSize(n) -> PlainUnits(Later)]
    BY <2>2, <2>3, <2>4 DEF Overlaid
  <2>6. r.used + frames[c].n + Overhead \in 0 .. n
    BY <2>1, <2>3 DEF Overhead
  <2>7. Decrypted(r, buf, n) = [used |-> r.used + frames[c].n + Overhead, count |-> c + 1,
                                plain |-> Overlaid(c, r.plain)]
    BY <1>2 DEF Decrypted, c
  <2> QED BY <2>3, <2>5, <2>6, <2>7 DEF BlockStates
<1> QED BY <1>1, <1>2

\* Decrypt goes through the states f of the block.
DecryptRun(f, buf, n) ==
  /\ f[0] = [used |-> 0, count |-> writes, plain |-> Block(n)]
  /\ \A i \in 1 .. n : f[i] = Decrypted(f[i - 1], buf, n)
  /\ Decrypt(buf, n) = f[n]

\* Decrypt is defined by recursion: it exists.
LEMMA DecryptIs ==
  ASSUME FramesOK, heap \in Seq(PlainUnits(Later)), writes \in Nat, NEW n \in Nat, NEW buf
  PROVE  \E f \in [0 .. n -> BlockStates(n)] : DecryptRun(f, buf, n)
<1> DEFINE S == BlockStates(n)
           x == [used |-> 0, count |-> writes, plain |-> Block(n)]
           step == [y \in (1 .. n) \X S |-> Decrypted(y[2], buf, n)]
           After == CHOOSE f : f = [i \in 0 .. n |->
                                     IF i = 0 THEN x ELSE Decrypted(f[i - 1], buf, n)]
           T == {i \in 0 .. n : After[i] \in S}
<1>1. x \in S
  BY BlockTyped DEF BlockStates
<1>2. \A r \in S : Decrypted(r, buf, n) \in S
  BY DecryptedTyped
<1>3. Decrypt(buf, n) = After[n]
  BY DEF Decrypt
<1> HIDE DEF S, x
<1>4. step \in [(1 .. n) \X S -> S]
  BY <1>2
<1>5. PICK r \in [0 .. n -> S] : IsRun(r, n, x, step)
  <2> HIDE DEF step
  <2> QED BY <1>1, <1>4, RecursionExists
<1>6. r = [i \in 0 .. n |-> IF i = 0 THEN x ELSE Decrypted(r[i - 1], buf, n)]
  <2> SUFFICES ASSUME NEW i \in 0 .. n
               PROVE  r[i] = IF i = 0 THEN x ELSE Decrypted(r[i - 1], buf, n)
    BY <1>5
  <2>1. CASE i = 0
    BY <1>5, <2>1 DEF IsRun
  <2>2. CASE i # 0
    <3>1. i \in 1 .. n /\ r[i - 1] \in S
      BY <1>5, <2>2
    <3> QED BY <1>5, <2>2, <3>1 DEF IsRun
  <2> QED BY <2>1, <2>2
<1>7. After = [i \in 0 .. n |-> IF i = 0 THEN x ELSE Decrypted(After[i - 1], buf, n)]
  BY <1>6
<1> HIDE DEF After
<1>8. After[0] = x /\ \A i \in 1 .. n : After[i] = Decrypted(After[i - 1], buf, n)
  BY <1>7
<1>9. \A i \in 0 .. n : After[i] \in S
  <2>1. 0 \in T
    BY <1>1, <1>8
  <2>2. ASSUME NEW i \in 0 .. n - 1, i \in T PROVE i + 1 \in T
    <3>1. i + 1 \in 1 .. n /\ (i + 1) - 1 = i
      OBVIOUS
    <3> QED BY <1>2, <1>8, <2>2, <3>1
  <2> HIDE DEF T
  <2>3. \A i \in 0 .. n : i \in T
    BY <2>1, <2>2, UpTo
  <2> QED BY <2>3 DEF T
<1>10. After \in [0 .. n -> S]
  BY <1>7, <1>9
<1> QED BY <1>3, <1>8, <1>10 DEF DecryptRun, S, x

\* So does the loop, and the block it fills holds units of the session only.
LEMMA DecryptTyped ==
  ASSUME FramesOK, heap \in Seq(PlainUnits(Later)), writes \in Nat, NEW n \in Nat, NEW buf
  PROVE  Decrypt(buf, n) \in BlockStates(n)
<1>1. PICK f \in [0 .. n -> BlockStates(n)] : DecryptRun(f, buf, n)
  BY DecryptIs
<1>2. f[n] \in BlockStates(n)
  OBVIOUS
<1> QED BY <1>1, <1>2 DEF DecryptRun

\* A buffer that holds the next frame, and nothing else, is decrypted to what the frame carries.
LEMMA FrameDecrypted ==
  ASSUME FramesOK, heap \in Seq(PlainUnits(Later)), writes \in DOMAIN frames, NEW n, NEW buf,
         n = frames[writes].n + Overhead,
         \A k \in 0 .. frames[writes].n + 1 : buf[k + 1] = <<writes, k>>
  PROVE  Decrypt(buf, n) = [used |-> n, count |-> writes + 1, plain |-> FrameUnits(writes)]
<1> DEFINE size == frames[writes].n
           r0 == [used |-> 0, count |-> writes, plain |-> Block(n)]
           r1 == [used |-> n, count |-> writes + 1, plain |-> FrameUnits(writes)]
<1>1. frames[writes] \in FrameRecords /\ size \in Nat /\ size >= 1 /\ writes \in Nat
  BY FrameUnitsTyped, ChunkAssumption DEF FrameRecords, ChunkAssumption, FramesOK
<1>2. n \in Nat /\ n >= 1 /\ PlainSize(n) = size
  BY <1>1 DEF PlainSize, Overhead
<1>3. PICK f \in [0 .. n -> BlockStates(n)] : DecryptRun(f, buf, n)
  BY <1>1, <1>2, DecryptIs
<1>4. Decrypted(r0, buf, n) = r1
  <2>1. IsThere(buf, n, 0, writes)
    BY <1>1, <1>2 DEF IsThere, Overhead
  <2>2. Block(n) \in [1 .. size -> PlainUnits(Later)]
    BY <1>2, BlockTyped
  <2>3. Overlaid(writes, Block(n)) = [k \in 1 .. size |-> FrameUnits(writes)[k]]
    BY <1>1, <2>2 DEF Overlaid
  <2>4. FrameUnits(writes) = [k \in 1 .. size |-> FrameUnits(writes)[k]]
    BY DEF FrameUnits
  <2>5. Decrypted(r0, buf, n) = [used |-> 0 + size + Overhead, count |-> writes + 1,
                                 plain |-> Overlaid(writes, Block(n))]
    BY <2>1 DEF Decrypted
  <2>6. 0 + size + Overhead = n
    BY <1>1 DEF Overhead
  <2> QED BY <2>3, <2>4, <2>5, <2>6
<1>5. Decrypted(r1, buf, n) = r1
  <2>1. ~IsThere(buf, n, n, writes + 1)
    <3> SUFFICES ASSUME writes + 1 \in DOMAIN frames,
                        n + frames[writes + 1].n + Overhead <= n
                 PROVE  FALSE
      BY DEF IsThere
    <3>1. frames[writes + 1].n \in Nat
      BY FrameUnitsTyped, ChunkAssumption DEF FrameRecords, ChunkAssumption
    <3> QED BY <1>2, <3>1 DEF Overhead
  <2> QED BY <2>1 DEF Decrypted
<1> DEFINE T == {i \in 0 .. n : i = 0 \/ f[i] = r1}
<1>6. 0 \in T
  BY <1>2
<1>7. ASSUME NEW i \in 0 .. n - 1, i \in T PROVE i + 1 \in T
  <2>1. i + 1 \in 1 .. n /\ (i + 1) - 1 = i
    BY <1>2
  <2>2. f[i + 1] = Decrypted(f[i], buf, n)
    BY <1>3, <2>1 DEF DecryptRun
  <2>3. f[0] = r0
    BY <1>3 DEF DecryptRun
  <2> HIDE DEF r0, r1
  <2>4. f[i + 1] = r1
    BY <1>4, <1>5, <1>7, <2>2, <2>3
  <2> QED BY <2>1, <2>4
<1>8. n \in T
  <2> HIDE DEF T
  <2>1. \A i \in 0 .. n : i \in T
    BY <1>2, <1>6, <1>7, UpTo
  <2> QED BY <1>2, <2>1
<1> HIDE DEF r1
<1>9. f[n] = r1
  BY <1>2, <1>8
<1> QED BY <1>3, <1>9 DEF DecryptRun, r1

-----------------------------------------------------------------------------
(* The answers.                                                             *)

BackFrames == [enc : BOOLEAN, nr : Nat, last : BOOLEAN, opens : BOOLEAN]

\* An answer: encrypted frames to a request of the session, one in the clear to pair-verify.
LEMMA AnswerTyped ==
  ASSUME SentOK, NEW m \in Messages, NEW nr \in Nat
  PROVE  /\ AnswerTo(m, nr) \in Seq(BackFrames) /\ Len(AnswerTo(m, nr)) >= 1
         /\ m \in Later => AnswerTo(m, nr) = Encrypted(sent[m], nr) /\ sent[m] \in Endpoint
         /\ m \notin Later => AnswerTo(m, nr) = <<ClearAnswer(m)>>
<1>1. Len(sent) \in Nat /\ Len(Verify) = 2 /\ m \in Nat /\ m >= 1 /\ m <= Len(sent)
  BY DEF SentOK, Verify, Messages
<1>2. CASE m \in Later
  <2>1. sent[m] \in Endpoint /\ m > 2
    BY <1>1, <1>2 DEF SentOK, Later
  <2>2. Answers[sent[m]] \in Nat \ {0}
    BY <2>1, EndpointAssumption DEF EndpointAssumption
  <2>3. AnswerTo(m, nr) = Encrypted(sent[m], nr)
    BY <1>1, <2>1 DEF AnswerTo
  <2>4. Encrypted(sent[m], nr) \in [1 .. Answers[sent[m]] -> BackFrames]
    BY <2>2 DEF Encrypted, BackFrames
  <2> HIDE DEF BackFrames
  <2>5. AnswerTo(m, nr) \in Seq(BackFrames) /\ Len(AnswerTo(m, nr)) = Answers[sent[m]]
    BY <2>2, <2>3, <2>4, SequenceOf
  <2> QED BY <1>2, <2>1, <2>2, <2>3, <2>5
<1>3. CASE m \notin Later
  <2>1. m <= 2 /\ AnswerTo(m, nr) = <<ClearAnswer(m)>>
    BY <1>1, <1>3 DEF Later, AnswerTo
  <2>2. ClearAnswer(m) \in BackFrames
    BY DEF ClearAnswer, BackFrames
  <2> HIDE DEF BackFrames
  <2>3. <<ClearAnswer(m)>> \in Seq(BackFrames) /\ Len(<<ClearAnswer(m)>>) = 1
    BY <2>2
  <2> QED BY <1>3, <2>1, <2>3
<1> QED BY <1>2, <1>3

AnswerStates == [out : Seq(BackFrames), nr : Nat]

\* One more request of done is answered.
Answered(r, m) ==
  [out |-> r.out \o AnswerTo(m, r.nr),
   nr |-> IF AnswerTo(m, r.nr)[1].enc THEN r.nr + Len(AnswerTo(m, r.nr)) ELSE r.nr]

\* AnswersTo goes through the states f.
AnswerRun(f, done, nr) ==
  /\ f[0] = [out |-> << >>, nr |-> nr]
  /\ \A i \in 1 .. Len(done) : f[i] = Answered(f[i - 1], done[i].of)
  /\ AnswersTo(done, nr) = f[Len(done)]

\* So are the answers so far after one more request.
LEMMA AnsweredTyped ==
  ASSUME SentOK, NEW r \in AnswerStates, NEW m \in Messages
  PROVE  Answered(r, m) \in AnswerStates
<1> DEFINE a == AnswerTo(m, r.nr)
<1>1. a \in Seq(BackFrames) /\ r.out \in Seq(BackFrames) /\ r.nr \in Nat
  BY AnswerTyped DEF AnswerStates
<1> HIDE DEF a, BackFrames
<1>2. r.out \o a \in Seq(BackFrames) /\ r.nr + Len(a) \in Nat
  BY <1>1
<1> QED BY <1>1, <1>2 DEF Answered, AnswerStates, a

\* AnswersTo is defined by recursion: it exists.
LEMMA AnswersAre ==
  ASSUME SentOK, NEW done \in Seq(Requests(Messages)), NEW nr \in Nat
  PROVE  \E f \in [0 .. Len(done) -> AnswerStates] : AnswerRun(f, done, nr)
<1> DEFINE n == Len(done)
           S == AnswerStates
           x == [out |-> << >>, nr |-> nr]
           step == [y \in (1 .. n) \X S |-> Answered(y[2], done[y[1]].of)]
           After == CHOOSE f : f = [i \in 0 .. n |->
                                     IF i = 0 THEN x ELSE Answered(f[i - 1], done[i].of)]
           T == {i \in 0 .. n : After[i] \in S}
<1>1. x \in S /\ n \in Nat
  BY DEF AnswerStates
<1>2. \A i \in 1 .. n : \A r \in S : Answered(r, done[i].of) \in S
  <2> SUFFICES ASSUME NEW i \in 1 .. n, NEW r \in S PROVE Answered(r, done[i].of) \in S
    OBVIOUS
  <2>1. done[i].of \in Messages
    <3>1. done[i] \in Requests(Messages)
      OBVIOUS
    <3> QED BY <3>1 DEF Requests
  <2> QED BY <2>1, AnsweredTyped
<1>3. AnswersTo(done, nr) = After[n]
  BY DEF AnswersTo, Answered
<1> HIDE DEF S, x, n
<1>4. step \in [(1 .. n) \X S -> S]
  BY <1>2
<1>5. PICK r \in [0 .. n -> S] : IsRun(r, n, x, step)
  <2> HIDE DEF step
  <2> QED BY <1>1, <1>4, RecursionExists
<1>6. r = [i \in 0 .. n |-> IF i = 0 THEN x ELSE Answered(r[i - 1], done[i].of)]
  <2> SUFFICES ASSUME NEW i \in 0 .. n
               PROVE  r[i] = IF i = 0 THEN x ELSE Answered(r[i - 1], done[i].of)
    BY <1>5
  <2>1. CASE i = 0
    BY <1>5, <2>1 DEF IsRun
  <2>2. CASE i # 0
    <3>1. i \in 1 .. n /\ r[i - 1] \in S
      BY <1>1, <1>5, <2>2
    <3> QED BY <1>5, <2>2, <3>1 DEF IsRun
  <2> QED BY <2>1, <2>2
<1>7. After = [i \in 0 .. n |-> IF i = 0 THEN x ELSE Answered(After[i - 1], done[i].of)]
  BY <1>6
<1> HIDE DEF After
<1>8. After[0] = x /\ \A i \in 1 .. n : After[i] = Answered(After[i - 1], done[i].of)
  BY <1>1, <1>7
<1>9. \A i \in 0 .. n : After[i] \in S
  <2>1. 0 \in T
    BY <1>1, <1>8
  <2>2. ASSUME NEW i \in 0 .. n - 1, i \in T PROVE i + 1 \in T
    <3>1. i + 1 \in 1 .. n /\ (i + 1) - 1 = i
      BY <1>1
    <3> QED BY <1>2, <1>8, <2>2, <3>1
  <2> HIDE DEF T
  <2>3. \A i \in 0 .. n : i \in T
    BY <1>1, <2>1, <2>2, UpTo
  <2> QED BY <2>3 DEF T
<1>10. After \in [0 .. n -> S]
  BY <1>7, <1>9
<1> QED BY <1>3, <1>8, <1>10 DEF AnswerRun, S, x, n

\* No request, no answer.
LEMMA NoAnswer ==
  ASSUME SentOK, NEW nr \in Nat
  PROVE  AnswersTo(<< >>, nr) = [out |-> << >>, nr |-> nr]
<1>1. << >> \in Seq(Requests(Messages)) /\ Len(<< >>) = 0
  OBVIOUS
<1>2. \E f \in [0 .. Len(<< >>) -> AnswerStates] : AnswerRun(f, << >>, nr)
  <2> HIDE DEF Messages
  <2> QED BY <1>1, AnswersAre
<1> QED BY <1>1, <1>2 DEF AnswerRun

\* One request has one answer, and the counter moves if it is encrypted.
LEMMA OneAnswer ==
  ASSUME SentOK, NEW m \in Messages, NEW nr \in Nat
  PROVE  AnswersTo(Completed(m).done, nr) =
           [out |-> AnswerTo(m, nr),
            nr |-> IF m \in Later THEN nr + Answers[sent[m]] ELSE nr]
<1> DEFINE done == <<[of |-> m, intact |-> TRUE]>>
           r0 == [out |-> << >>, nr |-> nr]
           a == AnswerTo(m, nr)
<1>1. done \in Seq(Requests(Messages)) /\ Len(done) = 1 /\ done[1].of = m
  BY DEF Requests
<1>2. Completed(m).done = done
  BY DEF Completed, NoRequest
<1> HIDE DEF done
<1>3. \E f \in [0 .. Len(done) -> AnswerStates] : AnswerRun(f, done, nr)
  <2> HIDE DEF Messages
  <2> QED BY <1>1, AnswersAre
<1>4. AnswersTo(done, nr) = Answered(r0, m)
  BY <1>1, <1>3 DEF AnswerRun
<1>5. a \in Seq(BackFrames) /\ << >> \o a = a
  <2>1. a \in Seq(BackFrames)
    BY AnswerTyped
  <2> HIDE DEF a, BackFrames
  <2> QED BY <2>1
<1>6. (IF a[1].enc THEN nr + Len(a) ELSE nr) = IF m \in Later THEN nr + Answers[sent[m]] ELSE nr
  <2>1. CASE m \in Later
    <3>1. Answers[sent[m]] \in Nat \ {0} /\ a = Encrypted(sent[m], nr)
      BY <2>1, AnswerTyped, EndpointAssumption DEF EndpointAssumption
    <3>2. Len(a) = Answers[sent[m]] /\ a[1].enc
      BY <3>1 DEF Encrypted
    <3> QED BY <2>1, <3>2
  <2>2. CASE m \notin Later
    <3>1. a = <<ClearAnswer(m)>>
      BY <2>2, AnswerTyped
    <3>2. ~a[1].enc
      BY <3>1 DEF ClearAnswer
    <3> QED BY <2>2, <3>2
  <2> QED BY <2>1, <2>2
<1> QED BY <1>2, <1>4, <1>5, <1>6 DEF Answered

\* What the requests of the encrypted session are answered with, whatever they are: frames that
\* are encrypted and counted.
Counted(out, nr) ==
  \A i \in DOMAIN out : out[i].enc /\ ~out[i].opens /\ out[i].nr = nr + i - 1

\* Frames that are numbered on can be appended.
LEMMA CountedOn ==
  ASSUME NEW o \in Seq(BackFrames), NEW a \in Seq(BackFrames), NEW nr \in Nat,
         Counted(o, nr), Counted(a, nr + Len(o))
  PROVE  Counted(o \o a, nr) /\ Len(o \o a) = Len(o) + Len(a)
<1> HIDE DEF BackFrames
<1>1. /\ Len(o \o a) = Len(o) + Len(a) /\ Len(o) \in Nat /\ Len(a) \in Nat
      /\ DOMAIN o = 1 .. Len(o) /\ DOMAIN a = 1 .. Len(a)
      /\ DOMAIN (o \o a) = 1 .. Len(o) + Len(a)
      /\ \A i \in 1 .. Len(o) : (o \o a)[i] = o[i]
      /\ \A i \in 1 .. Len(a) : (o \o a)[Len(o) + i] = a[i]
  BY Concatenated
<1> SUFFICES ASSUME NEW i \in DOMAIN (o \o a)
             PROVE  /\ (o \o a)[i].enc /\ ~(o \o a)[i].opens
                    /\ (o \o a)[i].nr = nr + i - 1
  BY <1>1 DEF Counted
<1>2. CASE i <= Len(o)
  <2>1. (o \o a)[i] = o[i] /\ i \in DOMAIN o
    BY <1>1, <1>2
  <2> QED BY <2>1 DEF Counted
<1>3. CASE i > Len(o)
  <2>1. (o \o a)[i] = a[i - Len(o)] /\ i - Len(o) \in DOMAIN a /\ i \in Nat
    BY <1>1, <1>3
  <2>2. (nr + Len(o)) + (i - Len(o)) - 1 = nr + i - 1
    BY <1>1, <2>1
  <2> QED BY <2>1, <2>2 DEF Counted
<1> QED BY <1>1, <1>2, <1>3

\* Whatever requests of the session are answered, their frames are numbered without gaps.
LEMMA LaterAnswers ==
  ASSUME SentOK, NEW done \in Seq(Requests(Later)), NEW nr \in Nat
  PROVE  /\ AnswersTo(done, nr) \in AnswerStates
         /\ Counted(AnswersTo(done, nr).out, nr)
         /\ AnswersTo(done, nr).nr = nr + Len(AnswersTo(done, nr).out)
<1>1. /\ Later \subseteq Messages /\ Len(done) \in Nat
      /\ \A i \in 1 .. Len(done) : done[i].of \in Later
  <2>1. \A i \in 1 .. Len(done) : done[i] \in Requests(Later)
    OBVIOUS
  <2>2. \A r \in Requests(Later) : r.of \in Later
    BY DEF Requests
  <2>3. Later \subseteq Messages
    BY DEF SentOK, Later, Messages
  <2> QED BY <2>1, <2>2, <2>3
<1>2. done \in Seq(Requests(Messages))
  <2>1. Requests(Later) \subseteq Requests(Messages)
    BY <1>1 DEF Requests
  <2> HIDE DEF Requests, Later, Messages
  <2> QED BY <2>1
<1>3. PICK f \in [0 .. Len(done) -> AnswerStates] : AnswerRun(f, done, nr)
  BY <1>2, AnswersAre
<1> DEFINE Good(r) == Counted(r.out, nr) /\ r.nr = nr + Len(r.out)
           T == {i \in 0 .. Len(done) : Good(f[i])}
<1>4. ASSUME NEW r \in AnswerStates, Good(r), NEW m \in Later
      PROVE  Good(Answered(r, m))
  <2> DEFINE a == AnswerTo(m, r.nr)
             k == Answers[sent[m]]
  <2>1. r.nr \in Nat /\ r.out \in Seq(BackFrames) /\ m \in Messages
    BY <1>1 DEF AnswerStates
  <2>2. a = Encrypted(sent[m], r.nr) /\ k \in Nat \ {0} /\ a \in Seq(BackFrames)
    BY <2>1, AnswerTyped, EndpointAssumption DEF EndpointAssumption
  <2>3. Len(a) = k /\ a[1].enc /\ DOMAIN a = 1 .. k /\ Counted(a, r.nr)
    BY <2>1, <2>2 DEF Encrypted, Counted
  <2> HIDE DEF a, k, BackFrames
  <2>4. r.nr = nr + Len(r.out) /\ Counted(r.out, nr)
    BY <1>4
  <2>5. r.out \in Seq(BackFrames) /\ nr + Len(r.out) = r.nr
    BY <2>1, <2>4
  <2>6. Counted(r.out \o a, nr) /\ Len(r.out \o a) = Len(r.out) + Len(a)
    BY <2>2, <2>3, <2>4, <2>5, CountedOn
  <2>7. Answered(r, m) = [out |-> r.out \o a, nr |-> r.nr + k]
    BY <2>3 DEF Answered, a
  <2>8. r.nr + k = nr + Len(r.out \o a)
    <3> DEFINE all == Len(r.out \o a)
               old == Len(r.out)
    <3>1. old \in Nat
      BY <2>5
    <3>2. all = old + k /\ r.nr = nr + old /\ k \in Nat
      BY <2>2, <2>3, <2>4, <2>6
    <3> HIDE DEF all, old
    <3>3. r.nr + k = nr + all
      BY <3>1, <3>2
    <3> QED BY <3>3 DEF all
  <2> QED BY <2>6, <2>7, <2>8
<1>5. 0 \in T
  <2>1. f[0] = [out |-> << >>, nr |-> nr] /\ 0 \in 0 .. Len(done)
    BY <1>1, <1>3 DEF AnswerRun
  <2> QED BY <2>1 DEF Counted
<1>6. ASSUME NEW i \in 0 .. Len(done) - 1, i \in T PROVE i + 1 \in T
  <2>1. i + 1 \in 1 .. Len(done) /\ (i + 1) - 1 = i /\ i \in 0 .. Len(done)
    BY <1>1
  <2>2. f[i + 1] = Answered(f[i], done[i + 1].of) /\ done[i + 1].of \in Later
    BY <1>1, <1>3, <2>1 DEF AnswerRun
  <2>3. f[i] \in AnswerStates /\ Good(f[i])
    BY <1>6, <2>1
  <2> HIDE DEF Good
  <2>4. Good(f[i + 1])
    BY <1>4, <2>2, <2>3
  <2> QED BY <2>1, <2>4
<1>7. Len(done) \in T
  <2> HIDE DEF T
  <2>1. \A i \in 0 .. Len(done) : i \in T
    BY <1>1, <1>5, <1>6, UpTo
  <2> QED BY <1>1, <2>1
<1>8. f[Len(done)] \in AnswerStates /\ Good(f[Len(done)])
  BY <1>1, <1>7
<1> QED BY <1>3, <1>8 DEF AnswerRun

-----------------------------------------------------------------------------
(* What the controller sends.                                               *)

\* The number of frames of a request of n units.
Count(n, size) == (n + size - 1) \div size

\* The number of frames is the quotient, rounded up.
LEMMA CountIs ==
  ASSUME NEW n \in Nat \ {0}, NEW size \in Nat \ {0}
  PROVE  /\ Count(n, size) \in Nat \ {0}
         /\ (Count(n, size) - 1) * size < n /\ n <= Count(n, size) * size
<1> DEFINE c == Count(n, size)
<1>1. c \in Int /\ c * size <= n + size - 1 /\ n + size - 1 < (c + 1) * size
  BY DEF Count
<1> HIDE DEF c
<1>2. (c + 1) * size = c * size + size /\ (c - 1) * size = c * size - size /\ c * size \in Int
  BY <1>1
<1>3. n <= c * size /\ c * size - size < n
  BY <1>1, <1>2
<1>4. c > 0
  <2>1. CASE c <= 0
    <3>1. c * size <= 0
      BY <1>1, <2>1
    <3> QED BY <1>2, <1>3, <3>1
  <2> QED BY <1>1, <2>1
<1> QED BY <1>1, <1>2, <1>3, <1>4 DEF c

\* The frames new carry the n units of message m one after the other.
Carry(new, m, n, size) ==
  /\ new \in [1 .. Count(n, size) -> [of : {m}, from : Nat \ {0}, n : 1 .. size]]
  /\ new[1].from = 1
  /\ \A i \in 1 .. Count(n, size) :
       /\ new[i].from + new[i].n - 1 <= n
       /\ i = Count(n, size) => new[i].from + new[i].n - 1 = n
       /\ i < Count(n, size) => new[i + 1].from = new[i].from + new[i].n

\* The frames of a request carry its units one after the other, all of them.
LEMMA FramedIs ==
  ASSUME NEW m, NEW n \in Nat \ {0}, NEW size \in Nat \ {0}
  PROVE  Carry(Framed(m, n, size), m, n, size)
<1> DEFINE c == Count(n, size)
           new == Framed(m, n, size)
<1>1. /\ c \in Nat \ {0} /\ (c - 1) * size < n /\ n <= c * size
      /\ (c - 1) * size \in Int /\ c * size \in Int
  BY CountIs
<1>2. new = [i \in 1 .. c |-> [of |-> m, from |-> (i - 1) * size + 1,
                               n |-> IF i * size <= n THEN size ELSE n - (i - 1) * size]]
  BY DEF Framed, Count
<1> HIDE DEF new, c
<1>3. ASSUME NEW i \in 1 .. c
      PROVE  /\ i * size \in Nat /\ (i - 1) * size \in Nat /\ i * size = (i - 1) * size + size
             /\ (i - 1) * size <= (c - 1) * size /\ i * size <= c * size
             /\ i < c => i * size <= (c - 1) * size
  <2>1. i \in Nat /\ i - 1 \in Nat /\ c \in Nat /\ c - 1 \in Nat /\ i <= c
    BY <1>1
  <2>2. i * size \in Nat /\ (i - 1) * size \in Nat /\ i * size = (i - 1) * size + size
    BY <2>1
  <2>3. \A a, b \in Nat : a <= b => a * size <= b * size
    OBVIOUS
  <2> QED BY <2>1, <2>2, <2>3
<1>4. ASSUME NEW i \in 1 .. c
      PROVE  /\ i < c => new[i].n = size
             /\ i = c => new[i].n = n - (i - 1) * size
             /\ new[i].n \in 1 .. size /\ new[i].from = (i - 1) * size + 1 /\ new[i].of = m
             /\ new[i].from \in Nat \ {0}
             /\ new[i].from + new[i].n - 1 <= n
  <2>1. new[i] = [of |-> m, from |-> (i - 1) * size + 1,
                  n |-> IF i * size <= n THEN size ELSE n - (i - 1) * size]
    BY <1>2
  <2>2. new[i].of = m /\ new[i].from = (i - 1) * size + 1
        /\ new[i].n = IF i * size <= n THEN size ELSE n - (i - 1) * size
    BY <2>1
  <2> QED BY <1>1, <1>3, <2>2
<1>5. new[1].from = 1
  BY <1>1, <1>4
<1>6. ASSUME NEW i \in 1 .. c, i < c
      PROVE  new[i + 1].from = new[i].from + new[i].n
  <2>1. i + 1 \in 1 .. c /\ (i + 1) - 1 = i
    BY <1>1, <1>6
  <2>2. new[i + 1].from = i * size + 1
    BY <1>4, <2>1
  <2> QED BY <1>3, <1>4, <1>6, <2>2
<1>7. ASSUME NEW i \in 1 .. c, i = c
      PROVE  new[i].from + new[i].n - 1 = n
  BY <1>3, <1>4, <1>7
<1>8. new \in [1 .. c -> [of : {m}, from : Nat \ {0}, n : 1 .. size]]
  <2>1. ASSUME NEW i \in 1 .. c PROVE new[i] \in [of : {m}, from : Nat \ {0}, n : 1 .. size]
    <3>1. new[i] = [of |-> new[i].of, from |-> new[i].from, n |-> new[i].n]
      BY <1>2
    <3> QED BY <1>4, <3>1
  <2>2. new = [i \in 1 .. c |-> new[i]]
    BY <1>2
  <2> QED BY <2>1, <2>2
<1> QED BY <1>4, <1>5, <1>6, <1>7, <1>8 DEF new, c, Carry

WireUnits == Nat \X Nat

\* The bytes of frame f that carries n units.
LEMMA BytesAre ==
  ASSUME NEW f \in Nat, NEW n \in Nat
  PROVE  /\ Bytes(f, n) \in Seq(WireUnits) /\ Len(Bytes(f, n)) = n + Overhead
         /\ \A k \in 0 .. n + 1 : Bytes(f, n)[k + 1] = <<f, k>>
<1>1. n + Overhead \in Nat /\ Overhead = 2
  BY DEF Overhead
<1>2. Bytes(f, n) \in [1 .. n + Overhead -> WireUnits]
  BY <1>1 DEF Bytes, WireUnits
<1>3. \A k \in 0 .. n + 1 : k + 1 \in 1 .. n + Overhead /\ (k + 1) - 1 = k
  BY <1>1
<1>4. \A k \in 0 .. n + 1 : Bytes(f, n)[k + 1] = <<f, k>>
  BY <1>3 DEF Bytes
<1> QED BY <1>1, <1>2, <1>4, SequenceOf

\* Stream goes through the bytes r.
StreamRun(r, new, f) ==
  /\ r[0] = << >>
  /\ \A i \in 1 .. Len(new) : r[i] = r[i - 1] \o Bytes(f + i, new[i].n)
  /\ Stream(new, f) = r[Len(new)]

\* Stream is defined by recursion: it exists.
LEMMA StreamIs ==
  ASSUME NEW new, Len(new) \in Nat, \A i \in 1 .. Len(new) : new[i].n \in Nat, NEW f \in Nat
  PROVE  \E r \in [0 .. Len(new) -> Seq(WireUnits)] : StreamRun(r, new, f)
<1> DEFINE n == Len(new)
           S == Seq(WireUnits)
           x == << >>
           step == [y \in (1 .. n) \X S |-> y[2] \o Bytes(f + y[1], new[y[1]].n)]
           After == CHOOSE r : r = [i \in 0 .. n |->
                                     IF i = 0 THEN x ELSE r[i - 1] \o Bytes(f + i, new[i].n)]
           T == {i \in 0 .. n : After[i] \in S}
<1>1. x \in S /\ n \in Nat
  OBVIOUS
<1>2. \A i \in 1 .. n : \A r \in S : r \o Bytes(f + i, new[i].n) \in S
  <2> SUFFICES ASSUME NEW i \in 1 .. n, NEW r \in S PROVE r \o Bytes(f + i, new[i].n) \in S
    OBVIOUS
  <2>1. f + i \in Nat /\ new[i].n \in Nat
    OBVIOUS
  <2>2. Bytes(f + i, new[i].n) \in S
    BY <2>1, BytesAre
  <2> QED BY <2>2, Concatenated
<1>3. Stream(new, f) = After[n]
  BY DEF Stream
<1> HIDE DEF S, x, n
<1>4. step \in [(1 .. n) \X S -> S]
  BY <1>2
<1>5. PICK r \in [0 .. n -> S] : IsRun(r, n, x, step)
  <2> HIDE DEF step
  <2> QED BY <1>1, <1>4, RecursionExists
<1>6. r = [i \in 0 .. n |-> IF i = 0 THEN x ELSE r[i - 1] \o Bytes(f + i, new[i].n)]
  <2> SUFFICES ASSUME NEW i \in 0 .. n
               PROVE  r[i] = IF i = 0 THEN x ELSE r[i - 1] \o Bytes(f + i, new[i].n)
    BY <1>5
  <2>1. CASE i = 0
    BY <1>5, <2>1 DEF IsRun
  <2>2. CASE i # 0
    <3>1. i \in 1 .. n /\ r[i - 1] \in S
      BY <1>1, <1>5, <2>2
    <3> QED BY <1>5, <2>2, <3>1 DEF IsRun
  <2> QED BY <2>1, <2>2
<1>7. After = [i \in 0 .. n |-> IF i = 0 THEN x ELSE After[i - 1] \o Bytes(f + i, new[i].n)]
  BY <1>6
<1> HIDE DEF After
<1>8. After[0] = x /\ \A i \in 1 .. n : After[i] = After[i - 1] \o Bytes(f + i, new[i].n)
  <2>1. 0 \in 0 .. n /\ \A i \in 1 .. n : i \in 0 .. n /\ i # 0
    BY <1>1
  <2> QED BY <1>7, <2>1
<1>9. \A i \in 0 .. n : After[i] \in S
  <2>1. 0 \in T
    BY <1>1, <1>8
  <2>2. ASSUME NEW i \in 0 .. n - 1, i \in T PROVE i + 1 \in T
    <3>1. i + 1 \in 1 .. n /\ i + 1 \in 0 .. n /\ (i + 1) - 1 = i
      BY <1>1
    <3>2. After[i + 1] = After[i] \o Bytes(f + (i + 1), new[i + 1].n)
      BY <1>8, <3>1
    <3>3. After[i] \in S
      BY <2>2
    <3>4. After[i + 1] \in S
      BY <1>2, <3>1, <3>2, <3>3
    <3> QED BY <3>1, <3>4
  <2> HIDE DEF T
  <2>3. \A i \in 0 .. n : i \in T
    BY <1>1, <2>1, <2>2, UpTo
  <2> QED BY <2>3 DEF T
<1>10. After \in [0 .. n -> S]
  BY <1>7, <1>9
<1> QED BY <1>3, <1>8, <1>10 DEF StreamRun, S, x, n

\* In the bytes w the new frames up to i follow one another from their offsets on, and nothing
\* else is there.
Placed(w, off, new, f, i) ==
  /\ \A j \in 1 .. i : \A k \in 0 .. new[j].n + 1 :
       off[j] + k + 1 \in 1 .. Len(w) /\ w[off[j] + k + 1] = <<f + j, k>>
  /\ \A p \in 1 .. Len(w) :
       \E j \in 1 .. i : \E k \in 0 .. new[j].n + 1 : p = off[j] + k + 1

\* Every new frame lies in the stream at the offset where the one before ends.
LEMMA StreamPlaced ==
  ASSUME NEW new, Len(new) \in Nat, \A i \in 1 .. Len(new) : new[i].n \in Nat, NEW f \in Nat
  PROVE  /\ Stream(new, f) \in Seq(WireUnits)
         /\ \E off \in [1 .. Len(new) -> Nat] :
              /\ Len(new) > 0 => off[1] = 0
              /\ \A j \in 1 .. Len(new) - 1 : off[j + 1] = off[j] + new[j].n + Overhead
              /\ Placed(Stream(new, f), off, new, f, Len(new))
<1> DEFINE n == Len(new)
<1>1. PICK r \in [0 .. n -> Seq(WireUnits)] : StreamRun(r, new, f)
  BY StreamIs
<1> DEFINE off == [j \in 1 .. n |-> Len(r[j - 1])]
           T == {i \in 0 .. n : Placed(r[i], off, new, f, i)}
<1>2. \A j \in 1 .. n : off[j] \in Nat /\ off[j] = Len(r[j - 1])
  <2> SUFFICES ASSUME NEW j \in 1 .. n PROVE Len(r[j - 1]) \in Nat
    OBVIOUS
  <2>1. j - 1 \in 0 .. n
    OBVIOUS
  <2>2. r[j - 1] \in Seq(WireUnits)
    BY <2>1
  <2> QED BY <2>2
<1>3. ASSUME NEW i \in 1 .. n
      PROVE  /\ r[i - 1] \in Seq(WireUnits) /\ r[i] \in Seq(WireUnits)
             /\ Len(r[i]) = off[i] + new[i].n + Overhead
             /\ \A p \in 1 .. off[i] : r[i][p] = r[i - 1][p]
             /\ \A k \in 0 .. new[i].n + 1 : r[i][off[i] + k + 1] = <<f + i, k>>
  <2> DEFINE s == r[i - 1]
             t == Bytes(f + i, new[i].n)
  <2>1. s \in Seq(WireUnits) /\ r[i] \in Seq(WireUnits) /\ r[i] = s \o t /\ off[i] = Len(s)
    <3>1. i - 1 \in 0 .. n /\ i \in 0 .. n
      OBVIOUS
    <3>2. s \in Seq(WireUnits) /\ r[i] \in Seq(WireUnits)
      BY <3>1
    <3>3. r[i] = s \o t
      BY <1>1 DEF StreamRun
    <3>4. off[i] = Len(s)
      BY <1>2
    <3> QED BY <3>2, <3>3, <3>4
  <2>2. /\ t \in Seq(WireUnits) /\ Len(t) = new[i].n + Overhead
        /\ \A k \in 0 .. new[i].n + 1 : t[k + 1] = <<f + i, k>>
    <3>1. f + i \in Nat /\ new[i].n \in Nat
      OBVIOUS
    <3> QED BY <3>1, BytesAre
  <2> HIDE DEF s, t
  <2>3. /\ Len(s \o t) = Len(s) + Len(t) /\ Len(s) \in Nat
        /\ \A p \in 1 .. Len(s) : (s \o t)[p] = s[p]
        /\ \A p \in 1 .. Len(t) : (s \o t)[Len(s) + p] = t[p]
    <3>1. s \in Seq(WireUnits) /\ t \in Seq(WireUnits)
      BY <2>1, <2>2
    <3> QED BY <3>1, Concatenated
  <2>4. Len(r[i]) = off[i] + new[i].n + Overhead
    BY <1>2, <2>1, <2>2, <2>3 DEF Overhead
  <2>5. \A p \in 1 .. off[i] : r[i][p] = r[i - 1][p]
    BY <2>1, <2>3 DEF s
  <2>6. ASSUME NEW k \in 0 .. new[i].n + 1 PROVE r[i][off[i] + k + 1] = <<f + i, k>>
    <3>1. new[i].n \in Nat /\ Len(t) = new[i].n + 2 /\ off[i] = Len(s) /\ Len(s) \in Nat
      BY <2>1, <2>2, <2>3 DEF Overhead
    <3>2. \A m \in Nat : k \in 0 .. m + 1 => k + 1 \in 1 .. m + 2
      OBVIOUS
    <3>3. k + 1 \in 1 .. Len(t)
      BY <3>1, <3>2
    <3>4. \A o \in Nat : o + k + 1 = o + (k + 1)
      OBVIOUS
    <3>5. off[i] + k + 1 = Len(s) + (k + 1)
      BY <3>1, <3>4
    <3> QED BY <2>1, <2>2, <2>3, <3>3, <3>5
  <2> QED BY <2>1, <2>4, <2>5, <2>6 DEF s
<1> HIDE DEF off
<1>4. 0 \in T
  <2>1. r[0] = << >> /\ Len(r[0]) = 0 /\ 1 .. 0 = {}
    BY <1>1 DEF StreamRun
  <2> QED BY <2>1 DEF Placed
<1>5. ASSUME NEW i \in 0 .. n - 1, i \in T PROVE i + 1 \in T
  <2>1. i + 1 \in 1 .. n /\ (i + 1) - 1 = i /\ Placed(r[i], off, new, f, i) /\ i \in Nat
    BY <1>5
  <2>2. /\ Len(r[i]) = off[i + 1] /\ off[i + 1] \in Nat /\ new[i + 1].n \in Nat
        /\ Len(r[i + 1]) = off[i + 1] + new[i + 1].n + 2
        /\ \A p \in 1 .. off[i + 1] : r[i + 1][p] = r[i][p]
        /\ \A k \in 0 .. new[i + 1].n + 1 : r[i + 1][off[i + 1] + k + 1] = <<f + (i + 1), k>>
    BY <1>2, <1>3, <2>1 DEF Overhead
  <2> DEFINE o == off[i + 1]
             m == new[i + 1].n
             w == r[i + 1]
  <2>3. Len(w) = o + m + 2 /\ o \in Nat /\ m \in Nat
    BY <2>2
  <2>4. \A k \in 0 .. m + 1 : o + k + 1 \in 1 .. Len(w) /\ w[o + k + 1] = <<f + (i + 1), k>>
    <3> SUFFICES ASSUME NEW k \in 0 .. m + 1 PROVE o + k + 1 \in 1 .. Len(w)
      BY <2>2
    <3> HIDE DEF o, m, w
    <3> QED BY <2>3
  <2>5. \A p \in 1 .. o : p \in 1 .. Len(w) /\ w[p] = r[i][p]
    <3>1. \A p \in 1 .. o : w[p] = r[i][p]
      BY <2>2
    <3> HIDE DEF o, m, w
    <3> QED BY <2>3, <3>1
  <2>6. \A j \in 1 .. i : \A k \in 0 .. new[j].n + 1 :
          off[j] + k + 1 \in 1 .. o /\ r[i][off[j] + k + 1] = <<f + j, k>>
    BY <2>1, <2>2 DEF Placed
  <2>7. \A p \in 1 .. o : \E j \in 1 .. i : \E k \in 0 .. new[j].n + 1 : p = off[j] + k + 1
    BY <2>1, <2>2 DEF Placed
  <2>8. ASSUME NEW p \in 1 .. Len(w), p > o
        PROVE  \E k \in 0 .. m + 1 : p = o + k + 1
    <3> HIDE DEF o, m, w
    <3>1. p - o - 1 \in 0 .. m + 1 /\ p = o + (p - o - 1) + 1
      BY <2>3, <2>8
    <3> QED BY <3>1
  <2>9. ASSUME NEW j \in 1 .. i + 1, NEW k \in 0 .. new[j].n + 1
        PROVE  off[j] + k + 1 \in 1 .. Len(w) /\ w[off[j] + k + 1] = <<f + j, k>>
    <3>1. CASE j = i + 1
      BY <2>4, <3>1
    <3>2. CASE j # i + 1
      <4>1. j \in 1 .. i
        BY <2>1, <3>2
      <4> HIDE DEF o, w
      <4> QED BY <2>5, <2>6, <4>1
    <3> QED BY <3>1, <3>2
  <2>10. ASSUME NEW p \in 1 .. Len(w)
         PROVE  \E j \in 1 .. i + 1 : \E k \in 0 .. new[j].n + 1 : p = off[j] + k + 1
    <3>1. CASE p <= o
      <4>1. p \in 1 .. o
        BY <2>3, <3>1
      <4>2. \E j \in 1 .. i : \E k \in 0 .. new[j].n + 1 : p = off[j] + k + 1
        BY <2>7, <4>1
      <4> QED BY <2>1, <4>2
    <3>2. CASE p > o
      <4>1. i + 1 \in 1 .. i + 1
        BY <2>1
      <4> QED BY <2>8, <3>2, <4>1
    <3> QED BY <2>3, <3>1, <3>2
  <2> QED BY <2>1, <2>9, <2>10 DEF Placed
<1>6. n \in T
  <2> HIDE DEF T
  <2>1. \A i \in 0 .. n : i \in T
    BY <1>4, <1>5, UpTo
  <2> QED BY <2>1
<1>7. \A j \in 1 .. n - 1 : off[j + 1] = off[j] + new[j].n + Overhead
  <2> SUFFICES ASSUME NEW j \in 1 .. n - 1 PROVE off[j + 1] = off[j] + new[j].n + Overhead
    OBVIOUS
  <2>1. j \in 1 .. n /\ j + 1 \in 1 .. n /\ (j + 1) - 1 = j
    OBVIOUS
  <2> QED BY <1>2, <1>3, <2>1
<1>8. n > 0 => off[1] = 0
  <2>1. r[0] = << >> /\ Len(r[0]) = 0
    BY <1>1 DEF StreamRun
  <2>2. ASSUME n > 0 PROVE 1 \in 1 .. n /\ 1 - 1 = 0
    BY <2>2
  <2> QED BY <1>2, <2>1, <2>2
<1>9. off \in [1 .. n -> Nat]
  BY <1>2 DEF off
<1>10. Stream(new, f) = r[n] /\ r[n] \in Seq(WireUnits)
  BY <1>1 DEF StreamRun
<1> QED BY <1>6, <1>7, <1>8, <1>9, <1>10

-----------------------------------------------------------------------------
(* The inductive invariant.                                                 *)

Types ==
  /\ SentOK /\ FramesOK
  /\ wire \in Seq(WireUnits) /\ back \in Seq(BackFrames)
  /\ writes \in Nat /\ reads \in Nat /\ heard \in Nat
  /\ encrypted \in BOOLEAN /\ waiting \in BOOLEAN /\ secure \in BOOLEAN
  /\ sock \in {"none", "up", "gone"} /\ pieces \in {"frame", "frames", "inside"}

\* The first k frames on their way back are in the clear, the others encrypted and counted on
\* from what the controller has heard; the last clear one opens the session.
Opened(k) == secure \/ (k > 0 /\ back[k].opens)

BackAt(k) ==
  /\ \A i \in 1 .. Len(back) : /\ back[i].enc <=> i > k
                               /\ back[i].opens => i = k
                               /\ i > k => back[i].nr = heard + i - k
  /\ secure => k = 0
  /\ k < Len(back) => Opened(k)
  /\ sock # "gone" => reads = heard + 1 + Len(back) - k /\ (encrypted <=> Opened(k))

BackInv == \E k \in 0 .. Len(back) : BackAt(k)

\* The first n requests have been handled, as they were sent.
Delivered(n) == [i \in 1 .. n |-> [of |-> i, intact |-> TRUE]]

\* Of the last request in the clear the parser has taken c units.
ClearAt(c) ==
  /\ wire = [k \in 1 .. 2 - c |-> <<Len(sent), c + k>>]
  /\ IF c = 2
     THEN parser = NoRequest /\ handled = Delivered(Len(sent)) /\ Len(sent) < 2
     ELSE /\ parser = Reached(Len(sent), c) /\ handled = Delivered(Len(sent) - 1)
          /\ Len(sent) > 0 /\ waiting /\ back = << >>

ClearInv ==
  /\ data = << >> /\ frames = << >> /\ heap = << >> /\ writes = 1 /\ reads = 1 /\ heard = 0
  /\ ~secure /\ pieces = "frame" /\ Len(sent) <= 2
  /\ back = << >> \/ (back = <<ClearAnswer(1)>> /\ waiting)
  /\ \E c \in 0 .. 2 : ClearAt(c)

\* However the stream is cut, only requests of the encrypted session are in the block and
\* in the parser.
EncryptedInv ==
  /\ Len(sent) >= 2
  /\ heap \in Seq(PlainUnits(Later))
  /\ parser \in ParserStates(Later) /\ parser.done = << >>

\* The frames that are left lie on the wire one after the other, from their offsets on.
Lie(off) ==
  /\ writes <= Len(frames) => off[writes] = 0
  /\ \A f \in writes .. Len(frames) - 1 : off[f + 1] = off[f] + frames[f].n + Overhead
  /\ \A f \in writes .. Len(frames) : \A k \in 0 .. frames[f].n + 1 :
       off[f] + k + 1 \in 1 .. Len(wire) /\ wire[off[f] + k + 1] = <<f, k>>
  /\ \A p \in 1 .. Len(wire) :
       \E f \in writes .. Len(frames) : \E k \in 0 .. frames[f].n + 1 : p = off[f] + k + 1

OnWire == \E off \in [writes .. Len(frames) -> Int] : Lie(off)

\* While every read brings one whole frame, the parser is at the next frame to come, and the
\* controller waits until the last frame of the answer.
CleanInv ==
  /\ data = << >> /\ writes \in 1 .. Len(frames) + 1 /\ OnWire
  /\ IF writes > Len(frames)
     THEN parser = NoRequest /\ handled = Delivered(Len(sent))
     ELSE /\ frames[writes].of = Len(sent)
          /\ parser = Reached(Len(sent), frames[writes].from - 1)
          /\ handled = Delivered(Len(sent) - 1) /\ waiting /\ back = << >>
  /\ \A i \in 1 .. Len(back) : back[i].last <=> i = Len(back)
  /\ back # << >> => waiting

ChannelInv ==
  /\ Types
  /\ BackInv
  /\ IF encrypted THEN EncryptedInv /\ (pieces = "frame" => CleanInv) ELSE ClearInv

-----------------------------------------------------------------------------
(* Every step keeps it.                                                     *)

\* One more request is delivered.
LEMMA DeliveredOn ==
  ASSUME NEW n \in Nat
  PROVE  /\ Len(Delivered(n)) = n /\ DOMAIN Delivered(n) = 1 .. n
         /\ Delivered(n) \o << >> = Delivered(n)
         /\ Delivered(n) \o <<[of |-> n + 1, intact |-> TRUE]>> = Delivered(n + 1)
<1> DEFINE d(i) == [of |-> i, intact |-> TRUE]
           S == [of : Nat, intact : BOOLEAN]
<1>1. \A i \in Nat : d(i) \in S
  OBVIOUS
<1> HIDE DEF d, S
<1>2. Delivered(n) = [i \in 1 .. n |-> d(i)] /\ Delivered(n + 1) = [i \in 1 .. n + 1 |-> d(i)]
  BY DEF Delivered, d
<1>3. Delivered(n) \in Seq(S) /\ Len(Delivered(n)) = n /\ DOMAIN Delivered(n) = 1 .. n
  BY <1>1, <1>2
<1>4. Delivered(n) \o << >> = Delivered(n)
  BY <1>3
<1>5. Delivered(n) \o <<d(n + 1)>> = Delivered(n + 1)
  BY <1>1, <1>2, <1>3
<1> QED BY <1>3, <1>4, <1>5 DEF d

\* Before the first connection there is nothing to deliver.
LEMMA ChannelStarts == Init => ChannelInv
<1> SUFFICES ASSUME Init PROVE ChannelInv
  OBVIOUS
<1>1. Types
  <2>1. /\ << >> \in Seq(Endpoint \cup Range(Verify)) /\ << >> \in Seq(WireUnits)
        /\ << >> \in Seq(BackFrames) /\ Len(<< >>) = 0 /\ DOMAIN << >> = {} /\ 3 .. 0 = {}
    OBVIOUS
  <2>2. << >> \in Seq(FrameRecords)
    OBVIOUS
  <2> HIDE DEF FrameRecords
  <2>3. SentOK /\ FramesOK
    BY <2>1, <2>2 DEF Init, SentOK, FramesOK
  <2> QED BY <2>1, <2>3 DEF Init, Types
<1>2. BackInv
  <2>1. /\ Len(back) = 0 /\ 0 \in 0 .. Len(back) /\ ~secure /\ reads = 1 /\ heard = 0
        /\ encrypted = FALSE
    BY DEF Init
  <2>2. BackAt(0)
    BY <2>1 DEF BackAt, Opened
  <2> QED BY <2>1, <2>2 DEF BackInv
<1>3. ClearInv
  <2>1. /\ Len(sent) = 0 /\ wire = << >> /\ parser = NoRequest /\ handled = << >>
        /\ 2 \in 0 .. 2 /\ 1 .. 0 = {} /\ 2 - 2 = 0
    BY DEF Init
  <2>2. Delivered(0) = << >>
    BY <2>1 DEF Delivered
  <2>3. wire = [k \in 1 .. 2 - 2 |-> <<Len(sent), 2 + k>>]
    BY <2>1
  <2>4. ClearAt(2)
    BY <2>1, <2>2, <2>3 DEF ClearAt
  <2> QED BY <2>1, <2>4 DEF ClearInv, Init
<1> QED BY <1>1, <1>2, <1>3 DEF ChannelInv, Init

\* Closing and restarting lead back there.
LEMMA GoneKeeps == Gone => ChannelInv'
<1>1. Gone => Init'
  BY DEF Gone, Init
<1>2. (Init => ChannelInv)'
  BY ChannelStarts, PTL
<1> QED BY <1>1, <1>2

\* The definitions over requests and frames change with these only.
LEMMA RequestsSame ==
  ASSUME UNCHANGED <<sent, frames>>
  PROVE  /\ SentOK' <=> SentOK
         /\ FramesOK' <=> FramesOK
         /\ Later' = Later
         /\ \A m : UnitsOf(m)' = UnitsOf(m)
         /\ \A m, c : Reached(m, c)' = Reached(m, c)
<1>1. Later' = Later
  BY DEF Later
<1>2. \A m : UnitsOf(m)' = UnitsOf(m)
  BY DEF UnitsOf
<1>3. \A m, c : Reached(m, c)' = Reached(m, c)
  BY <1>2 DEF Reached
<1>4. \A f : FrameOK(f)' <=> FrameOK(f)
  BY <1>2 DEF FrameOK
<1>5. FrameRecords' = FrameRecords
  BY <1>1 DEF FrameRecords
<1> QED BY <1>1, <1>2, <1>3, <1>4, <1>5 DEF SentOK, FramesOK

\* Nothing else moves the answers on their way: a connection that is closed only loosens it.
LEMMA BackSame ==
  ASSUME BackInv, UNCHANGED <<back, heard, secure, reads, encrypted>>,
         sock' # "gone" => sock # "gone"
  PROVE  BackInv'
<1>1. PICK k \in 0 .. Len(back) : BackAt(k)
  BY DEF BackInv
<1>2. BackAt(k)'
  BY <1>1 DEF BackAt, Opened
<1> QED BY <1>2 DEF BackInv

\* What the invariant says of the two modes depends on neither end of the connection.
LEMMA ModesSame ==
  ASSUME Types,
         UNCHANGED <<wire, back, data, encrypted, writes, reads, parser, heap, controller,
                     handled, pieces>>,
         IF encrypted THEN EncryptedInv /\ (pieces = "frame" => CleanInv) ELSE ClearInv
  PROVE  (IF encrypted THEN EncryptedInv /\ (pieces = "frame" => CleanInv) ELSE ClearInv)'
<1> USE DEF controller
<1>1. /\ Later' = Later
      /\ \A m, c : Reached(m, c)' = Reached(m, c)
  BY RequestsSame
<1>2. EncryptedInv => EncryptedInv'
  BY <1>1 DEF EncryptedInv
<1>3. OnWire => OnWire'
  <2>1. \A off : Lie(off)' <=> Lie(off)
    BY DEF Lie
  <2> QED BY <2>1 DEF OnWire
<1>4. CleanInv => CleanInv'
  BY <1>1, <1>3 DEF CleanInv
<1>5. \A c : ClearAt(c) => ClearAt(c)'
  BY <1>1 DEF ClearAt
<1>6. ClearInv => ClearInv'
  BY <1>5 DEF ClearInv
<1> QED BY <1>2, <1>4, <1>6

\* homekit_server_accept_client.
LEMMA ConnectKeeps == ChannelInv /\ Connect => ChannelInv'
<1> SUFFICES ASSUME ChannelInv, Connect PROVE ChannelInv'
  OBVIOUS
<1>1. Types'
  BY RequestsSame DEF ChannelInv, Connect, Types, controller
<1>2. BackInv'
  BY BackSame DEF ChannelInv, Connect, controller
<1>3. (IF encrypted THEN EncryptedInv /\ (pieces = "frame" => CleanInv) ELSE ClearInv)'
  BY ModesSame DEF ChannelInv, Connect
<1> QED BY <1>1, <1>2, <1>3 DEF ChannelInv

\* The peer closes.
LEMMA LeaveKeeps == ChannelInv /\ Leave => ChannelInv'
<1> SUFFICES ASSUME ChannelInv, Leave PROVE ChannelInv'
  OBVIOUS
<1>1. Types'
  BY RequestsSame DEF ChannelInv, Leave, Types, controller
<1>2. BackInv'
  BY BackSame DEF ChannelInv, Leave, controller
<1>3. (IF encrypted THEN EncryptedInv /\ (pieces = "frame" => CleanInv) ELSE ClearInv)'
  BY ModesSame DEF ChannelInv, Leave
<1> QED BY <1>1, <1>2, <1>3 DEF ChannelInv

\* The answers of pair-verify; the second one opens the session.
LEMMA ClearAnswers ==
  /\ ClearAnswer(1) = [enc |-> FALSE, nr |-> 0, last |-> TRUE, opens |-> FALSE]
  /\ ClearAnswer(2) = [enc |-> FALSE, nr |-> 0, last |-> TRUE, opens |-> TRUE]
<1>1. (Verify[1] = "verify2") = FALSE /\ (Verify[2] = "verify2") = TRUE
  BY DEF Verify
<1> QED BY <1>1 DEF ClearAnswer

\* A frame is heard: the split moves on, or the counter of the controller does.
LEMMA HearKeeps == ChannelInv /\ Hear => ChannelInv'
<1> SUFFICES ASSUME ChannelInv, Hear PROVE ChannelInv'
  OBVIOUS
<1> DEFINE n == Len(back)
<1>1. /\ Types /\ sock = "up" /\ sock' = "up" /\ back # << >> /\ back' = Tail(back)
      /\ heard' = heard + (IF Head(back).enc THEN 1 ELSE 0)
      /\ waiting' = ~Head(back).last /\ secure' = (secure \/ Head(back).opens)
      /\ UNCHANGED <<wire, data, encrypted, writes, reads, parser, heap, sent, frames, handled,
                     pieces>>
  BY DEF ChannelInv, Hear
<1>2. /\ n \in Nat \ {0} /\ back[1] \in BackFrames /\ Head(back) = back[1]
      /\ Len(back') = n - 1 /\ back' \in Seq(BackFrames)
      /\ \A i \in 1 .. n - 1 : back'[i] = back[i + 1]
  <2>1. back \in Seq(BackFrames) /\ back # << >> /\ back' = Tail(back)
    BY <1>1 DEF Types
  <2> HIDE DEF BackFrames
  <2> QED BY <2>1
<1>3. back[1].enc \in BOOLEAN /\ back[1].last \in BOOLEAN /\ back[1].opens \in BOOLEAN
  BY <1>2 DEF BackFrames
<1>4. Types'
  <2>1. SentOK' /\ FramesOK'
    BY <1>1, RequestsSame DEF Types
  <2>2. heard' \in Nat /\ waiting' \in BOOLEAN /\ secure' \in BOOLEAN
    BY <1>1, <1>2, <1>3 DEF Types
  <2> QED BY <1>1, <1>2, <2>1, <2>2 DEF Types
<1>5. BackInv'
  <2>1. PICK k \in 0 .. n : BackAt(k)
    BY DEF ChannelInv, BackInv
  <2>2. /\ n \in Nat /\ n > 0 /\ heard \in Nat /\ reads \in Nat /\ secure \in BOOLEAN
        /\ back[1].enc <=> 1 > k
        /\ back[1].opens => 1 = k
        /\ \A i \in 1 .. n : /\ back[i].enc <=> i > k
                             /\ back[i].opens => i = k
                             /\ i > k => back[i].nr = heard + i - k
        /\ secure => k = 0
        /\ k < n => Opened(k)
        /\ reads = heard + 1 + n - k /\ (encrypted <=> Opened(k))
    BY <1>1, <1>2, <2>1 DEF BackAt, Types
  <2>3. CASE k = 0
    <3>0. back[1].enc /\ ~back[1].opens /\ k < n
      BY <2>2, <2>3
    <3>1. secure' = secure /\ heard' = heard + 1 /\ secure
      <4>1. secure
        BY <2>2, <2>3, <3>0 DEF Opened
      <4> QED BY <1>1, <1>2, <2>2, <3>0, <4>1
    <3>2. \A i \in 1 .. n - 1 : /\ back'[i].enc /\ ~back'[i].opens
                                /\ back'[i].nr = heard' + i
      <4> SUFFICES ASSUME NEW i \in 1 .. n - 1
                   PROVE  back'[i].enc /\ ~back'[i].opens /\ back'[i].nr = heard' + i
        OBVIOUS
      <4>1. i + 1 \in 1 .. n /\ i + 1 > 0 /\ i + 1 # 0 /\ back'[i] = back[i + 1] /\ i \in Nat
        BY <1>2
      <4>2. back[i + 1].enc /\ ~back[i + 1].opens /\ back[i + 1].nr = heard + (i + 1) - 0
        BY <2>2, <2>3, <4>1
      <4> QED BY <2>2, <3>1, <4>1, <4>2
    <3>3. Opened(0)' /\ encrypted'
      BY <1>1, <2>2, <2>3, <3>1 DEF Opened
    <3>4. BackAt(0)'
      <4>1. \A i \in 1 .. Len(back') : /\ back'[i].enc <=> i > 0
                                       /\ back'[i].opens => i = 0
                                       /\ i > 0 => back'[i].nr = heard' + i - 0
        BY <1>1, <1>2, <2>2, <3>1, <3>2
      <4>2. reads' = heard' + 1 + Len(back') - 0
        <5>1. reads' = heard + 1 + n - 0 /\ heard' = heard + 1 /\ Len(back') = n - 1
          BY <1>1, <1>2, <2>2, <2>3, <3>1
        <5> HIDE DEF n
        <5> QED BY <2>2, <5>1
      <4> QED BY <3>3, <4>1, <4>2 DEF BackAt
    <3>5. 0 \in 0 .. Len(back')
      BY <1>2
    <3> QED BY <3>4, <3>5 DEF BackInv
  <2>4. CASE k # 0
    <3>1. k \in Nat /\ k >= 1 /\ k - 1 \in 0 .. n - 1 /\ heard' = heard /\ ~secure /\ ~back[1].enc
      BY <1>1, <1>2, <2>2, <2>4
    <3>2. \A i \in 1 .. n - 1 : /\ back'[i].enc <=> i > k - 1
                                /\ back'[i].opens => i = k - 1
                                /\ i > k - 1 => back'[i].nr = heard' + i - (k - 1)
      <4> SUFFICES ASSUME NEW i \in 1 .. n - 1
                   PROVE  /\ back'[i].enc <=> i > k - 1
                          /\ back'[i].opens => i = k - 1
                          /\ i > k - 1 => back'[i].nr = heard' + i - (k - 1)
        OBVIOUS
      <4>1. i + 1 \in 1 .. n /\ back'[i] = back[i + 1] /\ i \in Nat
        BY <1>2
      <4>2. /\ back[i + 1].enc <=> i + 1 > k
            /\ back[i + 1].opens => i + 1 = k
            /\ i + 1 > k => back[i + 1].nr = heard + (i + 1) - k
        BY <2>2, <4>1
      <4>3. heard + (i + 1) - k = heard + i - (k - 1)
        BY <2>2, <3>1, <4>1
      <4> QED BY <3>1, <4>1, <4>2, <4>3
    <3>3. Opened(k) <=> Opened(k - 1)'
      <4>1. CASE k = 1
        BY <1>1, <1>2, <1>3, <3>1, <4>1 DEF Opened
      <4>2. CASE k > 1
        <5>1. back'[k - 1] = back[k] /\ ~back[1].opens /\ secure' = FALSE
          BY <1>1, <1>2, <2>2, <3>1, <4>2
        <5> QED BY <3>1, <4>2, <5>1 DEF Opened
      <4> QED BY <3>1, <4>1, <4>2
    <3>4. BackAt(k - 1)'
      <4>1. secure' => k - 1 = 0
        BY <1>1, <1>2, <2>2, <3>1
      <4>2. k - 1 < Len(back') => Opened(k - 1)'
        BY <1>2, <2>2, <3>1, <3>3
      <4>3. reads' = heard' + 1 + Len(back') - (k - 1)
        BY <1>1, <1>2, <2>2, <3>1
      <4>4. encrypted' <=> Opened(k - 1)'
        BY <1>1, <2>2, <3>3
      <4>5. \A i \in 1 .. Len(back') : /\ back'[i].enc <=> i > k - 1
                                       /\ back'[i].opens => i = k - 1
                                       /\ i > k - 1 => back'[i].nr = heard' + i - (k - 1)
        BY <1>2, <3>2
      <4> QED BY <4>1, <4>2, <4>3, <4>4, <4>5 DEF BackAt
    <3> QED BY <1>2, <3>1, <3>4 DEF BackInv
  <2> QED BY <2>3, <2>4
<1>6. (IF encrypted THEN EncryptedInv /\ (pieces = "frame" => CleanInv) ELSE ClearInv)'
  <2>1. Later' = Later /\ \A m, c : Reached(m, c)' = Reached(m, c)
    BY <1>1, RequestsSame
  <2>2. EncryptedInv => EncryptedInv'
    BY <1>1, <2>1 DEF EncryptedInv
  <2>3. OnWire => OnWire'
    <3>1. \A off : Lie(off)' <=> Lie(off)
      BY <1>1 DEF Lie
    <3> QED BY <1>1, <3>1 DEF OnWire
  <2>4. ASSUME CleanInv PROVE CleanInv'
    <3>1. writes' > Len(frames)'
      BY <1>1, <2>4 DEF CleanInv
    <3>2. writes > Len(frames)
      BY <1>1, <3>1
    <3>3. \A i \in 1 .. Len(back') : back'[i].last <=> i = Len(back')
      BY <1>2, <2>4 DEF CleanInv
    <3>4. back' # << >> => waiting'
      <4> SUFFICES ASSUME back' # << >> PROVE waiting'
        OBVIOUS
      <4>1. n > 1
        <5>1. \A s \in Seq(BackFrames) : Len(s) = 0 => s = << >>
          OBVIOUS
        <5> QED BY <1>2, <5>1
      <4>2. 1 \in 1 .. n /\ ~back[1].last
        BY <1>2, <2>4, <4>1 DEF CleanInv
      <4> QED BY <1>1, <1>2, <4>2
    <3> QED BY <1>1, <2>1, <2>3, <2>4, <3>1, <3>2, <3>3, <3>4 DEF CleanInv
  <2>5. ASSUME ClearInv PROVE ClearInv'
    <3>1. back = <<ClearAnswer(1)>> /\ waiting
      BY <1>1, <2>5 DEF ClearInv
    <3>2. back[1] = ClearAnswer(1) /\ n = 1
      BY <3>1
    <3>3. ~back[1].enc /\ ~back[1].opens
      BY <3>2, ClearAnswers
    <3>4. back' = << >> /\ heard' = heard /\ ~secure'
      <4>1. \A s \in Seq(BackFrames) : Len(s) = 0 => s = << >>
        OBVIOUS
      <4> QED BY <1>1, <1>2, <2>5, <3>2, <3>3, <4>1 DEF ClearInv, Types
    <3>5. ASSUME NEW c \in 0 .. 2, ClearAt(c) PROVE ClearAt(c)'
      <4>1. c = 2
        BY <1>1, <3>5 DEF ClearAt
      <4> QED BY <1>1, <3>5, <4>1 DEF ClearAt, Delivered
    <3> QED BY <1>1, <2>5, <3>4, <3>5 DEF ClearInv
  <2> QED BY <1>1, <2>2, <2>4, <2>5 DEF ChannelInv
<1> QED BY <1>4, <1>5, <1>6 DEF ChannelInv

\* A request of pair-verify finds everything before it delivered.
LEMMA SendVerifyKeeps == ChannelInv /\ SendVerify => ChannelInv'
<1> SUFFICES ASSUME ChannelInv, SendVerify PROVE ChannelInv'
  OBVIOUS
<1> DEFINE n == Len(sent)
<1>1. /\ Types /\ ~waiting /\ waiting' = TRUE
      /\ n \in Nat /\ n < 2 /\ sent' = Append(sent, Verify[n + 1])
      /\ wire' = wire \o Clear(Len(sent'))
      /\ UNCHANGED <<sock, back, data, encrypted, writes, reads, parser, heap, frames, secure,
                     heard, handled, pieces>>
  BY DEF ChannelInv, SendVerify, Types, SentOK, Verify
<1>2. ~encrypted /\ ClearInv
  BY <1>1 DEF ChannelInv, EncryptedInv
<1>3. /\ Len(sent') = n + 1 /\ SentOK'
  <2>1. Verify[n + 1] \in Range(Verify)
    <3>1. n + 1 \in DOMAIN Verify
      BY <1>1 DEF Verify
    <3> QED BY <3>1 DEF Range
  <2>2. sent \in Seq(Endpoint \cup Range(Verify))
    BY <1>1 DEF Types, SentOK
  <2>3. sent' \in Seq(Endpoint \cup Range(Verify)) /\ Len(sent') = n + 1
    BY <1>1, <2>1, <2>2
  <2>4. 3 .. n + 1 = {}
    BY <1>1
  <2> QED BY <2>3, <2>4 DEF SentOK
<1>4. back = << >> /\ wire = << >> /\ parser = NoRequest /\ handled = Delivered(n)
  <2>1. PICK c \in 0 .. 2 : ClearAt(c)
    BY <1>2 DEF ClearInv
  <2>2. c = 2
    BY <1>1, <2>1 DEF ClearAt
  <2>3. wire = << >>
    <3>1. 2 - 2 = 0 /\ 1 .. 0 = {}
      OBVIOUS
    <3>2. wire = [k \in 1 .. 2 - 2 |-> <<Len(sent), 2 + k>>]
      BY <2>1, <2>2 DEF ClearAt
    <3> QED BY <3>1, <3>2
  <2> QED BY <1>1, <1>2, <2>1, <2>2, <2>3 DEF ClearAt, ClearInv
<1>5. wire' = [k \in 1 .. 2 |-> <<n + 1, k>>] /\ wire' \in Seq(WireUnits)
  <2> DEFINE w == [k \in 1 .. 2 |-> <<n + 1, k>>]
  <2>1. w \in [1 .. 2 -> WireUnits]
    BY <1>1 DEF WireUnits
  <2>2. w \in Seq(WireUnits) /\ wire' = << >> \o w
    <3>1. w \in Seq(WireUnits)
      BY <2>1, SequenceOf
    <3> QED BY <1>1, <1>3, <1>4, <3>1 DEF Clear
  <2>3. << >> \o w = w
    <3> HIDE DEF w, WireUnits
    <3> QED BY <2>2
  <2> QED BY <2>2, <2>3
<1>6. FramesOK'
  <2>1. frames' = << >>
    BY <1>1, <1>2 DEF ClearInv
  <2>2. DOMAIN << >> = {} /\ \A S : << >> \in Seq(S)
    OBVIOUS
  <2> QED BY <2>1, <2>2 DEF FramesOK
<1>7. Types'
  BY <1>1, <1>3, <1>5, <1>6 DEF Types
<1>8. BackInv'
  BY <1>1, BackSame DEF ChannelInv
<1>9. ClearAt(0)'
  <2>1. wire' = [k \in 1 .. 2 - 0 |-> <<Len(sent'), 0 + k>>]
    BY <1>3, <1>5
  <2>2. parser' = Reached(Len(sent), 0)'
    BY <1>1, <1>4 DEF Reached
  <2>3. (n + 1) - 1 = n
    BY <1>1
  <2>4. handled' = Delivered(Len(sent') - 1)
    BY <1>1, <1>3, <1>4, <2>3
  <2>5. Len(sent') > 0 /\ waiting' /\ back' = << >>
    BY <1>1, <1>3, <1>4
  <2>6. /\ parser' = NoRequest
        /\ handled' = [i \in 1 .. Len(sent') - 1 |-> [of |-> i, intact |-> TRUE]]
    BY <1>1, <1>4, <2>4 DEF Delivered
  <2> QED BY <2>1, <2>5, <2>6 DEF ClearAt, Delivered, Reached
<1>10. ClearInv'
  <2>1. 0 \in 0 .. 2
    OBVIOUS
  <2> QED BY <1>1, <1>2, <1>3, <1>4, <1>9, <2>1 DEF ClearInv
<1> QED BY <1>1, <1>2, <1>7, <1>8, <1>10 DEF ChannelInv

\* The two parts a read leaves of the wire.
LEMMA Pieces ==
  ASSUME NEW S, NEW s \in Seq(S), NEW n \in 1 .. Len(s)
  PROVE  /\ SubSeq(s, 1, n) \in Seq(S) /\ SubSeq(s, 1, n) = [k \in 1 .. n |-> s[k]]
         /\ SubSeq(s, n + 1, Len(s)) \in Seq(S) /\ Len(SubSeq(s, n + 1, Len(s))) = Len(s) - n
         /\ SubSeq(s, n + 1, Len(s)) = [k \in 1 .. Len(s) - n |-> s[n + k]]
OBVIOUS

\* What the handlers do when no request is complete ...
LEMMA NothingHandled ==
  ASSUME SentOK, reads \in Nat, NEW M, NEW p \in ParserStates(M), p.done = << >>,
         NEW outcome, Handlers(p, outcome), back \in Seq(BackFrames), encrypted \in BOOLEAN
  PROVE  /\ parser' = p /\ handled' = handled \o << >> /\ encrypted' = encrypted
         /\ reads' = reads /\ back' = back
<1>1. [p EXCEPT !.done = << >>] = p
  BY DEF ParserStates, ParserFields
<1>2. AnswersTo(<< >>, reads) = [out |-> << >>, nr |-> reads]
  BY NoAnswer
<1>3. reads' = reads /\ (back' = back \o << >> \/ back' = back)
  BY <1>2 DEF Handlers
<1>4. back \o << >> = back
  <2> HIDE DEF BackFrames
  <2> QED OBVIOUS
<1>5. DOMAIN << >> = {}
  OBVIOUS
<1> QED BY <1>1, <1>3, <1>4, <1>5 DEF Handlers

\* ... and when one is.
LEMMA OneHandled ==
  ASSUME SentOK, reads \in Nat, NEW m \in Messages, NEW outcome, encrypted \in BOOLEAN,
         Handlers(Completed(m), outcome)
  PROVE  /\ parser' = NoRequest /\ handled' = handled \o <<[of |-> m, intact |-> TRUE]>>
         /\ encrypted' = (encrypted \/ m = 2)
         /\ reads' = IF m \in Later THEN reads + Answers[sent[m]] ELSE reads
         /\ back' = IF sock = "up" THEN back \o AnswerTo(m, reads) ELSE back
<1> DEFINE p == Completed(m)
           d == <<[of |-> m, intact |-> TRUE]>>
<1>1. p.done = d /\ [p EXCEPT !.done = << >>] = NoRequest
  <2> DEFINE R(done) == [at : {"start"}, of : {0}, left : {0}, intact : {TRUE}, done : {done}]
  <2>1. \A e : [NoRequest EXCEPT !.done = e] \in R(e)
    BY DEF NoRequest
  <2>2. p \in R(d)
    BY <2>1 DEF Completed
  <2>3. [p EXCEPT !.done = << >>] \in R(<< >>)
    BY <2>2
  <2>4. NoRequest \in R(<< >>)
    BY DEF NoRequest
  <2>5. \A q \in R(<< >>) :
          q = [at |-> "start", of |-> 0, left |-> 0, intact |-> TRUE, done |-> << >>]
    <3> SUFFICES ASSUME NEW q \in R(<< >>)
                 PROVE  q = [at |-> "start", of |-> 0, left |-> 0, intact |-> TRUE, done |-> << >>]
      OBVIOUS
    <3>1. q = [at |-> q.at, of |-> q.of, left |-> q.left, intact |-> q.intact, done |-> q.done]
      OBVIOUS
    <3>2. q.at = "start" /\ q.of = 0 /\ q.left = 0 /\ q.intact = TRUE /\ q.done = << >>
      OBVIOUS
    <3> QED BY <3>1, <3>2
  <2>6. p.done = d
    BY <2>2
  <2> HIDE DEF R
  <2> QED BY <2>3, <2>4, <2>5, <2>6
<1>2. AnswersTo(p.done, reads) =
        [out |-> AnswerTo(m, reads), nr |-> IF m \in Later THEN reads + Answers[sent[m]] ELSE reads]
  BY OneAnswer
<1>3. (\E i \in DOMAIN d : d[i].of = Len(Verify)) <=> m = 2
  <2>1. DOMAIN d = {1} /\ d[1].of = m /\ Len(Verify) = 2
    BY DEF Verify
  <2> QED BY <2>1
<1> HIDE DEF d, p
<1>4. /\ parser' = [p EXCEPT !.done = << >>]
      /\ handled' = handled \o p.done
      /\ encrypted' = (encrypted \/ \E i \in DOMAIN p.done : p.done[i].of = Len(Verify))
      /\ reads' = AnswersTo(p.done, reads).nr
      /\ back' = IF outcome = "sent" THEN back \o AnswersTo(p.done, reads).out ELSE back
      /\ outcome = IF sock = "up" THEN "sent" ELSE "dropped"
  BY DEF Handlers, p
<1>5. encrypted' = (encrypted \/ m = 2)
  BY <1>1, <1>3, <1>4
<1>6. reads' = IF m \in Later THEN reads + Answers[sent[m]] ELSE reads
  BY <1>2, <1>4
<1>7. back' = IF sock = "up" THEN back \o AnswerTo(m, reads) ELSE back
  BY <1>2, <1>4
<1> QED BY <1>1, <1>4, <1>5, <1>6, <1>7 DEF d

\* A read in the clear: of one unit or of both, the second request ending the clear.
LEMMA ReadClearKeeps ==
  ASSUME ChannelInv, NEW n \in 1 .. DataSize, NEW outcome, ReadClear(n, outcome)
  PROVE  ChannelInv'
<1> DEFINE m == Len(sent)
           p == Parse(parser, Arrived(n), TRUE)
<1>1. /\ Types /\ ClearInv /\ ~encrypted /\ sock # "none" /\ n <= Len(wire)
      /\ wire' = SubSeq(wire, n + 1, Len(wire)) /\ Handlers(p, outcome)
      /\ UNCHANGED <<sock, data, writes, heap, sent, frames, waiting, secure, heard, pieces>>
  BY DEF ChannelInv, ReadClear, HasRead, CanRead, controller
<1>2. SentOK /\ m \in Nat /\ m <= 2
  BY <1>1 DEF Types, SentOK, ClearInv
<1>3. n \in Nat /\ n >= 1
  BY ChunkAssumption DEF DataSize, Overhead, ChunkAssumption
<1>4. PICK c \in 0 .. 2 : ClearAt(c)
  BY <1>1 DEF ClearInv
<1>5. Len(wire) = 2 - c /\ wire \in Seq(WireUnits) /\ \A k \in 1 .. 2 - c : wire[k] = <<m, c + k>>
  <2>1. 2 - c \in Nat /\ wire = [k \in 1 .. 2 - c |-> <<m, c + k>>]
    BY <1>4 DEF ClearAt
  <2> QED BY <1>1, <2>1 DEF Types
<1>6. c + n \in {1, 2} /\ c \in {0, 1} /\ n \in 1 .. Len(wire)
  BY <1>1, <1>3, <1>5
<1>7. /\ parser = Reached(m, c) /\ handled = Delivered(m - 1) /\ m > 0 /\ waiting /\ back = << >>
      /\ m \in Messages /\ m \notin Later
  BY <1>2, <1>4, <1>6 DEF ClearAt, Messages, Later
<1>8. UnitsOf(m) = 2
  BY <1>2 DEF UnitsOf, Verify
<1>9. Arrived(n) = Piece(m, c, n)
  <2>1. Arrived(n) = [k \in 1 .. n |-> wire[k]]
    BY <1>5, <1>6, Pieces DEF Arrived
  <2>2. \A k \in 1 .. n : wire[k] = <<m, c + k>>
    BY <1>5, <1>6
  <2> QED BY <2>1, <2>2 DEF Piece
<1>10. /\ wire' = [k \in 1 .. 2 - (c + n) |-> <<m, (c + n) + k>>]
       /\ wire' \in Seq(WireUnits)
  <2>1. wire' = [k \in 1 .. Len(wire) - n |-> wire[n + k]] /\ wire' \in Seq(WireUnits)
    BY <1>1, <1>5, <1>6, Pieces
  <2>2. /\ Len(wire) - n = 2 - (c + n)
        /\ \A k \in 1 .. 2 - (c + n) : n + k \in 1 .. 2 - c /\ c + (n + k) = (c + n) + k
    BY <1>3, <1>5
  <2>3. \A k \in 1 .. 2 - (c + n) : wire[n + k] = <<m, (c + n) + k>>
    BY <1>5, <2>2
  <2> QED BY <2>1, <2>2, <2>3
<1>11. p = IF c + n = 2 THEN Completed(m) ELSE Reached(m, c + n)
  <2> HIDE DEF m
  <2>1. Messages \subseteq Messages /\ c \in Nat /\ n \in Nat \ {0} /\ c + n <= UnitsOf(m)
    BY <1>3, <1>6, <1>8
  <2> HIDE DEF DataSize
  <2>2. \A blank : Parse(Reached(m, c), Piece(m, c, n), blank) =
          IF c + n = UnitsOf(m) THEN Completed(m) ELSE Reached(m, c + n)
    BY <1>2, <1>7, <2>1, PieceParsed
  <2>3. Parse(Reached(m, c), Piece(m, c, n), TRUE) =
          IF c + n = UnitsOf(m) THEN Completed(m) ELSE Reached(m, c + n)
    BY <2>2, Zenon
  <2> QED BY <1>7, <1>8, <1>9, <2>3
<1> HIDE DEF p
<1>12. Later' = Later /\ (\A i, j : Reached(i, j)' = Reached(i, j)) /\ SentOK' /\ FramesOK'
  BY <1>1, RequestsSame DEF Types
<1>13. CASE c + n = 1
  <2>1. p = Reached(m, 1) /\ p \in ParserStates(Messages) /\ p.done = << >>
    <3>1. 1 \in Nat /\ 1 < UnitsOf(m) /\ Messages \subseteq Messages
      BY <1>8
    <3>2. p = Reached(m, 1)
      BY <1>11, <1>13
    <3> HIDE DEF m
    <3> QED BY <1>2, <1>7, <3>1, <3>2, ReachedTyped
  <2>2. /\ parser' = p /\ handled' = handled \o << >> /\ encrypted' = encrypted
        /\ reads' = reads /\ back' = back
    <3>1. reads \in Nat /\ back \in Seq(BackFrames) /\ encrypted \in BOOLEAN
      BY <1>1 DEF Types
    <3> QED BY <1>1, <1>2, <2>1, <3>1, NothingHandled
  <2>3. handled' = Delivered(m - 1)
    BY <1>2, <1>7, <2>2, DeliveredOn
  <2>4. Types'
    BY <1>1, <1>10, <1>12, <2>2 DEF Types
  <2>5. BackInv'
    BY <1>1, <2>2, BackSame DEF ChannelInv
  <2>6. ClearAt(1)'
    <3>1. wire' = [k \in 1 .. 2 - 1 |-> <<Len(sent'), 1 + k>>]
      BY <1>1, <1>10, <1>13
    <3>2. parser' = Reached(Len(sent), 1)' /\ handled' = Delivered(Len(sent) - 1)'
      <4>1. Delivered(Len(sent) - 1)' = Delivered(m - 1)
        BY <1>1 DEF Delivered
      <4> QED BY <1>1, <1>12, <2>1, <2>2, <2>3, <4>1
    <3>3. Len(sent') > 0 /\ waiting' /\ back' = << >>
      BY <1>1, <1>7, <2>2
    <3> QED BY <3>1, <3>2, <3>3 DEF ClearAt
  <2>7. ClearInv'
    <3>1. 1 \in 0 .. 2
      OBVIOUS
    <3> QED BY <1>1, <1>7, <2>2, <2>6, <3>1 DEF ClearInv
  <2> QED BY <1>1, <2>2, <2>4, <2>5, <2>7 DEF ChannelInv
<1>14. CASE c + n = 2
  <2>1. p = Completed(m)
    BY <1>11, <1>14
  <2>2. /\ parser' = NoRequest /\ handled' = handled \o <<[of |-> m, intact |-> TRUE]>>
        /\ encrypted' = (m = 2) /\ reads' = reads
        /\ back' = IF sock = "up" THEN <<ClearAnswer(m)>> ELSE << >>
    <3>1. reads \in Nat /\ encrypted \in BOOLEAN /\ Handlers(Completed(m), outcome)
      BY <1>1, <2>1 DEF Types
    <3>2. AnswerTo(m, reads) = <<ClearAnswer(m)>>
      BY <1>2, <1>7, <3>1, AnswerTyped
    <3>3. << >> \o <<ClearAnswer(m)>> = <<ClearAnswer(m)>>
      OBVIOUS
    <3> HIDE DEF m
    <3>4. /\ parser' = NoRequest /\ handled' = handled \o <<[of |-> m, intact |-> TRUE]>>
          /\ encrypted' = (encrypted \/ m = 2)
          /\ reads' = IF m \in Later THEN reads + Answers[sent[m]] ELSE reads
          /\ back' = IF sock = "up" THEN back \o AnswerTo(m, reads) ELSE back
      BY <1>2, <1>7, <3>1, OneHandled
    <3> QED BY <1>1, <1>7, <3>2, <3>3, <3>4
  <2>3. handled' = Delivered(m)
    <3>1. m - 1 \in Nat /\ (m - 1) + 1 = m
      BY <1>2, <1>7
    <3>2. handled' = Delivered(m - 1) \o <<[of |-> (m - 1) + 1, intact |-> TRUE]>>
      BY <1>7, <2>2, <3>1
    <3>3. Delivered(m - 1) \o <<[of |-> (m - 1) + 1, intact |-> TRUE]>> = Delivered((m - 1) + 1)
      BY <3>1, DeliveredOn
    <3> QED BY <3>1, <3>2, <3>3
  <2>4. wire' = << >>
    <3>1. 1 .. 2 - 2 = {}
      OBVIOUS
    <3>2. wire' = [k \in 1 .. 2 - 2 |-> <<m, 2 + k>>]
      BY <1>10, <1>14
    <3> QED BY <3>1, <3>2
  <2>5. m \in {1, 2} /\ ClearAnswer(m) \in BackFrames /\ ~ClearAnswer(m).enc
        /\ ClearAnswer(m).last /\ (ClearAnswer(m).opens <=> m = 2)
    <3>1. m \in {1, 2}
      BY <1>2, <1>7
    <3> HIDE DEF m
    <3>2. CASE m = 1
      <4>1. ClearAnswer(m) = [enc |-> FALSE, nr |-> 0, last |-> TRUE, opens |-> FALSE]
        BY <3>2, ClearAnswers
      <4>2. ClearAnswer(m) \in BackFrames
        BY <4>1 DEF BackFrames
      <4>3. ~ClearAnswer(m).enc /\ ClearAnswer(m).last /\ ~ClearAnswer(m).opens
        BY <4>1
      <4> QED BY <3>1, <3>2, <4>2, <4>3
    <3>3. CASE m = 2
      <4>1. ClearAnswer(m) = [enc |-> FALSE, nr |-> 0, last |-> TRUE, opens |-> TRUE]
        BY <3>3, ClearAnswers
      <4>2. ClearAnswer(m) \in BackFrames
        BY <4>1 DEF BackFrames
      <4>3. ~ClearAnswer(m).enc /\ ClearAnswer(m).last /\ ClearAnswer(m).opens
        BY <4>1
      <4> QED BY <3>1, <3>3, <4>2, <4>3
    <3> QED BY <3>1, <3>2, <3>3
  <2>6. Types'
    <3>1. back' \in Seq(BackFrames)
      <4> HIDE DEF BackFrames
      <4> QED BY <2>2, <2>5
    <3> QED BY <1>1, <1>10, <1>12, <2>2, <3>1 DEF Types
  <2>7. BackInv'
    <3>1. sock' = sock /\ reads' = 1 /\ heard' = 0 /\ secure' = secure /\ ~secure
          /\ sock \in {"up", "gone"} /\ (encrypted' <=> m = 2)
      BY <1>1, <2>2 DEF ClearInv, Types
    <3>2. CASE sock = "up"
      <4>1. Len(back') = 1 /\ back'[1] = ClearAnswer(m)
        BY <2>2, <3>2
      <4>2. BackAt(1)'
        BY <2>5, <3>1, <4>1 DEF BackAt, Opened
      <4>3. 1 \in 0 .. Len(back')
        BY <4>1
      <4> QED BY <4>2, <4>3 DEF BackInv
    <3>3. CASE sock # "up"
      <4>1. Len(back') = 0 /\ 0 \in 0 .. Len(back') /\ sock' = "gone"
        BY <2>2, <3>1, <3>3
      <4>2. BackAt(0)'
        BY <3>1, <4>1 DEF BackAt
      <4> QED BY <4>1, <4>2 DEF BackInv
    <3> QED BY <3>2, <3>3
  <2>8. CASE m = 1
    <3>1. ClearAt(2)'
      <4>1. wire' = [k \in 1 .. 2 - 2 |-> <<Len(sent'), 2 + k>>]
        BY <1>1, <1>10, <1>14
      <4>2. parser' = NoRequest /\ handled' = Delivered(Len(sent')) /\ Len(sent') < 2
        BY <1>1, <2>2, <2>3, <2>8
      <4> QED BY <4>1, <4>2 DEF ClearAt
    <3>2. back' = << >> \/ (back' = <<ClearAnswer(1)>> /\ waiting')
      BY <1>1, <1>7, <2>2, <2>8
    <3>3. 2 \in 0 .. 2
      OBVIOUS
    <3>4. ClearInv'
      BY <1>1, <2>2, <3>1, <3>2, <3>3 DEF ClearInv, ClearAnswer
    <3>5. ~encrypted'
      <4>1. m # 2 /\ encrypted' = (m = 2)
        BY <2>2, <2>8
      <4> HIDE DEF m
      <4> QED BY <4>1, Zenon
    <3> QED BY <2>6, <2>7, <3>4, <3>5 DEF ChannelInv
  <2>9. CASE m = 2
    <3>1. EncryptedInv'
      <4>1. << >> \in Seq(PlainUnits(Later)) /\ NoRequest \in ParserStates(Later)
        BY NoRequestTyped
      <4>2. heap' = << >> /\ NoRequest.done = << >> /\ Len(sent') = 2
        BY <1>1, <2>9 DEF ClearInv, NoRequest
      <4> QED BY <1>12, <2>2, <4>1, <4>2 DEF EncryptedInv
    <3>2. frames' = << >> /\ Len(frames') = 0 /\ writes' = 1 /\ data' = << >> /\ waiting'
      BY <1>1, <1>7 DEF ClearInv
    <3>3. OnWire'
      <4> DEFINE off == [f \in 1 .. 0 |-> 0]
      <4>1. off \in [1 .. 0 -> Int] /\ 1 .. 0 = {} /\ Len(wire') = 0 /\ 1 .. 0 - 1 = {}
        BY <2>4
      <4> HIDE DEF off
      <4>2. Lie(off)'
        BY <3>2, <4>1 DEF Lie
      <4> QED BY <3>2, <4>1, <4>2 DEF OnWire
    <3>4. \A i \in 1 .. Len(back') : back'[i].last <=> i = Len(back')
      <4>1. CASE sock = "up"
        <5>1. Len(back') = 1 /\ back'[1] = ClearAnswer(m)
          BY <2>2, <4>1
        <5> QED BY <2>5, <5>1
      <4>2. CASE sock # "up"
        <5>1. Len(back') = 0
          BY <2>2, <4>2
        <5> QED BY <5>1
      <4> QED BY <4>1, <4>2
    <3>5. CleanInv'
      <4>1. writes' > Len(frames') /\ writes' \in 1 .. Len(frames') + 1
        BY <3>2
      <4>2. handled' = Delivered(Len(sent))'
        BY <1>1, <2>3 DEF Delivered
      <4> QED BY <2>2, <3>2, <3>3, <3>4, <4>1, <4>2 DEF CleanInv
    <3> QED BY <2>2, <2>6, <2>7, <2>9, <3>1, <3>5 DEF ChannelInv
  <2> QED BY <2>5, <2>8, <2>9
<1> QED BY <1>6, <1>13, <1>14

\* However the units are cut or jumbled, the parser completes requests of the session only.
LEMMA ParseTyped ==
  ASSUME SentOK, NEW M, M \subseteq Messages, NEW p \in ParserStates(M),
         NEW units \in Seq(PlainUnits(M)), NEW blank
  PROVE  Parse(p, units, blank) \in ParserStates(M)
<1>1. PICK f \in [0 .. Len(units) -> ParserStates(M)] : ParserRun(f, p, units, blank)
  BY ParseIs
<1>2. [p EXCEPT !.at = "error"] \in ParserStates(M)
  BY DEF ParserStates, ParserFields
<1>3. Len(units) \in 0 .. Len(units)
  OBVIOUS
<1>4. f[Len(units)] \in ParserStates(M)
  BY <1>3
<1> HIDE DEF ParserStates
<1> QED BY <1>1, <1>2, <1>4 DEF ParserRun

\* Whatever requests of the encrypted session the parser has completed, the answers go on as
\* those before them.
LEMMA LaterHandled ==
  ASSUME Types, BackInv, encrypted, sock # "none", NEW p \in ParserStates(Later), NEW outcome,
         Handlers(p, outcome), UNCHANGED <<sock, heard, secure>>
  PROVE  /\ parser' \in ParserStates(Later) /\ parser'.done = << >>
         /\ encrypted' /\ encrypted' \in BOOLEAN
         /\ reads' \in Nat /\ back' \in Seq(BackFrames) /\ BackInv'
<1> DEFINE out == AnswersTo(p.done, reads).out
           n == Len(back)
<1>1. /\ SentOK /\ reads \in Nat /\ back \in Seq(BackFrames) /\ heard \in Nat /\ n \in Nat
      /\ sock \in {"up", "gone"} /\ secure \in BOOLEAN /\ encrypted = TRUE
  BY DEF Types
<1>2. p.done \in Seq(Requests(Later))
  BY DEF ParserStates, ParserFields
<1>3. /\ out \in Seq(BackFrames) /\ AnswersTo(p.done, reads).nr \in Nat
      /\ Counted(out, reads) /\ AnswersTo(p.done, reads).nr = reads + Len(out)
  <2>1. /\ AnswersTo(p.done, reads) \in AnswerStates
        /\ Counted(AnswersTo(p.done, reads).out, reads)
        /\ AnswersTo(p.done, reads).nr = reads + Len(AnswersTo(p.done, reads).out)
    BY <1>1, <1>2, LaterAnswers
  <2> QED BY <2>1 DEF AnswerStates
<1> HIDE DEF out
<1>4. /\ parser' = [p EXCEPT !.done = << >>]
      /\ encrypted' = (encrypted \/ \E i \in DOMAIN p.done : p.done[i].of = Len(Verify))
      /\ reads' = AnswersTo(p.done, reads).nr
      /\ back' = IF outcome = "sent" THEN back \o out ELSE back
      /\ outcome = IF sock = "up" THEN "sent" ELSE "dropped"
  BY DEF Handlers, out
<1>5. parser' \in ParserStates(Later) /\ parser'.done = << >>
  <2>1. << >> \in Seq(Requests(Later))
    OBVIOUS
  <2> QED BY <1>4, <2>1 DEF ParserStates, ParserFields
<1>6. encrypted' /\ encrypted' = TRUE
  BY <1>1, <1>4
<1>7. /\ back \o out \in Seq(BackFrames) /\ Len(back \o out) = n + Len(out) /\ Len(out) \in Nat
      /\ DOMAIN out = 1 .. Len(out)
      /\ \A i \in 1 .. n : (back \o out)[i] = back[i]
      /\ \A i \in 1 .. Len(out) : (back \o out)[n + i] = out[i]
  BY <1>1, <1>3, Concatenated
<1>8. BackInv'
  <2>1. PICK k \in 0 .. n : BackAt(k)
    BY DEF BackInv
  <2>2. CASE sock = "gone"
    <3>1. back' = back /\ sock' = "gone" /\ secure' = secure /\ heard' = heard
      BY <1>4, <2>2
    <3>2. BackAt(k)'
      BY <2>1, <3>1 DEF BackAt, Opened
    <3> QED BY <3>1, <3>2 DEF BackInv
  <2>3. CASE sock = "up"
    <3> DEFINE l == Len(out)
    <3>1. /\ back' = back \o out /\ Len(back') = n + l /\ l \in Nat /\ k \in Nat /\ k <= n
          /\ reads' = reads + l /\ reads = heard + 1 + n - k /\ Opened(k)
          /\ secure' = secure /\ heard' = heard
      <4>1. reads = heard + 1 + n - k /\ Opened(k)
        BY <1>1, <2>1, <2>3 DEF BackAt
      <4>2. back' = back \o out
        BY <1>4, <2>3
      <4> QED BY <1>1, <1>3, <1>4, <1>7, <4>1, <4>2
    <3>2. Opened(k)'
      <4>1. k > 0 => back'[k] = back[k]
        BY <1>7, <3>1
      <4> QED BY <3>1, <4>1 DEF Opened
    <3>3. ASSUME NEW i \in 1 .. n + l
          PROVE  /\ back'[i].enc <=> i > k
                 /\ back'[i].opens => i = k
                 /\ i > k => back'[i].nr = heard + i - k
      <4>1. CASE i <= n
        <5>1. back'[i] = back[i] /\ i \in 1 .. n
          BY <1>7, <3>1, <4>1
        <5>2. /\ back[i].enc <=> i > k
              /\ back[i].opens => i = k
              /\ i > k => back[i].nr = heard + i - k
          BY <2>1, <5>1 DEF BackAt
        <5> QED BY <5>1, <5>2
      <4>2. CASE i > n
        <5> DEFINE j == i - n
        <5>1. j \in 1 .. l /\ i = n + j /\ i > k /\ i \in Nat /\ n \in Nat
          BY <1>1, <3>1, <4>2
        <5>2. back'[i] = out[j] /\ j \in DOMAIN out
          BY <1>7, <3>1, <5>1
        <5>3. out[j].enc /\ ~out[j].opens /\ out[j].nr = reads + j - 1
          BY <1>3, <5>2 DEF Counted
        <5>4. reads + j - 1 = heard + i - k
          <6> HIDE DEF j, n
          <6> QED BY <1>1, <3>1, <5>1
        <5> QED BY <5>1, <5>2, <5>3, <5>4
      <4> QED BY <1>1, <3>1, <4>1, <4>2
    <3>4. reads' = heard' + 1 + Len(back') - k
      <4> HIDE DEF n, l
      <4> QED BY <1>1, <3>1
    <3>5. secure' => k = 0
      BY <2>1, <3>1 DEF BackAt
    <3>6. BackAt(k)'
      BY <1>6, <3>1, <3>2, <3>3, <3>4, <3>5 DEF BackAt
    <3>7. k \in 0 .. Len(back')
      BY <1>1, <3>1
    <3> QED BY <3>6, <3>7 DEF BackInv
  <2> QED BY <1>1, <2>2, <2>3
<1>9. back' \in Seq(BackFrames) /\ reads' \in Nat
  BY <1>1, <1>3, <1>4, <1>7
<1> QED BY <1>5, <1>6, <1>8, <1>9

\* A connection is clean only if this read is, and all were before.
LEMMA WorseIs ==
  ASSUME pieces \in {"frame", "frames", "inside"}, NEW n
  PROVE  /\ Worse(Cut(n)) \in {"frame", "frames", "inside"}
         /\ Worse(Cut(n)) = "frame" => pieces = "frame" /\ Cut(n) = "frame"
<1>1. Cut(n) \in {"frame", "frames", "inside"}
  BY DEF Cut
<1> QED BY <1>1 DEF Worse

\* A read that brings one whole frame brings the frame that the counter stands for.
LEMMA FrameRead ==
  ASSUME Types, EncryptedInv, CleanInv, NEW n \in 1 .. Len(wire), Cut(n) = "frame"
  PROVE  /\ writes \in DOMAIN frames /\ n = frames[writes].n + Overhead
         /\ Decrypt(data \o Arrived(n), n) =
              [used |-> n, count |-> writes + 1, plain |-> FrameUnits(writes)]
<1>1. PICK off \in [writes .. Len(frames) -> Int] : Lie(off)
  BY DEF CleanInv, OnWire
<1>2. /\ writes \in Nat /\ writes >= 1 /\ Len(frames) \in Nat /\ DOMAIN frames = 1 .. Len(frames)
      /\ wire \in Seq(WireUnits) /\ FramesOK /\ data = << >> /\ n \in Nat /\ n >= 1
      /\ heap \in Seq(PlainUnits(Later))
  <2>1. FramesOK /\ frames \in Seq(FrameRecords)
    BY DEF Types, FramesOK
  <2> HIDE DEF FrameRecords
  <2> QED BY <2>1 DEF Types, CleanInv, EncryptedInv
<1>3. PICK f \in writes .. Len(frames) : \E k \in 0 .. frames[f].n + 1 : n = off[f] + k + 1
  BY <1>1 DEF Lie
<1>4. writes <= Len(frames) /\ writes \in 1 .. Len(frames) /\ off[writes] = 0
  BY <1>1, <1>2, <1>3 DEF Lie
<1>5. frames[writes].n \in Nat /\ frames[writes].n >= 1
  BY <1>2, <1>4, FrameUnitsTyped, ChunkAssumption DEF FrameRecords, ChunkAssumption
<1>6. \A k \in 0 .. frames[writes].n + 1 : k + 1 \in 1 .. Len(wire) /\ wire[k + 1] = <<writes, k>>
  <2> SUFFICES ASSUME NEW k \in 0 .. frames[writes].n + 1
               PROVE  k + 1 \in 1 .. Len(wire) /\ wire[k + 1] = <<writes, k>>
    OBVIOUS
  <2>1. writes \in writes .. Len(frames)
    BY <1>2, <1>4
  <2>2. off[writes] + k + 1 \in 1 .. Len(wire) /\ wire[off[writes] + k + 1] = <<writes, k>>
    BY <1>1, <2>1 DEF Lie
  <2>3. off[writes] + k + 1 = k + 1
    BY <1>4
  <2> QED BY <2>2, <2>3
<1>7. wire[1] = <<writes, 0>>
  BY <1>5, <1>6
<1>8. PICK k \in 0 .. frames[f].n + 1 : n = off[f] + k + 1
  BY <1>3
<1>9. wire[n] = <<f, k>>
  BY <1>1, <1>8 DEF Lie
<1>10. f = writes /\ k = frames[f].n + 1
  <2>1. wire[1][1] = writes /\ wire[n][1] = f /\ wire[n][2] = k
    BY <1>7, <1>9
  <2>2. wire[n] = <<wire[n][1], frames[wire[n][1]].n + 1>> /\ wire[1][1] = wire[n][1]
    BY DEF Cut
  <2> QED BY <1>9, <2>1, <2>2
<1>11. n = frames[writes].n + Overhead
  BY <1>4, <1>5, <1>8, <1>10 DEF Overhead
<1>12. data \o Arrived(n) = [i \in 1 .. n |-> wire[i]]
  <2>1. Arrived(n) \in Seq(WireUnits) /\ Arrived(n) = [i \in 1 .. n |-> wire[i]]
    BY <1>2, Pieces DEF Arrived
  <2>2. << >> \o Arrived(n) = Arrived(n)
    BY <2>1
  <2> QED BY <1>2, <2>1, <2>2
<1>13. \A i \in 0 .. frames[writes].n + 1 : (data \o Arrived(n))[i + 1] = <<writes, i>>
  <2> SUFFICES ASSUME NEW i \in 0 .. frames[writes].n + 1
               PROVE  (data \o Arrived(n))[i + 1] = <<writes, i>>
    OBVIOUS
  <2>1. i + 1 \in 1 .. n
    BY <1>5, <1>11 DEF Overhead
  <2>2. (data \o Arrived(n))[i + 1] = wire[i + 1]
    BY <1>12, <2>1
  <2> QED BY <1>6, <2>2
<1> HIDE DEF Overhead
<1>14. Decrypt(data \o Arrived(n), n) =
         [used |-> n, count |-> writes + 1, plain |-> FrameUnits(writes)]
  <2> DEFINE buf == data \o Arrived(n)
  <2>1. \A i \in 0 .. frames[writes].n + 1 : buf[i + 1] = <<writes, i>>
    BY <1>13
  <2> HIDE DEF buf
  <2>2. writes \in DOMAIN frames
    BY <1>2, <1>4
  <2>3. Decrypt(buf, n) = [used |-> n, count |-> writes + 1, plain |-> FrameUnits(writes)]
    BY <1>2, <1>11, <2>1, <2>2, FrameDecrypted
  <2> QED BY <2>3 DEF buf
<1> QED BY <1>2, <1>4, <1>11, <1>14

\* The frames after it lie on the wire as they did.
LEMMA FramesLeft ==
  ASSUME NEW n
  PROVE  /\ Types /\ CleanInv /\ writes \in DOMAIN frames
         /\ n \in 1 .. Len(wire) /\ n = frames[writes].n + Overhead
         /\ wire' = SubSeq(wire, n + 1, Len(wire)) /\ frames' = frames /\ writes' = writes + 1
         => OnWire'
<1>0. SUFFICES ASSUME /\ Types /\ CleanInv /\ writes \in DOMAIN frames
                      /\ n \in 1 .. Len(wire) /\ n = frames[writes].n + Overhead
                      /\ wire' = SubSeq(wire, n + 1, Len(wire)) /\ frames' = frames
                      /\ writes' = writes + 1
               PROVE  OnWire'
  OBVIOUS
<1>1. PICK off \in [writes .. Len(frames) -> Int] : Lie(off)
  BY <1>0 DEF CleanInv, OnWire
<1>2. /\ writes \in Nat /\ writes >= 1 /\ Len(frames) \in Nat /\ writes <= Len(frames)
      /\ wire \in Seq(WireUnits) /\ Len(wire) \in Nat /\ FramesOK /\ n \in Nat /\ n >= 1
      /\ DOMAIN frames = 1 .. Len(frames)
  <2>1. FramesOK /\ frames \in Seq(FrameRecords)
    BY <1>0 DEF Types, FramesOK
  <2>2. wire \in Seq(WireUnits) /\ writes \in Nat
    BY <1>0 DEF Types
  <2>3. Len(wire) \in Nat /\ Len(frames) \in Nat /\ DOMAIN frames = 1 .. Len(frames)
    <3> HIDE DEF FrameRecords
    <3> QED BY <2>1, <2>2
  <2> QED BY <1>0, <2>1, <2>2, <2>3
<1>3. /\ Len(wire') = Len(wire) - n
      /\ \A p \in 1 .. Len(wire) - n : wire'[p] = wire[n + p]
  <2>1. n \in 1 .. Len(wire)
    BY <1>0
  <2>2. /\ Len(SubSeq(wire, n + 1, Len(wire))) = Len(wire) - n
        /\ SubSeq(wire, n + 1, Len(wire)) = [p \in 1 .. Len(wire) - n |-> wire[n + p]]
    BY <1>2, <2>1, Pieces
  <2> QED BY <1>0, <2>2
<1> DEFINE N == frames[writes].n
<1>4. N \in Nat /\ n = N + 2 /\ off[writes] = 0 /\ writes \in writes .. Len(frames)
  BY <1>0, <1>1, <1>2, FrameUnitsTyped, ChunkAssumption
     DEF FrameRecords, ChunkAssumption, Overhead, Lie
<1> HIDE DEF N
<1>5. \A k \in 0 .. N + 1 : wire[k + 1] = <<writes, k>>
  <2> SUFFICES ASSUME NEW k \in 0 .. N + 1 PROVE wire[k + 1] = <<writes, k>>
    OBVIOUS
  <2>1. off[writes] + k + 1 = k + 1
    BY <1>4
  <2>2. wire[off[writes] + k + 1] = <<writes, k>>
    BY <1>1, <1>4 DEF Lie, N
  <2> QED BY <2>1, <2>2
<1> DEFINE new == [f \in writes + 1 .. Len(frames) |-> off[f] - n]
<1>6. \A f \in writes + 1 .. Len(frames) : off[f] \in Int /\ new[f] = off[f] - n
                                          /\ f \in writes .. Len(frames) /\ f # writes
  BY <1>2
<1>7. new \in [writes + 1 .. Len(frames) -> Int]
  BY <1>4, <1>6
<1>8. writes + 1 <= Len(frames) => new[writes + 1] = 0
  <2> SUFFICES ASSUME writes + 1 <= Len(frames) PROVE new[writes + 1] = 0
    OBVIOUS
  <2>1. writes \in writes .. Len(frames) - 1 /\ writes + 1 \in writes + 1 .. Len(frames)
    BY <1>2
  <2>2. off[writes + 1] = off[writes] + frames[writes].n + Overhead
    BY <1>1, <2>1 DEF Lie
  <2>3. off[writes + 1] = 0 + N + 2
    BY <1>4, <2>2 DEF Overhead, N
  <2> QED BY <1>4, <1>6, <2>1, <2>3
<1>9. \A f \in writes + 1 .. Len(frames) - 1 : new[f + 1] = new[f] + frames[f].n + Overhead
  <2> SUFFICES ASSUME NEW f \in writes + 1 .. Len(frames) - 1
               PROVE  new[f + 1] = new[f] + frames[f].n + Overhead
    OBVIOUS
  <2>1. f \in writes .. Len(frames) - 1 /\ f \in 1 .. Len(frames)
        /\ f \in writes + 1 .. Len(frames) /\ f + 1 \in writes + 1 .. Len(frames)
    BY <1>2
  <2>2. off[f + 1] = off[f] + frames[f].n + Overhead
    BY <1>1, <2>1 DEF Lie
  <2>3. frames[f].n \in Nat
    BY <1>2, <2>1, FrameUnitsTyped, ChunkAssumption DEF FrameRecords, ChunkAssumption
  <2>4. /\ new[f + 1] = off[f + 1] - n /\ new[f] = off[f] - n /\ off[f] \in Int
    BY <1>6, <2>1
  <2> HIDE DEF new
  <2> QED BY <1>2, <2>2, <2>3, <2>4 DEF Overhead
<1>10. ASSUME NEW f \in writes + 1 .. Len(frames), NEW k \in 0 .. frames[f].n + 1
       PROVE  new[f] + k + 1 \in 1 .. Len(wire') /\ wire'[new[f] + k + 1] = <<f, k>>
  <2> DEFINE q == off[f] + k + 1
  <2>1. q \in 1 .. Len(wire) /\ wire[q] = <<f, k>> /\ f # writes
    BY <1>1, <1>6 DEF Lie
  <2>2. q > n
    <3> SUFFICES ASSUME q <= n PROVE FALSE
      BY <1>2, <2>1
    <3> HIDE DEF q
    <3>1. q - 1 \in 0 .. N + 1 /\ (q - 1) + 1 = q
      BY <1>2, <1>4, <2>1
    <3>2. wire[q] = <<writes, q - 1>>
      BY <1>5, <3>1
    <3> QED BY <2>1, <3>2
  <2>3. new[f] + k + 1 = q - n /\ q \in Int
    <3>1. k \in Int /\ off[f] \in Int /\ new[f] = off[f] - n
      <4>1. k \in Int
        OBVIOUS
      <4> QED BY <1>6, <4>1
    <3> HIDE DEF new
    <3> QED BY <1>2, <3>1
  <2> HIDE DEF q, new
  <2>4. q - n \in 1 .. Len(wire) - n /\ n + (q - n) = q
    BY <1>2, <2>1, <2>2, <2>3
  <2> QED BY <1>3, <2>1, <2>3, <2>4
<1>11. ASSUME NEW p \in 1 .. Len(wire')
       PROVE  \E f \in writes + 1 .. Len(frames) : \E k \in 0 .. frames[f].n + 1 :
                p = new[f] + k + 1
  <2>1. n + p \in 1 .. Len(wire) /\ p \in Nat /\ p >= 1
    BY <1>2, <1>3
  <2>2. PICK f \in writes .. Len(frames) : \E k \in 0 .. frames[f].n + 1 : n + p = off[f] + k + 1
    BY <1>1, <2>1 DEF Lie
  <2>3. PICK k \in 0 .. frames[f].n + 1 : n + p = off[f] + k + 1
    BY <2>2
  <2>4. f # writes
    <3> SUFFICES ASSUME f = writes PROVE FALSE
      OBVIOUS
    <3>1. k \in 0 .. N + 1
      BY <2>3 DEF N
    <3>2. n + p = 0 + k + 1
      BY <1>4, <2>3
    <3> HIDE DEF new
    <3> QED BY <1>4, <2>1, <3>1, <3>2
  <2>5. f \in writes + 1 .. Len(frames)
    BY <1>2, <2>4
  <2>6. p = new[f] + k + 1
    <3>1. k \in Int
      OBVIOUS
    <3>2. off[f] \in Int /\ new[f] = off[f] - n
      BY <1>6, <2>5
    <3> HIDE DEF new
    <3> QED BY <1>2, <2>1, <2>3, <3>1, <3>2
  <2> QED BY <2>5, <2>6
<1> HIDE DEF new
<1>12. PICK rest : rest = new
  OBVIOUS
<1>13. Lie(rest)'
  <2>1. frames' = frames /\ writes' = writes + 1
    BY <1>0
  <2>2. writes' <= Len(frames') => rest[writes'] = 0
    BY <1>8, <1>12, <2>1
  <2>3. \A f \in writes' .. Len(frames') - 1 : rest[f + 1] = rest[f] + frames'[f].n + Overhead
    BY <1>9, <1>12, <2>1
  <2>4. \A f \in writes' .. Len(frames') : \A k \in 0 .. frames'[f].n + 1 :
          rest[f] + k + 1 \in 1 .. Len(wire') /\ wire'[rest[f] + k + 1] = <<f, k>>
    BY <1>10, <1>12, <2>1
  <2>5. \A p \in 1 .. Len(wire') :
          \E f \in writes' .. Len(frames') : \E k \in 0 .. frames'[f].n + 1 : p = rest[f] + k + 1
    BY <1>11, <1>12, <2>1
  <2> QED BY <2>2, <2>3, <2>4, <2>5 DEF Lie
<1>14. rest \in [writes' .. Len(frames') -> Int]
  <2>1. frames' = frames /\ writes' = writes + 1
    BY <1>0
  <2> QED BY <1>7, <1>12, <2>1
<1> QED BY <1>13, <1>14 DEF OnWire

\* The frame brings the parser to the next one, or completes the request with the last one.
LEMMA FrameParsed ==
  ASSUME Types, EncryptedInv, CleanInv, writes \in DOMAIN frames, NEW blank
  PROVE  /\ Parse(parser, FrameUnits(writes), blank) =
              IF writes = Len(frames) THEN Completed(Len(sent))
              ELSE Reached(Len(sent), frames[writes + 1].from - 1)
         /\ writes < Len(frames) => frames[writes + 1].of = Len(sent)
         /\ Len(sent) \in Messages /\ Len(sent) \in Later
<1> DEFINE m == Len(sent)
           this == frames[writes]
           next == frames[writes + 1]
<1>1. /\ SentOK /\ FramesOK /\ Len(frames) \in Nat /\ DOMAIN frames = 1 .. Len(frames)
      /\ m \in Nat /\ m >= 2 /\ writes \in Nat /\ writes >= 1 /\ writes <= Len(frames)
  <2>1. FramesOK /\ frames \in Seq(FrameRecords) /\ SentOK
    BY DEF Types, FramesOK
  <2>2. Len(frames) \in Nat /\ DOMAIN frames = 1 .. Len(frames)
    <3> HIDE DEF FrameRecords
    <3> QED BY <2>1
  <2> QED BY <2>1, <2>2 DEF Types, SentOK, EncryptedInv
<1>2. this.of = m /\ parser = Reached(m, this.from - 1)
  BY <1>1 DEF CleanInv
<1>3. /\ this.of \in 3 .. m /\ this.from \in Nat /\ this.from >= 1 /\ this.n \in Nat /\ this.n >= 1
  BY <1>1, FrameUnitsTyped, ChunkAssumption DEF FrameRecords, ChunkAssumption, Later
<1>4. m \in Messages /\ m \in Later
  BY <1>1, <1>2, <1>3 DEF Messages, Later
<1>5. FrameOK(writes)
  BY <1>1 DEF FramesOK
<1>6. this.from + this.n - 1 <= UnitsOf(m) /\ UnitsOf(m) \in Nat
  BY <1>1, <1>2, <1>4, <1>5, UnitsTyped DEF FrameOK
<1>7. ASSUME writes < Len(frames)
      PROVE  /\ next.of = m /\ next.from = this.from + this.n
             /\ this.from + this.n - 1 < UnitsOf(m)
  <2>1. writes + 1 \in DOMAIN frames
    BY <1>1, <1>7
  <2>2. next.of \in 3 .. m /\ next.from \in Nat /\ next.n \in Nat /\ next.n >= 1
    BY <1>1, <2>1, FrameUnitsTyped, ChunkAssumption DEF FrameRecords, ChunkAssumption, Later
  <2>3. next.from + next.n - 1 <= UnitsOf(next.of)
    BY <1>1, <2>1 DEF FramesOK, FrameOK
  <2>4. \/ next.of = this.of /\ next.from = this.from + this.n
        \/ next.of = this.of + 1
    BY <1>5, <1>7 DEF FrameOK
  <2>5. next.of = m /\ next.from = this.from + this.n
    BY <1>1, <1>2, <2>2, <2>4
  <2> HIDE DEF this, next
  <2> QED BY <1>3, <1>6, <2>2, <2>3, <2>5
<1>8. ASSUME writes = Len(frames) PROVE this.from + this.n - 1 = UnitsOf(m)
  BY <1>2, <1>5, <1>8 DEF FrameOK
<1>9. FrameUnits(writes) = Piece(m, this.from - 1, this.n)
  <2>1. \A k \in 1 .. this.n : this.from + k - 1 = (this.from - 1) + k
    <3> HIDE DEF this
    <3> QED BY <1>3
  <2> QED BY <1>2, <2>1 DEF FrameUnits, Piece
<1> HIDE DEF m, this, next
<1>10. Parse(Reached(m, this.from - 1), Piece(m, this.from - 1, this.n), blank) =
         IF (this.from - 1) + this.n = UnitsOf(m) THEN Completed(m)
         ELSE Reached(m, (this.from - 1) + this.n)
  <2>1. this.from - 1 \in Nat /\ this.n \in Nat \ {0} /\ (this.from - 1) + this.n <= UnitsOf(m)
    BY <1>3, <1>6
  <2> QED BY <1>1, <1>4, <2>1, PieceParsed
<1>11. (this.from - 1) + this.n = this.from + this.n - 1
       /\ (this.from + this.n) - 1 = this.from + this.n - 1
  BY <1>3
<1>12. CASE writes = Len(frames)
  BY <1>1, <1>2, <1>4, <1>8, <1>9, <1>10, <1>11, <1>12 DEF m
<1>13. CASE writes < Len(frames)
  <2>1. (this.from - 1) + this.n # UnitsOf(m) /\ next.from - 1 = (this.from - 1) + this.n
    BY <1>3, <1>6, <1>7, <1>11, <1>13
  <2>2. Parse(parser, FrameUnits(writes), blank) = Reached(m, next.from - 1)
    BY <1>2, <1>9, <1>10, <2>1
  <2> QED BY <1>4, <1>7, <1>13, <2>2 DEF m, next
<1> QED BY <1>1, <1>12, <1>13

\* A read of frames, cut anywhere; a clean one is the next frame.
LEMMA ReadFramesKeeps ==
  ASSUME NEW n \in 1 .. DataSize, NEW blank, NEW outcome
  PROVE  ChannelInv /\ ReadFrames(n, blank, outcome) => ChannelInv'
<1>0. SUFFICES ASSUME ChannelInv /\ ReadFrames(n, blank, outcome) PROVE ChannelInv'
  OBVIOUS
<1>1. /\ Types /\ BackInv /\ encrypted /\ EncryptedInv /\ (pieces = "frame" => CleanInv)
      /\ sock # "none" /\ n <= Len(wire) /\ n \in Nat /\ n >= 2
      /\ wire' = SubSeq(wire, n + 1, Len(wire)) /\ pieces' = Worse(Cut(n))
      /\ UNCHANGED <<sock, sent, frames, waiting, secure, heard>>
  <2>1. n \in Nat
    BY ChunkAssumption DEF DataSize, Overhead, ChunkAssumption
  <2> QED BY <1>0, <2>1 DEF ChannelInv, ReadFrames, HasRead, CanRead, controller, Overhead
<1>2. PICK r \in {Decrypt(data \o Arrived(n), n)} :
        /\ Ends(r, data \o Arrived(n), n)
        /\ writes' = r.count
        /\ data' = SubSeq(data \o Arrived(n), r.used + 1, n)
        /\ heap' = r.plain
        /\ Handlers(Parse(parser, heap', blank), outcome)
  BY <1>0 DEF ReadFrames
<1>3. r \in BlockStates(n)
  BY <1>1, DecryptTyped DEF Types, EncryptedInv
<1>4. writes' \in Nat /\ heap' \in Seq(PlainUnits(Later))
  <2>1. r.count \in Nat /\ r.plain \in [1 .. PlainSize(n) -> PlainUnits(Later)]
    BY <1>3 DEF BlockStates
  <2>2. PlainSize(n) \in Nat
    BY <1>1 DEF PlainSize, Overhead
  <2> QED BY <1>2, <2>1, <2>2, SequenceOf
<1>5. PICK units : units = heap'
  OBVIOUS
<1>6. Parse(parser, units, blank) \in ParserStates(Later)
  <2>1. Later \subseteq Messages
    BY DEF Later, Messages
  <2>2. units \in Seq(PlainUnits(Later))
    BY <1>4, <1>5
  <2> QED BY <1>1, <2>1, <2>2, ParseTyped DEF Types, EncryptedInv
<1>7. Handlers(Parse(parser, units, blank), outcome)
  BY <1>2, <1>5
<1>8. /\ parser' \in ParserStates(Later) /\ parser'.done = << >>
      /\ encrypted' /\ encrypted' \in BOOLEAN
      /\ reads' \in Nat /\ back' \in Seq(BackFrames) /\ BackInv'
  BY <1>1, <1>6, <1>7, LaterHandled
<1>9. Later' = Later /\ (\A i, j : Reached(i, j)' = Reached(i, j)) /\ SentOK' /\ FramesOK'
  BY <1>1, RequestsSame DEF Types
<1>10. /\ Worse(Cut(n)) \in {"frame", "frames", "inside"}
       /\ Worse(Cut(n)) = "frame" => pieces = "frame" /\ Cut(n) = "frame"
  BY <1>1, WorseIs DEF Types
<1>11. n \in 1 .. Len(wire) /\ wire \in Seq(WireUnits)
  BY <1>1 DEF Types
<1>12. Types'
  <2>1. wire' \in Seq(WireUnits)
    BY <1>1, <1>11, Pieces
  <2> QED BY <1>1, <1>4, <1>8, <1>9, <1>10, <2>1 DEF Types
<1>13. EncryptedInv'
  BY <1>1, <1>4, <1>8, <1>9 DEF EncryptedInv
<1>14. ASSUME pieces' = "frame" PROVE CleanInv'
  <2>1. CleanInv /\ Cut(n) = "frame"
    BY <1>1, <1>10, <1>14
  <2>2. /\ writes \in DOMAIN frames /\ n = frames[writes].n + Overhead
        /\ r = [used |-> n, count |-> writes + 1, plain |-> FrameUnits(writes)]
    <3>1. /\ writes \in DOMAIN frames /\ n = frames[writes].n + Overhead
          /\ Decrypt(data \o Arrived(n), n) =
               [used |-> n, count |-> writes + 1, plain |-> FrameUnits(writes)]
      BY <1>1, <1>11, <2>1, FrameRead
    <3> QED BY <1>2, <3>1
  <2>3. writes' = writes + 1 /\ heap' = FrameUnits(writes)
        /\ data' = SubSeq(data \o Arrived(n), n + 1, n)
    BY <1>2, <2>2
  <2>4. data' = << >>
    BY <1>1, <2>3
  <2>5. OnWire'
    BY <1>1, <1>11, <2>1, <2>2, <2>3, FramesLeft
  <2>6. /\ units = FrameUnits(writes) => Parse(parser, units, blank) =
              IF writes = Len(frames) THEN Completed(Len(sent))
              ELSE Reached(Len(sent), frames[writes + 1].from - 1)
        /\ writes < Len(frames) => frames[writes + 1].of = Len(sent)
        /\ Len(sent) \in Messages /\ Len(sent) \in Later
    BY <1>1, <2>1, <2>2, FrameParsed
  <2>7. Parse(parser, units, blank) =
          IF writes = Len(frames) THEN Completed(Len(sent))
          ELSE Reached(Len(sent), frames[writes + 1].from - 1)
    BY <1>5, <2>3, <2>6
  <2> DEFINE m == Len(sent)
  <2>8. /\ Len(frames) \in Nat /\ DOMAIN frames = 1 .. Len(frames) /\ writes \in 1 .. Len(frames)
        /\ m \in Nat /\ m >= 2 /\ FramesOK /\ SentOK /\ reads \in Nat /\ back \in Seq(BackFrames)
    <3>1. FramesOK /\ frames \in Seq(FrameRecords) /\ SentOK
      BY <1>1 DEF Types, FramesOK
    <3>2. Len(frames) \in Nat /\ DOMAIN frames = 1 .. Len(frames)
      <4> HIDE DEF FrameRecords
      <4> QED BY <3>1
    <3> QED BY <1>1, <2>2, <3>1, <3>2 DEF Types, SentOK, EncryptedInv
  <2>9. handled = Delivered(m - 1) /\ waiting /\ back = << >>
    BY <2>1, <2>8 DEF CleanInv
  <2>10. CASE writes = Len(frames)
    <3>1. Handlers(Completed(m), outcome)
      BY <1>7, <2>7, <2>10
    <3>2. /\ parser' = NoRequest /\ handled' = handled \o <<[of |-> m, intact |-> TRUE]>>
          /\ back' = IF sock = "up" THEN back \o AnswerTo(m, reads) ELSE back
      <4> HIDE DEF m
      <4>1. encrypted \in BOOLEAN /\ m \in Messages
        BY <1>1, <2>6 DEF Types, m
      <4> QED BY <2>8, <3>1, <4>1, OneHandled
    <3>3. handled' = Delivered(m)
      <4>1. m - 1 \in Nat /\ (m - 1) + 1 = m
        BY <2>8
      <4>2. handled' = Delivered(m - 1) \o <<[of |-> (m - 1) + 1, intact |-> TRUE]>>
        BY <2>9, <3>2, <4>1
      <4>3. Delivered(m - 1) \o <<[of |-> (m - 1) + 1, intact |-> TRUE]>> = Delivered((m - 1) + 1)
        BY <4>1, DeliveredOn
      <4> QED BY <4>1, <4>2, <4>3
    <3>4. \A i \in 1 .. Len(back') : back'[i].last <=> i = Len(back')
      <4>1. CASE sock = "up"
        <5> DEFINE a == AnswerTo(m, reads)
        <5>1. a \in Seq(BackFrames) /\ a = Encrypted(sent[m], reads) /\ sent[m] \in Endpoint
          BY <2>6, <2>8, AnswerTyped
        <5>2. Answers[sent[m]] \in Nat
          BY <5>1, EndpointAssumption DEF EndpointAssumption
        <5>3. back' = a
          <6>1. back' = << >> \o a
            BY <2>9, <3>2, <4>1
          <6> HIDE DEF a, BackFrames
          <6> QED BY <5>1, <6>1
        <5>4. Len(a) = Answers[sent[m]] /\ \A i \in 1 .. Len(a) : a[i].last <=> i = Len(a)
          <6> DEFINE k == Answers[sent[m]]
          <6>1. Len(a) = k
            BY <5>1, <5>2 DEF Encrypted
          <6>2. \A i \in 1 .. k : a[i].last = (i = k)
            BY <5>1, <5>2 DEF Encrypted
          <6> HIDE DEF a, k
          <6>3. \A i \in 1 .. k : a[i].last <=> i = k
            BY <6>2, Zenon
          <6> QED BY <6>1, <6>3 DEF k
        <5> HIDE DEF a
        <5> QED BY <5>3, <5>4
      <4>2. CASE sock # "up"
        <5>1. Len(back') = 0
          BY <2>9, <3>2, <4>2
        <5> QED BY <5>1
      <4> QED BY <4>1, <4>2
    <3>5. writes' > Len(frames') /\ writes' \in 1 .. Len(frames') + 1
      BY <1>1, <2>3, <2>8, <2>10
    <3>6. parser' = NoRequest /\ handled' = Delivered(Len(sent'))
      BY <1>1, <3>2, <3>3
    <3>7. waiting'
      BY <1>1, <2>9
    <3> QED BY <2>4, <2>5, <3>4, <3>5, <3>6, <3>7 DEF CleanInv
  <2>11. CASE writes # Len(frames)
    <3> DEFINE c == frames[writes + 1].from - 1
               p == Parse(parser, units, blank)
    <3>0. writes < Len(frames) /\ writes + 1 \in 1 .. Len(frames)
      <4>1. \A F \in Nat : \A w \in 1 .. F : w # F => w < F /\ w + 1 \in 1 .. F
        OBVIOUS
      <4> QED BY <2>8, <2>11, <4>1
    <3>1. p = Reached(m, c) /\ frames[writes + 1].of = m /\ writes + 1 \in DOMAIN frames
      BY <2>6, <2>7, <2>8, <2>11, <3>0
    <3>2. c \in Nat /\ c < UnitsOf(m)
      <4>1. frames[writes + 1] \in FrameRecords
        BY <2>8, <3>1, FrameUnitsTyped
      <4>2. frames[writes + 1].from \in Nat \ {0} /\ frames[writes + 1].n \in Nat \ {0}
        BY <4>1, ChunkAssumption DEF FrameRecords, ChunkAssumption
      <4>3. frames[writes + 1].from + frames[writes + 1].n - 1 <= UnitsOf(m)
        BY <2>8, <3>1 DEF FramesOK, FrameOK
      <4>4. UnitsOf(m) \in Nat
        BY <2>6, <2>8, UnitsTyped
      <4> QED BY <4>2, <4>3, <4>4
    <3>3. p.done = << >> /\ p \in ParserStates(Later)
      <4> HIDE DEF c, m
      <4>1. m \in Messages
        BY <2>6 DEF m
      <4> QED BY <1>6, <2>8, <3>1, <3>2, <4>1, ReachedTyped
    <3>4. parser' = p /\ handled' = handled \o << >> /\ back' = back
      <4> HIDE DEF p
      <4>1. Handlers(p, outcome) /\ encrypted \in BOOLEAN
        BY <1>1, <1>7 DEF Types, p
      <4> QED BY <2>8, <3>3, <4>1, NothingHandled
    <3>5. handled' = Delivered(m - 1)
      <4>1. m - 1 \in Nat
        BY <2>8
      <4> QED BY <2>9, <3>4, <4>1, DeliveredOn
    <3>6. ~(writes' > Len(frames')) /\ writes' \in 1 .. Len(frames') + 1
      <4>1. writes' = writes + 1 /\ Len(frames') = Len(frames)
        BY <1>1, <2>3
      <4>2. \A F \in Nat : \A w \in 1 .. F : ~(w > F) /\ w \in 1 .. F + 1
        OBVIOUS
      <4>3. ~(writes + 1 > Len(frames)) /\ writes + 1 \in 1 .. Len(frames) + 1
        BY <2>8, <3>0, <4>2
      <4> QED BY <4>1, <4>3
    <3>7. /\ frames'[writes'].of = Len(sent')
          /\ parser' = Reached(Len(sent), frames[writes].from - 1)'
      <4>1. PICK d : d = c
        OBVIOUS
      <4>2. frames'[writes'].from - 1 = d /\ frames'[writes'].of = m /\ Len(sent') = m
        BY <1>1, <2>3, <3>1, <4>1
      <4>3. parser' = Reached(m, d)
        BY <3>1, <3>4, <4>1
      <4> HIDE DEF c, p
      <4> QED BY <1>9, <4>2, <4>3
    <3>8. handled' = Delivered(Len(sent) - 1)' /\ waiting' /\ back' = << >>
      BY <1>1, <2>9, <3>4, <3>5 DEF Delivered
    <3>9. \A i \in 1 .. Len(back') : back'[i].last <=> i = Len(back')
      <4>1. 1 .. Len(<< >>) = {}
        OBVIOUS
      <4> QED BY <3>8, <4>1
    <3> QED BY <2>4, <2>5, <3>6, <3>7, <3>8, <3>9 DEF CleanInv
  <2> QED BY <2>10, <2>11
<1> QED BY <1>8, <1>12, <1>13, <1>14 DEF ChannelInv

\* A read that does not authenticate is not a clean one.
LEMMA ReadInvalidKeeps ==
  ASSUME NEW n \in 1 .. DataSize
  PROVE  ChannelInv /\ ReadInvalid(n) => ChannelInv'
<1>0. SUFFICES ASSUME ChannelInv /\ ReadInvalid(n) PROVE ChannelInv'
  OBVIOUS
<1>1. /\ Types /\ BackInv /\ encrypted /\ EncryptedInv /\ (pieces = "frame" => CleanInv)
      /\ n <= Len(wire) /\ n \in Nat /\ n >= 2
      /\ wire' = SubSeq(wire, n + 1, Len(wire)) /\ pieces' = Worse(Cut(n))
      /\ UNCHANGED <<sock, back, data, encrypted, reads, parser, heap, sent, frames, waiting,
                     secure, heard, handled>>
  <2>1. n \in Nat
    BY ChunkAssumption DEF DataSize, Overhead, ChunkAssumption
  <2> QED BY <1>0, <2>1 DEF ChannelInv, ReadInvalid, HasRead, CanRead, controller, Overhead
<1>2. PICK r \in {Decrypt(data \o Arrived(n), n)} :
        /\ Fails(r, data \o Arrived(n), n)
        /\ writes' = r.count + IF n = Overhead THEN 2 ELSE 1
  BY <1>0 DEF ReadInvalid
<1>3. writes' \in Nat
  <2>1. r \in BlockStates(n)
    BY <1>1, DecryptTyped DEF Types, EncryptedInv
  <2>2. r.count \in Nat
    BY <2>1 DEF BlockStates
  <2> QED BY <1>2, <2>2
<1>4. Later' = Later /\ SentOK' /\ FramesOK'
  BY <1>1, RequestsSame DEF Types
<1>5. /\ Worse(Cut(n)) \in {"frame", "frames", "inside"}
      /\ Worse(Cut(n)) = "frame" => pieces = "frame" /\ Cut(n) = "frame"
  BY <1>1, WorseIs DEF Types
<1>6. n \in 1 .. Len(wire) /\ wire \in Seq(WireUnits)
  BY <1>1 DEF Types
<1>7. Types'
  <2>1. wire' \in Seq(WireUnits)
    BY <1>1, <1>6, Pieces
  <2> QED BY <1>1, <1>3, <1>4, <1>5, <2>1 DEF Types
<1>8. BackInv'
  BY <1>1, BackSame
<1>9. EncryptedInv'
  BY <1>1, <1>4 DEF EncryptedInv
<1>10. pieces' # "frame"
  <2> SUFFICES ASSUME pieces' = "frame" PROVE FALSE
    OBVIOUS
  <2>1. CleanInv /\ Cut(n) = "frame"
    BY <1>1, <1>5
  <2>2. Decrypt(data \o Arrived(n), n) =
          [used |-> n, count |-> writes + 1, plain |-> FrameUnits(writes)]
    BY <1>1, <1>6, <2>1, FrameRead
  <2>3. r.used = n
    BY <1>2, <2>2
  <2> QED BY <1>1, <1>2, <2>3 DEF Fails
<1> QED BY <1>1, <1>7, <1>8, <1>9, <1>10 DEF ChannelInv

\* A read of less than header and tag is not a clean one, or restarts the accessory.
LEMMA ReadTooShortKeeps ==
  ASSUME NEW n \in 1 .. DataSize
  PROVE  ChannelInv /\ ReadTooShort(n) => ChannelInv'
<1>0. SUFFICES ASSUME ChannelInv /\ ReadTooShort(n) PROVE ChannelInv'
  OBVIOUS
<1>1. CASE Gone
  BY <1>1, GoneKeeps
<1>2. CASE ~Gone
  <2>1. /\ Types /\ BackInv /\ encrypted /\ EncryptedInv
        /\ n <= Len(wire) /\ n \in Nat /\ n >= 1 /\ pieces' = "inside"
        /\ wire' = SubSeq(wire, n + 1, Len(wire))
        /\ UNCHANGED <<sock, back, encrypted, writes, reads, parser, heap, sent, frames, waiting,
                       secure, heard, handled>>
    <3>1. n \in Nat /\ n >= 1
      BY ChunkAssumption DEF DataSize, Overhead, ChunkAssumption
    <3> QED BY <1>0, <1>2, <3>1 DEF ChannelInv, ReadTooShort, HasRead, CanRead, controller
  <2>2. Later' = Later /\ SentOK' /\ FramesOK'
    BY <2>1, RequestsSame DEF Types
  <2>3. n \in 1 .. Len(wire) /\ wire \in Seq(WireUnits)
    BY <2>1 DEF Types
  <2>4. Types'
    <3>1. wire' \in Seq(WireUnits)
      BY <2>1, <2>3, Pieces
    <3> QED BY <2>1, <2>2, <3>1 DEF Types
  <2>5. BackInv'
    BY <2>1, BackSame
  <2>6. EncryptedInv'
    BY <2>1, <2>2 DEF EncryptedInv
  <2> QED BY <2>1, <2>4, <2>5, <2>6 DEF ChannelInv
<1> QED BY <1>1, <1>2

\* A request of the encrypted session follows those that were sent.
LEMMA OneMoreSent ==
  ASSUME Types, EncryptedInv, NEW e \in Endpoint, sent' = Append(sent, e)
  PROVE  /\ SentOK' /\ Len(sent') = Len(sent) + 1
         /\ Later \subseteq Later' /\ Len(sent) + 1 \in Later'
         /\ \A m \in Later : UnitsOf(m)' = UnitsOf(m)
         /\ \A m : m = Len(sent) + 1 => UnitsOf(m)' = Units[e]
<1> DEFINE L == Len(sent)
           S == Endpoint \cup Range(Verify)
<1>1. L \in Nat /\ L >= 2 /\ sent \in Seq(S) /\ \A m \in 3 .. L : sent[m] \in Endpoint
  BY DEF Types, SentOK, EncryptedInv
<1>2. /\ sent' \in Seq(S) /\ Len(sent') = L + 1 /\ sent'[L + 1] = e
      /\ \A m \in 1 .. L : sent'[m] = sent[m]
  <2>1. e \in S
    OBVIOUS
  <2> HIDE DEF S
  <2> QED BY <1>1, <2>1
<1>3. \A m \in 3 .. L + 1 : sent'[m] \in Endpoint
  <2> SUFFICES ASSUME NEW m \in 3 .. L + 1 PROVE sent'[m] \in Endpoint
    OBVIOUS
  <2>1. m = L + 1 \/ (m \in 3 .. L /\ m \in 1 .. L)
    BY <1>1
  <2> QED BY <1>1, <1>2, <2>1
<1>4. SentOK'
  BY <1>2, <1>3 DEF SentOK
<1>5. Later \subseteq Later' /\ L + 1 \in Later'
  <2>1. 3 .. L \subseteq 3 .. L + 1 /\ L + 1 \in 3 .. L + 1
    BY <1>1
  <2>2. Later' = 3 .. L + 1
    BY <1>2 DEF Later
  <2> QED BY <2>1, <2>2 DEF Later
<1>6. ASSUME NEW m \in Later PROVE UnitsOf(m)' = UnitsOf(m)
  <2>1. m \in 1 .. L /\ m > 2 /\ Len(Verify) = 2
    BY <1>1 DEF Later, Verify
  <2>2. sent'[m] = sent[m]
    BY <1>2, <2>1
  <2> QED BY <2>1, <2>2 DEF UnitsOf
<1>7. ASSUME NEW m, m = L + 1 PROVE UnitsOf(m)' = Units[e]
  <2>1. m > 2 /\ m \in Nat /\ sent'[m] = e /\ Len(Verify) = 2
    BY <1>1, <1>2, <1>7 DEF Verify
  <2>2. ~(m <= Len(Verify))
    BY <2>1
  <2> QED BY <2>1, <2>2 DEF UnitsOf
<1> QED BY <1>2, <1>4, <1>5, <1>6, <1>7

\* The request e is sent in the frames new.
SentIn(new, e, size) ==
  /\ Types /\ EncryptedInv /\ e \in Endpoint /\ size \in 1 .. MaxChunk
  /\ sent' = Append(sent, e) /\ new = Framed(Len(sent) + 1, Units[e], size)
  /\ frames' = frames \o new

Followed(new) ==
  /\ FramesOK' /\ Len(new) \in Nat /\ Len(new) >= 1 /\ Len(frames) \in Nat
  /\ \A i \in 1 .. Len(new) : new[i].n \in Nat
  /\ Len(frames') = Len(frames) + Len(new)
  /\ \A i \in 1 .. Len(new) : frames'[Len(frames) + i] = new[i]
  /\ new[1].of = Len(sent) + 1 /\ new[1].from = 1

\* The frames of the new request begin where a new request does, and follow each other.
LEMMA FramesFollow ==
  ASSUME NEW e, NEW size, NEW new
  PROVE  SentIn(new, e, size) => Followed(new)
<1>0. SUFFICES ASSUME SentIn(new, e, size) PROVE Followed(new)
  OBVIOUS
<1> USE DEF SentIn
<1> DEFINE L == Len(sent)
           F == Len(frames)
           n == Units[e]
           c == Count(n, size)
           R == [of : {L + 1}, from : Nat \ {0}, n : 1 .. size]
<1>1. L \in Nat /\ L >= 2 /\ FramesOK /\ frames \in Seq(FrameRecords)
  BY <1>0 DEF Types, SentOK, FramesOK, EncryptedInv
<1>2. F \in Nat /\ DOMAIN frames = 1 .. F /\ \A f \in 1 .. F : frames[f] \in FrameRecords
  <2> HIDE DEF FrameRecords
  <2> QED BY <1>1
<1>3. /\ SentOK' /\ Len(sent') = L + 1 /\ Later \subseteq Later' /\ L + 1 \in Later'
      /\ \A m \in Later : UnitsOf(m)' = UnitsOf(m)
      /\ \A m : m = L + 1 => UnitsOf(m)' = n
  BY <1>0, OneMoreSent
<1>4. /\ n \in Nat \ {0} /\ size \in Nat \ {0} /\ c \in Nat \ {0}
      /\ size <= MaxChunk /\ MaxChunk \in Nat
  <2>1. n \in Nat \ {0} /\ size \in Nat \ {0} /\ size <= MaxChunk /\ MaxChunk \in Nat
    BY <1>0, EndpointAssumption, ChunkAssumption DEF EndpointAssumption, ChunkAssumption
  <2> QED BY <2>1, CountIs
<1>5. /\ new \in [1 .. c -> R] /\ new[1].from = 1
      /\ \A i \in 1 .. c : /\ new[i].from + new[i].n - 1 <= n
                           /\ i = c => new[i].from + new[i].n - 1 = n
                           /\ i < c => new[i + 1].from = new[i].from + new[i].n
  <2>1. PICK m : m = L + 1
    OBVIOUS
  <2>2. Carry(Framed(m, n, size), m, n, size)
    BY <1>4, FramedIs
  <2>3. new = Framed(m, n, size)
    BY <1>0, <2>1
  <2>4. Carry(new, m, n, size)
    BY <2>2, <2>3
  <2>5. R = [of : {m}, from : Nat \ {0}, n : 1 .. size]
    BY <2>1
  <2> HIDE DEF R
  <2> QED BY <2>4, <2>5 DEF Carry
<1>6. /\ Len(new) = c /\ DOMAIN new = 1 .. c /\ c >= 1
      /\ \A i \in 1 .. c : new[i] \in FrameRecords' /\ new[i].of = L + 1 /\ new[i].n \in Nat
  <2>1. Len(new) = c /\ DOMAIN new = 1 .. c
    <3> HIDE DEF R, c
    <3> QED BY <1>4, <1>5, SequenceOf
  <2>2. R \subseteq FrameRecords'
    BY <1>3, <1>4 DEF FrameRecords
  <2>3. \A i \in 1 .. c : new[i] \in R
    <3> HIDE DEF R, c
    <3> QED BY <1>5
  <2>4. \A x \in R : x.of = L + 1 /\ x.n \in Nat
    BY <1>4
  <2> HIDE DEF R
  <2> QED BY <1>4, <2>1, <2>2, <2>3, <2>4
<1>7. FrameRecords \subseteq FrameRecords'
  BY <1>3 DEF FrameRecords
<1>8. PICK S : S = FrameRecords'
  OBVIOUS
<1>9. frames \in Seq(S) /\ new \in Seq(S)
  <2>1. new \in [1 .. c -> S]
    <3>1. \A i \in 1 .. c : new[i] \in S
      BY <1>6, <1>8
    <3>2. new = [i \in 1 .. c |-> new[i]]
      BY <1>5
    <3> QED BY <3>1, <3>2
  <2>2. new \in Seq(S)
    <3> HIDE DEF c
    <3> QED BY <1>4, <2>1, SequenceOf
  <2>3. frames \in [1 .. F -> S]
    <3>1. \A i \in 1 .. F : frames[i] \in S
      BY <1>2, <1>7, <1>8
    <3>2. frames = [i \in 1 .. F |-> frames[i]]
      <4> HIDE DEF FrameRecords
      <4> QED BY <1>1
    <3> QED BY <3>1, <3>2
  <2>4. frames \in Seq(S)
    <3> HIDE DEF F
    <3> QED BY <1>2, <2>3, SequenceOf
  <2> QED BY <2>2, <2>4
<1>10. /\ frames' \in Seq(S) /\ Len(frames') = F + c /\ DOMAIN frames' = 1 .. F + c
       /\ \A f \in 1 .. F : frames'[f] = frames[f]
       /\ \A i \in 1 .. c : frames'[F + i] = new[i]
  <2>1. /\ frames \o new \in Seq(S) /\ Len(frames \o new) = F + Len(new)
        /\ DOMAIN (frames \o new) = 1 .. F + Len(new)
        /\ \A f \in 1 .. F : (frames \o new)[f] = frames[f]
        /\ \A i \in 1 .. Len(new) : (frames \o new)[F + i] = new[i]
    BY <1>9, Concatenated
  <2> QED BY <1>0, <1>6, <2>1
<1> HIDE DEF c, R, F, n, L
<1>11. ASSUME NEW f \in 1 .. F PROVE FrameOK(f)'
  <2>1. PICK a : a = frames[f]
    OBVIOUS
  <2>2. PICK b : b = frames'[f + 1]
    OBVIOUS
  <2>3. /\ frames'[f] = a /\ a.of \in Later /\ FrameOK(f) /\ f \in Nat /\ f < F + c
        /\ Len(frames') = F + c
    BY <1>1, <1>2, <1>4, <1>10, <2>1 DEF FramesOK, FrameRecords
  <2>4. UnitsOf(a.of)' = UnitsOf(a.of)
    BY <1>3, <2>3
  <2>5. a.from + a.n - 1 <= UnitsOf(a.of)
    BY <2>1, <2>3 DEF FrameOK
  <2>6. \/ b.of = a.of /\ b.from = a.from + a.n
        \/ b.of = a.of + 1 /\ b.from = 1 /\ a.from + a.n - 1 = UnitsOf(a.of)
    <3>1. CASE f < F
      <4>1. b = frames[f + 1]
        BY <1>2, <1>10, <2>2, <2>3, <3>1
      <4> QED BY <2>1, <2>3, <3>1, <4>1 DEF FrameOK, F
    <3>2. CASE f = F
      <4>1. b = new[1]
        BY <1>4, <1>10, <2>2, <3>2
      <4>2. b.of = L + 1 /\ b.from = 1
        BY <1>4, <1>5, <1>6, <4>1
      <4>3. a.of = L /\ a.from + a.n - 1 = UnitsOf(a.of)
        BY <2>1, <2>3, <3>2 DEF FrameOK, F, L
      <4> QED BY <4>2, <4>3
    <3> QED BY <1>2, <3>1, <3>2
  <2>7. f # Len(frames')
    BY <1>2, <1>4, <2>3
  <2> QED BY <2>2, <2>3, <2>4, <2>5, <2>6, <2>7 DEF FrameOK
<1>12. ASSUME NEW i \in 1 .. c, NEW f, f = F + i PROVE FrameOK(f)'
  <2>2. PICK a : a = new[i]
    OBVIOUS
  <2>3. PICK b : b = frames'[f + 1]
    OBVIOUS
  <2>4. PICK m : m = L + 1
    OBVIOUS
  <2>5. /\ frames'[f] = a /\ a.of = m /\ Len(frames') = F + c /\ UnitsOf(m)' = n
        /\ a.from + a.n - 1 <= n
        /\ f = Len(frames') => a.from + a.n - 1 = n
        /\ Len(sent') = m
    BY <1>2, <1>3, <1>4, <1>5, <1>6, <1>10, <1>12, <2>2, <2>4
  <2>6. ASSUME f < Len(frames') PROVE b.of = m /\ b.from = a.from + a.n
    <3>1. i < c /\ i + 1 \in 1 .. c /\ f + 1 = F + (i + 1)
      BY <1>2, <1>4, <1>12, <2>5, <2>6
    <3>2. b = new[i + 1]
      BY <1>10, <2>3, <3>1
    <3> QED BY <1>5, <1>6, <2>2, <2>4, <3>1, <3>2
  <2> QED BY <2>3, <2>5, <2>6 DEF FrameOK
<1>13. FramesOK'
  <2>1. ASSUME NEW f \in DOMAIN frames' PROVE FrameOK(f)'
    <3>1. CASE f <= F
      <4>1. f \in 1 .. F
        BY <1>10, <3>1, <2>1
      <4> QED BY <1>11, <4>1
    <3>2. CASE f > F
      <4>1. PICK i : i = f - F
        OBVIOUS
      <4>2. i \in 1 .. c /\ f = F + i
        BY <1>2, <1>4, <1>10, <2>1, <3>2, <4>1
      <4> QED BY <1>12, <4>2
    <3> QED BY <1>2, <1>10, <3>1, <3>2
  <2> QED BY <1>8, <1>10, <2>1 DEF FramesOK
<1> QED BY <1>2, <1>4, <1>5, <1>6, <1>10, <1>13 DEF F, L, Followed

\* The frames of a request lie on an empty wire as they were sent.
LEMMA FramesPlaced ==
  ASSUME NEW new, NEW f
  PROVE  /\ writes = f + 1 /\ f \in Nat /\ Len(new) \in Nat /\ Len(new) >= 1
         /\ (\A i \in 1 .. Len(new) : new[i].n \in Nat)
         /\ writes' = writes /\ Len(frames') = f + Len(new)
         /\ (\A i \in 1 .. Len(new) : frames'[f + i] = new[i])
         /\ wire' = Stream(new, f)
         => OnWire'
<1>0. SUFFICES ASSUME /\ writes = f + 1 /\ f \in Nat /\ Len(new) \in Nat /\ Len(new) >= 1
                      /\ (\A i \in 1 .. Len(new) : new[i].n \in Nat)
                      /\ writes' = writes /\ Len(frames') = f + Len(new)
                      /\ (\A i \in 1 .. Len(new) : frames'[f + i] = new[i])
                      /\ wire' = Stream(new, f)
               PROVE  OnWire'
  OBVIOUS
<1>1. PICK c : c = Len(new)
  OBVIOUS
<1>2. f \in Nat /\ c \in Nat /\ c >= 1 /\ writes' = f + 1 /\ Len(frames') = f + c
  BY <1>0, <1>1
<1>3. PICK off \in [1 .. Len(new) -> Nat] :
        /\ Len(new) > 0 => off[1] = 0
        /\ \A j \in 1 .. Len(new) - 1 : off[j + 1] = off[j] + new[j].n + Overhead
        /\ Placed(Stream(new, f), off, new, f, Len(new))
  BY <1>0, StreamPlaced
<1>4. PICK w : w = wire'
  OBVIOUS
<1>5. /\ \A j \in 1 .. c : off[j] \in Nat /\ new[j].n \in Nat /\ frames'[f + j] = new[j]
      /\ off[1] = 0
      /\ \A j \in 1 .. c - 1 : off[j + 1] = off[j] + new[j].n + Overhead
      /\ \A j \in 1 .. c : \A k \in 0 .. new[j].n + 1 :
           off[j] + k + 1 \in 1 .. Len(w) /\ w[off[j] + k + 1] = <<f + j, k>>
      /\ \A p \in 1 .. Len(w) :
           \E j \in 1 .. c : \E k \in 0 .. new[j].n + 1 : p = off[j] + k + 1
  <2>1. \A j \in 1 .. c : off[j] \in Nat /\ new[j].n \in Nat /\ frames'[f + j] = new[j]
    BY <1>0, <1>1
  <2>2. Placed(w, off, new, f, c)
    BY <1>0, <1>1, <1>3, <1>4
  <2>3. off[1] = 0 /\ \A j \in 1 .. c - 1 : off[j + 1] = off[j] + new[j].n + Overhead
    BY <1>1, <1>2, <1>3
  <2> QED BY <2>1, <2>2, <2>3 DEF Placed
<1>6. PICK g : g = [h \in f + 1 .. f + c |-> off[h - f]]
  OBVIOUS
<1>7. ASSUME NEW h \in f + 1 .. f + c
      PROVE  \E j \in 1 .. c : h = f + j /\ g[h] = off[j]
  <2>1. h - f \in 1 .. c /\ h = f + (h - f)
    BY <1>2
  <2> QED BY <1>6, <2>1
<1>8. \A j \in 1 .. c : f + j \in f + 1 .. f + c /\ g[f + j] = off[j]
  <2> SUFFICES ASSUME NEW j \in 1 .. c PROVE f + j \in f + 1 .. f + c /\ g[f + j] = off[j]
    OBVIOUS
  <2>1. f + j \in f + 1 .. f + c /\ (f + j) - f = j
    BY <1>2
  <2> QED BY <1>6, <2>1
<1>9. g \in [f + 1 .. f + c -> Int]
  <2>1. \A h \in f + 1 .. f + c : off[h - f] \in Int
    <3> SUFFICES ASSUME NEW h \in f + 1 .. f + c PROVE off[h - f] \in Int
      OBVIOUS
    <3>1. h - f \in 1 .. c
      BY <1>2
    <3> QED BY <1>5, <3>1
  <2> QED BY <1>6, <2>1
<1>10. g[f + 1] = 0
  <2>1. 1 \in 1 .. c
    BY <1>2
  <2> QED BY <1>5, <1>8, <2>1
<1>11. ASSUME NEW h \in f + 1 .. f + c - 1
       PROVE  g[h + 1] = g[h] + frames'[h].n + Overhead
  <2>1. PICK j : j = h - f
    OBVIOUS
  <2>2. j \in 1 .. c - 1 /\ j \in 1 .. c /\ j + 1 \in 1 .. c /\ h = f + j /\ h + 1 = f + (j + 1)
    BY <1>2, <2>1
  <2>3. g[h] = off[j] /\ g[h + 1] = off[j + 1] /\ frames'[h] = new[j]
    BY <1>5, <1>8, <2>2
  <2> QED BY <1>5, <2>2, <2>3
<1>12. ASSUME NEW h \in f + 1 .. f + c, NEW k \in 0 .. frames'[h].n + 1
       PROVE  g[h] + k + 1 \in 1 .. Len(w) /\ w[g[h] + k + 1] = <<h, k>>
  <2>1. PICK j \in 1 .. c : h = f + j /\ g[h] = off[j]
    BY <1>7
  <2>2. k \in 0 .. new[j].n + 1
    BY <1>5, <2>1
  <2> QED BY <1>5, <2>1, <2>2
<1>13. ASSUME NEW p \in 1 .. Len(w)
       PROVE  \E h \in f + 1 .. f + c : \E k \in 0 .. frames'[h].n + 1 : p = g[h] + k + 1
  <2>1. PICK j \in 1 .. c : \E k \in 0 .. new[j].n + 1 : p = off[j] + k + 1
    BY <1>5
  <2>2. f + j \in f + 1 .. f + c /\ g[f + j] = off[j] /\ frames'[f + j] = new[j]
    BY <1>5, <1>8
  <2> QED BY <2>1, <2>2
<1>14. Lie(g)'
  <2>1. writes' <= Len(frames') => g[writes'] = 0
    BY <1>2, <1>10
  <2>2. \A h \in writes' .. Len(frames') - 1 : g[h + 1] = g[h] + frames'[h].n + Overhead
    BY <1>2, <1>11
  <2>3. \A h \in writes' .. Len(frames') : \A k \in 0 .. frames'[h].n + 1 :
          g[h] + k + 1 \in 1 .. Len(wire') /\ wire'[g[h] + k + 1] = <<h, k>>
    BY <1>2, <1>4, <1>12
  <2>4. \A p \in 1 .. Len(wire') :
          \E h \in writes' .. Len(frames') : \E k \in 0 .. frames'[h].n + 1 : p = g[h] + k + 1
    BY <1>2, <1>4, <1>13
  <2> QED BY <2>1, <2>2, <2>3, <2>4 DEF Lie
<1>15. g \in [writes' .. Len(frames') -> Int]
  BY <1>2, <1>9
<1> QED BY <1>14, <1>15 DEF OnWire

\* A request of the session finds the wire empty and everything before it delivered.
LEMMA SendKeeps ==
  ASSUME NEW e \in Endpoint, NEW size \in 1 .. MaxChunk
  PROVE  ChannelInv /\ Send(e, size) => ChannelInv'
<1>0. SUFFICES ASSUME ChannelInv /\ Send(e, size) PROVE ChannelInv'
  OBVIOUS
<1>1. /\ Types /\ BackInv /\ encrypted /\ EncryptedInv /\ (pieces = "frame" => CleanInv)
      /\ ~waiting /\ waiting' = TRUE /\ sent' = Append(sent, e)
      /\ UNCHANGED <<sock, back, data, encrypted, writes, reads, parser, heap, secure, heard,
                     handled, pieces>>
  BY <1>0 DEF ChannelInv, ClearInv, Send
<1>2. PICK new : /\ new = Framed(Len(sent) + 1, Units[e], size)
                 /\ frames' = frames \o new
                 /\ wire' = wire \o Stream(new, Len(frames))
  BY <1>0 DEF Send
<1>3. /\ FramesOK' /\ Len(new) \in Nat /\ Len(new) >= 1 /\ Len(frames) \in Nat
      /\ \A i \in 1 .. Len(new) : new[i].n \in Nat
      /\ Len(frames') = Len(frames) + Len(new)
      /\ \A i \in 1 .. Len(new) : frames'[Len(frames) + i] = new[i]
      /\ new[1].of = Len(sent) + 1 /\ new[1].from = 1
  <2>1. SentIn(new, e, size)
    BY <1>1, <1>2 DEF SentIn
  <2>2. Followed(new)
    BY <2>1, FramesFollow
  <2> QED BY <2>2 DEF Followed
<1>4. SentOK' /\ Len(sent') = Len(sent) + 1 /\ Later \subseteq Later' /\ Len(sent) \in Nat
  BY <1>1, OneMoreSent DEF Types, SentOK
<1>5. Stream(new, Len(frames)) \in Seq(WireUnits) /\ wire' \in Seq(WireUnits)
  <2>1. Stream(new, Len(frames)) \in Seq(WireUnits)
    BY <1>3, StreamPlaced
  <2> QED BY <1>1, <1>2, <2>1, Concatenated DEF Types
<1>6. Types'
  BY <1>1, <1>3, <1>4, <1>5 DEF Types
<1>7. BackInv'
  BY <1>1, BackSame
<1>8. EncryptedInv'
  <2>1. \A M, N : M \subseteq N => /\ Seq(PlainUnits(M)) \subseteq Seq(PlainUnits(N))
                                   /\ ParserStates(M) \subseteq ParserStates(N)
    <3> SUFFICES ASSUME NEW M, NEW N, M \subseteq N
                 PROVE  /\ Seq(PlainUnits(M)) \subseteq Seq(PlainUnits(N))
                        /\ ParserStates(M) \subseteq ParserStates(N)
      OBVIOUS
    <3>1. PlainUnits(M) \subseteq PlainUnits(N) /\ Requests(M) \subseteq Requests(N)
      BY DEF PlainUnits, Requests
    <3>2. \A A, B : A \subseteq B => Seq(A) \subseteq Seq(B)
      OBVIOUS
    <3>3. Seq(Requests(M)) \subseteq Seq(Requests(N))
      BY <3>1, <3>2
    <3> QED BY <3>1, <3>2, <3>3 DEF ParserStates, ParserFields
  <2>2. heap' \in Seq(PlainUnits(Later'))
    BY <1>1, <1>4, <2>1 DEF EncryptedInv
  <2>3. parser' \in ParserStates(Later')
    BY <1>1, <1>4, <2>1 DEF EncryptedInv
  <2>4. Len(sent') >= 2 /\ parser'.done = << >>
    BY <1>1, <1>4 DEF EncryptedInv
  <2> QED BY <2>2, <2>3, <2>4 DEF EncryptedInv
<1>9. ASSUME pieces' = "frame" PROVE CleanInv'
  <2>1. CleanInv /\ ~(writes <= Len(frames)) /\ writes = Len(frames) + 1 /\ back = << >>
        /\ parser = NoRequest /\ handled = Delivered(Len(sent)) /\ data = << >>
    BY <1>1, <1>3, <1>9 DEF CleanInv
  <2>2. wire = << >>
    <3>1. \A p \in 1 .. Len(wire) : FALSE
      <4>1. writes .. Len(frames) = {}
        BY <1>3, <2>1
      <4> QED BY <2>1, <4>1 DEF CleanInv, OnWire, Lie
    <3>2. wire \in Seq(WireUnits)
      BY <1>1 DEF Types
    <3>3. Len(wire) = 0
      BY <3>1, <3>2
    <3> QED BY <3>2, <3>3
  <2>3. wire' = Stream(new, Len(frames))
    <3>1. PICK s : s = Stream(new, Len(frames))
      OBVIOUS
    <3>2. << >> \o s = s
      BY <1>5, <3>1
    <3> QED BY <1>2, <2>2, <3>1, <3>2
  <2>4. OnWire'
    <3>1. PICK f : f = Len(frames)
      OBVIOUS
    <3> QED BY <1>1, <1>3, <2>1, <2>3, <3>1, FramesPlaced
  <2>5. writes' \in 1 .. Len(frames') + 1 /\ ~(writes' > Len(frames'))
    BY <1>1, <1>3, <2>1
  <2>6. frames'[writes'].of = Len(sent') /\ frames'[writes'].from - 1 = 0
    <3>1. 1 \in 1 .. Len(new)
      BY <1>3
    <3>2. frames'[Len(frames) + 1] = new[1]
      BY <1>3, <3>1
    <3>3. frames'[writes'] = new[1]
      BY <1>1, <2>1, <3>2
    <3> QED BY <1>3, <1>4, <3>3
  <2>7. parser' = Reached(Len(sent), frames[writes].from - 1)'
    BY <1>1, <2>1, <2>6 DEF Reached
  <2>8. handled' = Delivered(Len(sent) - 1)'
    <3>1. Len(sent') - 1 = Len(sent)
      BY <1>4
    <3> QED BY <1>1, <2>1, <3>1 DEF Delivered
  <2>9. \A i \in 1 .. Len(back') : back'[i].last <=> i = Len(back')
    <3>1. 1 .. Len(<< >>) = {}
      OBVIOUS
    <3> QED BY <1>1, <2>1, <3>1
  <2> QED BY <1>1, <2>1, <2>4, <2>5, <2>6, <2>7, <2>8, <2>9 DEF CleanInv
<1> QED BY <1>1, <1>6, <1>7, <1>8, <1>9 DEF ChannelInv

\* The channel keeps its invariant.
LEMMA ChannelSteps == ChannelInv /\ [Next]_vars => ChannelInv'
<1> SUFFICES ASSUME ChannelInv, [Next]_vars PROVE ChannelInv'
  OBVIOUS
<1>1. CASE Connect
  BY <1>1, ConnectKeeps
<1>2. CASE SendVerify
  BY <1>2, SendVerifyKeeps
<1>3. CASE Read
  <2>1. PICK n \in 1 .. DataSize :
          \/ \E outcome \in {"sent", "dropped"} :
               ReadClear(n, outcome) \/ \E blank \in BOOLEAN : ReadFrames(n, blank, outcome)
          \/ \E blank \in BOOLEAN : WriteFails(n, blank)
          \/ ReadInvalid(n)
          \/ ReadTooShort(n)
    BY <1>3 DEF Read
  <2>2. CASE \E outcome \in {"sent", "dropped"} : ReadClear(n, outcome)
    BY <2>2, ReadClearKeeps
  <2>3. CASE \E outcome \in {"sent", "dropped"}, blank \in BOOLEAN : ReadFrames(n, blank, outcome)
    BY <2>3, ReadFramesKeeps
  <2>4. CASE \E blank \in BOOLEAN : WriteFails(n, blank)
    BY <2>4, GoneKeeps DEF WriteFails
  <2>5. CASE ReadInvalid(n)
    BY <2>5, ReadInvalidKeeps
  <2>6. CASE ReadTooShort(n)
    BY <2>6, ReadTooShortKeeps
  <2> QED BY <2>1, <2>2, <2>3, <2>4, <2>5, <2>6
<1>4. CASE Disconnected
  BY <1>4, GoneKeeps DEF Disconnected
<1>5. CASE Hear
  BY <1>5, HearKeeps
<1>6. CASE Leave
  BY <1>6, LeaveKeeps
<1>7. CASE \E e \in Endpoint, size \in 1 .. MaxChunk : Send(e, size)
  BY <1>7, SendKeeps
<1>8. CASE UNCHANGED vars
  <2>1. UNCHANGED <<sock, wire, back, data, encrypted, writes, reads, parser, heap, sent, frames,
                    waiting, secure, heard, handled, pieces>>
    BY <1>8 DEF vars, controller
  <2>2. Types'
    BY <2>1, RequestsSame DEF ChannelInv, Types
  <2>3. BackInv'
    BY <2>1, BackSame DEF ChannelInv
  <2>4. (IF encrypted THEN EncryptedInv /\ (pieces = "frame" => CleanInv) ELSE ClearInv)'
    BY <2>1, ModesSame DEF ChannelInv, controller
  <2> QED BY <2>2, <2>3, <2>4 DEF ChannelInv
<1> QED BY <1>1, <1>2, <1>3, <1>4, <1>5, <1>6, <1>7, <1>8 DEF Next

\* From the first connection on.
LEMMA ChannelAlways == Spec => []ChannelInv
  BY ChannelStarts, ChannelSteps, PTL DEF Spec

\* The controller can read what it is sent.
THEOREM AnswersAreReadable == Spec => []AnswersReadable
<1>1. ChannelInv => AnswersReadable
  <2> SUFFICES ASSUME ChannelInv, NEW i \in DOMAIN back
               PROVE  /\ back[i].enc <=> (secure \/ \E j \in 1 .. i - 1 : back[j].opens)
                      /\ back[i].enc => back[i].nr =
                           heard + 1 + Cardinality({j \in 1 .. i - 1 : back[j].enc})
    BY DEF AnswersReadable
  <2> DEFINE n == Len(back)
  <2>1. n \in Nat /\ i \in 1 .. n /\ i \in Nat /\ heard \in Nat
    <3>1. back \in Seq(BackFrames) /\ heard \in Nat
      BY DEF ChannelInv, Types
    <3> HIDE DEF BackFrames
    <3> QED BY <3>1
  <2>2. PICK k \in 0 .. n : BackAt(k)
    BY DEF ChannelInv, BackInv
  <2>3. /\ \A j \in 1 .. n : /\ back[j].enc <=> j > k
                             /\ back[j].opens => j = k
                             /\ j > k => back[j].nr = heard + j - k
        /\ secure => k = 0
        /\ k < n => Opened(k)
    BY <2>2 DEF BackAt
  <2> HIDE DEF n
  <2>4. \A j \in 1 .. i - 1 : j \in 1 .. n
    BY <2>1
  <2>5. back[i].enc <=> (secure \/ \E j \in 1 .. i - 1 : back[j].opens)
    <3>1. ASSUME back[i].enc PROVE secure \/ \E j \in 1 .. i - 1 : back[j].opens
      <4>1. i > k /\ k < n
        BY <2>1, <2>3, <3>1
      <4>2. secure \/ (k > 0 /\ back[k].opens)
        BY <2>3, <4>1 DEF Opened
      <4>3. k > 0 => k \in 1 .. i - 1
        BY <2>1, <4>1
      <4> QED BY <4>2, <4>3
    <3>2. ASSUME secure PROVE back[i].enc
      BY <2>1, <2>3, <3>2
    <3>3. ASSUME NEW j \in 1 .. i - 1, back[j].opens PROVE back[i].enc
      <4>1. j = k /\ i > j
        BY <2>1, <2>3, <2>4, <3>3
      <4> QED BY <2>1, <2>3, <4>1
    <3> QED BY <3>1, <3>2, <3>3
  <2>6. ASSUME back[i].enc
        PROVE  back[i].nr = heard + 1 + Cardinality({j \in 1 .. i - 1 : back[j].enc})
    <3>1. i > k /\ back[i].nr = heard + i - k
      BY <2>1, <2>3, <2>6
    <3>2. {j \in 1 .. i - 1 : back[j].enc} = (k + 1) .. (i - 1)
      <4>1. \A j \in 1 .. i - 1 : back[j].enc <=> j > k
        BY <2>3, <2>4
      <4>2. \A j \in (k + 1) .. (i - 1) : j \in 1 .. i - 1
        BY <2>1
      <4>3. \A j \in 1 .. i - 1 : j > k <=> j \in (k + 1) .. (i - 1)
        BY <2>1
      <4> QED BY <4>1, <4>2, <4>3
    <3>3. Cardinality((k + 1) .. (i - 1)) = i - 1 - k
      <4>1. k + 1 \in Int /\ i - 1 \in Int
        BY <2>1
      <4>2. Cardinality((k + 1) .. (i - 1)) =
              IF k + 1 > i - 1 THEN 0 ELSE (i - 1) - (k + 1) + 1
        BY <4>1, FS_Interval
      <4> QED BY <2>1, <3>1, <4>2
    <3>4. Cardinality({j \in 1 .. i - 1 : back[j].enc}) = i - 1 - k
      BY <3>2, <3>3
    <3>5. heard + 1 + (i - 1 - k) = heard + i - k
      BY <2>1
    <3> QED BY <3>1, <3>4, <3>5
  <2> QED BY <2>5, <2>6
<1> QED BY <1>1, ChannelAlways, PTL

\* While every read brings one whole frame the requests reach their handlers as they were sent.
THEOREM RequestsAreDelivered == Spec => []CleanDelivery
<1>1. ChannelInv => CleanDelivery
  <2>1. SUFFICES ASSUME ChannelInv, pieces = "frame"
                 PROVE  /\ parser.at # "error"
                        /\ Len(handled) \in {Len(sent) - 1, Len(sent)}
                        /\ \A i \in DOMAIN handled : handled[i] = [of |-> i, intact |-> TRUE]
    BY DEF CleanDelivery
  <2>2. Len(sent) \in Nat /\ SentOK
    BY <2>1 DEF ChannelInv, Types, SentOK
  <2>3. ASSUME NEW l, l \in {Len(sent) - 1, Len(sent)}, l \in Nat, handled = Delivered(l)
        PROVE  /\ Len(handled) \in {Len(sent) - 1, Len(sent)}
               /\ \A i \in DOMAIN handled : handled[i] = [of |-> i, intact |-> TRUE]
    <3>1. Len(handled) = l /\ DOMAIN handled = 1 .. l
      BY <2>3, DeliveredOn
    <3> QED BY <2>3, <3>1 DEF Delivered
  <2>4. NoRequest.at # "error" /\ \A m, c : Reached(m, c).at # "error"
    BY DEF NoRequest, Reached
  <2>5. CASE encrypted
    <3>1. CleanInv
      BY <2>1, <2>5 DEF ChannelInv
    <3>2. CASE writes > Len(frames)
      BY <2>2, <2>3, <2>4, <3>1, <3>2 DEF CleanInv
    <3>3. CASE ~(writes > Len(frames))
      <4>1. Len(sent) - 1 \in Nat
        BY <2>1, <2>2, <2>5 DEF ChannelInv, EncryptedInv
      <4> QED BY <2>3, <2>4, <3>1, <3>3, <4>1 DEF CleanInv
    <3> QED BY <3>2, <3>3
  <2>6. CASE ~encrypted
    <3>1. PICK c \in 0 .. 2 : ClearAt(c)
      BY <2>1, <2>6 DEF ChannelInv, ClearInv
    <3>2. CASE c = 2
      BY <2>2, <2>3, <2>4, <3>1, <3>2 DEF ClearAt
    <3>3. CASE c # 2
      <4>1. Len(sent) - 1 \in Nat
        BY <2>2, <3>1, <3>3 DEF ClearAt
      <4> QED BY <2>3, <2>4, <3>1, <3>3, <4>1 DEF ClearAt
    <3> QED BY <3>2, <3>3
  <2> QED BY <2>5, <2>6
<1> QED BY <1>1, ChannelAlways, PTL

=============================================================================
