--------------------------- MODULE ServicesProofs ---------------------------
(***************************************************************************)
(* The safety properties of two services: of GarageDoor, for every number  *)
(* of positions, every travel time and any number of commands, and of      *)
(* Thermostat, for all settings, readings, intervals and slots.            *)
(*                                                                         *)
(* RunIsGivenItsTime needs two facts of the control unit of the garage     *)
(* door.  While it waits out the delay after an end of the door was seen   *)
(* it repeats that end (DelayAtEnd), so that an obstruction is never an    *)
(* answer of the delay; and the clock counts no more than the ticks since  *)
(* the accessory started the motor (ClockBehind), which every writer of    *)
(* mLastAtMarkerTime keeps.                                                *)
(***************************************************************************)
EXTENDS GarageDoor, Thermostat, WellFoundedInduction, TLAPS

-----------------------------------------------------------------------------
(* The garage door.                                                         *)

DelayAtEnd == delay > 0 => doorState \in {"Open", "Closed"}

ClockBehind == stepped \/ since <= started

IInv == TypeOK /\ MarkersOK /\ DelayAtEnd /\ ClockBehind

-----------------------------------------------------------------------------
(* The operators.                                                           *)

LEMMA TimeTyped ==
  ASSUME NEW n \in 0 .. Total + 1
  PROVE  /\ Time(n) \in 0 .. Total + 1
         /\ \A m \in 0 .. Total + 1 : m <= n => Time(m) <= Time(n)
  BY GarageAssumption DEF GarageAssumption, Time, AtMost

LEMMA StateAtTyped ==
  ASSUME NEW m, NEW p
  PROVE  DoorStateAt(m, p) \in {"Open", "Closed", "MovingOrStopped", "Failed"}
  BY DEF DoorStateAt

\* An answer of QueryDoorState.
Answer == [known : BOOLEAN, state : DoorState, delay : 0 .. Delay, since : 0 .. Total + 1]

LEMMA QueryTyped ==
  ASSUME IInv, NEW reading
  PROVE  /\ QueryDoorState(reading) \in Answer
         /\ QueryDoorState(reading).since <= since
         /\ QueryDoorState(reading).delay > 0
              => QueryDoorState(reading).state \in {"Open", "Closed"}
         /\ QueryDoorState(reading).known /\ QueryDoorState(reading).state = "Stalled"
              => since > Total
<1> DEFINE at == DoorStateAt(markers, reading)
<1>1. /\ doorState \in DoorState /\ delay \in 0 .. Delay /\ since \in 0 .. Total + 1
      /\ Total \in Nat /\ Delay \in Nat
  BY GarageAssumption DEF GarageAssumption, IInv, TypeOK
<1>2. at \in {"Open", "Closed", "MovingOrStopped", "Failed"}
  BY StateAtTyped
<1>3. CASE delay > 0
  BY <1>1, <1>3 DEF QueryDoorState, Answer, IInv, DelayAtEnd
<1>4. CASE ~(delay > 0) /\ reading = 0
  BY <1>1, <1>4 DEF QueryDoorState, Answer
<1>5. CASE ~(delay > 0) /\ reading # 0 /\ at \in {"Open", "Closed"}
  BY <1>1, <1>5 DEF QueryDoorState, Answer, DoorState
<1>6. CASE ~(delay > 0) /\ reading # 0 /\ at \notin {"Open", "Closed"}
  BY <1>1, <1>2, <1>6 DEF QueryDoorState, Answer, DoorState
<1> QED BY <1>3, <1>4, <1>5, <1>6

Belief == [cur : MotorState \cup {None}, last : Running \cup {None}]

LEMMA BeliefTyped ==
  ASSUME IInv, NEW state
  PROVE  MotorAfter(state) \in Belief /\ NoMoveAfter(state) \in 0 .. StopTicks - 1
<1>1. /\ motor \in Belief /\ noMove \in 0 .. StopTicks - 1 /\ StopTicks \in Nat \ {0}
  BY GarageAssumption DEF GarageAssumption, IInv, TypeOK, Belief
<1>2. TicksWithoutMovement(state) \in Nat
  BY <1>1 DEF TicksWithoutMovement
<1>3. NoMoveAfter(state) \in 0 .. StopTicks - 1
  BY <1>1, <1>2 DEF NoMoveAfter
<1>4. /\ Opposite(motor.last) \in Running
      /\ [motor EXCEPT !.cur = "Stopped"] \in Belief
  BY <1>1 DEF Opposite, Belief, MotorState, Running
<1>5. MotorAfter(state) \in Belief
  BY <1>1, <1>4 DEF MotorAfter, Belief, MotorState
<1> QED BY <1>3, <1>5

Messages == [current : Current \cup {None}, target : Target \cup {None},
             obstruction : Obstruction \cup {None}]

Shown == [current : Current, target : Target, obstruction : Obstruction]

LEMMA MessageTyped ==
  ASSUME NEW state, NEW m
  PROVE  /\ NextMessage(state, m) \in Messages
         /\ NextMessage(state, m).obstruction = "yes" <=> state = "Stalled"
  BY DEF NextMessage, Messages, Current, Target, Obstruction, None

LEMMA MergedTyped ==
  ASSUME message \in Messages, NEW msg \in Messages
  PROVE  /\ Merged(message, msg) \in Messages
         /\ \A h \in Shown : Merged(h, msg) \in Shown
         /\ Merged(message, msg).obstruction \in {message.obstruction, msg.obstruction}
<1>1. \A h \in Shown : Merged(h, msg) \in Shown
  <2> SUFFICES ASSUME NEW h \in Shown PROVE Merged(h, msg) \in Shown
    OBVIOUS
  <2>1. DOMAIN h = {"current", "target", "obstruction"} /\ DOMAIN msg = DOMAIN h
    BY DEF Shown, Messages
  <2>2. \A f \in DOMAIN h : f \in Differs(msg) => msg[f] # None
    BY DEF Differs
  <2> QED BY <2>1, <2>2 DEF Merged, Shown, Messages
<1>2. /\ Merged(message, msg) \in Messages
      /\ Merged(message, msg).obstruction \in {message.obstruction, msg.obstruction}
  BY DEF Merged, Messages
<1> QED BY <1>1, <1>2

LEMMA PressTyped ==
  ASSUME IInv
  PROVE  Pressed(drive, pos) \in [cur : MotorState, last : Running \cup {None}]
  BY DEF IInv, TypeOK, Pressed, MotorState, Running

-----------------------------------------------------------------------------
(* The steps.                                                               *)

LEMMA TickKeeps ==
  ASSUME IInv, NEW reading, Tick(reading)
  PROVE  /\ IInv'
         /\ message.obstruction # "yes" /\ message'.obstruction = "yes"
              => started > Total \/ stepped
<1> DEFINE q == QueryDoorState(reading)
           msg == NextMessage(q.state, motor')
<1>1. /\ calls' = (calls + 1) % 4 /\ doorState' = q.state /\ delay' = q.delay
      /\ since' = Time(q.since) /\ started' = Time(started)
      /\ UNCHANGED <<pos, drive, markers, commands, stepped, overridden>>
      /\ \/ /\ ~q.known
            /\ UNCHANGED <<travel, motor, noMove, message, hk>>
         \/ /\ q.known
            /\ travel' = (travel \/ calls' = 0)
            /\ motor' = MotorAfter(q.state)
            /\ noMove' = NoMoveAfter(q.state)
            /\ message' = Merged(message, msg)
            /\ hk' = Merged(hk, msg)
  BY DEF Tick
<1>2. /\ q \in Answer /\ q.since <= since
      /\ q.delay > 0 => q.state \in {"Open", "Closed"}
      /\ q.known /\ q.state = "Stalled" => since > Total
  BY QueryTyped
<1>3. since \in 0 .. Total + 1 /\ started \in 0 .. Total + 1 /\ Total \in Nat
  BY GarageAssumption DEF GarageAssumption, IInv, TypeOK
<1>4. message \in Messages /\ hk \in Shown /\ msg \in Messages
  BY MessageTyped DEF IInv, TypeOK, Messages, Shown
<1>5. since' \in 0 .. Total + 1 /\ started' \in 0 .. Total + 1
  BY <1>1, <1>2, <1>3, TimeTyped DEF Answer
<1>6. TypeOK'
  <2>1. calls' \in 0 .. 3
    BY <1>1 DEF IInv, TypeOK
  <2>2. doorState' \in DoorState /\ delay' \in 0 .. Delay
    BY <1>1, <1>2 DEF Answer
  <2>3. motor' \in Belief /\ noMove' \in 0 .. StopTicks - 1
    BY <1>1, BeliefTyped DEF IInv, TypeOK, Belief
  <2>4. message' \in Messages /\ hk' \in Shown
    BY <1>1, <1>4, MergedTyped
  <2>5. travel' \in BOOLEAN
    BY <1>1 DEF IInv, TypeOK
  <2> QED BY <1>1, <1>5, <2>1, <2>2, <2>3, <2>4, <2>5
          DEF IInv, TypeOK, Belief, Messages, Shown
<1>7. MarkersOK'
  BY <1>1 DEF IInv, MarkersOK
<1>8. DelayAtEnd'
  BY <1>1, <1>2 DEF DelayAtEnd
<1>9. ClockBehind'
  <2>1. CASE stepped
    BY <1>1, <2>1 DEF ClockBehind
  <2>2. CASE since <= started
    <3>1. q.since \in 0 .. Total + 1 /\ q.since <= started
      BY <1>2, <1>3, <2>2 DEF Answer
    <3> QED BY <1>1, <1>3, <3>1, TimeTyped DEF ClockBehind
  <2> QED BY <2>1, <2>2 DEF IInv, ClockBehind
<1>10. ASSUME message.obstruction # "yes", message'.obstruction = "yes"
       PROVE  started > Total \/ stepped
  <2>1. q.known /\ msg.obstruction = "yes"
    BY <1>1, <1>4, <1>10, MergedTyped
  <2>2. since > Total
    BY <1>2, <2>1, MessageTyped
  <2> QED BY <1>3, <2>2 DEF IInv, ClockBehind
<1> QED BY <1>6, <1>7, <1>8, <1>9, <1>10 DEF IInv

LEMMA SetTargetStateKeeps ==
  ASSUME IInv, NEW t \in Target, NEW reading, SetTargetState(t, reading)
  PROVE  IInv' /\ UNCHANGED message
<1> DEFINE q == QueryDoorState(reading)
           way == IF t = "open" THEN "Opening" ELSE "Closing"
           started0 == /\ motor' = [cur |-> way, last |-> way]
                       /\ since' = 0
                       /\ drive' = Pressed(drive, pos)
                       /\ started' = 0 /\ stepped' = FALSE
           left == /\ since' = q.since
                   /\ drive' = IF Simulated THEN drive ELSE Pressed(drive, pos)
                   /\ UNCHANGED <<motor, started, stepped>>
<1>1. /\ commands < MaxCommands /\ commands' = commands + 1
      /\ hk' = [hk EXCEPT !.target = t] /\ doorState' = q.state /\ delay' = q.delay
      /\ started0 \/ left
      /\ UNCHANGED <<pos, markers, noMove, calls, travel, message, overridden>>
  BY DEF SetTargetState, Command, TriggerTime
<1>2. /\ q \in Answer /\ q.since <= since
      /\ q.delay > 0 => q.state \in {"Open", "Closed"}
  BY QueryTyped
<1>3. since \in 0 .. Total + 1 /\ started \in 0 .. Total + 1 /\ Total \in Nat
  BY GarageAssumption DEF GarageAssumption, IInv, TypeOK
<1>4. /\ since' \in 0 .. Total + 1 /\ started' \in 0 .. Total + 1 /\ stepped' \in BOOLEAN
      /\ ClockBehind'
  <2>1. CASE started0
    <3>1. since' = 0 /\ started' = 0 /\ stepped' = FALSE
      BY <2>1
    <3>2. since' <= started' /\ 0 \in 0 .. Total + 1
      BY <1>3, <3>1
    <3> QED BY <3>1, <3>2 DEF ClockBehind
  <2>2. CASE left
    <3>1. q.since \in 0 .. Total + 1
      BY <1>2 DEF Answer
    <3>2. since' = q.since /\ started' = started /\ stepped' = stepped
      BY <2>2
    <3>3. stepped' \in BOOLEAN
      BY <3>2 DEF IInv, TypeOK
    <3> HIDE DEF q
    <3> QED BY <1>2, <1>3, <3>1, <3>2, <3>3 DEF IInv, ClockBehind
  <2> QED BY <1>1, <2>1, <2>2
<1>5. /\ drive' \in [cur : MotorState, last : Running \cup {None}]
      /\ motor' \in Belief
  BY <1>1, PressTyped DEF IInv, TypeOK, Belief, MotorState, Running
<1>6. /\ commands' \in 0 .. MaxCommands /\ hk' \in Shown
      /\ doorState' \in DoorState /\ delay' \in 0 .. Delay
  BY <1>1, <1>2, GarageAssumption DEF GarageAssumption, IInv, TypeOK, Answer, Shown
<1>7. TypeOK'
  BY <1>1, <1>4, <1>5, <1>6 DEF IInv, TypeOK, Belief, Shown
<1>8. MarkersOK' /\ DelayAtEnd'
  BY <1>1, <1>2 DEF IInv, MarkersOK, DelayAtEnd
<1> QED BY <1>1, <1>4, <1>7, <1>8 DEF IInv

\* Ranges that the user takes over or swaps.
LEMMA MarkersKeep ==
  ASSUME IInv,
         SwapMarkers \/ \E which \in {"open", "closed"}, r \in Ranges : SetMarkers(which, r)
  PROVE  IInv' /\ UNCHANGED message
<1>1. /\ commands < MaxCommands /\ commands' = commands + 1
      /\ UNCHANGED <<pos, drive, belief, noMove, calls, travel, motor, message, hk, history>>
  BY DEF SwapMarkers, SetMarkers, Command
<1>2. markers \in [open : Ranges, closed : Ranges]
  BY DEF IInv, TypeOK
<1>3. \A p \in Pos : p \in Int
  BY DEF Pos
<1>4. markers' \in [open : Ranges, closed : Ranges] /\ MarkersOK'
  <2>1. CASE SwapMarkers
    BY <1>2, <2>1 DEF SwapMarkers, IInv, MarkersOK
  <2>2. ASSUME NEW which \in {"open", "closed"}, NEW r \in Ranges, SetMarkers(which, r)
        PROVE  markers' \in [open : Ranges, closed : Ranges] /\ MarkersOK'
    <3> DEFINE other == IF which = "open" THEN markers.closed ELSE markers.open
    <3>1. /\ markers' = [markers EXCEPT ![which] = r]
          /\ ~IsInvalid(r) /\ ~IntersectsWith(r, other)
      BY <2>2 DEF SetMarkers
    <3>2. \A p \in Pos : ~(Covers(r, p) /\ Covers(other, p))
      BY <1>2, <1>3, <3>1 DEF Covers, IntersectsWith, Ranges
    <3> QED BY <1>2, <3>1, <3>2 DEF IInv, MarkersOK
  <2> QED BY <2>1, <2>2
<1> QED BY <1>1, <1>4, GarageAssumption
        DEF GarageAssumption, IInv, TypeOK, DelayAtEnd, ClockBehind, belief, history

\* The other commands, the door itself and the web page that asks for its state.
LEMMA OthersKeep ==
  ASSUME IInv,
         \/ Move \/ PressButton \/ WallButton \/ SyncDateTime \/ UNCHANGED vars
         \/ \E reading \in Readings : PollDoorState(reading)
         \/ \E b \in Obstruction : SetObstruction(b)
         \/ \E c \in Current : SetCurrentState(c)
  PROVE  IInv' /\ UNCHANGED message
<1>1. /\ Total \in Nat /\ MaxCommands \in Nat /\ Delay \in Nat /\ Positions \in Nat
      /\ since \in 0 .. Total + 1 /\ started \in 0 .. Total + 1 /\ commands \in 0 .. MaxCommands
  BY GarageAssumption DEF GarageAssumption, IInv, TypeOK
<1>2. Pressed(drive, pos) \in [cur : MotorState, last : Running \cup {None}]
  BY PressTyped
<1>3. CASE Move
  <2>1. pos' \in Pos
    BY <1>1, <1>3 DEF Move, IInv, TypeOK, Pos, Running
  <2>2. drive' \in [cur : MotorState, last : Running \cup {None}]
    BY <1>3 DEF Move, IInv, TypeOK, MotorState
  <2> QED BY <1>3, <2>1, <2>2
          DEF Move, IInv, TypeOK, MarkersOK, DelayAtEnd, ClockBehind, belief, history
<1>4. CASE PressButton \/ WallButton \/ SyncDateTime
  <2>1. /\ commands' \in 0 .. MaxCommands /\ since' \in 0 .. Total + 1
        /\ drive' \in [cur : MotorState, last : Running \cup {None}]
        /\ started' = started /\ (stepped' \/ (stepped' = stepped /\ since' <= since))
        /\ stepped' \in BOOLEAN
    <3>1. commands' \in 0 .. MaxCommands
      BY <1>1, <1>4 DEF PressButton, WallButton, SyncDateTime, Command
    <3>2. drive' = drive \/ drive' = Pressed(drive, pos)
      BY <1>4 DEF PressButton, WallButton, SyncDateTime
    <3>3. drive' \in [cur : MotorState, last : Running \cup {None}]
      BY <1>2, <3>2 DEF IInv, TypeOK
    <3>4. /\ started' = started
          /\ \/ stepped' = stepped /\ since' \in {since, 0}
             \/ stepped' = TRUE /\ since' = Total + 1
      BY <1>4 DEF PressButton, WallButton, SyncDateTime, TriggerTime, belief, history
    <3>5. stepped' \in BOOLEAN
      BY <3>4 DEF IInv, TypeOK
    <3>6. since' \in 0 .. Total + 1 /\ (stepped' \/ (stepped' = stepped /\ since' <= since))
      BY <1>1, <3>4
    <3> QED BY <3>1, <3>3, <3>4, <3>5, <3>6
  <2>2. /\ UNCHANGED <<pos, markers, doorState, delay, noMove, calls, travel, motor, message, hk,
                       overridden>>
    BY <1>4 DEF PressButton, WallButton, SyncDateTime, belief, history
  <2>3. ClockBehind'
    BY <1>1, <2>1 DEF IInv, ClockBehind
  <2> QED BY <2>1, <2>2, <2>3, <1>1 DEF IInv, TypeOK, MarkersOK, DelayAtEnd
<1>5. CASE UNCHANGED vars
  BY <1>5 DEF vars, IInv, TypeOK, MarkersOK, DelayAtEnd, ClockBehind, belief, history
<1>6. ASSUME NEW reading \in Readings, PollDoorState(reading)
      PROVE  IInv' /\ UNCHANGED message
  <2>1. /\ QueryDoorState(reading) \in Answer /\ QueryDoorState(reading).since <= since
        /\ QueryDoorState(reading).delay > 0
             => QueryDoorState(reading).state \in {"Open", "Closed"}
    BY QueryTyped
  <2>2. /\ doorState' \in DoorState /\ delay' \in 0 .. Delay /\ since' \in 0 .. Total + 1
        /\ since' <= since /\ DelayAtEnd'
    BY <1>6, <2>1 DEF PollDoorState, Answer, DelayAtEnd
  <2>3. UNCHANGED <<pos, drive, markers, noMove, calls, travel, motor, message, hk, commands,
                    started, stepped, overridden>>
    BY <1>6 DEF PollDoorState, history
  <2>4. ClockBehind'
    BY <1>1, <2>2, <2>3 DEF IInv, ClockBehind
  <2> QED BY <2>2, <2>3, <2>4 DEF IInv, TypeOK, MarkersOK
<1>7. ASSUME \/ \E b \in Obstruction : SetObstruction(b)
             \/ \E c \in Current : SetCurrentState(c)
      PROVE  IInv' /\ UNCHANGED message
  <2>1. /\ commands' \in 0 .. MaxCommands /\ overridden' \in BOOLEAN
        /\ hk' \in Shown /\ motor' \in Belief
    <3>1. commands' \in 0 .. MaxCommands /\ overridden' = TRUE
      BY <1>1, <1>7 DEF SetObstruction, SetCurrentState, Command
    <3>2. hk \in Shown /\ motor \in Belief
      BY DEF IInv, TypeOK, Shown, Belief
    <3>3. hk' \in Shown
      BY <1>7, <3>2 DEF SetObstruction, SetCurrentState, Shown
    <3>4. motor' = motor \/ motor' = [motor EXCEPT !.cur = "Stopped"]
      BY <1>7 DEF SetObstruction, SetCurrentState
    <3>5. motor' \in Belief
      BY <3>2, <3>4 DEF Belief, MotorState
    <3> QED BY <3>1, <3>3, <3>5
  <2>2. UNCHANGED <<pos, drive, markers, doorState, delay, since, noMove, calls, travel, message,
                    started, stepped>>
    BY <1>7 DEF SetObstruction, SetCurrentState, belief
  <2> QED BY <2>1, <2>2
          DEF IInv, TypeOK, MarkersOK, DelayAtEnd, ClockBehind, Shown, Belief
<1> QED BY <1>3, <1>4, <1>5, <1>6, <1>7

-----------------------------------------------------------------------------
(* The theorems.                                                            *)

LEMMA InitIInv == Init => IInv
<1> SUFFICES ASSUME Init PROVE IInv
  OBVIOUS
<1>1. TypeOK
  <2>1. 1 \in Pos /\ Positions \in Pos
    BY GarageAssumption DEF GarageAssumption, Pos
  <2>2. pos \in Pos /\ markers \in [open : Ranges, closed : Ranges]
    BY <2>1 DEF Init, Ranges
  <2>3. /\ delay \in 0 .. Delay /\ since \in 0 .. Total + 1 /\ noMove \in 0 .. StopTicks - 1
        /\ calls \in 0 .. 3 /\ commands \in 0 .. MaxCommands /\ started \in 0 .. Total + 1
    BY GarageAssumption DEF GarageAssumption, Init
  <2>4. /\ drive \in [cur : MotorState, last : Running \cup {None}]
        /\ motor \in [cur : MotorState \cup {None}, last : Running \cup {None}]
        /\ doorState \in DoorState
    BY DEF Init, MotorState, DoorState
  <2>5. /\ message \in [current : Current \cup {None}, target : Target \cup {None},
                        obstruction : Obstruction \cup {None}]
        /\ hk \in [current : Current, target : Target, obstruction : Obstruction]
    BY DEF Init, Current, Target, Obstruction
  <2>6. travel \in BOOLEAN /\ stepped \in BOOLEAN /\ overridden \in BOOLEAN
    BY DEF Init
  <2> QED BY <2>2, <2>3, <2>4, <2>5, <2>6 DEF TypeOK
<1>2. MarkersOK
  BY GarageAssumption DEF GarageAssumption, Init, MarkersOK, IsInvalid, Covers, Pos
<1>3. DelayAtEnd /\ ClockBehind
  BY GarageAssumption DEF GarageAssumption, Init, DelayAtEnd, ClockBehind
<1> QED BY <1>1, <1>2, <1>3 DEF IInv

GivenItsTime ==
  message.obstruction # "yes" /\ message'.obstruction = "yes" => started > Total \/ stepped

LEMMA InductiveStep == IInv /\ [Next]_vars => IInv' /\ GivenItsTime
<1> SUFFICES ASSUME IInv, [Next]_vars PROVE IInv' /\ GivenItsTime
  OBVIOUS
<1>1. CASE \E reading \in Readings : Tick(reading)
  BY <1>1, TickKeeps DEF GivenItsTime
<1>2. CASE \E reading \in Readings, t \in Target : SetTargetState(t, reading)
  BY <1>2, SetTargetStateKeeps DEF GivenItsTime
<1>3. CASE SwapMarkers \/ \E which \in {"open", "closed"}, r \in Ranges : SetMarkers(which, r)
  BY <1>3, MarkersKeep DEF GivenItsTime
<1>4. CASE \/ Move \/ PressButton \/ WallButton \/ SyncDateTime \/ UNCHANGED vars
           \/ \E reading \in Readings : PollDoorState(reading)
           \/ \E b \in Obstruction : SetObstruction(b)
           \/ \E c \in Current : SetCurrentState(c)
  BY <1>4, OthersKeep DEF GivenItsTime
<1> QED BY <1>1, <1>2, <1>3, <1>4 DEF Next

LEMMA Inductive == Spec => []IInv
<1>1. IInv /\ [Next]_vars => IInv'
  BY InductiveStep
<1> QED BY <1>1, InitIInv, PTL DEF Spec

\* The variables of the garage door opener keep their types.
THEOREM GarageTypeCorrect == Spec => []TypeOK
<1>1. IInv => TypeOK
  BY DEF IInv
<1> QED BY <1>1, Inductive, PTL

\* Whatever ranges the user takes over or swaps, no position is that of an open and of a
\* closed door at once.
THEOREM EndsStayApart == Spec => []MarkersOK
<1>1. IInv => MarkersOK
  BY DEF IInv
<1> QED BY <1>1, Inductive, PTL

\* No obstruction is reported for a run of the accessory before the time of a run is over.
THEOREM RunGetsItsTime == Spec => RunIsGivenItsTime
<1>1. IInv /\ [Next]_vars => [GivenItsTime]_vars
  BY InductiveStep
<1>2. [GivenItsTime]_vars
        => [message.obstruction # "yes" /\ message'.obstruction = "yes"
              => started > Total \/ stepped]_vars
  BY DEF GivenItsTime
<1> QED BY <1>1, <1>2, Inductive, PTL DEF Spec, RunIsGivenItsTime

-----------------------------------------------------------------------------
(* The thermostat.                                                          *)

\* What the fields of the units and the characteristics hold.
Given == {Nothing} \cup UNION {Setting[f] : f \in Field}
ShownValues == Given \cup HCState \cup {Default[f] : f \in Field}
HostFields ==
  [sensor : Temperature, info : [Field -> Given], last : HCState \cup {Nothing},
   seen : Temperature, known : [Field -> Given], recorded : Temperature]

\* The copies of the units m are those of its control unit.
Copied(m) == m.seen = m.sensor /\ m.recorded = m.sensor /\ m.known = m.info

\* Of the settings shown, the units m know those that were given.
Reaches(m, ch) ==
  \A f \in Field : IF m.info[f] = Nothing THEN ch[f] = Default[f] ELSE m.info[f] = ch[f]

ThermostatInv ==
  /\ room \in Temperature
  /\ unit \in HostFields /\ char \in [Field \cup {"current"} -> ShownValues]
  /\ Copied(unit) /\ Reaches(unit, char)

\* A state of the tickers' pass.
IsRecord(s) == s = [unit |-> s.unit, char |-> s.char, device |-> s.device, slots |-> s.slots]
GoodPass(s) ==
  /\ IsRecord(s)
  /\ s.unit \in HostFields /\ s.char \in [Field \cup {"current"} -> ShownValues]
  /\ Copied(s.unit) /\ Reaches(s.unit, s.char)

\* A control unit that was added before the others hands on what it handles.
InOrder == Reached("changed") /\ Reached("recorder")

\* A reading reaches all three units.
LEMMA ReadingHandled ==
  ASSUME InOrder, NEW m \in HostFields, Copied(m), NEW t \in Temperature
  PROVE  /\ WriteSensor(m, t) \in HostFields /\ Copied(WriteSensor(m, t))
         /\ WriteSensor(m, t).info = m.info
<1>1. WriteSensor(m, t) =
        [m EXCEPT !.sensor = Assign(m.sensor, t), !.seen = Assign(m.seen, t),
                  !.recorded = Assign(m.recorded, t)]
  BY DEF WriteSensor, InOrder
<1>2. Assign(m.sensor, t) \in Temperature
  BY DEF Assign, HostFields
<1> QED BY <1>1, <1>2 DEF HostFields, Copied

\* A setting reaches both units that keep settings.
LEMMA SettingHandled ==
  ASSUME InOrder, NEW m \in HostFields, Copied(m), NEW f \in Field, NEW v \in Given \ {Nothing}
  PROVE  /\ WriteInfo(m, f, v) \in HostFields /\ Copied(WriteInfo(m, f, v))
         /\ WriteInfo(m, f, v).info = [m.info EXCEPT ![f] = v]
<1>1. WriteInfo(m, f, v) = [m EXCEPT !.info = [m.info EXCEPT ![f] = v],
                                       !.known = [m.known EXCEPT ![f] = v]]
  BY DEF WriteInfo, Assign, InOrder
<1>2. [m.info EXCEPT ![f] = v] \in [Field -> Given] /\ m.known = m.info
  BY DEF HostFields, Copied
<1> QED BY <1>1, <1>2 DEF HostFields, Copied

\* The control unit sends a state, and touches no setting.
LEMMA ControlKeeps ==
  ASSUME NEW s, GoodPass(s)
  PROVE  GoodPass(Controlled(s))
<1> DEFINE next == Sent(s.unit)
<1>1. next \in HCState
  BY DEF Sent, Message, HCState
<1> HIDE DEF next
<1>2. CASE next = s.unit.last
  BY <1>2 DEF Controlled, next
<1>3. CASE next # s.unit.last
  <2> DEFINE c == [s.char EXCEPT !["current"] = next]
             m == [s.unit EXCEPT !.last = next]
  <2>1. Controlled(s) = [s EXCEPT !.char = c, !.unit = m]
    BY <1>3 DEF Controlled, next
  <2>2. c \in [Field \cup {"current"} -> ShownValues] /\ \A f \in Field : c[f] = s.char[f]
    BY <1>1 DEF GoodPass, ShownValues, Field
  <2>3. /\ m \in HostFields /\ m.info = s.unit.info /\ m.known = s.unit.known
        /\ m.sensor = s.unit.sensor /\ m.seen = s.unit.seen /\ m.recorded = s.unit.recorded
    BY <1>1 DEF GoodPass, HostFields
  <2> HIDE DEF c, m
  <2> DEFINE w == [s EXCEPT !.char = c, !.unit = m]
             R == [unit : {s.unit}, char : {s.char}, device : {s.device}, slots : {s.slots}]
  <2>4. s \in R
    BY DEF GoodPass, IsRecord
  <2>5. w \in [unit : {m}, char : {c}, device : {s.device}, slots : {s.slots}]
    <3> HIDE DEF IsRecord, GoodPass
    <3> QED BY <2>4
  <2> HIDE DEF w
  <2>6. IsRecord(w) /\ w.unit = m /\ w.char = c
    BY <2>5 DEF IsRecord
  <2> QED BY <2>1, <2>2, <2>3, <2>6 DEF GoodPass, Copied, Reaches, w
<1> QED BY <1>2, <1>3

\* The call of one slot.
LEMMA SlotKeeps ==
  ASSUME InOrder, ThermostatInv, NEW s, GoodPass(s), NEW i, NEW ms
  PROVE  GoodPass(OnTick(s, i, ms))
<1> DEFINE r == [s EXCEPT !.slots[i].last = ms]
           u == s.slots[i].unit
<1>1. r = [unit |-> s.unit, char |-> s.char, device |-> s.device, slots |-> r.slots]
  BY DEF GoodPass, IsRecord
<1>2. GoodPass(r)
  BY <1>1 DEF GoodPass, IsRecord
<1> HIDE DEF r, u
<1>3. GoodPass(OnTimer(r, u))
  <2>1. CASE u = "sensor"
    <3> DEFINE m == WriteSensor(r.unit, room)
    <3>1. OnTimer(r, u) = [r EXCEPT !.unit = m]
      BY <2>1 DEF OnTimer
    <3>2. m \in HostFields /\ Copied(m) /\ m.info = r.unit.info
      BY <1>2, ReadingHandled DEF GoodPass, ThermostatInv
    <3> HIDE DEF m
    <3>3. [r EXCEPT !.unit = m]
            = [unit |-> m, char |-> r.char, device |-> r.device, slots |-> r.slots]
      BY <1>2 DEF GoodPass, IsRecord
    <3> QED BY <1>2, <3>1, <3>2, <3>3 DEF GoodPass, IsRecord, Reaches
  <2>2. CASE u = "control"
    BY <1>2, <2>2, ControlKeeps DEF OnTimer
  <2>3. CASE u \notin {"sensor", "control"}
    <3>1. OnTimer(r, u) = [r EXCEPT !.device = r.char.current]
      BY <2>3 DEF OnTimer
    <3>2. [r EXCEPT !.device = r.char.current]
            = [unit |-> r.unit, char |-> r.char, device |-> r.char.current, slots |-> r.slots]
      BY <1>2 DEF GoodPass, IsRecord
    <3> QED BY <1>2, <3>1, <3>2 DEF GoodPass, IsRecord
  <2> QED BY <2>1, <2>2, <2>3
<1> QED BY <1>3 DEF OnTick, r, u

\* A set of numbers that is not empty has a least one.
LEMMA LeastOf ==
  ASSUME NEW S, S \subseteq Nat, S # {}
  PROVE  \E x \in S : x \in Nat /\ \A y \in S : x <= y
<1>1. PICK x \in S : \A y \in S : ~(<<y, x>> \in OpToRel(<, Nat))
  BY NatLessThanWellFounded, WFMin
<1>2. ASSUME NEW y \in S, ~(x <= y) PROVE FALSE
  <2>1. x \in Nat /\ y \in Nat /\ y < x
    BY <1>2
  <2>2. <<y, x>> \in OpToRel(<, Nat)
    BY <2>1 DEF OpToRel
  <2> QED BY <1>1, <2>2
<1> QED BY <1>2

\* The pass over the slots, which is defined by recursion: it exists, and every call in it keeps
\* what is good.
LEMMA PassKeeps ==
  ASSUME InOrder, ThermostatInv, NEW s, GoodPass(s), NEW ms
  PROVE  GoodPass(Pass(s, ms))
<1> DEFINE n == MaxTickerSlots
           IsRun(r, m) == r = [i \in 0 .. m |->
                                IF i = 0 THEN s ELSE OnTick(r[i - 1], i, ms)]
           bad == {m \in 0 .. n : ~ \E r : IsRun(r, m) /\ GoodPass(r[m])}
<1>1. n \in Nat
  BY SlotsAssumption DEF SlotsAssumption
<1>2. bad = {}
  <2> SUFFICES ASSUME bad # {} PROVE FALSE
    OBVIOUS
  <2>1. PICK m \in bad : m \in Nat /\ \A k \in bad : m <= k
    <3>1. bad \subseteq Nat
      OBVIOUS
    <3> HIDE DEF bad
    <3> QED BY <3>1, LeastOf
  <2>2. CASE m = 0
    <3>1. IsRun([i \in 0 .. 0 |-> s], 0) /\ GoodPass([i \in 0 .. 0 |-> s][0])
      OBVIOUS
    <3> QED BY <2>1, <2>2, <3>1
  <2>3. CASE m # 0
    <3>1. m - 1 \in 0 .. n /\ m - 1 \notin bad
      BY <1>1, <2>1, <2>3
    <3>2. PICK r : IsRun(r, m - 1) /\ GoodPass(r[m - 1])
      BY <3>1
    <3> DEFINE t == [i \in 0 .. m |-> IF i = m THEN OnTick(r[m - 1], m, ms) ELSE r[i]]
    <3>3. \A i \in 0 .. m - 1 : t[i] = r[i] /\ i \in 0 .. m
      BY <2>1
    <3>4. \A i \in 0 .. m - 1 : r[i] = IF i = 0 THEN s ELSE OnTick(r[i - 1], i, ms)
      BY <3>2
    <3>5. \A i \in 0 .. m : t[i] = IF i = 0 THEN s ELSE OnTick(t[i - 1], i, ms)
      <4> TAKE i \in 0 .. m
      <4>1. CASE i = m
        <5>1. t[m - 1] = r[m - 1]
          BY <2>1, <2>3, <3>3
        <5> QED BY <2>1, <2>3, <4>1, <5>1
      <4>2. CASE i # m
        <5>1. i \in 0 .. m - 1 /\ (i # 0 => i - 1 \in 0 .. m - 1)
          BY <2>1, <4>2
        <5> QED BY <3>3, <3>4, <5>1
      <4> QED BY <4>1, <4>2
    <3>6. IsRun(t, m)
      BY <3>5
    <3>7. GoodPass(t[m])
      <4>1. t[m] = OnTick(r[m - 1], m, ms)
        BY <2>1
      <4> HIDE DEF t
      <4> QED BY <3>2, <4>1, SlotKeeps
    <3> QED BY <2>1, <3>6, <3>7
  <2> QED BY <2>2, <2>3
<1>3. PICK r : IsRun(r, n) /\ GoodPass(r[n])
  <2>1. n \in 0 .. n
    BY <1>1
  <2> QED BY <1>2, <2>1
<1> DEFINE After == CHOOSE f : IsRun(f, n)
<1>4. IsRun(After, n)
  BY <1>3
<1>5. After = r
  <2> HIDE DEF After
  <2> DEFINE diff == {i \in 0 .. n : After[i] # r[i]}
  <2>1. diff = {}
    <3> SUFFICES ASSUME diff # {} PROVE FALSE
      OBVIOUS
    <3>1. PICK i \in diff : i \in Nat /\ \A j \in diff : i <= j
      <4>1. diff \subseteq Nat
        OBVIOUS
      <4> HIDE DEF diff
      <4> QED BY <4>1, LeastOf
    <3>2. /\ After[i] = IF i = 0 THEN s ELSE OnTick(After[i - 1], i, ms)
          /\ r[i] = IF i = 0 THEN s ELSE OnTick(r[i - 1], i, ms)
      BY <1>3, <1>4, <3>1
    <3>3. i # 0 => After[i - 1] = r[i - 1]
      BY <1>1, <3>1
    <3> QED BY <3>1, <3>2, <3>3
  <2> QED BY <1>3, <1>4, <2>1
<1> QED BY <1>3, <1>5 DEF Pass

\* The start: nobody knows anything, or all know the first reading.
LEMMA ThermostatStarts ==
  ASSUME InOrder, ThermostatInit
  PROVE  ThermostatInv
<1>1. /\ Fresh \in HostFields /\ Copied(Fresh)
      /\ \A f \in Field : Fresh.info[f] = Nothing
  BY DEF Fresh, Nobody, HostFields, Copied, Given, Temperature
<1>2. room \in Temperature
  BY DEF ThermostatInit
<1>3. unit = Fresh \/ unit = WriteSensor(Fresh, room)
  BY DEF ThermostatInit
<1>4. unit \in HostFields /\ Copied(unit) /\ \A f \in Field : unit.info[f] = Nothing
  BY <1>1, <1>2, <1>3, ReadingHandled
<1>5. /\ char \in [Field \cup {"current"} -> ShownValues]
      /\ \A f \in Field : char[f] = Default[f]
  BY DEF ThermostatInit, Field, ShownValues, HCState
<1> QED BY <1>2, <1>4, <1>5 DEF ThermostatInv, Reaches

\* A setting changed by HomeKit or a page.
LEMMA SetKeeps ==
  ASSUME InOrder, ThermostatInv,
         NEW f \in Field, NEW v \in Setting[f], Set(f, v)
  PROVE  ThermostatInv'
<1>1. v \in Given \ {Nothing}
  BY SettingAssumption DEF SettingAssumption, Given
<1>2. char' = [char EXCEPT ![f] = v] /\ unit' = WriteInfo(unit, f, v) /\ room' = room
  BY DEF Set
<1>3. /\ unit' \in HostFields /\ Copied(unit') /\ unit'.info = [unit.info EXCEPT ![f] = v]
  BY <1>1, <1>2, SettingHandled DEF ThermostatInv
<1>4. char' \in [Field \cup {"current"} -> ShownValues]
  BY <1>1, <1>2 DEF ThermostatInv, ShownValues
<1>5. unit.info \in [Field -> Given] /\ char \in [Field \cup {"current"} -> ShownValues]
  BY DEF ThermostatInv, HostFields
<1>6. ASSUME NEW g \in Field
      PROVE  /\ unit'.info[g] = IF g = f THEN v ELSE unit.info[g]
             /\ char'[g] = IF g = f THEN v ELSE char[g]
  BY <1>2, <1>3, <1>5
<1>7. Reaches(unit, char)
  BY DEF ThermostatInv
<1>8. Reaches(unit', char')
  BY <1>1, <1>6, <1>7 DEF Reaches
<1> QED BY <1>2, <1>3, <1>4, <1>8 DEF ThermostatInv

\* Every step keeps the copies and the settings.
LEMMA ThermostatSteps ==
  ASSUME InOrder, ThermostatInv,
         [ThermostatNext]_thermostat
  PROVE  ThermostatInv'
<1>1. ASSUME NEW d, Loop(d) PROVE ThermostatInv'
  <2> DEFINE ms == (now + d) % Wrap
             before == [unit |-> unit, char |-> char, device |-> device, slots |-> slots]
             after == IF paired THEN Pass(before, ms) ELSE before
  <2>1. unit' = after.unit /\ char' = after.char /\ room' = room
    BY <1>1 DEF Loop
  <2>2. GoodPass(before)
    BY DEF ThermostatInv, GoodPass, IsRecord
  <2> HIDE DEF before, ms
  <2>3. GoodPass(after)
    BY <2>2, PassKeeps
  <2> HIDE DEF after
  <2> QED BY <2>1, <2>3 DEF ThermostatInv, GoodPass
<1>2. ASSUME NEW v \in HCState, Override(v) PROVE ThermostatInv'
  <2>1. char' = [char EXCEPT !["current"] = v] /\ UNCHANGED <<unit, room>>
    BY <1>2 DEF Override
  <2>2. /\ char' \in [Field \cup {"current"} -> ShownValues]
        /\ \A f \in Field : char'[f] = char[f]
    BY <2>1 DEF ThermostatInv, ShownValues, Field
  <2> QED BY <2>1, <2>2 DEF ThermostatInv, Reaches
<1>3. CASE RoomChanges \/ PairingChanges \/ UNCHANGED thermostat
  BY <1>3 DEF RoomChanges, PairingChanges, thermostat, ThermostatInv
<1> QED BY <1>1, <1>2, <1>3, SetKeeps DEF ThermostatNext

\* Every reading and every setting reaches all the units that keep a copy, in whatever order
\* tickers, HomeKit and pages send them, if the control unit was added before the others: no
\* unit behind the one that handles a message is left with a stale copy, and the detour of the
\* recorder loses none.
THEOREM UnitsAgree ==
  ASSUME InOrder
  PROVE  ThermostatSpec => []CopiesAgree
<1>1. ThermostatInit => ThermostatInv
  BY ThermostatStarts
<1>2. ThermostatInv /\ [ThermostatNext]_thermostat => ThermostatInv'
  BY ThermostatSteps
<1>3. ThermostatInv => CopiesAgree
  BY DEF ThermostatInv, Copied, CopiesAgree
<1> QED BY <1>1, <1>2, <1>3, PTL DEF ThermostatSpec

\* The control unit works with the settings that HomeKit shows: the setters tell it of changes
\* only, and the defaults it uses meanwhile are those that are shown.
THEOREM SettingsAreUsed ==
  ASSUME InOrder
  PROVE  ThermostatSpec => []SettingsReachUnit
<1>1. ThermostatInit => ThermostatInv
  BY ThermostatStarts
<1>2. ThermostatInv /\ [ThermostatNext]_thermostat => ThermostatInv'
  BY ThermostatSteps
<1>3. ThermostatInv => SettingsReachUnit
  BY DEF ThermostatInv, Reaches, SettingsReachUnit, OrDefault, Field
<1> QED BY <1>1, <1>2, <1>3, PTL DEF ThermostatSpec
=============================================================================
