----------------------------- MODULE GarageDoor -----------------------------
(***************************************************************************)
(* The garage door opener (HomeKit_GarageDoorOpener.cpp): the control unit *)
(* that derives the state of the door and of its motor from a distance     *)
(* sensor and a clock, the unit that presses the button of the motor, the  *)
(* three characteristics HomeKit sees and the commands of the web pages.   *)
(*                                                                         *)
(* The accessory cannot see the motor.  It sees positions, or none, and    *)
(* keeps a belief of the motor; the door follows its own button logic, the *)
(* one that CDoorPositionSimulateUnit simulates.  A tick is a call of the  *)
(* control unit's ticker, half a second.                                   *)
(***************************************************************************)
EXTENDS Integers

CONSTANTS
  Simulated,    \* the host has CDoorPositionSimulateUnit, not the trigger pin
  Positions,    \* the door is at 1 when it is open, at Positions when it is closed
  Total,        \* mTravelInfo.TotalSecs, in ticks
  StopTicks,    \* StopMotorTicks
  Delay,        \* 1000 / TickerInterval
  MaxCommands   \* bound: presses of buttons and changes by users

ASSUME GarageAssumption ==
  /\ Simulated \in BOOLEAN
  /\ Positions \in Nat /\ Positions >= 2
  /\ Total \in Nat /\ StopTicks \in Nat \ {0} /\ Delay \in Nat /\ MaxCommands \in Nat

VARIABLES
  pos,          \* where the door is
  drive,        \* the motor itself: [cur, last]
  markers,      \* mPositionMarkers: [open, closed], each a range
  doorState,    \* mLastDoorState
  delay,        \* mUpdateDoorStateDelayCounter
  noMove,       \* mCountMotorOnByNoMovementTicks
  since,        \* the clock less mLastAtMarkerTime
  calls,        \* CEvent::Calls, modulo 4
  travel,       \* mTravelInfo is known
  motor,        \* mMotorInfo: the belief, [cur, last]
  message,      \* mLastMessage
  hk,           \* the values of the three characteristics
  commands,     \* presses and changes so far
  started,      \* history: ticks since the accessory last started the motor
  stepped,      \* history: the clock has been set since then
  overridden    \* history: a web page has written the current state or an obstruction

belief == <<doorState, delay, since>>
history == <<started, stepped, overridden>>
vars == <<pos, drive, markers, belief, noMove, calls, travel, motor, message, hk, commands,
          history>>

Pos == 1 .. Positions
Running == {"Opening", "Closing"}
MotorState == Running \cup {"Stopped"}
DoorState == {"Unknown", "Failed", "Open", "Closed", "MovingOrStopped", "Stalled"}
Current == {"open", "closed", "opening", "closing", "stopped"}
Target == {"open", "close"}
Obstruction == {"yes", "no"}

\* An optional without a value.
None == "none"

AtMost(n, cap) == IF n > cap THEN cap ELSE n

-----------------------------------------------------------------------------
(* Ranges of positions.                                                     *)

Ranges == [min : Pos, max : Pos]
IsInvalid(r) == r.min > r.max
Covers(r, p) == r.min <= p /\ p <= r.max

\* A wrong IntersectsWith: ranges that touch do not intersect.
IntersectsProperly(r, s) == r.min < s.max /\ r.max > s.min

IntersectsWith(r, s) == r.min <= s.max /\ r.max >= s.min

OpenByEnlarging(m) == m.open.max > m.closed.min

IsBetweenStopPoints(m, p) ==
  IF OpenByEnlarging(m) THEN p < m.open.min /\ p > m.closed.max
  ELSE p > m.open.max /\ p < m.closed.min

DoorStateAt(m, p) ==
  IF Covers(m.open, p) THEN "Open"
  ELSE IF Covers(m.closed, p) THEN "Closed"
  ELSE IF IsBetweenStopPoints(m, p) THEN "MovingOrStopped"
  ELSE "Failed"

-----------------------------------------------------------------------------
(* The door and its motor.                                                  *)

\* A press of the button: what runs stops, what stands runs the other way.
Pressed(d, p) ==
  IF d.cur \in Running THEN [d EXCEPT !.cur = "Stopped"]
  ELSE LET way == CASE d.last = "Opening" -> "Closing"
                    [] d.last = "Closing" -> "Opening"
                    [] OTHER -> IF p = 1 THEN "Closing" ELSE "Opening"
       IN  [cur |-> way, last |-> way]

\* The door moves, or reaches its end and the motor stops.
Move ==
  /\ drive.cur \in Running
  /\ LET end == IF drive.cur = "Opening" THEN 1 ELSE Positions
     IN  \/ /\ pos = end
            /\ drive' = [drive EXCEPT !.cur = "Stopped"]
            /\ UNCHANGED pos
         \/ /\ pos # end
            /\ pos' = IF drive.cur = "Opening" THEN pos - 1 ELSE pos + 1
            /\ UNCHANGED drive
  /\ UNCHANGED <<markers, belief, noMove, calls, travel, motor, message, hk, commands, history>>

-----------------------------------------------------------------------------
(* The control unit.                                                        *)

Init ==
  /\ pos \in {1, Positions}
  /\ drive = [cur |-> "Stopped", last |-> None]
  /\ markers = [open |-> [min |-> 1, max |-> 1],
                closed |-> [min |-> Positions, max |-> Positions]]
  /\ doorState = "Unknown" /\ delay = 0 /\ since = 0
  /\ noMove = 0 /\ calls = 0 /\ travel = FALSE
  /\ motor = [cur |-> None, last |-> None]
  /\ message = [current |-> None, target |-> None, obstruction |-> None]
  /\ hk = [current |-> "open", target |-> "open", obstruction |-> "no"]
  /\ commands = 0
  /\ started = Total + 1 /\ stepped = FALSE /\ overridden = FALSE

\* QueryDoorState with a reading of the sensor, 0 for none: its answer and what it leaves
\* behind.  It counts the delay down and keeps the time, whoever asks.
QueryDoorState(reading) ==
  IF delay > 0
  THEN [known |-> TRUE, state |-> doorState, delay |-> delay - 1, since |-> since]
  ELSE IF reading = 0
  THEN [known |-> FALSE, state |-> doorState, delay |-> delay, since |-> since]
  ELSE LET at == DoorStateAt(markers, reading)
       IN  CASE at \in {"Open", "Closed"} ->
                  [known |-> TRUE, state |-> at, delay |-> Delay, since |-> 0]
             [] at = "MovingOrStopped" /\ travel /\ since > Total ->
                  [known |-> TRUE, state |-> "Stalled", delay |-> delay, since |-> since]
             [] OTHER -> [known |-> TRUE, state |-> at, delay |-> delay, since |-> since]

Opposite(way) == IF way # "Opening" THEN "Opening" ELSE "Closing"

\* A wrong TicksWithoutMovement: the ticks are counted in a stall only.
TicksWhenStalled(state) ==
  IF motor.cur \in Running /\ state = "Stalled" THEN StopTicks ELSE 0

\* The ticks the motor is believed to run with the door at its other end.
TicksWithoutMovement(state) ==
  CASE motor.cur \in Running /\ state = "Stalled" -> StopTicks
    [] \/ motor.cur = "Opening" /\ state = "Closed"
       \/ motor.cur = "Closing" /\ state = "Open" -> noMove + 1
    [] motor.cur \notin Running -> 0
    [] OTHER -> noMove

\* OnDoorStateChanged: the belief of the motor that goes with the state of the door.
MotorAfter(state) ==
  CASE \/ motor.cur = "Opening" /\ state = "Open"
       \/ motor.cur = "Closing" /\ state = "Closed"
       \/ TicksWithoutMovement(state) >= StopTicks -> [motor EXCEPT !.cur = "Stopped"]
    [] motor.cur \notin Running /\ state = "MovingOrStopped" ->
         [cur |-> Opposite(motor.last), last |-> Opposite(motor.last)]
    [] OTHER -> motor

NoMoveAfter(state) ==
  IF TicksWithoutMovement(state) >= StopTicks THEN 0 ELSE TicksWithoutMovement(state)

\* A wrong NextMessage: an obstruction is never taken back.
NextMessageKeepsObstruction(state, m) ==
  [current |-> CASE state = "Open" -> "open"
                 [] state = "Closed" -> "closed"
                 [] state = "MovingOrStopped" /\ m.cur = "Opening" -> "opening"
                 [] state = "MovingOrStopped" /\ m.cur = "Closing" -> "closing"
                 [] OTHER -> None,
   target |-> CASE state = "Open" -> "open" [] state = "Closed" -> "close" [] OTHER -> None,
   obstruction |-> IF state = "Stalled" THEN "yes" ELSE None]

\* QueryNextMessage.
NextMessage(state, m) ==
  [current |-> CASE state = "Open" -> "open"
                 [] state = "Closed" -> "closed"
                 [] state = "MovingOrStopped" /\ m.cur = "Opening" -> "opening"
                 [] state = "MovingOrStopped" /\ m.cur = "Closing" -> "closing"
                 [] OTHER -> None,
   target |-> CASE state = "Open" -> "open" [] state = "Closed" -> "close" [] OTHER -> None,
   obstruction |-> IF state = "Stalled" THEN "yes" ELSE "no"]

\* SendNextNessageToHomeKit: what is there and differs from what was sent last.
Differs(msg) == {f \in DOMAIN msg : msg[f] # None /\ msg[f] # message[f]}

Merged(old, msg) == [f \in DOMAIN old |-> IF f \in Differs(msg) THEN msg[f] ELSE old[f]]

Time(n) == AtMost(n + 1, Total + 1)

\* The ticker of CControlUnit: half a second after the one before.
Tick(reading) ==
  \E q \in {QueryDoorState(reading)} :
    /\ calls' = (calls + 1) % 4
    /\ doorState' = q.state
    /\ delay' = q.delay
    /\ since' = Time(q.since)
    /\ \/ /\ ~q.known
          /\ UNCHANGED <<travel, motor, noMove, message, hk>>
       \/ /\ q.known
          /\ travel' = (travel \/ calls' = 0)
          /\ motor' = MotorAfter(q.state)
          /\ noMove' = NoMoveAfter(q.state)
          /\ \E msg \in {NextMessage(q.state, motor')} :
               /\ message' = Merged(message, msg)
               /\ hk' = Merged(hk, msg)
    /\ started' = Time(started)
    /\ UNCHANGED <<pos, drive, markers, commands, stepped, overridden>>

-----------------------------------------------------------------------------
(* What users do.                                                           *)

Command == commands < MaxCommands /\ commands' = commands + 1

\* A wrong TriggerTime: the marker time of the last trigger stays.
TimeKept == since

\* OnTriggered of the control unit: the marker time is now.
TriggerTime == 0

\* A new target state, from HomeKit or the web page.  The unit of the trigger pin presses the
\* button at once; then the control unit looks whether the door is there already.
SetTargetState(t, reading) ==
  LET q == QueryDoorState(reading)
      way == IF t = "open" THEN "Opening" ELSE "Closing"
      there == IF t = "open" THEN "Open" ELSE "Closed"
  IN  /\ Command
      /\ hk.target # t
      /\ hk' = [hk EXCEPT !.target = t]
      /\ doorState' = q.state
      /\ delay' = q.delay
      /\ IF q.known /\ q.state # there
         THEN /\ motor' = [cur |-> way, last |-> way]
              /\ since' = TriggerTime
              /\ drive' = Pressed(drive, pos)
              /\ started' = 0 /\ stepped' = FALSE
         ELSE /\ since' = q.since
              /\ drive' = IF Simulated THEN drive ELSE Pressed(drive, pos)
              /\ UNCHANGED <<motor, started, stepped>>
      /\ UNCHANGED <<pos, markers, noMove, calls, travel, message, overridden>>

\* PRESS_BUTTON of the web page: CHost::OnTriggered.  Only the simulated motor listens.
PressButton ==
  /\ Command
  /\ drive' = IF Simulated THEN Pressed(drive, pos) ELSE drive
  /\ since' = TriggerTime
  /\ UNCHANGED <<pos, markers, doorState, delay, noMove, calls, travel, motor, message, hk,
                 history>>

\* Somebody presses the button on the wall.
WallButton ==
  /\ Command
  /\ drive' = Pressed(drive, pos)
  /\ UNCHANGED <<pos, markers, belief, noMove, calls, travel, motor, message, hk, history>>

\* OBSTRUCTION_DETECTED of the web page: CHost::SetObstructionDetected.
SetObstruction(b) ==
  /\ Command
  /\ hk' = [hk EXCEPT !.obstruction = b]
  /\ motor' = IF motor.cur \in Running THEN [motor EXCEPT !.cur = "Stopped"] ELSE motor
  /\ overridden' = TRUE
  /\ UNCHANGED <<pos, drive, markers, belief, noMove, calls, travel, message, started, stepped>>

\* CURRENT_STATE of the web page.
SetCurrentState(c) ==
  /\ Command
  /\ hk' = [hk EXCEPT !.current = c]
  /\ overridden' = TRUE
  /\ UNCHANGED <<pos, drive, markers, belief, noMove, calls, travel, motor, message, started,
                 stepped>>

\* DOOR_STATE of the web page, which asks every second.
PollDoorState(reading) ==
  LET q == QueryDoorState(reading)
  IN  /\ doorState' = q.state
      /\ delay' = q.delay
      /\ since' = q.since
      /\ UNCHANGED <<pos, drive, markers, noMove, calls, travel, motor, message, hk, commands,
                     history>>

\* DOOR_POSITION_MARKERS:set-open and set-close with the range the recorder found.
SetMarkers(which, r) ==
  LET other == IF which = "open" THEN markers.closed ELSE markers.open
  IN  /\ Command
      /\ ~IsInvalid(r)
      /\ ~IntersectsWith(r, other)
      /\ markers' = [markers EXCEPT ![which] = r]
      /\ UNCHANGED <<pos, drive, belief, noMove, calls, travel, motor, message, hk, history>>

\* DOOR_POSITION_MARKERS:swap
SwapMarkers ==
  /\ Command
  /\ markers' = [open |-> markers.closed, closed |-> markers.open]
  /\ UNCHANGED <<pos, drive, belief, noMove, calls, travel, motor, message, hk, history>>

\* The clock gets the time of day from the network: the time since the last marker is years.
SyncDateTime ==
  /\ Command
  /\ since' = Total + 1
  /\ stepped' = TRUE
  /\ UNCHANGED <<pos, drive, markers, doorState, delay, noMove, calls, travel, motor, message,
                 hk, started, overridden>>

\* The sensor sees the door where it is, or nothing it trusts.
Readings == {0, pos}

Next ==
  \/ Move \/ PressButton \/ WallButton \/ SwapMarkers \/ SyncDateTime
  \/ \E reading \in Readings : Tick(reading) \/ PollDoorState(reading)
  \/ \E reading \in Readings, t \in Target : SetTargetState(t, reading)
  \/ \E b \in Obstruction : SetObstruction(b)
  \/ \E c \in Current : SetCurrentState(c)
  \/ \E which \in {"open", "closed"}, r \in Ranges : SetMarkers(which, r)

Spec == Init /\ [][Next]_vars

\* loop() drives the ticker for ever, and the sensor goes on to see the door.
FairSpec == Spec /\ WF_vars(Tick(pos)) /\ SF_vars(Tick(pos) /\ calls = 3)
-----------------------------------------------------------------------------

TypeOK ==
  /\ pos \in Pos
  /\ drive \in [cur : MotorState, last : Running \cup {None}]
  /\ markers \in [open : Ranges, closed : Ranges]
  /\ doorState \in DoorState /\ delay \in 0 .. Delay /\ since \in 0 .. Total + 1
  /\ noMove \in 0 .. StopTicks - 1 /\ calls \in 0 .. 3 /\ travel \in BOOLEAN
  /\ motor \in [cur : MotorState \cup {None}, last : Running \cup {None}]
  /\ message \in [current : Current \cup {None}, target : Target \cup {None},
                  obstruction : Obstruction \cup {None}]
  /\ hk \in [current : Current, target : Target, obstruction : Obstruction]
  /\ commands \in 0 .. MaxCommands
  /\ started \in 0 .. Total + 1 /\ stepped \in BOOLEAN /\ overridden \in BOOLEAN

\* Whatever ranges the user takes over or swaps, a position is never that of an open and of
\* a closed door at once, and there are positions of both kinds: the two ends can be told
\* apart.
MarkersOK ==
  /\ ~IsInvalid(markers.open) /\ ~IsInvalid(markers.closed)
  /\ \A p \in Pos : ~(Covers(markers.open, p) /\ Covers(markers.closed, p))

\* No obstruction is reported for a run that the accessory itself has started until the
\* door has had the time a run takes, unless the clock was set meanwhile.
RunIsGivenItsTime ==
  [][message.obstruction # "yes" /\ message'.obstruction = "yes"
       => started > Total \/ stepped]_vars

\* A motor that is believed to run comes to rest in that belief, at an end, at the wrong
\* end or half way, while the door is where the markers can tell its state.
MotorComesToRest ==
  (motor.cur \in Running) ~> (motor.cur = "Stopped" \/ doorState = "Failed")

\* HomeKit is not left with another state than the one the door stays in, nor with an
\* obstruction that is over, if no web page wrote over what it shows.
ReportCatchesUp ==
  []<>\/ overridden
      \/ /\ doorState = "Open" => hk.current = "open"
         /\ doorState = "Closed" => hk.current = "closed"
         /\ (hk.obstruction = "yes") <=> (doorState = "Stalled")
=============================================================================
