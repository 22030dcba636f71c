----------------------------- MODULE Thermostat -----------------------------
(***************************************************************************)
(* A thermostat: its units (HomeKit_Thermostat.cpp), the chain of command  *)
(* between them (CHost), the characteristics of its service, and the       *)
(* tickers that drive it (CTickerSlots, called by CController::Loop).      *)
(* The last unit of a host is called first, and a call ends with the unit  *)
(* that says it has handled it.  Start is such a call, so that the tickers *)
(* of the last unit take the first slots.                                  *)
(* The sensor service is the same host with the same units, but for the    *)
(* thermostat's settings.                                                  *)
(***************************************************************************)
EXTENDS Integers, Sequences, SequencesExt

CONSTANTS
  Units,      \* the units of the host, in the order they were added
  Interval,   \* the intervals of the tickers of "sensor", "control" and "changed"
  Second,     \* 1000 ms, in units of the clock
  Wrap,       \* millis() counts modulo this
  MaxTickerSlots,
  MaxStep,    \* bound: the longest time between two calls of Loop
  Reading,    \* the temperatures that the sensor may deliver
  Setting,    \* for each setting, the values that HomeKit and the pages give it
  Default,    \* the values that the characteristics of the settings start with
  Nothing     \* std::nullopt

VARIABLES
  now,      \* millis()
  slots,    \* CController::Ticker: for each slot the unit, or Nothing, and mLastTick
  paired,   \* CHomeKit::IsPaired(): Loop calls the tickers
  room,     \* what mGetter would return: Nothing while the sensor fails
  char,     \* the characteristics "state" and "target" of the target, "heat" and "cool" of
            \* the thresholds, and "current", the state that is shown
  unit,     \* the fields of the units: sensor and info of CControlUnit with its mLastMessage,
            \* seen and known of COnChangedUnit, recorded of the recorder (its mLastInfo)
  device    \* the state that the callback of COnChangedUnit was given last

thermostat == <<now, slots, paired, room, char, unit, device>>

Field == {"state", "target", "heat", "cool"}
Temperature == Reading \cup {Nothing}
HCState == {"OFF", "HEAT", "COOL"}

ASSUME SlotsAssumption == MaxTickerSlots \in Nat

\* What HomeKit and a page set is a state or a number, never std::nullopt.
ASSUME SettingAssumption ==
  DOMAIN Setting = Field /\ \A f \in Field : Nothing \notin Setting[f]

\* CSensorInfo::Assign and CThermostatInfo::Assign: what is not given stays.
Assign(old, new) == IF new = Nothing THEN old ELSE new

-----------------------------------------------------------------------------
(* The chain of command (CHost::InvokeMethod).                             *)

Place(u) == CHOOSE i \in DOMAIN Units : Units[i] = u

\* A wrong Reached: the message ends at the unit that handles it.
ReachedInOrder(u) == Place(u) <= Place("control")

\* Only CControlUnit says of readings and settings that it has handled them: a unit that was
\* added before it never hears of them.
Reached(u) == Place(u) >= Place("control")

\* WriteSensorInfo.  The recorder sends the reading round once more (CSuperInvoke keeps it from
\* being asked again) and looks at it when it has been handled; the others then hear of it in
\* that round, those that were added after the recorder twice.
WriteSensor(m, t) ==
  [m EXCEPT !.sensor = Assign(@, t),
            !.seen = IF Reached("changed") THEN Assign(@, t) ELSE @,
            !.recorded = IF Reached("recorder") THEN Assign(@, t) ELSE @]

\* WriteThermostatInfo with one field set, as the methods On...Changed of CControlUnit call it.
WriteInfo(m, f, v) ==
  [m EXCEPT !.info[f] = Assign(@, v),
            !.known[f] = IF Reached("changed") THEN Assign(@, v) ELSE @]

-----------------------------------------------------------------------------
(* CControlUnit.                                                           *)

\* std::optional compares nothing as less than everything.
Less(t, x) == t = Nothing \/ (t # Nothing /\ t < x)
More(t, x) == t # Nothing /\ t > x

\* TargetState_OrDefault and TargetTemperature_OrDefault.
OrDefault(m, f) == IF m.info[f] = Nothing THEN Default[f] ELSE m.info[f]

\* QueryNextMessage: cooling has the last word when both thresholds call.
Message(m) ==
  LET state == OrDefault(m, "state")
      target == OrDefault(m, "target")
      Given(f) == m.info[f] # Nothing
      heats == \/ state = "HEAT" /\ Less(m.sensor, target)
               \/ state = "AUTO" /\ Given("heat") /\ Less(m.sensor, m.info["heat"])
      cools == \/ state = "COOL" /\ More(m.sensor, target)
               \/ state = "AUTO" /\ Given("cool") /\ More(m.sensor, m.info["cool"])
  IN  IF state = "OFF" THEN "OFF" ELSE IF cools THEN "COOL" ELSE IF heats THEN "HEAT" ELSE Nothing

\* SendNextNessageToHomeKit: no message is one to switch off ...
Sent(m) == IF Message(m) = Nothing THEN "OFF" ELSE Message(m)

\* A wrong Controlled: a state that says nothing changes nothing.
ControlledIfGiven(s) ==
  IF Message(s.unit) \in {Nothing, s.unit.last} THEN s
  ELSE [s EXCEPT !.char.current = Message(s.unit), !.unit.last = Message(s.unit)]

\* ... and one is sent only if it differs from the last.
Controlled(s) ==
  LET next == Sent(s.unit)
  IN  IF next = s.unit.last THEN s
      ELSE [s EXCEPT !.char.current = next, !.unit.last = next]

-----------------------------------------------------------------------------
(* The tickers.  s is [unit, char, device, slots].                         *)

Elapsed(ms, last) == (ms - last) % Wrap

\* The callbacks that the units have started.
OnTimer(s, u) ==
  CASE u = "sensor" -> [s EXCEPT !.unit = WriteSensor(@, room)]
    [] u = "control" -> Controlled(s)
    [] OTHER -> \* "changed"
         [s EXCEPT !.device = s.char.current]

\* CTicker::OnTick in CTickerSlots::OnTick: the time of a call is that of the pass.
OnTick(s, i, ms) ==
  IF s.slots[i].unit = Nothing THEN s
  ELSE IF Elapsed(ms, s.slots[i].last) < Interval[s.slots[i].unit] THEN s
  ELSE OnTimer([s EXCEPT !.slots[i].last = ms], s.slots[i].unit)

Pass(s, ms) ==
  LET After[i \in 0 .. MaxTickerSlots] ==
        IF i = 0 THEN s ELSE OnTick(After[i - 1], i, ms)
  IN  After[MaxTickerSlots]

\* CTickerSlots::Start, called by Start of the units in the order of the chain: each takes the
\* first free slot, and none if there is none.
Ticking == SelectSeq(Reverse(Units), LAMBDA u : u \in DOMAIN Interval)
Started(i) == [unit |-> IF i <= Len(Ticking) THEN Ticking[i] ELSE Nothing, last |-> 0]

-----------------------------------------------------------------------------

Nobody == [f \in Field |-> Nothing]
Fresh == [sensor |-> Nothing, info |-> Nobody, last |-> Nothing,
          seen |-> Nothing, known |-> Nobody, recorded |-> Nothing]

\* CThermostatService::Setup; a sensor that is read seldom is read at once.
ThermostatInit ==
  /\ now = 0
  /\ slots = [i \in 1 .. MaxTickerSlots |-> Started(i)]
  /\ paired \in BOOLEAN
  /\ room \in Temperature
  /\ char = [f \in Field \cup {"current"} |-> IF f = "current" THEN "OFF" ELSE Default[f]]
  /\ unit = IF Interval["sensor"] > Second THEN WriteSensor(Fresh, room) ELSE Fresh
  /\ device = "OFF"

\* CHomeKit::Loop after a time of d.
Loop(d) ==
  \E ms \in {(now + d) % Wrap} :
  \E before \in {[unit |-> unit, char |-> char, device |-> device, slots |-> slots]} :
  \E after \in {IF paired THEN Pass(before, ms) ELSE before} :
    /\ now' = ms
    /\ unit' = after.unit /\ char' = after.char /\ device' = after.device /\ slots' = after.slots
    /\ UNCHANGED <<paired, room>>

\* A wrong Set: the unit is not told.
SetAnyway(f, v) ==
  /\ char' = [char EXCEPT ![f] = v]
  /\ UNCHANGED <<now, slots, paired, room, unit, device>>

\* A setter of the service, run by a PUT or by a page: the unit hears of changes only.
Set(f, v) ==
  /\ char[f] # v
  /\ char' = [char EXCEPT ![f] = v]
  /\ unit' = WriteInfo(unit, f, v)
  /\ UNCHANGED <<now, slots, paired, room, device>>

\* {CURRENT_STATE:...} of a page overrides what is shown.
Override(v) ==
  /\ char' = [char EXCEPT !.current = v]
  /\ UNCHANGED <<now, slots, paired, room, unit, device>>

RoomChanges ==
  /\ room' \in Temperature \ {room}
  /\ UNCHANGED <<now, slots, paired, char, unit, device>>

\* The first administrator is stored, or the pairings are reset.
PairingChanges == paired' = ~paired /\ UNCHANGED <<now, slots, room, char, unit, device>>

ThermostatNext ==
  \/ \E d \in 1 .. MaxStep : Loop(d)
  \/ \E f \in Field : \E v \in Setting[f] : Set(f, v)
  \/ \E v \in HCState : Override(v)
  \/ RoomChanges \/ PairingChanges

ThermostatSpec == ThermostatInit /\ [][ThermostatNext]_thermostat

\* The loop goes on: it is the loop, and nothing else, that finds millis() advanced.
FairThermostatSpec == ThermostatSpec /\ []<><<now' # now>>_thermostat

-----------------------------------------------------------------------------

\* Whatever passes through the host reaches every unit that keeps a copy: the control unit, the
\* unit that tells the device and the recorder have the same reading and the same settings
\* (each Handled, and the detour of the recorder, could keep one of them from it).
CopiesAgree ==
  /\ unit.seen = unit.sensor /\ unit.recorded = unit.sensor
  /\ unit.known = unit.info

\* The control unit works with the settings that HomeKit shows.  Of a threshold it knows nothing
\* until it is first given another value than the default that is shown.
SettingsReachUnit ==
  /\ \A f \in {"state", "target"} : OrDefault(unit, f) = char[f]
  /\ \A f \in {"heat", "cool"} :
       IF unit.info[f] = Nothing THEN char[f] = Default[f] ELSE unit.info[f] = char[f]

Overridden == unit.last # Nothing /\ char.current # unit.last

\* A step of the room, of HomeKit or of a page.
Disturbance == now' = now

\* What the device should do about the room as it is: the reading of the room, or the last one
\* if the sensor has failed since.
Right == Sent([unit EXCEPT !.sensor = Assign(@, room)])

\* If nothing is disturbed any more, the device of a paired accessory comes to do what settings
\* and room call for, through three tickers and two copies of the state, wherever the clock
\* wraps; unless somebody has overridden the state by hand.
DeviceFollowsRoom ==
  []<><<Disturbance>>_thermostat \/ []<>(~paired \/ Overridden \/ device = Right)
=============================================================================
