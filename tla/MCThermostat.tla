---------------------------- MODULE MCThermostat ----------------------------
(* The control unit first and the sensor next, as in the Sensor example;   *)
(* there the recorder comes last, here the unit that tells the device, so  *)
(* that its messages make the recorder's detour.  Tickers of one and two   *)
(* seconds, a room that is cold or warm, and a clock of four seconds.      *)
EXTENDS Thermostat

MCUnits == <<"control", "sensor", "recorder", "changed">>
MCInterval == [control |-> 1, sensor |-> 2, changed |-> 1]
MCDefault == [state |-> "OFF", target |-> 22, heat |-> 20, cool |-> 30]
MCSetting == [state |-> {"OFF", "HEAT", "COOL", "AUTO"}, target |-> {22},
              heat |-> {20, 24}, cool |-> {30, 21}]
=============================================================================
