----------------------------- MODULE MCGovernor -----------------------------
(***************************************************************************)
(* Governor with small constants: a control period is 10 ms; full power,   *)
(* delays and ramps are a few steps of demand and time.                    *)
(***************************************************************************)
EXTENDS Governor

Op(op) == [op |-> op]
Configure(mode, up, hold, down, clamp) ==
  [op |-> "Configure",
   config |-> [mode |-> mode, ramp_up_ms |-> up, hold_ms |-> hold,
               ramp_down_ms |-> down, max_duty_clamp |-> clamp]]
LiveDuty(d)    == [op |-> "LiveDuty", duty |-> d]
LiveClamp(c)   == [op |-> "LiveClamp", clamp |-> c]
SetLoad(level) == [op |-> "SetLoad", level |-> level]
LoadProfile(ms, stops) ==
  [op |-> "LoadProfile", profile |-> [total_ms |-> ms, stops |-> stops]]

Operator == {Op("Start"), Op("Stop"), Op("ClearFaults"), Op("EmergencyStop")}

(* Manual control: a live duty past full power, a clamp lowered under way. *)
ManualCommands ==
  Operator \cup {Configure("Manual", 0, 0, 25, 2), LiveDuty(3), LiveClamp(1)}

(* A generator run: two ramps, two loads, a second Start to open the gate. *)
GenerateCommands ==
  (Operator \ {Op("EmergencyStop")})
    \cup {Configure("Generate", 5, 0, 15, 1), Op("StepLoadUp"), SetLoad(0)}

(* Profile runs and calibrations, through the boot handshake. *)
BenchCommands ==
  {Op("Start"), Op("Stop"), Op("HelloAck"), LoadProfile(10, TRUE),
   Configure("Calibrate", 0, 0, 0, 2), Configure("ClosedLoop", 0, 0, 20, 1)}

(* Commands to be obeyed, and a Hello that holds up those behind it. *)
Urgent == {Op("Start"), Op("Stop"), Op("EmergencyStop"), Op("Hello")}

(* A manual run with a load; generator runs and calibrations. *)
LiveCommands == Urgent \cup {Configure("Manual", 0, 0, 20, 1), Op("StepLoadUp")}
StopCommands ==
  Urgent \cup {Configure("Generate", 0, 0, 10, 1), Configure("Calibrate", 0, 0, 10, 1)}

(* The command that each documented behaviour is about, and what reaches it. *)
EstopCommands == {Op("EmergencyStop"), Op("StepLoadUp")}
HoldCommands  == {Configure("OpenLoop", 0, 20, 0, 2), Op("Start")}
AckCommands   == {Op("HelloAck")}
SlowCommands  == {Configure("Manual", 0, 0, 0, 2), Op("Start"), Op("ClearFaults")}

OnePoint  == <<1>>
TwoPoints == <<1, 2>>

(* Within the limits, over the overspeed limit, beyond what is plausible.   *)
(* A shaft that only ever rests is the one speed there is at the start.     *)
AllRpms  == {1500, 2900, -4100}
GoodRpms == {1500}
FastRpms == {0, 2900}
AtRest   == {0}

(* The build as shipped has no ADC: its window is always empty.  With one:  *)
(* loaded, over voltage, over current.                                      *)
Empty       == [v_dc |-> 0, i_dc |-> 0]
Loaded      == [v_dc |-> 100, i_dc |-> 5]
NoAdc       == {Empty}
OverVoltage == {Empty, Loaded, [v_dc |-> 301, i_dc |-> 5]}
OverCurrent == {Loaded, [v_dc |-> 100, i_dc |-> 21]}

NoStates == {}
SlowRuns == {"GENERATE"}
SlowManual == {"MANUAL"}
=============================================================================
