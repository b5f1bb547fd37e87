---------------------------- MODULE MCRegulator ----------------------------
(* Regulator with three calibration points, controllers with and without a   *)
(* derivative, and profiles of every end with ramps, steps and a double point. *)
EXTENDS Regulator

P(time, speed, kind) == [t |-> time, rpm |-> speed, interp |-> kind]
Ramps == <<P(0, 0, "Linear"), P(7, 3, "Linear"), P(9, 3, "Linear")>>
Steps == <<P(1, 1, "Step"), P(4, 3, "Linear"), P(4, 0, "Linear"), P(6, 2, "Step")>>
Ending(pts, end) == [points |-> pts, end |-> end, total |-> pts[Len(pts)].t]
MCProfiles == {Ending(Ramps, "HoldLast"), Ending(Ramps, "Stop"), Ending(Steps, "Loop")}

MCPids == {[kp |-> 1, ki |-> 1, kd |-> 0, output_min |-> 0, output_max |-> 4],
           [kp |-> 1, ki |-> 0, kd |-> 1, output_min |-> -2, output_max |-> 3]}
MCConfigs == [mode : {"ClosedLoop", "Generate"}, profile : MCProfiles,
              target_rpm : {3}, pid : MCPids]
             \cup [mode : {"Calibrate"}, profile : {CHOOSE p \in MCProfiles : TRUE},
                   target_rpm : {3}, pid : {CHOOSE g \in MCPids : TRUE}]
MCGains == {[kp |-> 0, ki |-> 2, kd |-> 0, output_min |-> 0, output_max |-> 4]}
MCDuties == <<1, 2, 4>>
=============================================================================
