------------------------------- MODULE States -------------------------------
(***************************************************************************)
(* The governor's states and fault causes (shared/src/models/state).       *)
(* The names are the source's own, as strings.                             *)
(***************************************************************************)

State == {"BOOT", "CALIBRATE", "IDLE", "CONFIGURED", "SPOOLUP", "EXCITE",
          "PLL_LOCK", "READY", "GENERATE", "LOAD_REJECTION", "RAMP_DOWN",
          "MANUAL", "FAULT", "ESTOP"}

(* STATE::is_running: "the motor/generator is energized". *)
Running == {"SPOOLUP", "EXCITE", "PLL_LOCK", "READY", "GENERATE",
            "LOAD_REJECTION", "CALIBRATE", "MANUAL", "RAMP_DOWN"}

(* The pattern FAULT | ESTOP that the supervisor's trips test.             *)
Tripped == {"FAULT", "ESTOP"}

(* The members of `Fault` that some line of the firmware assigns.          *)
Fault == {"SensorOutOfRange", "Overspeed", "LoadRejection", "OverVoltage",
          "OverCurrent", "EmergencyStop", "DeadlineMiss"}

RunMode == {"OpenLoop", "ClosedLoop", "Calibrate", "Manual", "Generate"}
=============================================================================
