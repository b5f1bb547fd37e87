----------------------------- MODULE Documented -----------------------------
(***************************************************************************)
(* What the repository's documents and comments say of the control core,   *)
(* where the code does otherwise: each is checked by a run of its own that *)
(* TLC ends with a counterexample.                                         *)
(***************************************************************************)
EXTENDS MCGovernor

(* README.md:49, the bank "sheds immediately (open 1, dropping both) on     *)
(* E-stop or fault": an E-stopped machine carries no load.  FAULT's arm     *)
(* sheds again on every iteration; ESTOP's does not, and a load command     *)
(* acts in every state.                                                     *)
EstopUnloaded == state = "ESTOP" => load.level = 0

(* README_old.md:218, BOOT "proceeds to IDLE once a HelloAck arrives": the  *)
(* iteration that takes one from the queue leaves BOOT.  The generic pop at *)
(* the top of the loop takes it before BOOT looks for it in the queue.      *)
AckTaken == pc = "handle" /\ cur = "BOOT" /\ cmd.op = "HelloAck"
AckEndsBoot == [][AckTaken /\ pc' = "check" => state' # "BOOT"]_vars

(* RunConfig::hold_ms, "Hold duration in milliseconds (0 = hold             *)
(* indefinitely until Stop)": an open-loop run with a hold duration leaves  *)
(* SPOOLUP.  A profile is always loaded, the default one if no other, and   *)
(* the hold is timed only without a profile.                                *)
Holding == state = "SPOOLUP" /\ ramp = None /\ run_config.hold_ms > 0
HoldEnds == Holding ~> state # "SPOOLUP"
=============================================================================
