------------------------------ MODULE Interlock ------------------------------
(***************************************************************************)
(* What the governor promises about power, whatever its states, ramps and  *)
(* commands do inside: the machine is stopped, running or tripped; power   *)
(* is on exactly while it runs; a trip can strike at any time and is left  *)
(* only for the stopped mode, so a run never resumes out of a trip.        *)
(***************************************************************************)
EXTENDS Integers

CONSTANT MaxDrive   \* a natural number

VARIABLES mode,    \* "Stopped", "Running" or "Tripped"
          closed,  \* the motor relay is closed
          drive    \* power given to the motor

ivars == <<mode, closed, drive>>

IInit == mode = "Stopped" /\ closed = FALSE /\ drive = 0

Begin ==
  /\ mode = "Stopped"
  /\ mode' = "Running" /\ closed' = TRUE /\ drive' = 0

Run ==
  /\ mode = "Running"
  /\ drive' \in 0 .. MaxDrive
  /\ UNCHANGED <<mode, closed>>

End ==
  /\ mode = "Running"
  /\ mode' = "Stopped" /\ closed' = FALSE /\ drive' = 0

Trip == mode' = "Tripped" /\ closed' = FALSE /\ drive' = 0

Reset ==
  /\ mode = "Tripped"
  /\ mode' = "Stopped" /\ UNCHANGED <<closed, drive>>

INext == Begin \/ Run \/ End \/ Trip \/ Reset

ISpec == IInit /\ [][INext]_ivars
=============================================================================
