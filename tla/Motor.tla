-------------------------------- MODULE Motor --------------------------------
(***************************************************************************)
(* MotorController (stm32/src/guv/motor.rs): the shaft-drive motor behind  *)
(* the PrimeMover interface.  A demand is a fraction 0.0-1.0 of full       *)
(* power, counted here in FullDemand steps; a requested demand is any      *)
(* integer, the code clamps it.  `pwm` is the duty the timer is given; it  *)
(* is inverted: FullDemand is off, 0 is full power.                        *)
(***************************************************************************)
EXTENDS Integers

CONSTANT FullDemand
ASSUME FullDemandAssumption == FullDemand \in Nat \ {0}

Demand == 0 .. FullDemand

MotorState == [enabled : BOOLEAN, demand : Demand, clamp : Demand, pwm : Demand]

(* f32::clamp(0.0, hi) *)
ClampTo(x, hi) == IF x < 0 THEN 0 ELSE IF x > hi THEN hi ELSE x

(* The power the motor really receives, read back from the inverted duty. *)
Drive(m) == FullDemand - m.pwm

NewMotor == [enabled |-> FALSE, demand |-> 0, clamp |-> FullDemand,
             pwm |-> FullDemand]

(* Seeded bug: the safety clamp is left out. *)
SetDemandUnclamped(m, d) ==
  IF m.enabled THEN [m EXCEPT !.demand = d, !.pwm = FullDemand - d] ELSE m

(* set_demand with apply_demand: ignored while disabled. *)
SetDemand(m, d) ==
  LET clamped == ClampTo(d, m.clamp)
  IN  IF m.enabled
        THEN [m EXCEPT !.demand = clamped, !.pwm = FullDemand - clamped]
        ELSE m

Enable(m) == [m EXCEPT !.enabled = TRUE]

(* Seeded bug: the demand is reset, the timer keeps its duty. *)
EmergencyOffKeepsPwm(m) == [m EXCEPT !.demand = 0]

(* Off without touching `enabled`: a later set_demand drives again. *)
EmergencyOff(m) == [m EXCEPT !.demand = 0, !.pwm = FullDemand]

Disable(m) == EmergencyOff([m EXCEPT !.enabled = FALSE])

(* Seeded bug: a lower clamp waits for the next set_demand. *)
SetMaxDemandLater(m, c) == [m EXCEPT !.clamp = ClampTo(c, FullDemand)]

(* A lower clamp takes effect on the demand in force at once. *)
SetMaxDemand(m, c) ==
  LET limited == [m EXCEPT !.clamp = ClampTo(c, FullDemand)]
  IN  IF limited.demand > limited.clamp
        THEN SetDemand(limited, limited.clamp)
        ELSE limited
=============================================================================
