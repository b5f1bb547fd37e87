-------------------------------- MODULE Ramp --------------------------------
(***************************************************************************)
(* Ramp (stm32/src/guv/ramp.rs): linear interpolation from `start` to      *)
(* `end` over `duration` milliseconds.                                     *)
(***************************************************************************)
EXTENDS Integers

RampState == [start : Int, end : Int, duration : Nat \ {0}, elapsed : Nat,
              done : BOOLEAN]

NewRamp(from, to, ms) ==
  [start |-> from, end |-> to, duration |-> IF ms = 0 THEN 1 ELSE ms,
   elapsed |-> 0, done |-> FALSE]

(* Seeded bug: the elapsed time is not stored. *)
RampTickForgets(r, dt) ==
  IF r.done THEN r ELSE [r EXCEPT !.done = r.elapsed + dt >= r.duration]

(* Ramp::tick: a finished ramp does not advance. *)
RampTick(r, dt) ==
  IF r.done THEN r
  ELSE [r EXCEPT !.elapsed = @ + dt, !.done = r.elapsed + dt >= r.duration]

(* What tick returns for the ramp it has just advanced. *)
RampValue(r) ==
  IF r.done THEN r.end
  ELSE r.start + ((r.end - r.start) * r.elapsed) \div r.duration
=============================================================================
