-------------------------------- MODULE Pid --------------------------------
(* PidController (pid.rs), in integers: the time of an update is the unit,   *)
(* dt being always the same, and gains and output are in steps of the duty.  *)
(* prev_output, which nothing reads, is left out.                            *)
EXTENDS Integers

\* f32::clamp wants its bounds in order.
PidGains == {g \in [kp : Nat, ki : Nat, kd : Nat, output_min : Int, output_max : Int] :
               g.output_min <= g.output_max}

PidState == [integral : Int, prev : Int]

NewPid == [integral |-> 0, prev |-> 0]

\* The output before it is clamped; the derivative is that of the measurement.
RawOutput(pid, g, error, measured) ==
  g.kp * error + g.ki * (pid.integral + error) - g.kd * (measured - pid.prev)

ClampOutput(g, x) == IF x < g.output_min THEN g.output_min
                     ELSE IF x > g.output_max THEN g.output_max ELSE x

Output(pid, g, error, measured) == ClampOutput(g, RawOutput(pid, g, error, measured))

\* Seeded bug: the integral is never held back.
IntegralUnheld(pid, g, error, measured) == pid.integral + error

\* What the error has added is taken back where it drives the output further
\* into a limit.
Integral(pid, g, error, measured) ==
  LET out == Output(pid, g, error, measured) IN
  IF \/ out = g.output_max /\ error > 0
     \/ out = g.output_min /\ error < 0
    THEN pid.integral ELSE pid.integral + error

Update(pid, g, error, measured) ==
  [integral |-> Integral(pid, g, error, measured), prev |-> measured]
=============================================================================
