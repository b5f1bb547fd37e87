----------------------------- MODULE Regulator -----------------------------
(* What state_manager regulates the speed with: a calibration's fit gives a  *)
(* feedforward duty, the profile a setpoint, the PID controller a trim, from *)
(* Start to the end of a run. Governor leaves this output open; here the     *)
(* commands, states and trips are reduced to what the output depends on.     *)
EXTENDS Profile, Pid, Fit

CONSTANTS
  Configs,       \* the runs: mode, profile, target_rpm and pid
  Gains,         \* live PidGains
  Targets,       \* live TargetRpm
  Speeds,        \* what the encoder may read
  CAL_POINTS,    \* duties of a calibration
  Means, Devs,   \* mean speeds and deviations at its points
  DT,            \* dt_ms
  RampTicks,     \* iterations that the ramp of a run takes
  MaxElapsed,    \* bound on the time of a run
  MaxIntegral    \* bound on the integral

\* A profile is always loaded. An output of 0 is in reach of every controller,
\* and an error moves the output.
Usable(g) == /\ g \in PidGains /\ g.output_min < g.output_max /\ 0 \in g.output_min .. g.output_max
             /\ g.kp + g.ki > 0

RunConfig == [mode : {"ClosedLoop", "Generate", "Calibrate"}, target_rpm : Nat,
              profile : {c.profile : c \in Configs}, pid : {c.pid : c \in Configs}]

ASSUME RegulatorAssumption ==
  /\ Configs \subseteq RunConfig
  /\ \A c \in Configs : IsProfile(c.profile) /\ Usable(c.pid)
  /\ \A g \in Gains : Usable(g)
  /\ Targets \subseteq Nat /\ Speeds \subseteq Int
  /\ CAL_POINTS \in Seq(Nat) /\ CAL_POINTS # <<>> /\ Means \subseteq Int /\ Devs \subseteq Nat
  /\ {DT, RampTicks, MaxElapsed, MaxIntegral, FULL} \subseteq Nat
  /\ RampTicks > 0 /\ Configs # {}
  /\ {MIN_SLOPE, MAX_SLOPE, R_SQUARED, POINT_CV} \subseteq Nat /\ MIN_SLOPE > 0

VARIABLES
  mode,             \* CONFIGURED, CALIBRATE, SPOOLUP, EXCITE (and PLL_LOCK) or
                    \* READY (and GENERATE, LOAD_REJECTION)
  config,           \* run_config and active_profile
  gains, pid,       \* the controller
  ramp, elapsed,    \* iterations left to the ramp, run_elapsed_ms
  target, error, trim, demand,  \* of the last iteration that regulated
  points,           \* what the calibrator has collected
  calibration,      \* the points of the last calibration that was completed
  swapped           \* the gains have been changed during the run

run == <<config, gains, pid, ramp, elapsed, swapped>>
output == <<target, error, trim, demand>>
fit == <<points, calibration>>
vars == <<mode, run, output, fit>>

Init ==
  /\ mode = "CONFIGURED"
  /\ config \in Configs /\ gains = config.pid
  /\ pid = NewPid /\ ramp = 0 /\ elapsed = 0 /\ swapped = FALSE
  /\ target = 0 /\ error = 0 /\ trim = 0 /\ demand = 0
  /\ points = <<>> /\ calibration = <<>>

\* The duty asked of the motor; its max_demand, and a live Duty that READY sets
\* after it, are Motor's and Governor's. Seeded bug: without the clamp.
DutyUnclamped(duty) == duty
Duty(duty) == Max({0, Min({FULL, duty})})

\* An iteration that regulates, with the gains g.
Regulate(setpoint, feedforward, g) ==
  \E measured \in Speeds :
    LET e == setpoint - measured IN
    /\ target' = setpoint /\ error' = e
    /\ trim' = Output(pid, g, e, measured)
    /\ pid' = Update(pid, g, e, measured)
    /\ pid'.integral \in -MaxIntegral .. MaxIntegral
    /\ demand' = Duty(feedforward + trim')

\* LiveAdjust: new gains leave the controller's state as it is; a new target
\* is for the iterations that follow.
Live == \/ UNCHANGED <<gains, swapped, config>>
        \/ gains' \in Gains /\ swapped' = TRUE /\ UNCHANGED config
        \/ config' \in {[config EXCEPT !.target_rpm = rpm] : rpm \in Targets}
           /\ UNCHANGED <<gains, swapped>>

-----------------------------------------------------------------------------
\* Start, with what has been configured and loaded; the gains are taken over
\* where they are used. Of a rejected calibration, which nothing uses, only
\* the rejection is kept from here on.
Start ==
  /\ mode = "CONFIGURED"
  /\ config' \in Configs
  /\ mode'  = IF config'.mode = "Calibrate" THEN "CALIBRATE" ELSE "SPOOLUP"
  /\ gains' = IF config'.mode = "Calibrate" THEN gains ELSE config'.pid
  /\ pid' = NewPid /\ ramp' = RampTicks /\ elapsed' = 0 /\ swapped' = FALSE
  /\ target' = 0 /\ error' = 0 /\ trim' = 0 /\ demand' = 0
  /\ points' = <<>>
  /\ calibration' = IF Valid(calibration) THEN calibration ELSE <<>>

\* SPOOLUP: the profile sets the speed from the first iteration on, ramp or no
\* ramp. The ramp's end takes a generator to EXCITE; a profile's end, which is
\* only looked for without a ramp, ends the run.
Spool ==
  /\ mode = "SPOOLUP" /\ elapsed + DT <= MaxElapsed
  /\ elapsed' = elapsed + DT
  /\ Live
  /\ LET setpoint == EvalProfile(config.profile, elapsed')
     IN Regulate(setpoint, Feedforward(calibration, setpoint), gains')
  /\ \/ ramp > 0 /\ ramp' = ramp - 1
        /\ mode' = IF ramp' = 0 /\ config.mode = "Generate" THEN "EXCITE" ELSE mode
     \/ ramp = 0 /\ UNCHANGED ramp
        /\ mode' = IF Finished(config.profile, elapsed') THEN "CONFIGURED" ELSE mode
  /\ UNCHANGED fit

\* EXCITE and PLL_LOCK leave the demand and the controller as they are; the
\* run's time, which they go on counting, is not looked at after them.
Locked == mode = "EXCITE" /\ mode' = "READY" /\ UNCHANGED <<run, output, fit>>

\* READY and what follows regulate to the target of the configuration, without
\* feedforward, and look at a live adjustment after that.
Ready ==
  /\ mode = "READY"
  /\ Regulate(config.target_rpm, 0, gains)
  /\ Live
  /\ UNCHANGED <<mode, ramp, elapsed, fit>>

\* A Stop, or a trip, some of which reset the controller.
Stop ==
  /\ mode # "CONFIGURED" /\ mode' = "CONFIGURED"
  /\ pid' \in {pid, NewPid}
  /\ points' = <<>>
  /\ UNCHANGED <<config, gains, ramp, elapsed, swapped, output, calibration>>

\* A point is taken; the last one completes the calibration, whose result
\* replaces the one before it, valid or not.
TakePoint ==
  /\ mode = "CALIBRATE"
  /\ \E mean \in Means, dev \in Devs :
       LET taken == Append(points, [duty |-> CAL_POINTS[Len(points) + 1],
                                    rpm_mean |-> mean, rpm_stddev |-> dev]) IN
       IF Len(taken) = Len(CAL_POINTS)
         THEN calibration' = taken /\ points' = <<>> /\ mode' = "CONFIGURED"
         ELSE points' = taken /\ UNCHANGED <<calibration, mode>>
  /\ UNCHANGED <<run, output>>

Next == Start \/ Spool \/ Locked \/ Ready \/ Stop \/ TakePoint

Spec == Init /\ [][Next]_vars

-----------------------------------------------------------------------------
(* Properties *)

\* Types; the demand is a duty whatever feedforward and trim add up to.
RegulatorTypeOK ==
  /\ mode \in {"CONFIGURED", "CALIBRATE", "SPOOLUP", "EXCITE", "READY"}
  /\ config \in RunConfig /\ gains \in {c.pid : c \in Configs} \cup Gains
  /\ pid \in PidState /\ swapped \in BOOLEAN
  /\ ramp \in 0..RampTicks /\ elapsed \in 0..MaxElapsed
  /\ {target, error, trim} \subseteq Int /\ demand \in 0..FULL
  /\ {points, calibration} \subseteq Seq(CalPoint)

\* However long the output has been at a limit, the first error of the other
\* sign takes it off: while a run keeps its gains, and without a derivative,
\* nothing is wound up in the integral.
NoWindup ==
  ~swapped /\ gains.kd = 0 =>
    /\ error < 0 => trim < gains.output_max
    /\ error > 0 => trim > gains.output_min

\* A profile of linear segments, which neither loops nor jumps at a double
\* point, moves the setpoint, from one iteration to the next, no faster than
\* its steepest segment does, and a run that a profile ends has been at its
\* last speed.
Gap(x, y) == Max({x - y, y - x})
Steepest(p) ==
  LET Slopes == {i \in 1..Len(p.points) - 1 : p.points[i].t < p.points[i + 1].t}
      Run(i) == p.points[i + 1].t - p.points[i].t
      Rise(i) == Gap(p.points[i].rpm, p.points[i + 1].rpm)
  IN Max({0} \cup {(DT * Rise(i) + Run(i) - 1) \div Run(i) : i \in Slopes})
Smooth(p) ==
  /\ p.end # "Loop" /\ \A i \in DOMAIN p.points : p.points[i].interp = "Linear"
  /\ \A i \in 1..Len(p.points) - 1 : \/ p.points[i].t < p.points[i + 1].t
                                     \/ p.points[i].rpm = p.points[i + 1].rpm
ProfileFollowed ==
  [][Spool => /\ Smooth(config.profile) /\ elapsed > 0 =>
                   Gap(target, target') <= Steepest(config.profile)
              /\ mode' = "CONFIGURED" =>
                   target' = config.profile.points[Len(config.profile.points)].rpm]_vars

\* No line with integer coefficients fits a completed calibration's points
\* better than the fit does.
Coefficients == -MAX_SLOPE .. MAX_SLOPE
LeastSquares ==
  [][TakePoint /\ calibration' # calibration =>
       \A slope \in Coefficients, intercept \in Coefficients :
         SsRes(calibration') <=
           Square(Divisor(calibration')) * Residuals(calibration', slope, intercept, 1)]_vars
=============================================================================
