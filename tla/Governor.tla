------------------------------ MODULE Governor ------------------------------
(***************************************************************************)
(* The STM32 firmware's control core (stm32/src/main.rs): the cooperative  *)
(* state_manager, the 500 Hz safety_supervisor, the telemetry task and the *)
(* UART4 interrupt, over the state they share.                             *)
(*                                                                         *)
(* A state_manager iteration is three steps, at `pc`:                      *)
(*   await   waiting on Mono::delay; Fetch reads the state and pops a      *)
(*           command into the loop locals `cur` and `cmd`;                 *)
(*   handle  the match on the command and on `cur`;                        *)
(*   check   the deadline check that closes the iteration.                 *)
(* The other tasks may run between the steps as their priorities allow.    *)
(***************************************************************************)
EXTENDS States, Motor, LoadBank, Ramp, Calibrator, Wcet, Drain, Integers, Sequences

CONSTANTS
  None,               \* the absent value of every Option
  Commands,           \* the commands the link may deliver
  QueueCap,           \* capacity of cmd_in: heapless::Deque<_, 8>
  BootRetries,        \* Hellos BOOT sends before it proceeds anyway (100)
  DtMs,               \* the control period, dt_ms
  ExciteMs, PllMs,    \* the placeholder delays past the ramp (3000, 5000)
  MaxElapsed,         \* bound: run_elapsed_ms is counted up to here
  Rpms,               \* shaft speeds the encoder may report
  BusReadings,        \* DC-bus windows finalize_protection may return
  SlowStates,         \* states whose iterations may exceed the cycle budget
  SupervisorPreempts  \* may the supervisor run inside an iteration?

(***************************************************************************)
(* Commands.  One op stands for each variant the firmware tells apart:     *)
(* "Ping" for every command no state acts on (Ping, Set, SetAlignPhase),   *)
(* "LiveTarget" for the live parameters that only feed the PID output.     *)
(***************************************************************************)
RunConfig == [mode : RunMode, ramp_up_ms : Nat, hold_ms : Nat,
              ramp_down_ms : Nat, max_duty_clamp : Int]

(* A setpoint profile: when it ends, and whether it then stops the run.    *)
(* Its rpm curve feeds the PID output, which is abstracted.                *)
Profile == [total_ms : Nat, stops : BOOLEAN]

Command ==
  [op : {"Ping", "Start", "Stop", "EmergencyStop", "ClearFaults", "Hello",
         "HelloAck", "StepLoadUp", "StepLoadDown", "LiveTarget"}]
  \cup [op : {"Configure"}, config : RunConfig]
  \cup [op : {"LoadProfile"}, profile : Profile]
  \cup [op : {"SetLoad"}, level : LoadLevel]
  \cup [op : {"LiveDuty"}, duty : Int]
  \cup [op : {"LiveClamp"}, clamp : Int]

NoCommand == [op |-> "none"]

(* Safety limits, in rpm, volts and amperes. *)
OVERSPEED_LIMIT_DEFAULT == 2800
RPM_PLAUSIBLE_MAX       == 4000
LOAD_REJECT_DROP_A      == 2
LOAD_REJECT_MIN_A       == 1
DC_OVERVOLT_LIMIT       == 300
DC_OVERCURRENT_LIMIT    == 20

BusReading == [v_dc : Int, i_dc : Int]

ASSUME NoneAssumption ==
  /\ None \notin RunConfig /\ None \notin Profile /\ None \notin RampState
  /\ None \notin CalState /\ None \notin Fault
ASSUME CommandsAssumption == Commands \subseteq Command
ASSUME TimingAssumption ==
  /\ DtMs \in Nat \ {0} /\ ExciteMs \in Nat /\ PllMs \in Nat
  /\ MaxElapsed \in Nat /\ ExciteMs <= PllMs
  /\ \A c \in Commands : c.op = "Configure" =>
       c.config.ramp_up_ms + PllMs < MaxElapsed
ASSUME BoundsAssumption == QueueCap \in Nat \ {0} /\ BootRetries \in Nat
ASSUME SensorAssumption == Rpms \subseteq Int /\ BusReadings \subseteq BusReading
ASSUME SchedulingAssumption == SupervisorPreempts \in BOOLEAN

DEFAULT_PROFILE == [total_ms |-> 30000, stops |-> FALSE]

DefaultConfig == [mode |-> "OpenLoop", ramp_up_ms |-> 5000, hold_ms |-> 0,
                  ramp_down_ms |-> 5000, max_duty_clamp |-> FullDemand]

VARIABLES
  (* shared resources *)
  state, last_fault, motor, relay, load, run_config, active_profile,
  cmd_in, current_rpm, pending_report, wcet,
  (* locals of state_manager that outlive an iteration *)
  ramp, run_elapsed, calibrator, boot_hello_attempts, safety_init_done,
  (* where the current iteration of state_manager is *)
  pc, cur, cmd,
  (* the supervisor: the last DC-bus current, whether its last pass saw an  *)
  (* E-stop or a bad speed, and whether it ran since the last Fetch         *)
  last_i, hazard_seen, sup_ran

power   == <<motor, relay, load>>
options == <<run_config, active_profile, pending_report>>
locals  == <<ramp, run_elapsed, calibrator, boot_hello_attempts,
             safety_init_done>>
loop    == <<pc, cur, cmd>>
sensors == <<current_rpm, last_i, hazard_seen>>
vars    == <<state, last_fault, power, options, cmd_in, wcet, locals, loop,
             sensors, sup_ran>>

Queue == {q \in Seq(Commands) : Len(q) <= QueueCap}

TypeOK ==
  /\ state \in State
  /\ last_fault \in Fault \cup {None}
  /\ motor \in MotorState
  /\ relay \in BOOLEAN
  /\ load \in LoadState
  /\ run_config \in RunConfig \cup {None}
  /\ active_profile \in Profile
  /\ cmd_in \in Queue
  /\ current_rpm \in Int
  /\ pending_report \in BOOLEAN
  /\ wcet \in Streaks
  /\ ramp \in RampState \cup {None}
  /\ run_elapsed \in 0 .. MaxElapsed
  /\ calibrator \in CalState \cup {None}
  /\ boot_hello_attempts \in 0 .. BootRetries
  /\ safety_init_done \in BOOLEAN
  /\ pc \in {"await", "handle", "check"}
  /\ cur \in State
  /\ cmd \in Commands \cup {NoCommand}
  /\ last_i \in Int
  /\ hazard_seen \in BOOLEAN
  /\ sup_ran \in BOOLEAN

-----------------------------------------------------------------------------
(* init, and state_manager already inside its first iteration: no timer     *)
(* has to expire for it, the supervisor's first pass comes 2 ms later.      *)
Init ==
  /\ state = "BOOT" /\ last_fault = None
  /\ motor = NewMotor /\ relay = FALSE /\ load = NewLoadBank
  /\ run_config = None /\ active_profile = DEFAULT_PROFILE
  /\ pending_report = FALSE
  /\ cmd_in = << >> /\ wcet = NewStreaks
  /\ ramp = None /\ run_elapsed = 0 /\ calibrator = None
  /\ boot_hello_attempts = 0 /\ safety_init_done = FALSE
  /\ pc = "handle" /\ cur = "BOOT" /\ cmd = NoCommand
  /\ current_rpm = 0 /\ last_i = 0 /\ hazard_seen = FALSE /\ sup_ran = FALSE

-----------------------------------------------------------------------------
(* The UART4 interrupt: armed by BOOT, may strike between any two steps;    *)
(* a command that finds the queue full is dropped.                          *)

(* Seeded bug: a full queue gives up what it holds, not what arrives.       *)
UartRxOverwrites(c) ==
  /\ safety_init_done
  /\ cmd_in' = Append(IF Len(cmd_in) < QueueCap THEN cmd_in ELSE Tail(cmd_in), c)
  /\ UNCHANGED <<state, last_fault, power, options, wcet, locals, loop,
                 sensors, sup_ran>>

UartRx(c) ==
  /\ safety_init_done
  /\ cmd_in' = IF Len(cmd_in) < QueueCap THEN Append(cmd_in, c) ELSE cmd_in
  /\ UNCHANGED <<state, last_fault, power, options, wcet, locals, loop,
                 sensors, sup_ran>>

-----------------------------------------------------------------------------
(* The safety supervisor: one pass every 2 ms.  It is of higher priority    *)
(* than the tasks it guards, so a pass is one step.                         *)

SupervisorReady == pc = "await" \/ SupervisorPreempts

SupervisorFrame ==
  /\ sup_ran' = TRUE
  /\ UNCHANGED <<options, cmd_in, current_rpm, wcet, locals, loop>>

(* The rpm limits; encoder readings are integers here, so always finite. *)
RpmFault(rpm) ==
  CASE rpm > RPM_PLAUSIBLE_MAX \/ -rpm > RPM_PLAUSIBLE_MAX -> "SensorOutOfRange"
    [] rpm > OVERSPEED_LIMIT_DEFAULT /\ rpm <= RPM_PLAUSIBLE_MAX -> "Overspeed"
    [] OTHER -> None

LoadRejected(bus) ==
  last_i > LOAD_REJECT_MIN_A /\ last_i - bus.i_dc > LOAD_REJECT_DROP_A

BusTrip(bus) ==
  bus.v_dc > DC_OVERVOLT_LIMIT \/ bus.i_dc > DC_OVERCURRENT_LIMIT

(* Seeded bug: the relay stays closed. *)
CutMotorOnly == motor' = EmergencyOff(motor) /\ UNCHANGED relay

CutPower ==
  /\ motor' = EmergencyOff(motor)
  /\ relay' = FALSE

(* Seeded bugs: a trip that records no cause, and one that does not latch. *)
TripSilently(fault) == state' = "FAULT" /\ UNCHANGED last_fault
TripUnlatched(fault) == UNCHANGED <<state, last_fault>>

TripTo(fault) ==
  /\ state' = "FAULT"
  /\ last_fault' = fault

BusFault(bus) ==
  CASE LoadRejected(bus) -> "LoadRejection"
    [] ~LoadRejected(bus) /\ bus.v_dc > DC_OVERVOLT_LIMIT -> "OverVoltage"
    [] OTHER -> "OverCurrent"

(* Pin PE6 high: pressed, or the wire is broken. *)
EstopTick ==
  /\ SupervisorReady
  /\ CutPower
  /\ load' = EmergencyShed(load)
  /\ state' = "ESTOP"
  /\ last_fault' = IF state = "ESTOP" THEN last_fault ELSE "EmergencyStop"
  /\ hazard_seen' = TRUE
  /\ UNCHANGED last_i
  /\ SupervisorFrame

(* Seeded bug: a bad speed trips a machine that has tripped already. *)
RpmTripAgain(bus) ==
  /\ SupervisorReady
  /\ RpmFault(current_rpm) # None
  /\ CutPower
  /\ TripTo(RpmFault(current_rpm))
  /\ hazard_seen' = TRUE
  /\ last_i' = bus.i_dc
  /\ UNCHANGED load
  /\ SupervisorFrame

(* A bad speed cuts the power on every pass, and trips on the first. *)
RpmTripTick(bus) ==
  /\ SupervisorReady
  /\ RpmFault(current_rpm) # None
  /\ CutPower
  /\ IF state \in Tripped
       THEN UNCHANGED <<state, last_fault>>
       ELSE TripTo(RpmFault(current_rpm))
  /\ hazard_seen' = TRUE
  /\ last_i' = bus.i_dc
  /\ UNCHANGED load
  /\ SupervisorFrame

BusTripTick(bus) ==
  /\ SupervisorReady
  /\ RpmFault(current_rpm) = None
  /\ state \notin Tripped
  /\ LoadRejected(bus) \/ BusTrip(bus)
  /\ CutPower
  /\ load' = EmergencyShed(load)
  /\ TripTo(BusFault(bus))
  /\ hazard_seen' = FALSE
  /\ last_i' = bus.i_dc
  /\ SupervisorFrame

QuietTick(bus) ==
  /\ SupervisorReady
  /\ RpmFault(current_rpm) = None
  /\ state \in Tripped \/ ~(LoadRejected(bus) \/ BusTrip(bus))
  /\ hazard_seen' = FALSE
  /\ last_i' = bus.i_dc
  /\ UNCHANGED <<state, last_fault, power>>
  /\ SupervisorFrame

SupervisorTick ==
  \/ EstopTick
  \/ \E bus \in BusReadings :
       RpmTripTick(bus) \/ BusTripTick(bus) \/ QuietTick(bus)

-----------------------------------------------------------------------------
(* telemetry_task, cooperative with state_manager: it publishes the shaft   *)
(* speed and takes the pending calibration report, which it drops in BOOT.  *)

TelemetryTick(rpm) ==
  /\ pc = "await"
  /\ current_rpm' = rpm
  /\ pending_report' = FALSE
  /\ UNCHANGED <<state, last_fault, power, run_config, active_profile, cmd_in,
                 wcet, locals, loop, last_i, hazard_seen, sup_ran>>

-----------------------------------------------------------------------------
(* state_manager: the start of an iteration and the commands that end it    *)
(* before the state machine is reached.                                     *)

(* The state is read and one command popped.  The timer queue wakes the     *)
(* supervisor, every 2 ms, at least once between two of these (10 ms).      *)
Fetch ==
  /\ pc = "await"
  /\ sup_ran
  /\ pc' = "handle"
  /\ cur' = state
  /\ cmd' = IF cmd_in = << >> THEN NoCommand ELSE Head(cmd_in)
  /\ cmd_in' = IF cmd_in = << >> THEN cmd_in ELSE Tail(cmd_in)
  /\ sup_ran' = FALSE
  /\ UNCHANGED <<state, last_fault, power, options, wcet, locals, sensors>>

(* The Mono::delay that ends an iteration: the command is consumed. *)
EndIteration ==
  /\ pc' = "await"
  /\ cmd' = NoCommand
  /\ UNCHANGED <<cur, sensors, sup_ran>>

ToCheck ==
  /\ pc' = "check"
  /\ UNCHANGED <<cur, cmd, wcet, sensors, sup_ran>>

OnEmergencyStop ==
  /\ pc = "handle"
  /\ cmd.op = "EmergencyStop"
  /\ CutPower
  /\ load' = EmergencyShed(load)
  /\ state' = "ESTOP"
  /\ ramp' = None
  /\ run_elapsed' = 0
  /\ EndIteration
  /\ UNCHANGED <<last_fault, options, cmd_in, wcet, calibrator,
                 boot_hello_attempts, safety_init_done>>

(* Answered with a HelloAck; the rest of the iteration is skipped. *)
OnHello ==
  /\ pc = "handle"
  /\ cmd.op = "Hello"
  /\ EndIteration
  /\ UNCHANGED <<state, last_fault, power, options, cmd_in, wcet, locals>>

(* The state machine's arm for state s is reached. *)
Arm(s) ==
  /\ pc = "handle"
  /\ cur = s
  /\ cmd.op \notin {"EmergencyStop", "Hello"}

(* StepLoadUp, StepLoadDown and SetLoad act in every state, on the way to   *)
(* its arm.                                                                 *)
LoadCommanded ==
  CASE cmd.op = "StepLoadUp"   -> StepUp(load)
    [] cmd.op = "StepLoadDown" -> StepDown(load)
    [] cmd.op = "SetLoad"      -> SetLevel(load, cmd.level)
    [] OTHER                   -> load

-----------------------------------------------------------------------------
(* BOOT, IDLE and CONFIGURED. *)

Acks == {c \in Commands : c.op = "HelloAck"}

(* Seeded bug: the attempts are not counted. *)
AttemptUncounted == boot_hello_attempts

Attempt == boot_hello_attempts + 1

(* Until an ack is drained from the queue, or the retries run out; the ack  *)
(* this iteration popped is not looked at.                                  *)
Boot ==
  LET acked   == \E i \in 1 .. Len(cmd_in) : cmd_in[i] \in Acks
      gave_up == boot_hello_attempts >= BootRetries
  IN  /\ Arm("BOOT")
      /\ IF safety_init_done THEN UNCHANGED <<motor, relay>> ELSE CutPower
      /\ safety_init_done' = TRUE
      /\ cmd_in' = Kept(cmd_in, Acks)
      /\ state' = IF acked \/ gave_up THEN "IDLE" ELSE state
      /\ boot_hello_attempts' =
           IF acked \/ gave_up THEN 0 ELSE Attempt
      /\ load' = LoadCommanded
      /\ ToCheck
      /\ UNCHANGED <<last_fault, options, ramp, run_elapsed, calibrator>>

(* LoadProfile is accepted in IDLE and in CONFIGURED. *)
ProfileCommanded ==
  IF cmd.op = "LoadProfile" THEN cmd.profile ELSE active_profile

Idle ==
  /\ Arm("IDLE")
  /\ IF cmd.op = "Configure"
       THEN /\ motor' = SetMaxDemand(Disable(motor), cmd.config.max_duty_clamp)
            /\ run_config' = cmd.config
            /\ state' = "CONFIGURED"
       ELSE motor' = Disable(motor) /\ UNCHANGED <<run_config, state>>
  /\ last_fault' =
       IF cmd.op \in {"Configure", "ClearFaults"} THEN None ELSE last_fault
  /\ active_profile' = ProfileCommanded
  /\ load' = LoadCommanded
  /\ ToCheck
  /\ UNCHANGED <<relay, pending_report, cmd_in, locals>>

(* run_config.unwrap_or_default() *)
Config == IF run_config = None THEN DefaultConfig ELSE run_config

StartState ==
  CASE Config.mode = "Calibrate" -> "CALIBRATE"
    [] Config.mode = "Manual"    -> "MANUAL"
    [] OTHER                     -> "SPOOLUP"

Start ==
  /\ Arm("CONFIGURED")
  /\ cmd.op = "Start"
  /\ relay' = TRUE
  /\ motor' = Enable(motor)
  /\ run_elapsed' = 0
  /\ calibrator' = IF Config.mode = "Calibrate" THEN NewCalibrator ELSE calibrator
  /\ ramp' = IF Config.mode = "Manual" THEN None
             ELSE NewRamp(0, FullDemand, Config.ramp_up_ms)
  /\ state' = StartState
  /\ ToCheck
  /\ UNCHANGED <<last_fault, load, options, cmd_in, boot_hello_attempts,
                 safety_init_done>>

Configured ==
  /\ Arm("CONFIGURED")
  /\ cmd.op # "Start"
  /\ motor' = IF cmd.op = "Configure"
                THEN SetMaxDemand(motor, cmd.config.max_duty_clamp) ELSE motor
  /\ run_config' = CASE cmd.op = "Configure" -> cmd.config
                     [] cmd.op = "Stop"      -> None
                     [] OTHER                -> run_config
  /\ state' = IF cmd.op = "Stop" THEN "IDLE" ELSE state
  /\ active_profile' = ProfileCommanded
  /\ load' = LoadCommanded
  /\ ToCheck
  /\ UNCHANGED <<last_fault, relay, pending_report, cmd_in, locals>>

-----------------------------------------------------------------------------
(* The running states. *)

(* run_elapsed_ms += dt_ms, counted up to MaxElapsed. *)
Elapsed ==
  IF run_elapsed + DtMs > MaxElapsed THEN MaxElapsed ELSE run_elapsed + DtMs

(* Seeded bugs: a ramp down from full power, and a stop without a ramp. *)
RampDownFromFull(m) == NewRamp(FullDemand, 0, Config.ramp_down_ms)
RampDownLost(m) == None

RampDownFrom(m) == NewRamp(m.demand, 0, Config.ramp_down_ms)

(* Stop in a running state: ramp down from the demand in force, and skip    *)
(* the rest of the iteration, the deadline check included.                  *)
StopRun ==
  /\ pc = "handle"
  /\ cur \in Running \ {"MANUAL", "RAMP_DOWN"}
  /\ cmd.op = "Stop"
  /\ ramp' = RampDownFrom(motor)
  /\ run_elapsed' = IF cur = "SPOOLUP" THEN Elapsed ELSE run_elapsed
  /\ calibrator' = IF cur = "CALIBRATE" THEN None ELSE calibrator
  /\ state' = "RAMP_DOWN"
  /\ EndIteration
  /\ UNCHANGED <<last_fault, power, options, cmd_in, wcet,
                 boot_hello_attempts, safety_init_done>>

(* Seeded bug: the relay is left closed behind a run that is over. *)
PowerDownMotorOnly(done, m) ==
  /\ motor' = IF done THEN Disable(m) ELSE m
  /\ UNCHANGED relay

(* How CALIBRATE and RAMP_DOWN end a run: motor disabled, relay open.       *)
PowerDownIf(done, m) ==
  /\ motor' = IF done THEN Disable(m) ELSE m
  /\ relay' = IF done THEN FALSE ELSE relay

(* A calibrator lost under way sends CALIBRATE back to IDLE. *)
CalibratorLost ==
  /\ state' = "IDLE"
  /\ EndIteration
  /\ UNCHANGED <<motor, relay, pending_report, wcet, run_elapsed, calibrator>>

(* One calibrator step.  The last one is also the one that reports. *)
CalibratorStep ==
  LET next == CalStep(calibrator, DtMs)
      done == next.phase = "Done"
      held == SetDemand(motor, CalDuty(calibrator, DtMs))
  IN  /\ PowerDownIf(done, held)
      /\ calibrator' = IF done THEN None ELSE next
      /\ pending_report' = (pending_report \/ done)
      /\ run_elapsed' = IF done THEN 0 ELSE Elapsed
      /\ state' = IF done THEN "IDLE" ELSE state
      /\ ToCheck

Calibrate ==
  /\ Arm("CALIBRATE")
  /\ cmd.op # "Stop"
  /\ load' = LoadCommanded
  /\ IF calibrator = None THEN CalibratorLost ELSE CalibratorStep
  /\ UNCHANGED <<last_fault, run_config, active_profile, cmd_in, ramp,
                 boot_hello_attempts, safety_init_done>>

(* The live adjustments that reach the motor; the others (target, gains)    *)
(* change what the PID asks for.                                            *)
Adjusted(m) ==
  CASE cmd.op = "LiveDuty"  -> SetDemand(m, cmd.duty)
    [] cmd.op = "LiveClamp" -> SetMaxDemand(m, cmd.clamp)
    [] OTHER                -> m

ClosedLoop == Config.mode \in {"ClosedLoop", "Generate"}

(* SPOOLUP while its ramp lasts.  In closed loop the ramp only times the    *)
(* spool; the feedforward and PID output may be any demand.                 *)
SpoolRamp ==
  LET r == RampTick(ramp, DtMs)
  IN  /\ Arm("SPOOLUP")
      /\ cmd.op # "Stop"
      /\ ramp # None
      /\ run_elapsed' = Elapsed
      /\ \E d \in IF ClosedLoop THEN Demand ELSE {RampValue(r)} :
           motor' = SetDemand(Adjusted(motor), d)
      /\ ramp' = IF r.done THEN None ELSE r
      /\ state' = IF r.done /\ Config.mode = "Generate" THEN "EXCITE" ELSE state
      /\ load' = LoadCommanded
      /\ ToCheck
      /\ UNCHANGED <<last_fault, relay, options, cmd_in, calibrator,
                     boot_hello_attempts, safety_init_done>>

ProfileFinished == active_profile.stops /\ Elapsed >= active_profile.total_ms

HoldOver ==
  /\ active_profile = None
  /\ Config.hold_ms > 0
  /\ Elapsed >= Config.ramp_up_ms + Config.hold_ms

(* SPOOLUP after its ramp: hold the speed until the profile finishes.       *)
SpoolHold ==
  LET over == IF active_profile = None THEN HoldOver ELSE ProfileFinished
  IN  /\ Arm("SPOOLUP")
      /\ cmd.op # "Stop"
      /\ ramp = None
      /\ run_elapsed' = Elapsed
      /\ IF Config.mode = "ClosedLoop"
           THEN \E d \in Demand : motor' = SetDemand(Adjusted(motor), d)
           ELSE motor' = Adjusted(motor)
      /\ ramp' = IF over THEN RampDownFrom(motor') ELSE ramp
      /\ state' = IF over THEN "RAMP_DOWN" ELSE state
      /\ load' = LoadCommanded
      /\ ToCheck
      /\ UNCHANGED <<last_fault, relay, options, cmd_in, calibrator,
                     boot_hello_attempts, safety_init_done>>

(* EXCITE and PLL_LOCK are placeholders that wait out a delay. *)
Placeholder(s, delay, next) ==
  /\ Arm(s)
  /\ cmd.op # "Stop"
  /\ run_elapsed' = Elapsed
  /\ state' = IF Elapsed > Config.ramp_up_ms + delay THEN next ELSE state
  /\ load' = LoadCommanded
  /\ ToCheck
  /\ UNCHANGED <<last_fault, motor, relay, options, cmd_in, ramp, calibrator,
                 boot_hello_attempts, safety_init_done>>

(* Seeded bug: the excitation delay is left out. *)
ExciteAtOnce == Placeholder("EXCITE", 0, "PLL_LOCK")

Excite  == Placeholder("EXCITE", ExciteMs, "PLL_LOCK")
PllLock == Placeholder("PLL_LOCK", PllMs, "READY")

(* PLL_LOCK's `elapsed_in_pll`, which its LED rate divides up: unsigned. *)
ElapsedInPll == Elapsed - Config.ramp_up_ms - ExciteMs

(* READY and GENERATE hold the speed by PID, then apply a live adjustment;  *)
(* LOAD_REJECTION, which no line enters, takes none.                        *)
RegulatedState ==
  CASE cur = "READY" /\ cmd.op = "Start" -> {"GENERATE"}
    [] cur = "LOAD_REJECTION"            -> {state, "GENERATE"}
    [] OTHER                             -> {state}

Regulate ==
  /\ cur \in {"READY", "GENERATE", "LOAD_REJECTION"}
  /\ Arm(cur)
  /\ cmd.op # "Stop"
  /\ \E d \in Demand :
       LET held == SetDemand(motor, d)
       IN  motor' = IF cur = "LOAD_REJECTION" THEN held ELSE Adjusted(held)
  /\ state' \in RegulatedState
  /\ load' = LoadCommanded
  /\ ToCheck
  /\ UNCHANGED <<last_fault, relay, options, cmd_in, locals>>

(* Stop in MANUAL does not skip the deadline check. *)
Manual ==
  /\ Arm("MANUAL")
  /\ motor' = Adjusted(motor)
  /\ ramp' = IF cmd.op = "Stop" THEN RampDownFrom(motor) ELSE ramp
  /\ state' = IF cmd.op = "Stop" THEN "RAMP_DOWN" ELSE state
  /\ load' = LoadCommanded
  /\ ToCheck
  /\ UNCHANGED <<last_fault, relay, options, cmd_in, run_elapsed, calibrator,
                 boot_hello_attempts, safety_init_done>>

(* A ramp that is missing or done opens the relay and goes to IDLE; only a  *)
(* ramp that ran clears the elapsed time.                                   *)
RampDown ==
  LET r    == IF ramp = None THEN None ELSE RampTick(ramp, DtMs)
      done == IF ramp = None THEN TRUE ELSE r.done
      held == IF ramp = None THEN motor ELSE SetDemand(motor, RampValue(r))
  IN  /\ Arm("RAMP_DOWN")
      /\ PowerDownIf(done, held)
      /\ ramp' = IF done THEN None ELSE r
      /\ run_elapsed' = IF done /\ ramp # None THEN 0 ELSE run_elapsed
      /\ state' = IF done THEN "IDLE" ELSE state
      /\ load' = LoadCommanded
      /\ ToCheck
      /\ UNCHANGED <<last_fault, options, cmd_in, calibrator,
                     boot_hello_attempts, safety_init_done>>

-----------------------------------------------------------------------------
(* FAULT and ESTOP hold the machine off until the operator clears them.     *)
(* FAULT also sheds the load, each time; ESTOP leaves it as it is, and      *)
(* leaves the fault cause set.                                              *)

Cleared == cmd.op \in {"ClearFaults", "Stop"}

FaultHold ==
  /\ Arm("FAULT")
  /\ CutPower
  /\ load' = EmergencyShed(load)
  /\ last_fault' = IF Cleared THEN None ELSE last_fault
  /\ state' = IF Cleared THEN "IDLE" ELSE state
  /\ ToCheck
  /\ UNCHANGED <<options, cmd_in, locals>>

EstopHold ==
  /\ Arm("ESTOP")
  /\ CutPower
  /\ load' = LoadCommanded
  /\ state' = IF Cleared THEN "IDLE" ELSE state
  /\ ToCheck
  /\ UNCHANGED <<last_fault, options, cmd_in, locals>>

-----------------------------------------------------------------------------
(* The deadline check: a streak of over-budget iterations of one state is a *)
(* fault.  It cuts the power itself and leaves the load to FAULT.           *)
DeadlineTrip ==
  /\ CutPower
  /\ TripTo("DeadlineMiss")
  /\ ramp' = None
  /\ run_elapsed' = 0

DeadlineCheck(over) ==
  /\ pc = "check"
  /\ over => cur \in SlowStates
  /\ wcet' = RecordStreak(wcet, cur, over)
  /\ IF DeadlineMissed(wcet', cur, over)
       THEN DeadlineTrip
       ELSE UNCHANGED <<motor, relay, last_fault, state, ramp, run_elapsed>>
  /\ EndIteration
  /\ UNCHANGED <<load, options, cmd_in, calibrator, boot_hello_attempts,
                 safety_init_done>>

Iterate ==
  \/ Fetch
  \/ OnEmergencyStop \/ OnHello
  \/ Boot \/ Idle \/ Start \/ Configured
  \/ StopRun
  \/ Calibrate \/ SpoolRamp \/ SpoolHold \/ Excite \/ PllLock \/ Regulate
  \/ Manual \/ RampDown
  \/ FaultHold \/ EstopHold
  \/ \E over \in BOOLEAN : DeadlineCheck(over)

Next ==
  \/ \E c \in Commands : UartRx(c)
  \/ SupervisorTick
  \/ \E rpm \in Rpms : TelemetryTick(rpm)
  \/ Iterate

Spec == Init /\ [][Next]_vars

(* The timer wakes both tasks for ever; the link and the shaft owe nothing. *)
Fairness == WF_vars(Iterate) /\ WF_vars(SupervisorTick)

FairSpec == Spec /\ Fairness

-----------------------------------------------------------------------------
(* Safety.                                                                  *)

(* The motor never gets more than the configured clamp allows, gets nothing *)
(* while disabled, and the inverted PWM duty always agrees with the demand  *)
(* that telemetry reports (MotorController).                                *)
MotorBounded ==
  /\ motor.demand <= motor.clamp
  /\ ~motor.enabled => motor.demand = 0
  /\ Drive(motor) = motor.demand

(* The relay is closed in no state but those is_running names, even when    *)
(* the supervisor preempts an iteration.                                    *)
RelayOnlyWhileRunning == relay => state \in Running

(* "The state where the motor/generator is energized": the relay is closed  *)
(* exactly in the states STATE::is_running names, at every step of every    *)
(* task.                                                                    *)
RelayIffRunning == relay <=> state \in Running

(* The motor is driven only in a running state, by an enabled controller,   *)
(* whichever way the run ended: Stop, completion, trip or deadline miss.    *)
DriveOnlyWhileRunning == Drive(motor) > 0 => state \in Running /\ motor.enabled

(* Between a supervisor pass that saw an E-stop or a bad speed and the next *)
(* pass, no sequence of operator commands (clear, configure, start) gets    *)
(* power back to the motor.                                                 *)
HazardCutsPower == hazard_seen => ~relay /\ Drive(motor) = 0

(* FAULT always has a cause to report, and no cause outlives the Configure  *)
(* that precedes a run.                                                     *)
FaultAccounted ==
  /\ state = "FAULT" => last_fault # None
  /\ state \in Running \cup {"CONFIGURED"} => last_fault = None

(* A running state has what its arm of the state machine unwraps: a run     *)
(* config (never the default one), a calibrator in CALIBRATE, a ramp down   *)
(* to zero in RAMP_DOWN.  So neither arm's fallback to IDLE is ever taken.  *)
RunContext ==
  /\ state \in Running \cup {"CONFIGURED"} => run_config # None
  /\ state = "CALIBRATE" => calibrator # None
  /\ state = "RAMP_DOWN" => ramp # None /\ ramp.end = 0

(* PLL_LOCK's LED subtracts ramp_up_ms and 3000 from the elapsed time in    *)
(* unsigned arithmetic: the difference never goes below zero.               *)
ElapsedInPllNatural == state = "PLL_LOCK" => ElapsedInPll >= 0

(* Step 2 returns through step 1: it is never closed alone, and the level   *)
(* the operator is shown is what the relays do.                             *)
LoadOrdered ==
  /\ load.step_2 => load.step_1
  /\ load.level = (IF load.step_1 THEN 1 ELSE 0) + (IF load.step_2 THEN 1 ELSE 0)

InTrip   == state \in Tripped
TripHeld == UNCHANGED <<state, last_fault>>

ClearedByOperator == state' = "IDLE" /\ cmd.op \in {"ClearFaults", "Stop"}

TakenOver ==
  /\ state = "FAULT" /\ state' = "ESTOP"
  /\ last_fault' \in {last_fault, "EmergencyStop"}

(* A trip is latched with its first cause: no later speed, bus window or    *)
(* slow iteration replaces either.  Only an E-stop takes a FAULT over, its  *)
(* pin with the cause, and only a ClearFaults or a Stop goes to IDLE.       *)
TripLatched ==
  [][InTrip => TripHeld \/ TakenOver \/ ClearedByOperator]_vars

(* A graceful stop never speeds the machine up: while RAMP_DOWN lasts the   *)
(* demand only falls, whatever the operator sends meanwhile.                *)
RampDownMonotone ==
  [][state = "RAMP_DOWN" /\ state' = "RAMP_DOWN"
       => motor'.demand <= motor.demand]_vars

(* FAULT is cleared only with the whole load shed, although an rpm trip and *)
(* a deadline miss leave the bank engaged.                                  *)
ClearedUnloaded ==
  [][state = "FAULT" /\ state' = "IDLE" => load'.level = 0]_vars

(* The interlock: power follows the mode, and a run never resumes out of a  *)
(* trip.                                                                    *)
Mode ==
  CASE state \in Running -> "Running"
    [] state \in Tripped -> "Tripped"
    [] OTHER             -> "Stopped"

Abstract == INSTANCE Interlock WITH
  mode <- Mode, closed <- relay, drive <- Drive(motor), MaxDrive <- FullDemand

ImplementsInterlock == Abstract!ISpec

-----------------------------------------------------------------------------
(* Liveness.                                                                *)

Queued(op) == \E i \in 1 .. Len(cmd_in) : cmd_in[i].op = op

(* A Hello makes state_manager skip the rest of its iteration, so a link    *)
(* that says nothing else would hold it up; the ESP32 says it once.         *)
HelloStops == <>[](cmd.op # "Hello")

(* A remote EmergencyStop that made it into the queue is obeyed, whatever   *)
(* the state, what is queued before it and what arrives later, Hellos       *)
(* without end included.                                                    *)
EstopObeyed == Queued("EmergencyStop") ~> state = "ESTOP"

(* A Stop queued during a run, alone or behind another command, ends it     *)
(* with the relay open: from every running state some line enters, and      *)
(* through its ramp down.                                                   *)
StopEndsRun == HelloStops => (relay /\ Queued("Stop") ~> ~relay)

(* A dead ESP32 does not hold the machine in BOOT.                          *)
BootEnds == HelloStops => <>(state # "BOOT")

(* A fault sheds the load, also when the supervisor that saw it did not.    *)
FaultSheds == HelloStops => (state = "FAULT" ~> load.level = 0)
=============================================================================
