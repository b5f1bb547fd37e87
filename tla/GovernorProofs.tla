--------------------------- MODULE GovernorProofs ---------------------------
(***************************************************************************)
(* Theorems of Governor for every value of its constants and however the   *)
(* tasks are scheduled: type correctness, the bounds on the motor, and     *)
(* that the relay is closed in a run only.                                 *)
(***************************************************************************)
EXTENDS Governor, ComponentProofs

(* TypeOK with what makes it inductive: a calibrator that is there has a    *)
(* point of the table to ask for.                                           *)
TypeInv ==
  /\ TypeOK
  /\ calibrator # None => InTable(calibrator)
  /\ Bounded(motor)

-----------------------------------------------------------------------------
(* What a command carries. *)

LEMMA CommandType ==
  ASSUME NEW c \in Commands \cup {NoCommand}
  PROVE  /\ c.op = "Configure"   => c.config \in RunConfig
         /\ c.op = "LoadProfile" => c.profile \in Profile
         /\ c.op = "SetLoad"     => c.level \in LoadLevel
         /\ c.op = "LiveDuty"    => c.duty \in Int
         /\ c.op = "LiveClamp"   => c.clamp \in Int
<1>1. CASE c = NoCommand
  BY <1>1 DEF NoCommand
<1>2. CASE c \in Commands
  <2>1. c \in Command
    BY <1>2, CommandsAssumption
  <2>2. CASE c \in [op : {"Ping", "Start", "Stop", "EmergencyStop", "ClearFaults",
                          "Hello", "HelloAck", "StepLoadUp", "StepLoadDown",
                          "LiveTarget"}]
    BY <2>2
  <2>3. CASE c \in [op : {"Configure"}, config : RunConfig]
    BY <2>3
  <2>4. CASE c \in [op : {"LoadProfile"}, profile : Profile]
    BY <2>4
  <2>5. CASE c \in [op : {"SetLoad"}, level : LoadLevel]
    BY <2>5
  <2>6. CASE c \in [op : {"LiveDuty"}, duty : Int]
    BY <2>6
  <2>7. CASE c \in [op : {"LiveClamp"}, clamp : Int]
    BY <2>7
  <2> QED
    BY <2>1, <2>2, <2>3, <2>4, <2>5, <2>6, <2>7 DEF Command
<1> QED
  BY <1>1, <1>2

(* The config an arm unwraps is a run config, given or default. *)
LEMMA ConfigType ==
  ASSUME run_config \in RunConfig \cup {None}
  PROVE  /\ Config \in RunConfig
         /\ Config.ramp_up_ms \in Nat /\ Config.ramp_down_ms \in Nat
<1>1. FullDemand \in Int
  BY FullDemandAssumption
<1>2. DefaultConfig \in RunConfig
  BY <1>1 DEF DefaultConfig, RunConfig, RunMode
<1>3. Config \in RunConfig
  BY <1>2 DEF Config
<1> QED
  BY <1>3 DEF RunConfig

(* The elapsed time stays within its bound. *)
LEMMA ElapsedType ==
  ASSUME run_elapsed \in 0 .. MaxElapsed
  PROVE  Elapsed \in 0 .. MaxElapsed
BY TimingAssumption DEF Elapsed

(* A load command leaves a load bank. *)
LEMMA LoadCommandedType ==
  ASSUME load \in LoadState, cmd \in Commands \cup {NoCommand}
  PROVE  LoadCommanded \in LoadState
<1>1. StepUp(load) \in LoadState /\ StepDown(load) \in LoadState
  BY LoadType DEF LoadLevel
<1>2. cmd.op = "SetLoad" => SetLevel(load, cmd.level) \in LoadState
  BY LoadType, CommandType
<1> QED
  BY <1>1, <1>2 DEF LoadCommanded

(* A live adjustment keeps the motor typed and bounded. *)
LEMMA AdjustedType ==
  ASSUME NEW m \in MotorState, Bounded(m), cmd \in Commands \cup {NoCommand}
  PROVE  Adjusted(m) \in MotorState /\ Bounded(Adjusted(m))
<1>1. cmd.op = "LiveDuty" => /\ SetDemand(m, cmd.duty) \in MotorState
                             /\ Bounded(SetDemand(m, cmd.duty))
  BY CommandType, SetDemandType
<1>2. cmd.op = "LiveClamp" => /\ SetMaxDemand(m, cmd.clamp) \in MotorState
                              /\ Bounded(SetMaxDemand(m, cmd.clamp))
  BY CommandType, SetMaxDemandType
<1> QED
  BY <1>1, <1>2 DEF Adjusted

(* The ramp a stop creates is a ramp, to zero. *)
LEMMA RampDownFromType ==
  ASSUME NEW m \in MotorState, run_config \in RunConfig \cup {None}
  PROVE  /\ RampDownFrom(m) \in RampState
         /\ RampDownFrom(m).end = 0
<1>1. m.demand \in Int
  BY DemandEnds, FullDemandAssumption DEF MotorState, Demand
<1> QED
  BY <1>1, ConfigType, NewRampType DEF RampDownFrom

(* Cutting the power leaves a typed motor without drive, the relay open.    *)
LEMMA CutPowerType ==
  ASSUME motor \in MotorState, CutPower
  PROVE  /\ motor' \in MotorState /\ Bounded(motor') /\ Drive(motor') = 0
         /\ relay' = FALSE
BY EmergencyOffType DEF CutPower

(* The end of a run leaves the motor typed, bounded and undriven. *)
LEMMA PowerDownIfType ==
  ASSUME NEW done \in BOOLEAN, NEW m \in MotorState, Bounded(m),
         relay \in BOOLEAN, PowerDownIf(done, m)
  PROVE  /\ motor' \in MotorState /\ Bounded(motor')
         /\ relay' \in BOOLEAN
         /\ done => Drive(motor') = 0 /\ relay' = FALSE
         /\ ~done => motor' = m /\ relay' = relay
BY DisableType DEF PowerDownIf

(* The rpm limits name a fault or none. *)
LEMMA RpmFaultType ==
  ASSUME NEW rpm \in Int
  PROVE  RpmFault(rpm) \in Fault \cup {None}
BY DEF RpmFault, Fault

(* The DC-bus limits name a fault. *)
LEMMA BusFaultType ==
  ASSUME NEW bus \in BusReadings
  PROVE  BusFault(bus) \in Fault /\ bus.i_dc \in Int
BY SensorAssumption DEF BusFault, Fault, BusReading

-----------------------------------------------------------------------------
(* Each action keeps TypeInv. *)

LEMMA InitType == Init => TypeInv
<1> SUFFICES ASSUME Init PROVE TypeInv
  OBVIOUS
<1>1. cmd_in \in Queue
  BY EmptySeq, BoundsAssumption DEF Init, Queue
<1>2. load \in LoadState
  BY LoadType DEF Init, NewLoadBank, LoadState, LoadLevel
<1>3. active_profile \in Profile
  BY DEF Init, DEFAULT_PROFILE, Profile
<1>4. wcet \in Streaks
  BY StreakLimitAssumption DEF Init, NewStreaks, Streaks
<1>5. motor \in MotorState /\ Bounded(motor)
  BY NewMotorType DEF Init
<1>6. run_elapsed \in 0 .. MaxElapsed /\ boot_hello_attempts \in 0 .. BootRetries
  BY TimingAssumption, BoundsAssumption DEF Init
<1>7. state \in State /\ cur \in State
  BY DEF Init, State
<1>8. /\ last_fault \in Fault \cup {None} /\ run_config \in RunConfig \cup {None}
      /\ ramp \in RampState \cup {None} /\ calibrator \in CalState \cup {None}
      /\ cmd \in Commands \cup {NoCommand} /\ pc \in {"await", "handle", "check"}
      /\ calibrator = None
  BY DEF Init
<1>9. /\ relay \in BOOLEAN /\ pending_report \in BOOLEAN
      /\ safety_init_done \in BOOLEAN /\ hazard_seen \in BOOLEAN
      /\ sup_ran \in BOOLEAN
  BY Zenon DEF Init
<1>10. current_rpm \in Int /\ last_i \in Int
  BY DEF Init
<1> QED
  BY <1>1, <1>2, <1>3, <1>4, <1>5, <1>6, <1>7, <1>8, <1>9, <1>10
     DEF TypeInv, TypeOK

(* uart4_rx: the queue stays within its capacity. *)
LEMMA UartRxType ==
  ASSUME TypeInv, NEW c \in Commands, UartRx(c)
  PROVE  TypeInv'
<1>1. cmd_in' \in Queue
  <2>1. cmd_in \in Seq(Commands) /\ Len(cmd_in) \in Nat /\ Len(cmd_in) <= QueueCap
    BY LenProperties DEF TypeInv, TypeOK, Queue
  <2>2. /\ Append(cmd_in, c) \in Seq(Commands)
        /\ Len(Append(cmd_in, c)) = Len(cmd_in) + 1
    BY <2>1, AppendProperties
  <2> QED
    BY <2>1, <2>2, BoundsAssumption DEF UartRx, Queue
<1> QED
  BY <1>1 DEF TypeInv, TypeOK, UartRx, power, options, locals, loop, sensors

(* safety_supervisor keeps TypeInv. *)
LEMMA SupervisorType ==
  ASSUME TypeInv, SupervisorTick
  PROVE  TypeInv'
<1> USE DEF TypeInv, TypeOK
<1>1. EmergencyShed(load) \in LoadState
  BY LoadType DEF LoadLevel
<1>2. CASE EstopTick
  BY <1>1, <1>2, CutPowerType
     DEF EstopTick, SupervisorFrame, options, locals, loop, State, Fault
<1>3. ASSUME NEW bus \in BusReadings, RpmTripTick(bus)
      PROVE  TypeInv'
  BY <1>3, CutPowerType, BusFaultType, RpmFaultType
     DEF RpmTripTick, TripTo, SupervisorFrame, options, locals, loop, State
<1>4. ASSUME NEW bus \in BusReadings, BusTripTick(bus)
      PROVE  TypeInv'
  <2>1. motor' \in MotorState /\ Bounded(motor') /\ relay' = FALSE
    BY <1>4, CutPowerType DEF BusTripTick
  <2>2. /\ state' \in State /\ last_fault' \in Fault
        /\ load' = EmergencyShed(load)
        /\ last_i' \in Int /\ hazard_seen' = FALSE
        /\ SupervisorFrame
    BY <1>4, BusFaultType DEF BusTripTick, TripTo, State
  <2> QED
    BY <1>1, <2>1, <2>2 DEF SupervisorFrame, options, locals, loop
<1>5. ASSUME NEW bus \in BusReadings, QuietTick(bus)
      PROVE  TypeInv'
  BY <1>5, BusFaultType, ZenonT(30)
     DEF QuietTick, SupervisorFrame, options, locals, loop, power
<1> QED
  BY <1>2, <1>3, <1>4, <1>5 DEF SupervisorTick

(* telemetry_task keeps TypeInv. *)
LEMMA TelemetryType ==
  ASSUME TypeInv, NEW rpm \in Rpms, TelemetryTick(rpm)
  PROVE  TypeInv'
BY SensorAssumption, ZenonT(30) DEF TypeInv, TypeOK, TelemetryTick, power, locals, loop

(* The pop at the top of the loop keeps TypeInv. *)
LEMMA FetchType ==
  ASSUME TypeInv, Fetch
  PROVE  TypeInv'
<1>1. cmd_in' \in Queue /\ cmd' \in Commands \cup {NoCommand}
  <2>1. cmd_in \in Seq(Commands) /\ Len(cmd_in) \in Nat /\ Len(cmd_in) <= QueueCap
    BY LenProperties DEF TypeInv, TypeOK, Queue
  <2>2. CASE cmd_in = << >>
    BY <2>2 DEF Fetch, TypeInv, TypeOK
  <2>3. CASE cmd_in # << >>
    BY <2>1, <2>3, HeadTailProperties, BoundsAssumption DEF Fetch, Queue
  <2> QED
    BY <2>2, <2>3
<1> QED
  BY <1>1 DEF TypeInv, TypeOK, Fetch, power, options, locals, sensors

(* EmergencyStop, Hello and Stop keep TypeInv. *)
LEMMA CommandStepType ==
  ASSUME TypeInv, OnEmergencyStop \/ OnHello \/ StopRun
  PROVE  TypeInv'
<1> USE DEF TypeInv, TypeOK
<1>1. CASE OnEmergencyStop
  <2>1. EmergencyShed(load) \in LoadState
    BY LoadType DEF LoadLevel
  <2> QED
    BY <1>1, <2>1, CutPowerType, TimingAssumption
       DEF OnEmergencyStop, EndIteration, options, sensors, State
<1>2. CASE OnHello
  BY <1>2 DEF OnHello, EndIteration, power, options, locals, sensors
<1>3. CASE StopRun
  BY <1>3, RampDownFromType, ElapsedType
     DEF StopRun, EndIteration, power, options, sensors, State
<1> QED
  BY <1>1, <1>2, <1>3

(* What BOOT keeps of the queue is again one. *)
LEMMA KeptQueue ==
  ASSUME NEW q \in Queue, NEW drained
  PROVE  Kept(q, drained) \in Queue
<1>1. q \in Seq(Commands) /\ Len(q) \in Nat /\ Len(q) <= QueueCap
  BY LenProperties DEF Queue
<1>2. Kept(q, drained) \in Seq(Commands) /\ Len(Kept(q, drained)) <= Len(q)
  BY <1>1, KeptType
<1>3. Len(Kept(q, drained)) \in Nat /\ QueueCap \in Nat
  BY <1>2, LenProperties, BoundsAssumption
<1> QED
  BY <1>1, <1>2, <1>3 DEF Queue

(* The BOOT arm keeps TypeInv. *)
LEMMA BootType ==
  ASSUME TypeInv, Boot
  PROVE  TypeInv'
<1> USE DEF TypeInv, TypeOK
<1>1. motor' \in MotorState /\ Bounded(motor') /\ relay' \in BOOLEAN
  BY CutPowerType DEF Boot
<1>2. boot_hello_attempts' \in 0 .. BootRetries
  BY BoundsAssumption DEF Boot, Attempt
<1>3. cmd_in' \in Queue
  BY KeptQueue DEF Boot
<1> QED
  BY <1>1, <1>2, <1>3, LoadCommandedType DEF Boot, ToCheck, options, sensors, State

(* The IDLE arm keeps TypeInv. *)
LEMMA IdleType ==
  ASSUME TypeInv, Idle
  PROVE  TypeInv'
<1> USE DEF TypeInv, TypeOK
<1>1. motor' \in MotorState /\ Bounded(motor')
  <2>1. Disable(motor) \in MotorState /\ Bounded(Disable(motor))
    BY DisableType
  <2>2. CASE cmd.op = "Configure"
    <3>1. cmd.config.max_duty_clamp \in Int
      BY <2>2, CommandType DEF RunConfig
    <3> QED
      BY <2>1, <2>2, <3>1, SetMaxDemandType DEF Idle
  <2>3. CASE cmd.op # "Configure"
    BY <2>1, <2>3 DEF Idle
  <2> QED
    BY <2>2, <2>3
<1>2. /\ state' \in State /\ run_config' \in RunConfig \cup {None}
      /\ active_profile' \in Profile /\ last_fault' \in Fault \cup {None}
  BY CommandType DEF Idle, ProfileCommanded, State
<1> QED
  BY <1>1, <1>2, LoadCommandedType DEF Idle, ToCheck, locals, sensors

(* Start keeps TypeInv. *)
LEMMA StartType ==
  ASSUME TypeInv, Start
  PROVE  TypeInv'
<1> USE DEF TypeInv, TypeOK
<1>1. motor' \in MotorState /\ Bounded(motor')
  BY EnableType DEF Start
<1>2. /\ calibrator' \in CalState \cup {None}
      /\ calibrator' # None => InTable(calibrator')
  BY NewCalibratorType DEF Start
<1>3. ramp' \in RampState \cup {None}
  BY ConfigType, NewRampType, FullDemandAssumption DEF Start
<1>4. state' \in State /\ run_elapsed' \in 0 .. MaxElapsed
  BY TimingAssumption DEF Start, StartState, State
<1> QED
  BY <1>1, <1>2, <1>3, <1>4 DEF Start, ToCheck, options, sensors

(* The rest of the CONFIGURED arm keeps TypeInv. *)
LEMMA ConfiguredType ==
  ASSUME TypeInv, Configured
  PROVE  TypeInv'
<1> USE DEF TypeInv, TypeOK
<1>1. motor' \in MotorState /\ Bounded(motor')
  <2>1. CASE cmd.op = "Configure"
    <3>1. cmd.config.max_duty_clamp \in Int
      BY <2>1, CommandType DEF RunConfig
    <3> QED
      BY <2>1, <3>1, SetMaxDemandType DEF Configured
  <2>2. CASE cmd.op # "Configure"
    BY <2>2 DEF Configured
  <2> QED
    BY <2>1, <2>2
<1>2. /\ state' \in State /\ run_config' \in RunConfig \cup {None}
      /\ active_profile' \in Profile
  BY CommandType DEF Configured, ProfileCommanded, State
<1> QED
  BY <1>1, <1>2, LoadCommandedType DEF Configured, ToCheck, locals, sensors

(* The CALIBRATE arm keeps TypeInv. *)
LEMMA CalibrateType ==
  ASSUME TypeInv, Calibrate
  PROVE  TypeInv'
<1> USE DEF TypeInv, TypeOK
<1>1. CASE calibrator = None
  BY <1>1, LoadCommandedType
     DEF Calibrate, CalibratorLost, EndIteration, sensors, State
<1>2. CASE calibrator # None
  <2> DEFINE next == CalStep(calibrator, DtMs)
             done == next.phase = "Done"
             held == SetDemand(motor, CalDuty(calibrator, DtMs))
  <2>1. next \in CalState /\ InTable(next) /\ done \in BOOLEAN
    BY <1>2, CalStepType, TimingAssumption
  <2>2. held \in MotorState /\ Bounded(held)
    BY <1>2, CalStepType, SetDemandType, TimingAssumption
  <2>3. /\ PowerDownIf(done, held)
        /\ calibrator' = IF done THEN None ELSE next
        /\ pending_report' = (pending_report \/ done)
        /\ run_elapsed' = IF done THEN 0 ELSE Elapsed
        /\ state' = IF done THEN "IDLE" ELSE state
        /\ ToCheck
    BY <1>2 DEF Calibrate, CalibratorStep
  <2> HIDE DEF next, done, held
  <2>4. motor' \in MotorState /\ Bounded(motor') /\ relay' \in BOOLEAN
    BY <2>1, <2>2, <2>3, PowerDownIfType
  <2>5. /\ run_elapsed' \in 0 .. MaxElapsed /\ pending_report' \in BOOLEAN
        /\ state' \in State
    BY <2>1, <2>3, ElapsedType, TimingAssumption DEF State
  <2>6. /\ calibrator' \in CalState \cup {None}
        /\ calibrator' # None => InTable(calibrator')
    BY <2>1, <2>3
  <2> QED
    BY <2>3, <2>4, <2>5, <2>6, LoadCommandedType DEF Calibrate, ToCheck, sensors
<1> QED
  BY <1>1, <1>2

(* The SPOOLUP arm keeps TypeInv, ramping and holding. *)
LEMMA SpoolType ==
  ASSUME TypeInv, SpoolRamp \/ SpoolHold
  PROVE  TypeInv'
<1> USE DEF TypeInv, TypeOK
<1>1. Adjusted(motor) \in MotorState /\ Bounded(Adjusted(motor))
  BY AdjustedType
<1>2. \A d \in Int : /\ SetDemand(Adjusted(motor), d) \in MotorState
                     /\ Bounded(SetDemand(Adjusted(motor), d))
  BY <1>1, SetDemandType
<1>3. \A d \in Demand : d \in Int
  BY DEF Demand
<1>4. CASE SpoolRamp
  <2> DEFINE r == RampTick(ramp, DtMs)
  <2>1. r \in RampState /\ RampValue(r) \in Int
    BY <1>4, RampTickType, RampValueType, TimingAssumption DEF SpoolRamp
  <2>2. motor' \in MotorState /\ Bounded(motor')
    BY <1>2, <1>3, <1>4, <2>1 DEF SpoolRamp
  <2>3. ramp' \in RampState \cup {None} /\ state' \in State
    BY <1>4, <2>1 DEF SpoolRamp, State
  <2> HIDE DEF r
  <2> QED
    BY <1>4, <2>2, <2>3, ElapsedType, LoadCommandedType
       DEF SpoolRamp, ToCheck, options, sensors
<1>5. CASE SpoolHold
  <2>1. motor' \in MotorState /\ Bounded(motor')
    BY <1>1, <1>2, <1>3, <1>5 DEF SpoolHold
  <2>2. ramp' \in RampState \cup {None} /\ state' \in State
    BY <1>5, <2>1, RampDownFromType DEF SpoolHold, State
  <2> QED
    BY <1>5, <2>1, <2>2, ElapsedType, LoadCommandedType
       DEF SpoolHold, ToCheck, options, sensors
<1> QED
  BY <1>4, <1>5

(* EXCITE and PLL_LOCK keep TypeInv. *)
LEMMA PlaceholderType ==
  ASSUME TypeInv, Excite \/ PllLock
  PROVE  TypeInv'
<1>1. PICK s \in State, delay \in Nat, next \in State : Placeholder(s, delay, next)
  BY TimingAssumption DEF Excite, PllLock, State
<1> QED
  BY <1>1, ElapsedType, LoadCommandedType
     DEF TypeInv, TypeOK, Placeholder, ToCheck, options, sensors

(* READY, GENERATE and LOAD_REJECTION keep TypeInv. *)
LEMMA RegulateType ==
  ASSUME TypeInv, Regulate
  PROVE  TypeInv'
<1> USE DEF TypeInv, TypeOK
<1>1. PICK d \in Demand :
        motor' = IF cur = "LOAD_REJECTION" THEN SetDemand(motor, d)
                 ELSE Adjusted(SetDemand(motor, d))
  BY DEF Regulate
<1>2. SetDemand(motor, d) \in MotorState /\ Bounded(SetDemand(motor, d))
  BY SetDemandType DEF Demand
<1>3. motor' \in MotorState /\ Bounded(motor')
  BY <1>1, <1>2, AdjustedType
<1>4. state' \in State
  BY DEF Regulate, RegulatedState, State
<1> QED
  BY <1>3, <1>4, LoadCommandedType DEF Regulate, ToCheck, options, locals, sensors

(* The MANUAL arm keeps TypeInv. *)
LEMMA ManualType ==
  ASSUME TypeInv, Manual
  PROVE  TypeInv'
<1> USE DEF TypeInv, TypeOK
<1>1. motor' \in MotorState /\ Bounded(motor')
  BY AdjustedType DEF Manual
<1>2. ramp' \in RampState \cup {None} /\ state' \in State
  BY RampDownFromType DEF Manual, State
<1> QED
  BY <1>1, <1>2, LoadCommandedType DEF Manual, ToCheck, options, sensors

(* The RAMP_DOWN arm keeps TypeInv. *)
LEMMA RampDownType ==
  ASSUME TypeInv, RampDown
  PROVE  TypeInv'
<1> USE DEF TypeInv, TypeOK
<1> DEFINE r    == IF ramp = None THEN None ELSE RampTick(ramp, DtMs)
           done == IF ramp = None THEN TRUE ELSE r.done
           held == IF ramp = None THEN motor ELSE SetDemand(motor, RampValue(r))
<1>1. ramp # None => r \in RampState /\ RampValue(r) \in Int
  BY RampTickType, RampValueType, TimingAssumption
<1>2. done \in BOOLEAN
  BY <1>1 DEF RampState
<1>3. held \in MotorState /\ Bounded(held)
  BY <1>1, SetDemandType
<1>4. /\ PowerDownIf(done, held)
      /\ ramp' = IF done THEN None ELSE r
      /\ run_elapsed' = IF done /\ ramp # None THEN 0 ELSE run_elapsed
      /\ state' = IF done THEN "IDLE" ELSE state
  BY DEF RampDown
<1>5. ramp' \in RampState \cup {None}
  BY <1>1, <1>4
<1> HIDE DEF r, done, held
<1>6. motor' \in MotorState /\ Bounded(motor') /\ relay' \in BOOLEAN
  BY <1>2, <1>3, <1>4, PowerDownIfType
<1>7. run_elapsed' \in 0 .. MaxElapsed /\ state' \in State
  BY <1>2, <1>4, TimingAssumption DEF State
<1> QED
  BY <1>5, <1>6, <1>7, LoadCommandedType DEF RampDown, ToCheck, options, sensors

(* The FAULT and ESTOP arms keep TypeInv. *)
LEMMA HoldType ==
  ASSUME TypeInv, FaultHold \/ EstopHold
  PROVE  TypeInv'
<1> USE DEF TypeInv, TypeOK
<1>1. EmergencyShed(load) \in LoadState
  BY LoadType DEF LoadLevel
<1>2. motor' \in MotorState /\ Bounded(motor') /\ relay' = FALSE
  BY CutPowerType DEF FaultHold, EstopHold
<1>3. state' \in State
  BY DEF FaultHold, EstopHold, State
<1>4. CASE FaultHold
  BY <1>1, <1>2, <1>3, <1>4 DEF FaultHold, ToCheck, options, locals, sensors
<1>5. CASE EstopHold
  BY <1>2, <1>3, <1>5, LoadCommandedType, ZenonT(30)
     DEF EstopHold, ToCheck, options, locals, sensors
<1> QED
  BY <1>4, <1>5

(* The deadline check keeps TypeInv. *)
LEMMA DeadlineCheckType ==
  ASSUME TypeInv, NEW over \in BOOLEAN, DeadlineCheck(over)
  PROVE  TypeInv'
<1> USE DEF TypeInv, TypeOK
<1>1. wcet' \in Streaks
  BY RecordStreakType DEF DeadlineCheck
<1>2. CASE DeadlineMissed(wcet', cur, over)
  <2>1. DeadlineTrip
    BY <1>2 DEF DeadlineCheck
  <2>2. motor' \in MotorState /\ Bounded(motor') /\ relay' = FALSE
    BY <2>1, CutPowerType DEF DeadlineTrip
  <2>3. /\ state' \in State /\ last_fault' \in Fault
        /\ ramp' = None /\ run_elapsed' \in 0 .. MaxElapsed
    BY <2>1, TimingAssumption DEF DeadlineTrip, TripTo, State, Fault
  <2> QED
    BY <1>1, <2>2, <2>3 DEF DeadlineCheck, EndIteration, options, sensors
<1>3. CASE ~DeadlineMissed(wcet', cur, over)
  BY <1>1, <1>3 DEF DeadlineCheck, EndIteration, options, sensors
<1> QED
  BY <1>2, <1>3

(* A stuttering step keeps TypeInv. *)
LEMMA StutterType ==
  ASSUME TypeInv, UNCHANGED vars
  PROVE  TypeInv'
BY DEF TypeInv, TypeOK, vars, power, options, locals, loop, sensors

(* Every step of every task keeps TypeInv. *)
LEMMA TypeInductive == TypeInv /\ [Next]_vars => TypeInv'
<1> SUFFICES ASSUME TypeInv, [Next]_vars
             PROVE  TypeInv'
  OBVIOUS
<1>1. CASE Iterate
  BY <1>1, FetchType, CommandStepType, BootType, IdleType, StartType,
     ConfiguredType, CalibrateType, SpoolType, PlaceholderType, RegulateType,
     ManualType, RampDownType, HoldType, DeadlineCheckType DEF Iterate
<1> QED
  BY <1>1, UartRxType, SupervisorType, TelemetryType, StutterType DEF Next

-----------------------------------------------------------------------------
(* Every variable has its type, the motor is bounded and the calibrator     *)
(* stands inside its table, in every reachable state.                       *)
THEOREM TypeInvariant == Spec => []TypeInv
BY InitType, TypeInductive, PTL DEF Spec

(* Every variable keeps its type, for every queue, command set, timing and  *)
(* sensor range, whether or not the supervisor may preempt an iteration:    *)
(* no unwrap of main.rs, ramp or calibrator index leaves its range.         *)
THEOREM TypeCorrect == Spec => []TypeOK
<1>1. TypeInv => TypeOK
  BY DEF TypeInv
<1> QED
  BY <1>1, TypeInvariant, PTL

(* MotorController keeps the demand within the clamp, gives a disabled      *)
(* motor nothing and keeps the inverted duty in step with the demand,       *)
(* whatever the commands ask for and whoever calls it in between.           *)
THEOREM MotorWithinClamp == Spec => []MotorBounded
<1>1. TypeInv => MotorBounded
  BY DEF TypeInv, Bounded, MotorBounded, Drive
<1> QED
  BY <1>1, TypeInvariant, PTL

-----------------------------------------------------------------------------
(***************************************************************************)
(* The relay however the tasks are scheduled: unlike the invariant of      *)
(* SafetyProofs, this one survives a supervisor that preempts an iteration *)
(* and leaves it with a state it read before.                              *)
(***************************************************************************)
(* A closed relay vouches for what an iteration has read: whatever changes  *)
(* the state behind its back opens the relay first.                         *)
RelayInv ==
  /\ RelayOnlyWhileRunning
  /\ relay /\ pc = "handle" => cur = state
  /\ relay /\ state = "CALIBRATE" => calibrator # None

(* A state that no run is in has its relay open.                            *)
LEMMA OpenAtRest ==
  ASSUME RelayInv, pc = "handle", cur \notin Running
  PROVE  ~relay
BY DEF RelayInv, RelayOnlyWhileRunning

(* The supervisor, the interrupt and telemetry.                             *)
LEMMA OthersRelay ==
  ASSUME TypeInv, RelayInv,
         \/ \E c \in Commands : UartRx(c)
         \/ SupervisorTick
         \/ \E rpm \in Rpms : TelemetryTick(rpm)
  PROVE  RelayInv'
<1>1. CASE (\E c \in Commands : UartRx(c)) \/ (\E rpm \in Rpms : TelemetryTick(rpm))
  BY <1>1 DEF UartRx, TelemetryTick, power, options, locals, loop, RelayInv,
              RelayOnlyWhileRunning
<1>2. CASE SupervisorTick
  <2>1. CASE relay' = FALSE
    BY <2>1 DEF RelayInv, RelayOnlyWhileRunning
  <2>2. CASE \E bus \in BusReadings : QuietTick(bus)
    BY <2>2 DEF QuietTick, SupervisorFrame, power, locals, loop, RelayInv,
                RelayOnlyWhileRunning
  <2> QED
    BY <1>2, <2>1, <2>2 DEF SupervisorTick, EstopTick, RpmTripTick, BusTripTick, CutPower
<1> QED
  BY <1>1, <1>2

(* What begins and ends an iteration, and the states at rest.               *)
LEMMA RestRelay ==
  ASSUME TypeInv, RelayInv,
         \/ Fetch \/ OnEmergencyStop \/ OnHello
         \/ Boot \/ Idle \/ Start \/ Configured \/ FaultHold \/ EstopHold
         \/ \E over \in BOOLEAN : DeadlineCheck(over)
  PROVE  RelayInv'
<1> USE DEF RelayInv, RelayOnlyWhileRunning
<1>1. CASE relay' = FALSE
  BY <1>1
<1>2. CASE Fetch
  BY <1>2 DEF Fetch, power, locals
<1>3. CASE OnHello
  BY <1>3 DEF OnHello, EndIteration, power, locals
<1>4. CASE Start
  BY <1>4, NewCalibratorType, NoneAssumption DEF Start, ToCheck, StartState, Running
<1>5. CASE Boot \/ Idle \/ Configured
  <2>1. relay = FALSE
    <3>1. pc = "handle" /\ cur \in {"BOOT", "IDLE", "CONFIGURED"} /\ relay \in BOOLEAN
      BY <1>5 DEF Boot, Idle, Configured, Arm, TypeInv, TypeOK
    <3> QED
      BY <3>1, OpenAtRest DEF Running
  <2>2. relay' = FALSE
    BY <1>5, <2>1 DEF Boot, Idle, Configured, CutPower
  <2> QED
    BY <1>1, <2>2
<1>6. CASE OnEmergencyStop \/ FaultHold \/ EstopHold
  BY <1>1, <1>6 DEF OnEmergencyStop, FaultHold, EstopHold, CutPower
<1>7. ASSUME NEW over \in BOOLEAN, DeadlineCheck(over)
      PROVE  RelayInv'
  <2>1. pc' = "await" /\ UNCHANGED calibrator
    BY <1>7 DEF DeadlineCheck, EndIteration
  <2>2. relay' = FALSE \/ UNCHANGED <<relay, state>>
    BY <1>7 DEF DeadlineCheck, DeadlineTrip, CutPower
  <2> QED
    BY <1>1, <2>1, <2>2
<1> QED
  BY <1>2, <1>3, <1>4, <1>5, <1>6, <1>7

(* A running state's iteration: the relay stays as it was and the run goes  *)
(* on, or it opens.                                                         *)
LEMMA RunRelay ==
  ASSUME TypeInv, RelayInv,
         StopRun \/ SpoolRamp \/ SpoolHold \/ Excite \/ PllLock \/ Regulate \/ Manual
  PROVE  RelayInv'
<1>1. pc = "handle" /\ pc' # "handle" /\ relay' = relay
  BY DEF StopRun, SpoolRamp, SpoolHold, Excite, PllLock, Placeholder, Regulate, Manual,
         Arm, ToCheck, EndIteration, power
<1>2. state' # state => state' \in Running \ {"CALIBRATE"}
  BY DEF StopRun, SpoolRamp, SpoolHold, Excite, PllLock, Placeholder, Regulate,
         RegulatedState, Manual, Running
<1>3. state' = state => UNCHANGED calibrator \/ state' # "CALIBRATE"
  BY DEF StopRun, SpoolRamp, SpoolHold, Excite, PllLock, Placeholder, Regulate, Manual,
         locals
<1> QED
  BY <1>1, <1>2, <1>3 DEF RelayInv, RelayOnlyWhileRunning

(* A calibration, which may end for want of a calibrator with the relay closed.*)
LEMMA CalibrateRelay ==
  ASSUME TypeInv, RelayInv, Calibrate
  PROVE  RelayInv'
<1>1. pc = "handle" /\ cur = "CALIBRATE"
  BY DEF Calibrate, Arm
<1>2. CASE calibrator = None
  <2>1. ~relay /\ relay' = relay
    BY <1>1, <1>2 DEF Calibrate, CalibratorLost, RelayInv
  <2> QED
    BY <2>1 DEF RelayInv, RelayOnlyWhileRunning
<1>3. CASE calibrator # None
  <2> DEFINE next == CalStep(calibrator, DtMs)
             done == next.phase = "Done"
             held == SetDemand(motor, CalDuty(calibrator, DtMs))
  <2>1. next # None /\ done \in BOOLEAN
    BY <1>3, CalStepType, TimingAssumption, NoneAssumption DEF TypeInv, TypeOK
  <2>2. /\ PowerDownIf(done, held) /\ pc' = "check"
        /\ calibrator' = IF done THEN None ELSE next
        /\ state' = IF done THEN "IDLE" ELSE state
    BY <1>3 DEF Calibrate, CalibratorStep, ToCheck
  <2> HIDE DEF next, done, held
  <2> QED
    BY <2>1, <2>2 DEF PowerDownIf, RelayInv, RelayOnlyWhileRunning
<1> QED
  BY <1>2, <1>3

(* A ramp down, which opens the relay where it ends.                       *)
LEMMA RampDownRelay ==
  ASSUME TypeInv, RelayInv, RampDown
  PROVE  RelayInv'
<1> DEFINE done == IF ramp = None THEN TRUE ELSE RampTick(ramp, DtMs).done
           held == IF ramp = None THEN motor ELSE SetDemand(motor, RampValue(RampTick(ramp, DtMs)))
<1>1. /\ PowerDownIf(done, held) /\ pc' = "check" /\ UNCHANGED calibrator
      /\ state' = IF done THEN "IDLE" ELSE state
  BY DEF RampDown, ToCheck
<1> HIDE DEF done, held
<1> QED
  BY <1>1 DEF PowerDownIf, RelayInv, RelayOnlyWhileRunning

(* Every step of every task keeps the invariant. *)
LEMMA RelayStep ==
  ASSUME TypeInv, RelayInv, [Next]_vars
  PROVE  RelayInv'
<1>1. CASE UNCHANGED vars
  BY <1>1 DEF vars, power, locals, loop, RelayInv, RelayOnlyWhileRunning
<1>2. CASE Iterate
  BY <1>2, RestRelay, RunRelay, CalibrateRelay, RampDownRelay DEF Iterate
<1> QED
  BY <1>1, <1>2, OthersRelay DEF Next

(* Preempted or not, no iteration leaves the relay closed in a state that   *)
(* is not one of a run: only Start closes it, into a run, and whatever ends *)
(* a run or trips in the middle of an iteration opens it (main.rs, every    *)
(* arm that writes the state).                                              *)
THEOREM RelayNeedsRun == Spec => []RelayOnlyWhileRunning
<1>1. Init => RelayInv
  BY DEF Init, RelayInv, RelayOnlyWhileRunning
<1>2. RelayInv => RelayOnlyWhileRunning
  BY DEF RelayInv
<1> QED
  BY <1>1, <1>2, TypeInvariant, RelayStep, PTL DEF Spec
=============================================================================
