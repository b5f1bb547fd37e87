---------------------------- MODULE SafetyProofs ----------------------------
(***************************************************************************)
(* The safety of Governor as it is built: the safety supervisor does not   *)
(* preempt an iteration of state_manager.  One inductive invariant carries *)
(* the relay, the motor, the trips and the run context; the interlock and  *)
(* the latching of trips follow from it. Then what the core does to the    *)
(* plant besides its power: the order of the load bank's relays, the       *)
(* shedding of a fault, the times and the ramps of a run.                  *)
(***************************************************************************)
EXTENDS GovernorProofs

(* What an iteration read is still so when it acts on it; and an iteration  *)
(* that ends in a trip began in it.                                         *)
CurFresh ==
  /\ pc = "handle" => cur = state
  /\ pc = "check" /\ state \in Tripped => cur = state
  /\ sup_ran => pc = "await"

PowerSafe ==
  /\ state \in Running => relay = TRUE
  /\ state \notin Running => relay = FALSE /\ Drive(motor) = 0

(* A hazard the supervisor saw holds a trip, or the trip has just been      *)
(* cleared and no iteration can begin before the supervisor looks again.    *)
HazardHeld ==
  hazard_seen => \/ state \in Tripped
                 \/ state = "IDLE" /\ ~sup_ran /\ pc # "handle"

SafeInv ==
  TypeInv /\ CurFresh /\ PowerSafe /\ FaultAccounted /\ RunContext /\ HazardHeld

-----------------------------------------------------------------------------
(* Running, tripped and idle states are disjoint. *)
LEMMA StateSets ==
  /\ Running \cap Tripped = {}
  /\ \A s \in {"BOOT", "IDLE", "CONFIGURED"} : s \notin Running /\ s \notin Tripped
  /\ "RAMP_DOWN" \in Running
  /\ DeadlineStates \cap Tripped = {}
BY DEF Running, Tripped, DeadlineStates

(* The reset state is safe. *)
LEMMA InitSafe == Init => SafeInv
<1> SUFFICES ASSUME Init PROVE SafeInv
  OBVIOUS
<1>1. TypeInv
  BY InitType
<1>2. CurFresh /\ HazardHeld
  BY DEF Init, CurFresh, HazardHeld, Tripped
<1>3. Drive(motor) = 0
  BY FullDemandAssumption DEF Init, NewMotor, Drive
<1>4. PowerSafe /\ FaultAccounted /\ RunContext
  BY <1>3 DEF Init, PowerSafe, FaultAccounted, RunContext, Running
<1> QED
  BY <1>1, <1>2, <1>4 DEF SafeInv

(* A supervisor pass between two iterations keeps SafeInv. *)
LEMMA SupervisorSafe ==
  ASSUME ~SupervisorPreempts, SafeInv, TypeInv', SupervisorTick
  PROVE  SafeInv'
<1> USE DEF SafeInv
<1>0. pc = "await" /\ pc' = "await"
  BY DEF SupervisorTick, EstopTick, RpmTripTick, BusTripTick, QuietTick,
         SupervisorReady, SupervisorFrame, loop
<1>1. motor \in MotorState /\ None \notin Fault
  BY NoneAssumption DEF TypeInv, TypeOK
<1>2. CASE EstopTick
  <2>1. state' = "ESTOP" /\ relay' = FALSE /\ Drive(motor') = 0
    BY <1>1, <1>2, CutPowerType DEF EstopTick
  <2> QED
    BY <1>0, <2>1 DEF CurFresh, PowerSafe, FaultAccounted, RunContext, HazardHeld,
                      Running, Tripped
<1>3. ASSUME NEW bus \in BusReadings, RpmTripTick(bus)
      PROVE  SafeInv'
  <2>1. relay' = FALSE /\ Drive(motor') = 0
    BY <1>1, <1>3, CutPowerType DEF RpmTripTick
  <2>2. state' \in Tripped /\ (state' = "FAULT" => last_fault' # None)
    BY <1>1, <1>3, RpmFaultType DEF RpmTripTick, TripTo, Tripped, FaultAccounted
  <2> QED
    BY <1>0, <2>1, <2>2 DEF CurFresh, PowerSafe, FaultAccounted, RunContext,
                            HazardHeld, Running, Tripped
<1>4. ASSUME NEW bus \in BusReadings, BusTripTick(bus)
      PROVE  SafeInv'
  <2>1. /\ state' = "FAULT" /\ last_fault' # None
        /\ relay' = FALSE /\ Drive(motor') = 0
    BY <1>1, <1>4, CutPowerType, BusFaultType DEF BusTripTick, TripTo
  <2> QED
    BY <1>0, <2>1 DEF CurFresh, PowerSafe, FaultAccounted, RunContext, HazardHeld,
                      Running, Tripped
<1>5. ASSUME NEW bus \in BusReadings, QuietTick(bus)
      PROVE  SafeInv'
  BY <1>0, <1>5 DEF QuietTick, SupervisorFrame, CurFresh, PowerSafe,
     FaultAccounted, RunContext, HazardHeld, power, options, locals
<1> QED
  BY <1>2, <1>3, <1>4, <1>5 DEF SupervisorTick

(* The steps that touch nothing the invariant is about but where the        *)
(* iteration is.                                                            *)
LEMMA QuietSafe ==
  ASSUME SafeInv, TypeInv',
         \/ \E c \in Commands : UartRx(c)
         \/ \E rpm \in Rpms : TelemetryTick(rpm)
         \/ Fetch \/ OnHello \/ UNCHANGED vars
  PROVE  SafeInv'
<1>1. /\ UNCHANGED <<state, last_fault, motor, relay, run_config, calibrator,
                     ramp, hazard_seen>>
      /\ CurFresh'
      /\ pc' = "handle" => sup_ran \/ pc = "handle"
      /\ sup_ran' => sup_ran
  BY DEF SafeInv, CurFresh, UartRx, TelemetryTick, Fetch, OnHello, EndIteration,
         vars, power, options, locals, loop, sensors
<1> QED
  BY <1>1 DEF SafeInv, CurFresh, PowerSafe, FaultAccounted, RunContext, HazardHeld

(* EmergencyStop and Stop keep SafeInv. *)
LEMMA StopSafe ==
  ASSUME SafeInv, TypeInv', OnEmergencyStop \/ StopRun
  PROVE  SafeInv'
<1> USE DEF SafeInv
<1>1. CASE OnEmergencyStop
  <2>1. /\ state' = "ESTOP" /\ pc' = "await"
        /\ relay' = FALSE /\ Drive(motor') = 0
    BY <1>1, CutPowerType DEF OnEmergencyStop, EndIteration, TypeInv, TypeOK
  <2> QED
    BY <2>1 DEF CurFresh, PowerSafe, FaultAccounted, RunContext, HazardHeld,
                Running, Tripped
<1>2. CASE StopRun
  <2>1. state \in Running /\ state' = "RAMP_DOWN" /\ pc' = "await"
    BY <1>2 DEF StopRun, EndIteration, CurFresh
  <2>2. UNCHANGED <<last_fault, motor, relay, run_config, hazard_seen, sup_ran>>
    BY <1>2 DEF StopRun, EndIteration, power, options, sensors
  <2>3. ramp' # None /\ ramp'.end = 0
    BY <1>2, RampDownFromType, NoneAssumption DEF StopRun, TypeInv, TypeOK
  <2> QED
    BY <2>1, <2>2, <2>3 DEF CurFresh, PowerSafe, FaultAccounted, RunContext,
                            HazardHeld, Running, Tripped
<1> QED
  BY <1>1, <1>2

(* An arm that goes on in, or into, no running state leaves no power.       *)
LEMMA BootSafe ==
  ASSUME SafeInv, TypeInv', Boot
  PROVE  SafeInv'
<1>1. cur = state /\ state = "BOOT" /\ state' \in {"BOOT", "IDLE"}
  BY DEF SafeInv, CurFresh, Boot, Arm
<1>2. relay' = FALSE /\ Drive(motor') = 0
  BY <1>1, StateSets, CutPowerType DEF SafeInv, PowerSafe, Boot, TypeInv, TypeOK
<1>3. /\ UNCHANGED <<last_fault, hazard_seen, sup_ran>> /\ pc' = "check"
      /\ pc = "handle"
  BY DEF Boot, Arm, ToCheck, sensors
<1>4. ~hazard_seen'
  BY <1>1, <1>3, StateSets DEF SafeInv, HazardHeld
<1>5. ~sup_ran'
  BY <1>3 DEF SafeInv, CurFresh
<1> QED
  BY <1>1, <1>2, <1>3, <1>4, <1>5 DEF SafeInv, CurFresh, PowerSafe, FaultAccounted,
     RunContext, HazardHeld, Running, Tripped

(* The IDLE arm keeps SafeInv. *)
LEMMA IdleSafe ==
  ASSUME SafeInv, TypeInv', Idle
  PROVE  SafeInv'
<1>1. cur = state /\ state = "IDLE" /\ state' \in {"IDLE", "CONFIGURED"}
  BY DEF SafeInv, CurFresh, Idle, Arm
<1>2. relay' = FALSE /\ Drive(motor') = 0
  <2>1. relay' = FALSE
    BY <1>1, StateSets DEF SafeInv, PowerSafe, Idle
  <2>2. /\ Disable(motor) \in MotorState /\ Bounded(Disable(motor))
        /\ Drive(Disable(motor)) = 0
    BY DisableType DEF SafeInv, TypeInv, TypeOK
  <2>3. CASE cmd.op = "Configure"
    <3>1. cmd.config.max_duty_clamp \in Int
      BY <2>3, CommandType DEF SafeInv, TypeInv, TypeOK, RunConfig
    <3> QED
      BY <2>1, <2>2, <2>3, <3>1, SetMaxDemandType DEF Idle
  <2>4. CASE cmd.op # "Configure"
    BY <2>1, <2>2, <2>4 DEF Idle
  <2> QED
    BY <2>3, <2>4
<1>3. UNCHANGED <<hazard_seen, sup_ran>> /\ pc' = "check" /\ pc = "handle"
  BY DEF Idle, Arm, ToCheck, sensors
<1>4. ~hazard_seen'
  BY <1>1, <1>3, StateSets DEF SafeInv, HazardHeld
<1>5. ~sup_ran'
  BY <1>3 DEF SafeInv, CurFresh
<1>6. state' = "CONFIGURED" => run_config' # None /\ last_fault' = None
  BY <1>1, CommandType, NoneAssumption DEF SafeInv, TypeInv, TypeOK, Idle
<1> QED
  BY <1>1, <1>2, <1>3, <1>4, <1>5, <1>6 DEF SafeInv, CurFresh, PowerSafe,
     FaultAccounted, RunContext, HazardHeld, Running, Tripped

(* Start keeps SafeInv, and closes the relay on a motor at rest. *)
LEMMA StartSafe ==
  ASSUME SafeInv, TypeInv', Start
  PROVE  SafeInv' /\ state = "CONFIGURED" /\ Drive(motor') = 0
<1>1. cur = state /\ state = "CONFIGURED"
      /\ state' \in {"CALIBRATE", "MANUAL", "SPOOLUP"}
  BY DEF SafeInv, CurFresh, Start, StartState, Arm
<1>2. UNCHANGED <<last_fault, run_config, hazard_seen, sup_ran>>
      /\ pc' = "check" /\ pc = "handle" /\ relay' = TRUE
  BY DEF Start, Arm, ToCheck, options, sensors
<1>3. state' = "CALIBRATE" => calibrator' # None
  BY NewCalibratorType, NoneAssumption DEF Start, StartState
<1>4. ~hazard_seen'
  BY <1>1, <1>2, StateSets DEF SafeInv, HazardHeld
<1>5. ~sup_ran'
  BY <1>2 DEF SafeInv, CurFresh
<1>6. Drive(motor') = 0
  BY <1>1, StateSets DEF SafeInv, TypeInv, TypeOK, PowerSafe, Start, Enable, Drive,
                         MotorState
<1>7. run_config' # None /\ last_fault' = None
  BY <1>1, <1>2 DEF SafeInv, RunContext, FaultAccounted
<1> QED
  BY <1>1, <1>2, <1>3, <1>4, <1>5, <1>6, <1>7 DEF SafeInv, CurFresh, PowerSafe,
     FaultAccounted, RunContext, HazardHeld, Running, Tripped

(* The rest of the CONFIGURED arm keeps SafeInv. *)
LEMMA ConfiguredSafe ==
  ASSUME SafeInv, TypeInv', Configured
  PROVE  SafeInv'
<1>1. cur = state /\ state = "CONFIGURED" /\ state' \in {"IDLE", "CONFIGURED"}
  BY DEF SafeInv, CurFresh, Configured, Arm
<1>2. relay' = FALSE /\ Drive(motor') = 0
  <2>1. relay' = FALSE
    BY <1>1, StateSets DEF SafeInv, PowerSafe, Configured
  <2>2. motor \in MotorState /\ Bounded(motor) /\ Drive(motor) = 0
    BY <1>1, StateSets DEF SafeInv, PowerSafe, TypeInv, TypeOK
  <2>3. CASE cmd.op = "Configure"
    <3>1. cmd.config.max_duty_clamp \in Int
      BY <2>3, CommandType DEF SafeInv, TypeInv, TypeOK, RunConfig
    <3> QED
      BY <2>1, <2>2, <2>3, <3>1, SetMaxDemandType DEF Configured
  <2>4. CASE cmd.op # "Configure"
    BY <2>1, <2>2, <2>4 DEF Configured
  <2> QED
    BY <2>3, <2>4
<1>3. /\ UNCHANGED <<last_fault, hazard_seen, sup_ran>> /\ pc' = "check"
      /\ pc = "handle"
  BY DEF Configured, Arm, ToCheck, sensors
<1>4. ~hazard_seen'
  BY <1>1, <1>3, StateSets DEF SafeInv, HazardHeld
<1>5. ~sup_ran'
  BY <1>3 DEF SafeInv, CurFresh
<1>6. last_fault' = None /\ (state' = "CONFIGURED" => run_config' # None)
  <2>1. last_fault = None /\ run_config # None
    BY <1>1 DEF SafeInv, FaultAccounted, RunContext
  <2> QED
    BY <1>3, <2>1, CommandType, NoneAssumption
       DEF SafeInv, TypeInv, TypeOK, Configured
<1> QED
  BY <1>1, <1>2, <1>3, <1>4, <1>5, <1>6 DEF SafeInv, CurFresh, PowerSafe,
     FaultAccounted, RunContext, HazardHeld, Running, Tripped

(* SPOOLUP, EXCITE, PLL_LOCK and the regulated states: the run goes on.     *)
LEMMA RunSafe ==
  ASSUME SafeInv, TypeInv',
         SpoolRamp \/ SpoolHold \/ Excite \/ PllLock \/ Regulate \/ Manual
  PROVE  SafeInv'
<1>1. /\ cur = state /\ state \in Running /\ state' \in Running
      /\ state' # "CALIBRATE"
  BY DEF SafeInv, CurFresh, SpoolRamp, SpoolHold, Excite, PllLock, Placeholder,
         Regulate, RegulatedState, Manual, Arm, Running
<1>2. UNCHANGED <<last_fault, relay, run_config, hazard_seen, sup_ran>>
      /\ pc' = "check" /\ pc = "handle"
  BY DEF SpoolRamp, SpoolHold, Excite, PllLock, Placeholder, Regulate, Manual, Arm,
         ToCheck, options, sensors
<1>3. state' = "RAMP_DOWN" => ramp' # None /\ ramp'.end = 0
  <2>1. \A m \in MotorState : RampDownFrom(m) # None /\ RampDownFrom(m).end = 0
    BY RampDownFromType, NoneAssumption DEF SafeInv, TypeInv, TypeOK
  <2>2. motor \in MotorState /\ motor' \in MotorState
    BY DEF SafeInv, TypeInv, TypeOK
  <2> QED
    BY <1>1, <2>1, <2>2 DEF SpoolRamp, SpoolHold, Excite, PllLock, Placeholder,
       Regulate, RegulatedState, Manual, Arm
<1>4. ~hazard_seen'
  BY <1>1, <1>2, StateSets DEF SafeInv, HazardHeld, Running
<1>5. ~sup_ran'
  BY <1>2 DEF SafeInv, CurFresh
<1>6. relay' = TRUE /\ last_fault' = None /\ run_config' # None
  BY <1>1, <1>2 DEF SafeInv, PowerSafe, FaultAccounted, RunContext
<1>7. state' \notin Tripped /\ state' # "FAULT"
  BY <1>1 DEF Running, Tripped
<1> QED
  BY <1>1, <1>2, <1>3, <1>4, <1>5, <1>6, <1>7 DEF SafeInv, CurFresh, PowerSafe,
     FaultAccounted, RunContext, HazardHeld

(* CALIBRATE and RAMP_DOWN: the run goes on, or it ends without power.      *)
LEMMA CalibrateSafe ==
  ASSUME SafeInv, TypeInv', Calibrate
  PROVE  SafeInv'
<1>1. /\ cur = state /\ state = "CALIBRATE" /\ calibrator # None
      /\ CalibratorStep
  BY DEF SafeInv, CurFresh, RunContext, Calibrate, Arm
<1>2. UNCHANGED <<last_fault, run_config, hazard_seen, sup_ran>>
      /\ pc' = "check" /\ pc = "handle"
  BY <1>1 DEF CalibratorStep, Calibrate, Arm, ToCheck, sensors
<1>3. \/ state' = "IDLE" /\ relay' = FALSE /\ Drive(motor') = 0
      \/ state' = "CALIBRATE" /\ relay' = relay /\ calibrator' # None
  <2> DEFINE next == CalStep(calibrator, DtMs)
             done == next.phase = "Done"
             held == SetDemand(motor, CalDuty(calibrator, DtMs))
  <2>1. /\ calibrator \in CalState /\ InTable(calibrator)
        /\ motor \in MotorState /\ Bounded(motor) /\ relay \in BOOLEAN
    BY <1>1 DEF SafeInv, TypeInv, TypeOK
  <2>2. next \in CalState /\ next # None /\ done \in BOOLEAN
    BY <2>1, CalStepType, TimingAssumption, NoneAssumption
  <2>3. held \in MotorState /\ Bounded(held)
    BY <2>1, CalStepType, SetDemandType, TimingAssumption
  <2>4. /\ PowerDownIf(done, held)
        /\ calibrator' = IF done THEN None ELSE next
        /\ state' = IF done THEN "IDLE" ELSE state
    BY <1>1 DEF CalibratorStep
  <2> HIDE DEF next, done, held
  <2> QED
    BY <1>1, <2>1, <2>2, <2>3, <2>4, PowerDownIfType
<1>4. ~hazard_seen'
  BY <1>1, <1>2, StateSets DEF SafeInv, HazardHeld, Tripped
<1>5. ~sup_ran'
  BY <1>2 DEF SafeInv, CurFresh
<1>6. relay = TRUE /\ last_fault' = None /\ run_config' # None
  BY <1>1, <1>2 DEF SafeInv, PowerSafe, FaultAccounted, RunContext, Running
<1> QED
  BY <1>2, <1>3, <1>4, <1>5, <1>6 DEF SafeInv, CurFresh, PowerSafe,
     FaultAccounted, RunContext, HazardHeld, Running, Tripped

(* The RAMP_DOWN arm keeps SafeInv, the end of the ramp included. *)
LEMMA RampDownSafe ==
  ASSUME SafeInv, TypeInv', RampDown
  PROVE  SafeInv'
<1>1. cur = state /\ state = "RAMP_DOWN" /\ ramp # None /\ ramp.end = 0
  BY DEF SafeInv, CurFresh, RunContext, RampDown, Arm
<1>2. UNCHANGED <<last_fault, run_config, hazard_seen, sup_ran>>
      /\ pc' = "check" /\ pc = "handle"
  BY DEF RampDown, Arm, ToCheck, options, sensors
<1>3. \/ state' = "IDLE" /\ relay' = FALSE /\ Drive(motor') = 0
      \/ state' = "RAMP_DOWN" /\ relay' = relay /\ ramp' # None /\ ramp'.end = 0
  <2> DEFINE r    == RampTick(ramp, DtMs)
             held == SetDemand(motor, RampValue(r))
  <2>1. /\ ramp \in RampState
        /\ motor \in MotorState /\ Bounded(motor) /\ relay \in BOOLEAN
    BY <1>1 DEF SafeInv, TypeInv, TypeOK
  <2>2. r \in RampState /\ r # None /\ r.end = 0
    BY <1>1, <2>1, RampTickType, TimingAssumption, NoneAssumption
  <2>3. r.done \in BOOLEAN /\ RampValue(r) \in Int
    BY <2>2, RampValueType DEF RampState
  <2>4. held \in MotorState /\ Bounded(held)
    BY <2>1, <2>3, SetDemandType
  <2>5. /\ PowerDownIf(r.done, held)
        /\ ramp' = IF r.done THEN None ELSE r
        /\ state' = IF r.done THEN "IDLE" ELSE state
    BY <1>1 DEF RampDown
  <2> HIDE DEF r, held
  <2> QED
    BY <1>1, <2>1, <2>2, <2>3, <2>4, <2>5, PowerDownIfType
<1>4. ~hazard_seen'
  BY <1>1, <1>2, StateSets DEF SafeInv, HazardHeld, Tripped
<1>5. ~sup_ran'
  BY <1>2 DEF SafeInv, CurFresh
<1>6. relay = TRUE /\ last_fault' = None /\ run_config' # None
  BY <1>1, <1>2 DEF SafeInv, PowerSafe, FaultAccounted, RunContext, Running
<1> QED
  BY <1>2, <1>3, <1>4, <1>5, <1>6 DEF SafeInv, CurFresh, PowerSafe,
     FaultAccounted, RunContext, HazardHeld, Running, Tripped

(* FAULT and ESTOP keep SafeInv, clearing included: IDLE is entered with    *)
(* the supervisor yet to look again.                                        *)
LEMMA HoldSafe ==
  ASSUME SafeInv, TypeInv', FaultHold \/ EstopHold
  PROVE  SafeInv'
<1>1. /\ cur = state /\ state \in Tripped
      /\ state' = state \/ state' = "IDLE"
  BY DEF SafeInv, CurFresh, FaultHold, EstopHold, Arm, Tripped
<1>2. relay' = FALSE /\ Drive(motor') = 0
  BY CutPowerType DEF SafeInv, TypeInv, TypeOK, FaultHold, EstopHold
<1>3. UNCHANGED <<cur, hazard_seen, sup_ran>> /\ pc' = "check" /\ pc = "handle"
  BY DEF FaultHold, EstopHold, Arm, ToCheck, sensors
<1>4. state' = "FAULT" => last_fault' # None
  BY <1>1 DEF SafeInv, FaultAccounted, FaultHold, EstopHold, Arm
<1>5. ~sup_ran'
  BY <1>3 DEF SafeInv, CurFresh
<1> QED
  BY <1>1, <1>2, <1>3, <1>4, <1>5 DEF SafeInv, CurFresh, PowerSafe, FaultAccounted,
     RunContext, HazardHeld, Running, Tripped

(* The deadline check keeps SafeInv: it trips only the state its iteration  *)
(* began in.                                                                *)
LEMMA DeadlineCheckSafe ==
  ASSUME SafeInv, TypeInv', NEW over \in BOOLEAN, DeadlineCheck(over)
  PROVE  SafeInv'
<1>1. UNCHANGED <<run_config, calibrator, hazard_seen, sup_ran>>
      /\ pc' = "await" /\ pc = "check"
  BY DEF DeadlineCheck, EndIteration, options, sensors
<1>2. CASE DeadlineMissed(wcet', cur, over)
  <2>1. /\ state' = "FAULT" /\ last_fault' = "DeadlineMiss"
        /\ relay' = FALSE /\ Drive(motor') = 0
    BY <1>2, CutPowerType
       DEF SafeInv, TypeInv, TypeOK, DeadlineCheck, DeadlineTrip, TripTo
  <2>2. last_fault' # None
    BY <2>1, NoneAssumption DEF Fault
  <2> QED
    BY <1>1, <2>1, <2>2 DEF SafeInv, CurFresh, PowerSafe, FaultAccounted,
       RunContext, HazardHeld, Running, Tripped
<1>3. CASE ~DeadlineMissed(wcet', cur, over)
  <2>1. UNCHANGED <<motor, relay, last_fault, state, ramp>>
    BY <1>3 DEF DeadlineCheck
  <2> QED
    BY <1>1, <2>1 DEF SafeInv, CurFresh, PowerSafe, FaultAccounted, RunContext,
                      HazardHeld
<1> QED
  BY <1>2, <1>3

(* Every step of every task keeps SafeInv. *)
LEMMA SafeInductive ==
  ASSUME ~SupervisorPreempts
  PROVE  SafeInv /\ [Next]_vars => SafeInv'
<1> SUFFICES ASSUME SafeInv, [Next]_vars
             PROVE  SafeInv'
  OBVIOUS
<1>1. TypeInv'
  BY TypeInductive DEF SafeInv
<1>2. CASE Iterate
  BY <1>1, <1>2, QuietSafe, StopSafe, BootSafe, IdleSafe, StartSafe,
     ConfiguredSafe, RunSafe, CalibrateSafe, RampDownSafe, HoldSafe,
     DeadlineCheckSafe DEF Iterate
<1> QED
  BY <1>1, <1>2, SupervisorSafe, QuietSafe DEF Next

(* SafeInv holds in every reachable state of the build whose supervisor     *)
(* cannot preempt an iteration.                                             *)
THEOREM SafeInvariant ==
  ASSUME ~SupervisorPreempts
  PROVE  Spec => []SafeInv
BY InitSafe, SafeInductive, PTL DEF Spec

-----------------------------------------------------------------------------
(* The motor relay is closed exactly in the states that is_running calls    *)
(* energized: no trip, Stop, completion or boot leaves it behind (main.rs,  *)
(* every arm that writes the state or the relay pin).                       *)
THEOREM RelayFollowsState ==
  ASSUME ~SupervisorPreempts
  PROVE  Spec => []RelayIffRunning
<1>1. SafeInv => RelayIffRunning
  BY DEF SafeInv, PowerSafe, RelayIffRunning
<1> QED
  BY <1>1, SafeInvariant, PTL

(* The motor gets power only in a running state and from an enabled         *)
(* controller.                                                              *)
THEOREM DriveFollowsState ==
  ASSUME ~SupervisorPreempts
  PROVE  Spec => []DriveOnlyWhileRunning
<1>1. SafeInv => DriveOnlyWhileRunning
  BY DEF SafeInv, PowerSafe, DriveOnlyWhileRunning, TypeInv, Bounded, Drive
<1> QED
  BY <1>1, SafeInvariant, PTL

(* After a supervisor pass that saw an E-stop or a bad speed the machine is *)
(* without power at least until the next pass, whatever commands come.      *)
THEOREM HazardHoldsPower ==
  ASSUME ~SupervisorPreempts
  PROVE  Spec => []HazardCutsPower
<1>1. SafeInv => HazardCutsPower
  BY StateSets DEF SafeInv, PowerSafe, HazardHeld, HazardCutsPower
<1> QED
  BY <1>1, SafeInvariant, PTL

(* FAULT always has a cause to report, and none outlives the Configure that *)
(* precedes a run.                                                          *)
THEOREM FaultHasCause ==
  ASSUME ~SupervisorPreempts
  PROVE  Spec => []FaultAccounted
<1>1. SafeInv => FaultAccounted
  BY DEF SafeInv
<1> QED
  BY <1>1, SafeInvariant, PTL

(* A running state finds its run config, calibrator and ramp, so the        *)
(* fallbacks of CALIBRATE and RAMP_DOWN are dead code.                      *)
THEOREM RunHasContext ==
  ASSUME ~SupervisorPreempts
  PROVE  Spec => []RunContext
<1>1. SafeInv => RunContext
  BY DEF SafeInv
<1> QED
  BY <1>1, SafeInvariant, PTL

-----------------------------------------------------------------------------
(* Power begins nowhere but in CONFIGURED's Start, and without drive. *)
LEMMA OnlyStartRuns ==
  ASSUME ~SupervisorPreempts, SafeInv, [Next]_vars,
         state \notin Running, state' \in Running
  PROVE  Start
<1>1. ~SupervisorTick
  BY DEF SafeInv, SupervisorTick, EstopTick, RpmTripTick, BusTripTick, QuietTick,
         TripTo, power, Running
<1>2. ~(\E over \in BOOLEAN : DeadlineCheck(over))
  BY DEF DeadlineCheck, DeadlineTrip, TripTo, Running
<1>3. ~(OnEmergencyStop \/ OnHello \/ Fetch \/ Boot \/ Idle \/ Configured)
  BY DEF OnEmergencyStop, OnHello, Fetch, Boot, Idle, Configured, Running
<1>4. ~(FaultHold \/ EstopHold)
  BY DEF FaultHold, EstopHold, Running
<1>5. ~(StopRun \/ Calibrate \/ SpoolRamp \/ SpoolHold \/ Excite \/ PllLock
        \/ Regulate \/ Manual \/ RampDown)
  BY DEF SafeInv, CurFresh, StopRun, Calibrate, SpoolRamp, SpoolHold, Excite,
         PllLock, Placeholder, Regulate, Manual, RampDown, Arm, Running
<1>6. ~(UNCHANGED vars \/ (\E c \in Commands : UartRx(c))
        \/ (\E rpm \in Rpms : TelemetryTick(rpm)))
  BY DEF vars, UartRx, TelemetryTick
<1> QED
  BY <1>1, <1>2, <1>3, <1>4, <1>5, <1>6 DEF Next, Iterate

(* Governor implements the interlock: power is on exactly while a run       *)
(* lasts, begins without drive, and a trip is left only for a stop.         *)
THEOREM InterlockImplemented ==
  ASSUME ~SupervisorPreempts
  PROVE  Spec => ImplementsInterlock
<1>1. Init => Abstract!IInit
  BY FullDemandAssumption DEF Init, Abstract!IInit, Mode, Drive, NewMotor, Running,
     Tripped
<1>2. SafeInv /\ SafeInv' /\ [Next]_vars => [Abstract!INext]_(Abstract!ivars)
  <2> SUFFICES ASSUME SafeInv, SafeInv', [Next]_vars
               PROVE  [Abstract!INext]_(Abstract!ivars)
    OBVIOUS
  <2>1. Drive(motor') \in 0 .. FullDemand
    BY InvertedDemand DEF SafeInv, TypeInv, TypeOK, MotorState, Demand, Drive
  <2>2. CASE state' \in Tripped
    <3>1. relay' = FALSE /\ Drive(motor') = 0 /\ Mode' = "Tripped"
      BY <2>2, StateSets DEF SafeInv, PowerSafe, Mode
    <3> QED
      BY <3>1 DEF Abstract!INext, Abstract!Trip
  <2>3. CASE state' \in Running /\ state \in Running
    <3>1. Mode = "Running" /\ Mode' = "Running" /\ relay' = relay
      BY <2>3, StateSets DEF SafeInv, PowerSafe, Mode
    <3> QED
      BY <2>1, <3>1 DEF Abstract!INext, Abstract!Run
  <2>4. CASE state' \in Running /\ state \notin Running
    <3>1. SafeInv' /\ state = "CONFIGURED" /\ Drive(motor') = 0
      BY <2>4, OnlyStartRuns, StartSafe DEF SafeInv
    <3>2. Mode = "Stopped" /\ Mode' = "Running" /\ relay' = TRUE
      BY <2>4, <3>1, StateSets DEF SafeInv, PowerSafe, Mode
    <3> QED
      BY <3>1, <3>2 DEF Abstract!INext, Abstract!Begin
  <2>5. CASE state' \notin Running /\ state' \notin Tripped
    <3>1. relay' = FALSE /\ Drive(motor') = 0 /\ Mode' = "Stopped"
      BY <2>5 DEF SafeInv, PowerSafe, Mode
    <3>2. CASE state \in Running
      <4>1. Mode = "Running"
        BY <3>2, StateSets DEF Mode
      <4> QED
        BY <3>1, <4>1 DEF Abstract!INext, Abstract!End
    <3>3. CASE state \notin Running
      <4>1. relay = FALSE /\ Drive(motor) = 0 /\ Mode \in {"Tripped", "Stopped"}
        BY <3>3 DEF SafeInv, PowerSafe, Mode
      <4> QED
        BY <3>1, <4>1 DEF Abstract!INext, Abstract!Reset, Abstract!ivars
    <3> QED
      BY <3>2, <3>3
  <2> QED
    BY <2>2, <2>3, <2>4, <2>5
<1> QED
  BY <1>1, <1>2, SafeInvariant, PTL DEF Spec, ImplementsInterlock, Abstract!ISpec

(* Only an EmergencyStop, an E-stop pass and its own arm do anything to a   *)
(* tripped state or to its cause.                                           *)
LEMMA TrippedSteps ==
  ASSUME SafeInv, [Next]_vars, state \in Tripped
  PROVE  \/ TripHeld
         \/ EstopTick \/ OnEmergencyStop \/ FaultHold \/ EstopHold
<1>1. CASE SupervisorTick
  BY <1>1 DEF SupervisorTick, RpmTripTick, BusTripTick, QuietTick, TripHeld
<1>2. CASE \E over \in BOOLEAN : DeadlineCheck(over)
  <2>1. \A over \in BOOLEAN : DeadlineCheck(over) => cur \in Tripped
    BY DEF SafeInv, CurFresh, DeadlineCheck
  <2> QED
    BY <1>2, <2>1, StateSets DEF DeadlineCheck, DeadlineMissed, TripHeld
<1>3. CASE OnEmergencyStop \/ OnHello \/ Fetch
  BY <1>3 DEF OnHello, Fetch, TripHeld
<1>4. ~(Boot \/ Idle \/ Start \/ Configured)
  BY DEF SafeInv, CurFresh, Boot, Idle, Start, Configured, Arm, Tripped
<1>5. ~(StopRun \/ Calibrate \/ SpoolRamp \/ SpoolHold \/ Excite \/ PllLock
        \/ Regulate \/ Manual \/ RampDown)
  BY DEF SafeInv, CurFresh, StopRun, Calibrate, SpoolRamp, SpoolHold, Excite,
         PllLock, Placeholder, Regulate, Manual, RampDown, Arm, Running, Tripped
<1>6. CASE UNCHANGED vars \/ (\E c \in Commands : UartRx(c))
           \/ (\E rpm \in Rpms : TelemetryTick(rpm))
  BY <1>6 DEF vars, UartRx, TelemetryTick, TripHeld
<1> QED
  BY <1>1, <1>2, <1>3, <1>4, <1>5, <1>6 DEF Next, Iterate

(* A trip keeps its state and its first cause until an operator clears it:  *)
(* no other command, no supervisor pass and no deadline miss ends it or     *)
(* puts another cause in place; an E-stop may take a FAULT over.            *)
THEOREM TripsLatch ==
  ASSUME ~SupervisorPreempts
  PROVE  Spec => TripLatched
<1>1. SafeInv /\ [Next]_vars
        => [InTrip => TripHeld \/ TakenOver \/ ClearedByOperator]_vars
  <2> SUFFICES ASSUME SafeInv, [Next]_vars, state \in Tripped
               PROVE  TripHeld \/ TakenOver \/ ClearedByOperator
    BY DEF InTrip
  <2>1. CASE EstopTick
    BY <2>1 DEF EstopTick, TripHeld, TakenOver, Tripped
  <2>2. CASE OnEmergencyStop
    BY <2>2 DEF OnEmergencyStop, TripHeld, TakenOver, Tripped
  <2>3. CASE FaultHold \/ EstopHold
    BY <2>3 DEF FaultHold, EstopHold, Cleared, TripHeld, ClearedByOperator
  <2> QED
    BY <2>1, <2>2, <2>3, TrippedSteps
<1> QED
  BY <1>1, SafeInvariant, PTL DEF Spec, TripLatched

-----------------------------------------------------------------------------
(* The load bank. *)

(* LoadOrdered, as a property of any bank. *)
Ordered(b) ==
  /\ b.step_2 => b.step_1
  /\ b.level = (IF b.step_1 THEN 1 ELSE 0) + (IF b.step_2 THEN 1 ELSE 0)

(* A single step up or down keeps a bank in order. *)
LEMMA StepOrdered ==
  ASSUME NEW b \in LoadState, Ordered(b)
  PROVE  Ordered(StepUp(b)) /\ Ordered(StepDown(b))
<1>1. b.step_1 \in BOOLEAN /\ b.step_2 \in BOOLEAN /\ b.level \in 0 .. 2
  BY DEF LoadState, LoadLevel
<1>2. Ordered(StepUp(b))
  <2>1. CASE b.level = 0
    BY <1>1, <2>1 DEF StepUp, Ordered, LoadState
  <2>2. CASE b.level = 1
    BY <1>1, <2>2 DEF StepUp, Ordered, LoadState
  <2>3. CASE b.level = 2
    BY <2>3 DEF StepUp
  <2> QED
    BY <1>1, <2>1, <2>2, <2>3
<1>3. Ordered(StepDown(b))
  <2>1. CASE b.level = 0
    BY <2>1 DEF StepDown
  <2>2. CASE b.level = 1
    BY <1>1, <2>2 DEF StepDown, Ordered, LoadState
  <2>3. CASE b.level = 2
    BY <1>1, <2>3 DEF StepDown, Ordered, LoadState
  <2> QED
    BY <1>1, <2>1, <2>2, <2>3
<1> QED
  BY <1>2, <1>3

(* set_level steps its way there, so it keeps the order too. *)
LEMMA SetLevelOrdered ==
  ASSUME NEW b \in LoadState, NEW target \in LoadLevel, Ordered(b)
  PROVE  Ordered(SetLevel(b, target))
<1>1. ASSUME NEW x \in LoadState, Ordered(x)
      PROVE  Toward(x, target) \in LoadState /\ Ordered(Toward(x, target))
  <2>1. /\ StepUp(x) \in LoadState /\ Ordered(StepUp(x))
        /\ StepDown(x) \in LoadState /\ Ordered(StepDown(x))
    BY <1>1, LoadType, StepOrdered
  <2> QED
    BY <1>1, <2>1 DEF Toward
<1> QED
  BY <1>1 DEF SetLevel

(* A shed bank is open, in order and without a level. *)
LEMMA ShedOrdered ==
  ASSUME NEW b \in LoadState
  PROVE  Ordered(EmergencyShed(b)) /\ EmergencyShed(b).level = 0
BY DEF EmergencyShed, Ordered, LoadState

(* No step does anything to the bank but obey a load command or shed it. *)
LEMMA LoadSteps ==
  ASSUME [Next]_vars
  PROVE  load' \in {load, LoadCommanded, EmergencyShed(load)}
<1>1. CASE SupervisorTick
  BY <1>1 DEF SupervisorTick, EstopTick, RpmTripTick, BusTripTick, QuietTick, power
<1>2. CASE (\E c \in Commands : UartRx(c)) \/ (\E rpm \in Rpms : TelemetryTick(rpm))
  BY <1>2 DEF UartRx, TelemetryTick, power
<1>3. CASE Fetch \/ OnEmergencyStop \/ OnHello \/ StopRun
           \/ (\E over \in BOOLEAN : DeadlineCheck(over))
  BY <1>3 DEF Fetch, OnEmergencyStop, OnHello, StopRun, DeadlineCheck, power
<1>4. CASE Boot \/ Idle \/ Start \/ Configured
  BY <1>4 DEF Boot, Idle, Start, Configured
<1>5. CASE Calibrate \/ SpoolRamp \/ SpoolHold \/ Excite \/ PllLock \/ Regulate
  BY <1>5 DEF Calibrate, SpoolRamp, SpoolHold, Excite, PllLock, Placeholder, Regulate
<1>6. CASE Manual \/ RampDown \/ FaultHold \/ EstopHold
  BY <1>6 DEF Manual, RampDown, FaultHold, EstopHold
<1>7. CASE UNCHANGED vars
  BY <1>7 DEF vars, power
<1> QED
  BY <1>1, <1>2, <1>3, <1>4, <1>5, <1>6, <1>7 DEF Next, Iterate

(* Load commands, trips and sheds in any order and from any task never      *)
(* close step 2 without step 1 under it, and the level that telemetry       *)
(* reports is what the relays do.                                           *)
THEOREM LoadStaysOrdered == Spec => []LoadOrdered
<1>1. Init => LoadOrdered
  BY DEF Init, NewLoadBank, LoadOrdered
<1>2. TypeInv /\ LoadOrdered /\ [Next]_vars => LoadOrdered'
  <2> SUFFICES ASSUME TypeInv, LoadOrdered, [Next]_vars
               PROVE  LoadOrdered'
    OBVIOUS
  <2>1. load \in LoadState /\ Ordered(load) /\ cmd \in Command \cup {NoCommand}
    BY CommandsAssumption DEF TypeInv, TypeOK, LoadOrdered, Ordered
  <2>2. Ordered(LoadCommanded)
    <3>1. cmd.op = "SetLoad" => cmd.level \in LoadLevel
      BY <2>1 DEF Command, NoCommand
    <3> QED
      BY <2>1, <3>1, StepOrdered, SetLevelOrdered DEF LoadCommanded
  <2>3. Ordered(load')
    BY <2>1, <2>2, LoadSteps, ShedOrdered
  <2> QED
    BY <2>3 DEF LoadOrdered, Ordered
<1> QED
  BY <1>1, <1>2, TypeInvariant, PTL DEF Spec

(* FAULT is left for IDLE only with the whole load shed, although the trips *)
(* of an rpm limit and of a deadline leave the bank engaged.                *)
THEOREM FaultClearedUnloaded ==
  ASSUME ~SupervisorPreempts
  PROVE  Spec => ClearedUnloaded
<1>1. SafeInv /\ [Next]_vars
        => [state = "FAULT" /\ state' = "IDLE" => load'.level = 0]_vars
  <2> SUFFICES ASSUME SafeInv, [Next]_vars, state = "FAULT", state' = "IDLE"
               PROVE  load'.level = 0
    OBVIOUS
  <2>1. FaultHold \/ EstopHold
    BY TrippedSteps DEF Tripped, TripHeld, EstopTick, OnEmergencyStop
  <2>2. FaultHold /\ load \in LoadState
    BY <2>1 DEF SafeInv, CurFresh, EstopHold, Arm, TypeInv, TypeOK
  <2> QED
    BY <2>2, ShedOrdered DEF FaultHold
<1> QED
  BY <1>1, SafeInvariant, PTL DEF Spec, ClearedUnloaded

-----------------------------------------------------------------------------
(* The times of a generator run. *)

(* By PLL_LOCK the run has lasted for its ramp and the excitation delay. *)
PllTimed ==
  state = "PLL_LOCK" => run_config.ramp_up_ms + ExciteMs <= run_elapsed

(* A step into or inside PLL_LOCK keeps the config and turns no time back; *)
(* only EXCITE leads there. *)
LEMMA PllSteps ==
  ASSUME ~SupervisorPreempts, SafeInv, [Next]_vars, state' = "PLL_LOCK"
  PROVE  /\ run_config' = run_config
         /\ \/ state = "PLL_LOCK" /\ run_elapsed' \in {run_elapsed, Elapsed}
            \/ Excite /\ state = "EXCITE"
<1>1. CASE SupervisorTick
  BY <1>1 DEF SupervisorTick, EstopTick, RpmTripTick, BusTripTick, QuietTick,
              TripTo, SupervisorFrame, options, locals
<1>2. CASE (\E c \in Commands : UartRx(c)) \/ (\E rpm \in Rpms : TelemetryTick(rpm))
  BY <1>2 DEF UartRx, TelemetryTick, options, locals
<1>3. CASE Fetch \/ OnHello \/ UNCHANGED vars
  BY <1>3 DEF Fetch, OnHello, vars, options, locals
<1>4. CASE \E over \in BOOLEAN : DeadlineCheck(over)
  BY <1>4 DEF DeadlineCheck, DeadlineTrip, TripTo, options
<1>5. ~(OnEmergencyStop \/ StopRun)
  BY DEF OnEmergencyStop, StopRun
<1>6. ~(Boot \/ Idle \/ Start \/ Configured)
  BY DEF SafeInv, CurFresh, Boot, Idle, Start, StartState, Configured, Arm
<1>7. ~(Calibrate \/ SpoolRamp \/ SpoolHold \/ Regulate \/ Manual \/ RampDown)
  BY DEF SafeInv, CurFresh, Calibrate, CalibratorLost, CalibratorStep, SpoolRamp,
         SpoolHold, Regulate, RegulatedState, Manual, RampDown, Arm
<1>8. ~(FaultHold \/ EstopHold)
  BY DEF SafeInv, CurFresh, FaultHold, EstopHold, Arm
<1>9. CASE Excite
  BY <1>9 DEF SafeInv, CurFresh, Excite, Placeholder, Arm, options
<1>10. CASE PllLock
  BY <1>10 DEF SafeInv, CurFresh, PllLock, Placeholder, Arm, options
<1> QED
  BY <1>1, <1>2, <1>3, <1>4, <1>5, <1>6, <1>7, <1>8, <1>9, <1>10 DEF Next, Iterate

(* In a running state the config is a run config: its ramp is a time. *)
LEMMA RampTime ==
  ASSUME SafeInv, state \in Running
  PROVE  Config = run_config /\ run_config.ramp_up_ms \in Nat
<1>1. run_config \in RunConfig
  BY DEF SafeInv, TypeInv, TypeOK, RunContext
<1> QED
  BY <1>1, NoneAssumption DEF Config, RunConfig

(* PLL_LOCK never begins before the ramp and the excitation delay are over, *)
(* so the unsigned difference its LED rate divides does not go below zero.  *)
THEOREM PllTimeNatural ==
  ASSUME ~SupervisorPreempts
  PROVE  Spec => []ElapsedInPllNatural
<1>1. Init => PllTimed
  BY DEF Init, PllTimed
<1>2. SafeInv /\ PllTimed /\ [Next]_vars => PllTimed'
  <2> SUFFICES ASSUME SafeInv, PllTimed, [Next]_vars, state' = "PLL_LOCK"
               PROVE  run_config'.ramp_up_ms + ExciteMs <= run_elapsed'
    BY DEF PllTimed
  <2>1. /\ ExciteMs \in Nat /\ DtMs \in Nat /\ MaxElapsed \in Nat
        /\ run_elapsed \in Nat /\ run_elapsed <= MaxElapsed
    BY TimingAssumption DEF SafeInv, TypeInv, TypeOK
  <2>2. Elapsed \in Nat /\ run_elapsed <= Elapsed
    BY <2>1 DEF Elapsed
  <2>3. CASE state = "PLL_LOCK" /\ run_elapsed' \in {run_elapsed, Elapsed}
    <3>1. run_config.ramp_up_ms \in Nat /\ run_config' = run_config
      BY <2>3, RampTime, PllSteps DEF Running
    <3>2. run_config.ramp_up_ms + ExciteMs <= run_elapsed
      BY <2>3 DEF PllTimed
    <3> QED
      BY <2>1, <2>2, <2>3, <3>1, <3>2
  <2>4. CASE Excite /\ state = "EXCITE"
    <3>1. /\ Config = run_config /\ run_config.ramp_up_ms \in Nat
          /\ run_config' = run_config
      BY <2>4, RampTime, PllSteps DEF Running
    <3>2. run_elapsed' = Elapsed /\ Elapsed > Config.ramp_up_ms + ExciteMs
      BY <2>4 DEF Excite, Placeholder
    <3> QED
      BY <2>1, <2>2, <3>1, <3>2
  <2> QED
    BY <2>3, <2>4, PllSteps
<1>3. SafeInv /\ PllTimed => ElapsedInPllNatural
  <2> SUFFICES ASSUME SafeInv, PllTimed, state = "PLL_LOCK"
               PROVE  ElapsedInPll >= 0
    BY DEF ElapsedInPllNatural
  <2>1. Config = run_config /\ run_config.ramp_up_ms \in Nat
    BY RampTime DEF Running
  <2>2. /\ ExciteMs \in Nat /\ DtMs \in Nat /\ MaxElapsed \in Nat
        /\ run_elapsed \in Nat /\ run_elapsed <= MaxElapsed
    BY TimingAssumption DEF SafeInv, TypeInv, TypeOK
  <2>3. Elapsed \in Nat /\ run_elapsed <= Elapsed
    BY <2>2 DEF Elapsed
  <2>4. run_config.ramp_up_ms + ExciteMs <= run_elapsed
    BY DEF PllTimed
  <2> QED
    BY <2>1, <2>2, <2>3, <2>4 DEF ElapsedInPll
<1> QED
  BY <1>1, <1>2, <1>3, SafeInvariant, PTL DEF Spec

-----------------------------------------------------------------------------
(* A graceful stop. *)

(* The further a ramp to zero has run, the lower its value, rounding or no  *)
(* rounding. *)
LEMMA FallsFurther ==
  ASSUME NEW s \in Nat, NEW d \in Nat \ {0}, NEW e \in Nat, NEW dt \in Nat
  PROVE  ((0 - s) * (e + dt)) \div d <= ((0 - s) * e) \div d
<1> DEFINE u == (0 - s) * e
           v == (0 - s) * (e + dt)
           q == u \div d
           p == v \div d
<1>1. u \in Int /\ v \in Int /\ v <= u
  <2>1. s * dt >= 0
    OBVIOUS
  <2>2. v = u - s * dt
    OBVIOUS
  <2> QED
    BY <2>1, <2>2
<1> HIDE DEF u, v
<1>2. /\ q \in Int /\ p \in Int
      /\ q * d <= u /\ u < (q + 1) * d
      /\ p * d <= v /\ v < (p + 1) * d
  BY <1>1
<1> HIDE DEF q, p
<1>3. p <= q
  <2> SUFFICES ASSUME p - q - 1 >= 0 PROVE FALSE
    BY <1>2
  <2>1. (p - q - 1) * d >= 0
    BY <1>2
  <2>2. (p - q - 1) * d = p * d - (q + 1) * d
    BY <1>2
  <2>3. p * d \in Int /\ (q + 1) * d \in Int
    BY <1>2
  <2> QED
    BY <1>1, <1>2, <2>1, <2>2, <2>3
<1> QED
  BY <1>3 DEF u, v, q, p

(* The next value of a ramp down is no higher than the demand in force. *)
Falling ==
  state = "RAMP_DOWN" =>
    /\ ~ramp.done /\ ramp.start >= 0
    /\ ClampTo(RampValue(ramp), motor.clamp) <= motor.demand

(* A ramp down that has just been made begins at the demand in force. *)
LEMMA RampDownMade ==
  ASSUME SafeInv, state \in Running, NEW m \in MotorState
  PROVE  /\ RampDownFrom(m) \in RampState
         /\ ~RampDownFrom(m).done /\ RampDownFrom(m).start >= 0
         /\ ClampTo(RampValue(RampDownFrom(m)), m.clamp) <= m.demand
<1>1. Config \in RunConfig /\ Config.ramp_down_ms \in Nat
  BY ConfigType DEF SafeInv, TypeInv, TypeOK, RunConfig
<1>2. m.demand \in Nat /\ m.demand \in Int /\ m.clamp \in Nat
  BY FullDemandAssumption DEF MotorState, Demand
<1> DEFINE r == RampDownFrom(m)
<1>3. r \in RampState /\ r.end = 0
  BY <1>1, <1>2, NewRampType DEF RampDownFrom
<1>4. r.start = m.demand /\ r.done = FALSE /\ r.elapsed = 0 /\ r.duration \in Nat \ {0}
  BY <1>1, <1>2 DEF RampDownFrom, NewRamp
<1> HIDE DEF r
<1>5. RampValue(r) = m.demand
  <2>1. (0 - m.demand) * 0 = 0
    BY <1>2
  <2>2. 0 \div r.duration = 0
    BY <1>4
  <2> QED
    BY <1>2, <1>3, <1>4, <2>1, <2>2 DEF RampValue
<1>6. ClampTo(m.demand, m.clamp) <= m.demand
  BY <1>2 DEF ClampTo
<1> QED
  BY <1>2, <1>3, <1>4, <1>5, <1>6 DEF r

(* RAMP_DOWN is entered from a run, with a ramp from the demand in force;   *)
(* inside it only its own arm touches ramp or motor. *)
LEMMA RampDownSteps ==
  ASSUME ~SupervisorPreempts, SafeInv, [Next]_vars, state' = "RAMP_DOWN"
  PROVE  \/ state = "RAMP_DOWN" /\ UNCHANGED <<motor, ramp>>
         \/ state = "RAMP_DOWN" /\ RampDown
         \/ state \in Running \ {"RAMP_DOWN"} /\ ramp' = RampDownFrom(motor')
<1>1. CASE SupervisorTick
  BY <1>1 DEF SupervisorTick, EstopTick, RpmTripTick, BusTripTick, QuietTick,
              TripTo, Tripped, SupervisorFrame, power, locals
<1>2. CASE (\E c \in Commands : UartRx(c)) \/ (\E rpm \in Rpms : TelemetryTick(rpm))
  <2>1. ASSUME NEW c \in Commands, UartRx(c)
        PROVE  UNCHANGED <<state, motor, ramp>>
    BY <2>1 DEF UartRx, power, locals
  <2>2. ASSUME NEW rpm \in Rpms, TelemetryTick(rpm)
        PROVE  UNCHANGED <<state, motor, ramp>>
    BY <2>2 DEF TelemetryTick, power, locals
  <2> QED
    BY <1>2, <2>1, <2>2
<1>3. CASE Fetch \/ OnHello \/ UNCHANGED vars
  BY <1>3 DEF Fetch, OnHello, vars, power, locals
<1>4. CASE \E over \in BOOLEAN : DeadlineCheck(over)
  BY <1>4 DEF DeadlineCheck, DeadlineTrip, TripTo
<1>5. ~OnEmergencyStop
  BY DEF OnEmergencyStop
<1>6. ~(Boot \/ Idle \/ Start \/ Configured)
  BY DEF SafeInv, CurFresh, Boot, Idle, Start, StartState, Configured, Arm
<1>7. ~(Calibrate \/ SpoolRamp \/ Excite \/ PllLock \/ Regulate)
  BY DEF SafeInv, CurFresh, Calibrate, CalibratorLost, CalibratorStep, SpoolRamp,
         Regulate, RegulatedState, Excite, PllLock, Placeholder, Arm
<1>8. ~(FaultHold \/ EstopHold)
  BY DEF SafeInv, CurFresh, FaultHold, EstopHold, Arm
<1>9. CASE StopRun
  BY <1>9 DEF SafeInv, CurFresh, StopRun, power
<1>10. CASE SpoolHold
  BY <1>10 DEF SafeInv, CurFresh, SpoolHold, Arm, Running
<1>11. CASE Manual
  <2>1. state = "MANUAL" /\ cmd.op = "Stop" /\ ramp' = RampDownFrom(motor)
    BY <1>11 DEF SafeInv, CurFresh, Manual, Arm
  <2>2. motor' = motor
    BY <1>11, <2>1 DEF Manual, Adjusted
  <2> QED
    BY <2>1, <2>2 DEF Running
<1>12. CASE RampDown
  BY <1>12 DEF SafeInv, CurFresh, RampDown, Arm
<1> QED
  BY <1>1, <1>2, <1>3, <1>4, <1>5, <1>6, <1>7, <1>8, <1>9, <1>10, <1>11, <1>12
     DEF Next, Iterate

(* The arm of RAMP_DOWN lowers the demand, and leaves it no lower than what *)
(* comes next. *)
LEMMA RampDownFalls ==
  ASSUME SafeInv, Falling, RampDown, state = "RAMP_DOWN", state' = "RAMP_DOWN"
  PROVE  Falling' /\ motor'.demand <= motor.demand
<1> DEFINE r == RampTick(ramp, DtMs)
<1>1. /\ ramp # None /\ ramp \in RampState /\ ramp.end = 0
      /\ motor \in MotorState /\ Bounded(motor) /\ DtMs \in Nat
  BY TimingAssumption DEF SafeInv, TypeInv, TypeOK, RunContext
<1>2. ~ramp.done /\ ramp.start >= 0 /\ ClampTo(RampValue(ramp), motor.clamp) <= motor.demand
  BY DEF Falling
<1>3. r \in RampState
  BY <1>1, RampTickType
<1>4. ~r.done /\ ramp' = r /\ motor' = SetDemand(motor, RampValue(r))
  BY <1>1 DEF RampDown, PowerDownIf
<1>5. r.start = ramp.start /\ r.end = 0 /\ r.duration = ramp.duration
      /\ r.elapsed = ramp.elapsed + DtMs
  BY <1>1, <1>2 DEF RampTick, RampState
<1> HIDE DEF r
<1>6. RampValue(r) <= RampValue(ramp)
  <2>1. ramp.start \in Nat /\ ramp.duration \in Nat \ {0} /\ ramp.elapsed \in Nat
    BY <1>1, <1>2 DEF RampState
  <2> DEFINE v(e) == ((0 - ramp.start) * e) \div ramp.duration
  <2>2. v(ramp.elapsed + DtMs) <= v(ramp.elapsed)
    BY <1>1, <2>1, FallsFurther
  <2>3. RampValue(ramp) = ramp.start + v(ramp.elapsed)
    BY <1>1, <1>2 DEF RampValue
  <2>4. RampValue(r) = ramp.start + v(ramp.elapsed + DtMs)
    BY <1>4, <1>5 DEF RampValue
  <2>5. v(ramp.elapsed + DtMs) \in Int /\ v(ramp.elapsed) \in Int
    <3>1. /\ (0 - ramp.start) * (ramp.elapsed + DtMs) \in Int
          /\ (0 - ramp.start) * ramp.elapsed \in Int
      BY <1>1, <2>1
    <3> QED
      BY <2>1, <3>1
  <2> HIDE DEF v
  <2> QED
    BY <2>1, <2>2, <2>3, <2>4, <2>5
<1>7. RampValue(r) \in Int /\ RampValue(ramp) \in Int
  BY <1>1, <1>3, RampValueType
<1>8. motor.clamp \in Nat /\ motor.demand \in Nat /\ motor.enabled \in BOOLEAN
  BY <1>1, FullDemandAssumption DEF MotorState, Demand
<1>9. ClampTo(RampValue(r), motor.clamp) <= ClampTo(RampValue(ramp), motor.clamp)
      /\ ClampTo(RampValue(r), motor.clamp) \in Int
      /\ ClampTo(RampValue(ramp), motor.clamp) \in Int
  BY <1>6, <1>7, <1>8 DEF ClampTo
<1>10. motor'.clamp = motor.clamp
       /\ motor'.demand = IF motor.enabled THEN ClampTo(RampValue(r), motor.clamp)
                          ELSE motor.demand
  BY <1>1, <1>4 DEF SetDemand, MotorState
<1>11. motor'.demand <= motor.demand /\ ClampTo(RampValue(r), motor.clamp) <= motor'.demand
  BY <1>2, <1>8, <1>9, <1>10
<1> QED
  BY <1>2, <1>4, <1>5, <1>10, <1>11 DEF Falling

(* A stop never speeds the machine up: from the demand in force at its      *)
(* beginning, whatever the clamp, the config and the commands of RAMP_DOWN. *)
THEOREM StopOnlySlows ==
  ASSUME ~SupervisorPreempts
  PROVE  Spec => RampDownMonotone
<1>1. Init => Falling
  BY DEF Init, Falling
<1>2. SafeInv /\ SafeInv' /\ Falling /\ [Next]_vars => Falling'
  <2> SUFFICES ASSUME SafeInv, SafeInv', Falling, [Next]_vars, state' = "RAMP_DOWN"
               PROVE  Falling'
    BY DEF Falling
  <2>1. CASE state = "RAMP_DOWN" /\ UNCHANGED <<motor, ramp>>
    BY <2>1 DEF Falling
  <2>2. CASE state = "RAMP_DOWN" /\ RampDown
    BY <2>2, RampDownFalls
  <2>3. CASE state \in Running \ {"RAMP_DOWN"} /\ ramp' = RampDownFrom(motor')
    <3>1. motor' \in MotorState
      BY DEF SafeInv, TypeInv, TypeOK
    <3> QED
      BY <2>3, <3>1, RampDownMade DEF Falling
  <2> QED
    BY <2>1, <2>2, <2>3, RampDownSteps
<1>3. SafeInv /\ Falling /\ [Next]_vars
        => (state = "RAMP_DOWN" /\ state' = "RAMP_DOWN" => motor'.demand <= motor.demand)
  <2> SUFFICES ASSUME SafeInv, Falling, [Next]_vars,
                      state = "RAMP_DOWN", state' = "RAMP_DOWN"
               PROVE  motor'.demand <= motor.demand
    OBVIOUS
  <2>1. CASE UNCHANGED <<motor, ramp>>
    <3>1. motor.demand \in Int
      BY FullDemandAssumption DEF SafeInv, TypeInv, TypeOK, MotorState, Demand
    <3> QED
      BY <2>1, <3>1
  <2>2. CASE RampDown
    BY <2>2, RampDownFalls
  <2> QED
    BY <2>1, <2>2, RampDownSteps
<1> QED
  BY <1>1, <1>2, <1>3, SafeInvariant, PTL DEF Spec, RampDownMonotone
=============================================================================
