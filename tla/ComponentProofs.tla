--------------------------- MODULE ComponentProofs ---------------------------
(***************************************************************************)
(* What the operators of the motor, the load bank, the ramps, the          *)
(* calibrator and the deadline table return and preserve, for every value  *)
(* of their constants.                                                     *)
(***************************************************************************)
EXTENDS Motor, LoadBank, Ramp, Calibrator, Wcet, LoopProofs


(* A clamped value is a demand, and no greater than the bound. *)
LEMMA ClampType ==
  ASSUME NEW x \in Int, NEW hi \in Demand
  PROVE  ClampTo(x, hi) \in Demand /\ ClampTo(x, hi) <= hi
BY FullDemandAssumption DEF ClampTo, Demand

(* Off and full power are demands. *)
LEMMA DemandEnds == 0 \in Demand /\ FullDemand \in Demand
BY FullDemandAssumption DEF Demand

(* Inverting a demand gives a duty, and inverting it twice the demand. *)
LEMMA InvertedDemand ==
  ASSUME NEW d \in Demand
  PROVE  FullDemand - d \in Demand /\ FullDemand - (FullDemand - d) = d
BY FullDemandAssumption DEF Demand

(* MotorBounded, as a property of any motor. *)
Bounded(m) ==
  /\ m.demand <= m.clamp
  /\ ~m.enabled => m.demand = 0
  /\ FullDemand - m.pwm = m.demand

(* MotorController::new: typed, off, clamped to full power. *)
LEMMA NewMotorType == NewMotor \in MotorState /\ Bounded(NewMotor)
BY DemandEnds, FullDemandAssumption DEF NewMotor, MotorState, Bounded

(* set_demand keeps a motor typed and within its clamp, whatever is asked. *)
LEMMA SetDemandType ==
  ASSUME NEW m \in MotorState, NEW d \in Int
  PROVE  /\ SetDemand(m, d) \in MotorState
         /\ Bounded(m) => Bounded(SetDemand(m, d))
         /\ SetDemand(m, d).enabled = m.enabled
<1> DEFINE c == ClampTo(d, m.clamp)
<1>1. c \in Demand /\ c <= m.clamp
  BY ClampType DEF MotorState
<1> HIDE DEF c
<1>2. SetDemand(m, d) =
        IF m.enabled THEN [m EXCEPT !.demand = c, !.pwm = FullDemand - c] ELSE m
  BY DEF SetDemand, c
<1>3. SetDemand(m, d) \in MotorState
  BY <1>1, <1>2, InvertedDemand DEF MotorState
<1>4. SetDemand(m, d).enabled = m.enabled
  BY <1>2 DEF MotorState
<1>5. Bounded(m) => Bounded(SetDemand(m, d))
  <2>1. CASE m.enabled
    BY <1>1, <1>2, <2>1, InvertedDemand DEF MotorState, Bounded
  <2>2. CASE ~m.enabled
    BY <1>2, <2>2
  <2> QED
    BY <2>1, <2>2
<1> QED
  BY <1>3, <1>4, <1>5

(* MotorController::enable drives nothing by itself. *)
LEMMA EnableType ==
  ASSUME NEW m \in MotorState
  PROVE  /\ Enable(m) \in MotorState
         /\ Bounded(m) => Bounded(Enable(m))
BY DEF Enable, MotorState, Bounded

(* emergency_off ends all drive, whatever the motor was doing. *)
LEMMA EmergencyOffType ==
  ASSUME NEW m \in MotorState
  PROVE  /\ EmergencyOff(m) \in MotorState
         /\ Bounded(EmergencyOff(m))
         /\ Drive(EmergencyOff(m)) = 0
<1>1. EmergencyOff(m) \in MotorState
  BY DemandEnds DEF EmergencyOff, MotorState
<1>2. EmergencyOff(m).demand <= EmergencyOff(m).clamp
  BY DEF EmergencyOff, MotorState, Demand
<1>3. /\ EmergencyOff(m).demand = 0
      /\ FullDemand - EmergencyOff(m).pwm = 0
  BY FullDemandAssumption DEF EmergencyOff, MotorState
<1> QED
  BY <1>1, <1>2, <1>3 DEF Bounded, Drive

(* MotorController::disable ends all drive too. *)
LEMMA DisableType ==
  ASSUME NEW m \in MotorState
  PROVE  /\ Disable(m) \in MotorState
         /\ Bounded(Disable(m))
         /\ Drive(Disable(m)) = 0
<1>1. [m EXCEPT !.enabled = FALSE] \in MotorState
  BY DEF MotorState
<1> QED
  BY <1>1, EmergencyOffType DEF Disable

(* set_max_demand keeps a motor within its clamp, and never adds power.    *)
LEMMA SetMaxDemandType ==
  ASSUME NEW m \in MotorState, NEW c \in Int
  PROVE  /\ SetMaxDemand(m, c) \in MotorState
         /\ Bounded(m) => /\ Bounded(SetMaxDemand(m, c))
                          /\ Drive(m) = 0 => Drive(SetMaxDemand(m, c)) = 0
<1> DEFINE k == ClampTo(c, FullDemand)
           n == [m EXCEPT !.clamp = k]
<1>1. k \in Demand
  BY ClampType, FullDemandAssumption DEF Demand
<1> HIDE DEF k
<1>2. n \in MotorState /\ n.enabled = m.enabled /\ n.demand = m.demand
      /\ n.pwm = m.pwm /\ n.clamp = k
  BY <1>1 DEF MotorState
<1>3. SetMaxDemand(m, c) = IF n.demand > n.clamp THEN SetDemand(n, n.clamp) ELSE n
  BY DEF SetMaxDemand, k
<1> HIDE DEF n
<1>4. SetDemand(n, n.clamp) \in MotorState
  BY <1>2, SetDemandType DEF MotorState, Demand
<1>5. ASSUME Bounded(m)
      PROVE  /\ Bounded(SetMaxDemand(m, c))
             /\ Drive(m) = 0 => Drive(SetMaxDemand(m, c)) = 0
  <2>1. CASE n.demand > n.clamp
    <3>1. n.demand > 0
      BY <1>1, <1>2, <2>1 DEF MotorState, Demand
    <3>2. n.enabled
      BY <1>2, <1>5, <3>1 DEF Bounded, MotorState
    <3>3. Drive(m) > 0
      BY <1>2, <1>5, <3>1 DEF Bounded, Drive
    <3>4. SetDemand(n, n.clamp) = [n EXCEPT !.demand = k, !.pwm = FullDemand - k]
      <4>1. ClampTo(k, k) = k
        BY <1>1 DEF ClampTo, Demand
      <4> QED
        BY <1>2, <3>2, <4>1 DEF SetDemand
    <3>5. /\ SetDemand(n, n.clamp).demand = k
          /\ SetDemand(n, n.clamp).clamp = k
          /\ SetDemand(n, n.clamp).enabled
          /\ SetDemand(n, n.clamp).pwm = FullDemand - k
      BY <1>2, <3>2, <3>4 DEF MotorState
    <3> QED
      BY <1>1, <1>3, <2>1, <3>3, <3>5, InvertedDemand DEF Bounded, Demand
  <2>2. CASE ~(n.demand > n.clamp)
    BY <1>1, <1>2, <1>3, <1>5, <2>2 DEF Bounded, MotorState, Demand, Drive
  <2> QED
    BY <2>1, <2>2
<1> QED
  BY <1>2, <1>3, <1>4, <1>5

(* Every operation of the load bank returns a load bank. *)
LEMMA LoadType ==
  ASSUME NEW b \in LoadState, NEW target \in LoadLevel
  PROVE  /\ NewLoadBank \in LoadState
         /\ StepUp(b) \in LoadState
         /\ StepDown(b) \in LoadState
         /\ EmergencyShed(b) \in LoadState
         /\ SetLevel(b, target) \in LoadState
<1> 0 \in LoadLevel /\ 1 \in LoadLevel /\ 2 \in LoadLevel
  BY DEF LoadLevel
<1>1. ASSUME NEW x \in LoadState
      PROVE  StepUp(x) \in LoadState /\ StepDown(x) \in LoadState
  <2>1. StepUp(x) \in LoadState
    BY DEF StepUp, LoadState
  <2>2. StepDown(x) \in LoadState
    BY DEF StepDown, LoadState
  <2> QED
    BY <2>1, <2>2
<1>2. ASSUME NEW x \in LoadState
      PROVE  Toward(x, target) \in LoadState
  BY <1>1 DEF Toward
<1>3. NewLoadBank \in LoadState /\ EmergencyShed(b) \in LoadState
  BY DEF NewLoadBank, EmergencyShed, LoadState
<1> QED
  BY <1>1, <1>2, <1>3 DEF SetLevel

(* Ramp::new aims at the value it was given. *)
LEMMA NewRampType ==
  ASSUME NEW from \in Int, NEW to \in Int, NEW ms \in Nat
  PROVE  /\ NewRamp(from, to, ms) \in RampState
         /\ NewRamp(from, to, ms).end = to
BY DEF NewRamp, RampState

(* Ramp::tick keeps a ramp's type and never changes where it ends. *)
LEMMA RampTickType ==
  ASSUME NEW r \in RampState, NEW dt \in Nat
  PROVE  /\ RampTick(r, dt) \in RampState
         /\ RampTick(r, dt).end = r.end
<1> DEFINE e == r.elapsed + dt
           f == e >= r.duration
<1>1. e \in Nat /\ f \in BOOLEAN
  BY DEF RampState
<1>2. RampTick(r, dt) = IF r.done THEN r ELSE [r EXCEPT !.elapsed = e, !.done = f]
  BY DEF RampTick
<1> HIDE DEF e, f
<1> QED
  BY <1>1, <1>2 DEF RampState

(* The value a ramp yields is an integer: the duration is not zero. *)
LEMMA RampValueType ==
  ASSUME NEW r \in RampState
  PROVE  RampValue(r) \in Int
<1>1. r.end \in Int /\ r.start \in Int /\ r.elapsed \in Nat /\ r.duration \in Nat \ {0}
  BY DEF RampState
<1>2. (r.end - r.start) * r.elapsed \in Int
  BY <1>1
<1>3. ((r.end - r.start) * r.elapsed) \div r.duration \in Int
  BY <1>1, <1>2
<1> QED
  BY <1>1, <1>3 DEF RampValue

(* A step stays within the table of points, so the duty it asks for is one *)
(* of the table's.                                                         *)
LEMMA CalStepType ==
  ASSUME NEW c \in CalState, InTable(c), NEW dt \in Nat
  PROVE  /\ CalStep(c, dt) \in CalState
         /\ InTable(CalStep(c, dt))
         /\ CalDuty(c, dt) \in Int
<1>1. Len(CalPoints) \in Nat
  BY CalAssumption, LenProperties
<1>2. SampleFrom \in Int
  BY CalAssumption DEF SampleFrom
<1>3. CalStep(c, dt) \in CalState /\ InTable(CalStep(c, dt))
  <2> DEFINE t    == c.elapsed + dt
             last == c.point_idx = Len(CalPoints)
  <2>1. t \in Nat /\ last \in BOOLEAN
    BY DEF CalState
  <2>2. CASE c.phase = "Done"
    BY <2>2 DEF CalStep, InTable
  <2>3. CASE c.phase = "Settling"
    <3>1. CASE t < SampleFrom
      <4>1. CalStep(c, dt) = [c EXCEPT !.elapsed = t]
        BY <1>2, <2>1, <2>3, <3>1 DEF CalStep
      <4> HIDE DEF t
      <4> QED
        BY <2>1, <2>3, <4>1 DEF CalState, InTable
    <3>2. CASE t >= SampleFrom
      <4>1. CalStep(c, dt) =
              [c EXCEPT !.elapsed = t, !.phase = "Sampling", !.sampled = 0]
        BY <1>2, <2>1, <2>3, <3>2 DEF CalStep
      <4> DEFINE zero == 0
                 p    == "Sampling"
      <4>2. zero \in Nat /\ p \in {"Settling", "Sampling", "Done"}
        OBVIOUS
      <4>3. CalStep(c, dt) = [c EXCEPT !.elapsed = t, !.phase = p, !.sampled = zero]
        BY <4>1
      <4> HIDE DEF t, zero, p
      <4>4. CalStep(c, dt) \in CalState /\ CalStep(c, dt).point_idx = c.point_idx
        BY <2>1, <4>2, <4>3 DEF CalState
      <4> QED
        BY <2>3, <4>4 DEF InTable
    <3> QED
      BY <1>2, <2>1, <3>1, <3>2
  <2>4. CASE c.phase = "Sampling"
    <3> DEFINE s == c.sampled + 1
               i == c.point_idx + 1
               k == c.collected + 1
               q == IF last THEN "Done" ELSE "Settling"
    <3>1. /\ s \in Nat /\ i \in Nat \ {0} /\ k \in Nat
          /\ q \in {"Settling", "Sampling", "Done"}
          /\ q # "Done" => i <= Len(CalPoints)
      BY <1>1, <2>4 DEF CalState, InTable
    <3>2. CASE t < SettleMs
      <4>1. CalStep(c, dt) = [c EXCEPT !.elapsed = t, !.sampled = s]
        BY <2>4, <3>2 DEF CalStep
      <4> HIDE DEF t, s
      <4> QED
        BY <2>1, <2>4, <3>1, <4>1 DEF CalState, InTable
    <3>3. CASE ~(t < SettleMs)
      <4>1. CalStep(c, dt) = [c EXCEPT !.elapsed = 0, !.sampled = s,
                                !.collected = k, !.point_idx = i, !.phase = q]
        BY <2>4, <3>3 DEF CalStep
      <4> DEFINE zero == 0
      <4>2. zero \in Nat
        OBVIOUS
      <4>3. CalStep(c, dt) = [c EXCEPT !.elapsed = zero, !.sampled = s,
                                !.collected = k, !.point_idx = i, !.phase = q]
        BY <4>1
      <4> HIDE DEF s, i, k, q, zero
      <4>4. /\ CalStep(c, dt) \in CalState
            /\ CalStep(c, dt).point_idx = i /\ CalStep(c, dt).phase = q
        BY <3>1, <4>2, <4>3 DEF CalState
      <4> QED
        BY <3>1, <4>4 DEF InTable
    <3> QED
      BY <3>2, <3>3
  <2> QED
    BY <2>2, <2>3, <2>4 DEF CalState
<1>4. c.phase # "Done" => CalPoints[c.point_idx] \in Nat
  BY <1>1, CalAssumption, ElementOfSeq DEF CalState, InTable
<1>5. c.phase = "Done" => CalStep(c, dt).phase = "Done"
  BY DEF CalStep
<1> QED
  BY <1>3, <1>4, <1>5 DEF CalDuty

(* A new calibrator stands at a point of the table. *)
LEMMA NewCalibratorType == NewCalibrator \in CalState /\ InTable(NewCalibrator)
BY CalAssumption, LenProperties, EmptySeq DEF NewCalibrator, CalState, InTable

(* Recording an iteration keeps the streaks typed. *)
LEMMA RecordStreakType ==
  ASSUME NEW w \in Streaks, NEW s \in State, NEW over \in BOOLEAN
  PROVE  RecordStreak(w, s, over) \in Streaks
BY StreakLimitAssumption DEF RecordStreak, Streaks, Extend
=============================================================================
