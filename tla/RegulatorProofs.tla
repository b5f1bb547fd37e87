-------------------------- MODULE RegulatorProofs --------------------------
(* Proofs about Regulator, for all profiles, controllers, speeds and times:  *)
(* the setpoint stays among the speeds of the profile and moves as its       *)
(* segments do, no run that keeps its gains winds up, the demand is a duty,  *)
(* and the calibration's line is the best there is.                          *)
EXTENDS Regulator, FitProofs

Breakpoint == [t : Nat, rpm : Nat, interp : {"Linear", "Step"}]

-----------------------------------------------------------------------------
(* The setpoint. *)

\* A part s of the time d covers a part of the way w, however it is rounded.
LEMMA PartOfWay ==
  ASSUME NEW d \in Nat \ {0}, NEW s \in 0..d, NEW w \in Int
  PROVE  /\ (s * w) \div d \in Int
         /\ w >= 0 => (s * w) \div d \in 0..w
         /\ w <= 0 => (s * w) \div d \in w..0
<1> DEFINE q == (s * w) \div d
<1>1. q \in Int /\ q * d <= s * w /\ s * w < (q + 1) * d
  OBVIOUS
<1> HIDE DEF q
<1>2. ASSUME w >= 0 PROVE q \in 0..w
  <2>1. s * w >= 0 /\ s * w <= d * w
    BY <1>2
  <2>2. q >= 0
    <3> SUFFICES ASSUME q + 1 <= 0 PROVE FALSE
      BY <1>1
    <3>1. (q + 1) * d <= 0
      BY <1>1
    <3> QED
      BY <1>1, <2>1, <3>1
  <2>3. q <= w
    <3> SUFFICES ASSUME q - w - 1 >= 0 PROVE FALSE
      BY <1>1
    <3>1. (q - w - 1) * d >= 0
      BY <1>1
    <3>2. (q - w - 1) * d = q * d - d * w - d
      BY <1>1
    <3> QED
      BY <1>1, <2>1, <3>1, <3>2
  <2> QED
    BY <1>1, <2>2, <2>3
<1>3. ASSUME w <= 0 PROVE q \in w..0
  <2>1. s * w <= 0 /\ d * w <= s * w
    <3>1. s * (-w) >= 0 /\ (d - s) * (-w) >= 0
      BY <1>3
    <3> QED
      BY <3>1
  <2>2. q <= 0
    <3> SUFFICES ASSUME q - 1 >= 0 PROVE FALSE
      BY <1>1
    <3>1. (q - 1) * d >= 0
      BY <1>1
    <3>2. (q - 1) * d = q * d - d
      BY <1>1
    <3> QED
      BY <1>1, <2>1, <3>1, <3>2
  <2>3. w <= q
    <3> SUFFICES ASSUME w - q - 1 >= 0 PROVE FALSE
      BY <1>1
    <3>1. (w - q - 1) * d >= 0
      BY <1>1
    <3>2. (w - q - 1) * d = d * w - (q + 1) * d
      BY <1>1
    <3> QED
      BY <1>1, <2>1, <3>1, <3>2
  <2> QED
    BY <1>1, <2>2, <2>3
<1> QED
  BY <1>1, <1>2, <1>3 DEF q

\* A segment stays between its ends.
LEMMA BetweenEnds ==
  ASSUME NEW a \in Breakpoint, NEW b \in Breakpoint, NEW t \in a.t .. b.t
  PROVE  Between(a, b, t) \in (a.rpm .. b.rpm) \cup (b.rpm .. a.rpm)
<1>1. CASE a.interp = "Step"
  BY <1>1 DEF Between, Breakpoint
<1>2. CASE a.interp # "Step" /\ a.t = b.t
  BY <1>2 DEF Between, Breakpoint
<1>3. CASE a.interp # "Step" /\ a.t # b.t
  <2>1. b.t - a.t \in Nat \ {0} /\ t - a.t \in 0..(b.t - a.t) /\ b.rpm - a.rpm \in Int
    BY <1>3 DEF Breakpoint
  <2> DEFINE part == ((t - a.t) * (b.rpm - a.rpm)) \div (b.t - a.t)
  <2>2. /\ part \in Int
        /\ b.rpm - a.rpm >= 0 => part \in 0..(b.rpm - a.rpm)
        /\ b.rpm - a.rpm <= 0 => part \in (b.rpm - a.rpm)..0
    BY <2>1, PartOfWay
  <2>3. Between(a, b, t) = a.rpm + part
    BY <1>3 DEF Between
  <2> HIDE DEF part
  <2> QED
    BY <2>2, <2>3 DEF Breakpoint
<1> QED
  BY <1>1, <1>2, <1>3

\* A nonempty set of natural numbers has a least one.
LEMMA LeastElement ==
  ASSUME NEW S \in SUBSET Nat, S # {}
  PROVE  Min(S) \in S
<1>1. PICK x \in S : \A y \in S : x <= y
  BY LeastMember
<1> QED
  BY <1>1, Zenon DEF Min

\* Speed v lies between those of two points of profile p.
Among(v, p) == \E i, j \in DOMAIN p.points : v \in p.points[i].rpm .. p.points[j].rpm

\* Of a profile with points.
LEMMA PointTypes ==
  ASSUME NEW p, IsProfile(p), p.points # <<>>
  PROVE  /\ DOMAIN p.points = 1..Len(p.points)
         /\ Len(p.points) \in Nat \ {0} /\ 1 \in 1..Len(p.points)
         /\ \A i \in 1..Len(p.points) : /\ p.points[i] \in Breakpoint
                                        /\ p.points[i].t \in Nat /\ p.points[i].rpm \in Nat
                                        /\ Among(p.points[i].rpm, p)
         /\ p.total \in Nat
<1>1. p.points \in Seq(Breakpoint)
  BY DEF IsProfile, Breakpoint
<1>2. /\ Len(p.points) \in Nat \ {0} /\ DOMAIN p.points = 1..Len(p.points)
      /\ \A i \in 1..Len(p.points) : p.points[i] \in Breakpoint
  BY <1>1
<1>3. \A i \in 1..Len(p.points) : p.points[i].t \in Nat /\ p.points[i].rpm \in Nat
  BY <1>2 DEF Breakpoint
<1>4. \A i \in 1..Len(p.points) : Among(p.points[i].rpm, p)
  <2> TAKE i \in 1..Len(p.points)
  <2>1. p.points[i].rpm \in p.points[i].rpm .. p.points[i].rpm
    BY <1>3
  <2> QED
    BY <1>2, <2>1 DEF Among
<1>5. p.total \in Nat
  BY <1>2, <1>3 DEF IsProfile
<1> QED
  BY <1>2, <1>3, <1>4, <1>5

\* However the points follow each other, the walk ends on one of them or on a
\* segment.
LEMMA WalkAmong ==
  ASSUME NEW p, IsProfile(p), p.points # <<>>, NEW t \in Nat
  PROVE  Among(Walk(p, t), p)
<1> DEFINE n == Len(p.points)
           S == {i \in 1..n - 1 : p.points[i].t <= t /\ t <= p.points[i + 1].t}
<1>1. CASE t <= p.points[1].t
  BY <1>1, PointTypes DEF Walk
<1>2. CASE ~(t <= p.points[1].t) /\ S = {}
  <2>1. Walk(p, t) = p.points[n].rpm
    BY <1>2, Zenon DEF Walk
  <2>2. n \in 1..n
    BY PointTypes
  <2> QED
    BY <2>1, <2>2, PointTypes
<1>3. CASE ~(t <= p.points[1].t) /\ S # {}
  <2> DEFINE m == Min(S)
             a == p.points[m]
             b == p.points[m + 1]
  <2>1. S \in SUBSET Nat
    BY PointTypes
  <2>2. m \in S
    BY <1>3, <2>1, LeastElement
  <2>3. Walk(p, t) = Between(a, b, t)
    BY <1>3, Zenon DEF Walk
  <2>4. n \in Nat /\ m \in 1..n - 1 /\ a.t <= t /\ t <= b.t
    BY <2>2, PointTypes
  <2> HIDE DEF S, m, n
  <2>5. m \in 1..n /\ m + 1 \in 1..n
    BY <2>4
  <2>6. a \in Breakpoint /\ b \in Breakpoint /\ t \in a.t .. b.t
    BY <2>4, <2>5, PointTypes DEF n
  <2>7. Between(a, b, t) \in (a.rpm .. b.rpm) \cup (b.rpm .. a.rpm)
    BY <2>6, BetweenEnds
  <2> QED
    BY <2>3, <2>5, <2>7, PointTypes DEF Among, n
<1> QED
  BY <1>1, <1>2, <1>3

\* The speed a profile asks for is, at any time, in any lap, on whatever
\* segment, between the speeds of two of its points (eval_profile).
THEOREM SetpointAmongPoints ==
  ASSUME NEW p, IsProfile(p), p.points # <<>>, NEW t \in Nat
  PROVE  Among(EvalProfile(p, t), p)
<1> DEFINE n == Len(p.points)
           ended == t >= p.points[n].t
           loops == p.end = "Loop" /\ p.total # 0
<1>1. n \in Nat \ {0}
  BY PointTypes
<1>2. CASE n = 1
  BY <1>2, PointTypes DEF EvalProfile
<1>3. CASE n # 1 /\ ended /\ ~loops
  <2>1. EvalProfile(p, t) = p.points[n].rpm
    BY <1>1, <1>3 DEF EvalProfile
  <2>2. n \in 1..n
    BY <1>1
  <2> QED
    BY <2>1, <2>2, PointTypes
<1>4. CASE n # 1 /\ ended /\ loops
  <2>1. t % p.total \in Nat
    BY <1>4, PointTypes
  <2>2. EvalProfile(p, t) = Walk(p, t % p.total)
    BY <1>1, <1>4 DEF EvalProfile
  <2> QED
    BY <2>1, <2>2, WalkAmong
<1>5. CASE n # 1 /\ ~ended
  <2>1. EvalProfile(p, t) = Walk(p, t)
    BY <1>1, <1>5 DEF EvalProfile
  <2> QED
    BY <2>1, WalkAmong
<1> QED
  BY <1>2, <1>3, <1>4, <1>5

\* And so a speed.
LEMMA SetpointType ==
  ASSUME NEW p, IsProfile(p), NEW t \in Nat
  PROVE  EvalProfile(p, t) \in Int
<1>1. CASE p.points = <<>>
  BY <1>1 DEF EvalProfile
<1>2. CASE p.points # <<>>
  BY <1>2, SetpointAmongPoints, PointTypes DEF Among
<1> QED
  BY <1>1, <1>2

-----------------------------------------------------------------------------
(* The controller. *)

\* What the proportional and the integral part make of an error, by its sign.
LEMMA Weighted ==
  ASSUME NEW k \in Nat, NEW e \in Int
  PROVE  /\ k * e \in Int
         /\ e >= 0 => k * e >= 0
         /\ e <= 0 => k * e <= 0
         /\ k > 0 /\ e > 0 => k * e > 0
         /\ k > 0 /\ e < 0 => k * e < 0
OBVIOUS

\* An update without a derivative keeps what the integral stands for among the
\* outputs, and its output is off a limit that the error points away from.
LEMMA UpdateHeld ==
  ASSUME NEW g \in PidGains, Usable(g), g.kd = 0, NEW state \in PidState,
         NEW e \in Int, NEW measured \in Int,
         g.ki * state.integral \in g.output_min .. g.output_max
  PROVE  /\ g.ki * Integral(state, g, e, measured) \in g.output_min .. g.output_max
         /\ e < 0 => Output(state, g, e, measured) < g.output_max
         /\ e > 0 => Output(state, g, e, measured) > g.output_min
<1> DEFINE lo == g.output_min
           hi == g.output_max
           i == state.integral
           p == g.kp * e
           d == g.ki * e
           r == g.ki * i
           out == Output(state, g, e, measured)
<1>1. /\ lo \in Int /\ hi \in Int /\ i \in Int /\ state.prev \in Int
      /\ g.kp \in Nat /\ g.ki \in Nat /\ lo < hi /\ g.kp + g.ki > 0
  BY DEF PidGains, PidState, Usable
<1>2. /\ p \in Int /\ d \in Int /\ r \in Int
      /\ e >= 0 => p >= 0 /\ d >= 0
      /\ e <= 0 => p <= 0 /\ d <= 0
      /\ e > 0 => p > 0 \/ d > 0
      /\ e < 0 => p < 0 \/ d < 0
  BY <1>1, Weighted
<1>3. g.ki * (i + e) = r + d
  BY <1>1
<1>4. RawOutput(state, g, e, measured) = p + (r + d)
  <2>1. g.kd * (measured - state.prev) = 0
    BY <1>1
  <2> QED
    BY <1>1, <1>2, <1>3, <2>1 DEF RawOutput
<1>5. out = IF p + (r + d) < lo THEN lo ELSE IF p + (r + d) > hi THEN hi ELSE p + (r + d)
  BY <1>4 DEF Output, ClampOutput
<1>6. Integral(state, g, e, measured)
        = IF (out = hi /\ e > 0) \/ (out = lo /\ e < 0) THEN i ELSE i + e
  BY DEF Integral
<1>7. g.ki * Integral(state, g, e, measured)
        = IF (out = hi /\ e > 0) \/ (out = lo /\ e < 0) THEN r ELSE r + d
  BY <1>3, <1>6
<1>8. lo <= r /\ r <= hi
  BY <1>1, <1>2
<1> HIDE DEF lo, hi, i, p, d, r, out
<1>9. e < 0 => out < hi
  BY ONLY <1>1, <1>2, <1>5, <1>8, e \in Int
<1>10. e > 0 => out > lo
  BY ONLY <1>1, <1>2, <1>5, <1>8, e \in Int
<1>11. g.ki * Integral(state, g, e, measured) \in lo..hi
  BY ONLY <1>1, <1>2, <1>5, <1>7, <1>8, e \in Int
<1> QED
  BY <1>9, <1>10, <1>11 DEF lo, hi, out

\* The output is a number.
LEMMA OutputType ==
  ASSUME NEW g, Usable(g), NEW state \in PidState, NEW e \in Int, NEW measured \in Int
  PROVE  Output(state, g, e, measured) \in Int
<1>1. /\ g.output_min \in Int /\ g.output_max \in Int /\ state.integral \in Int
      /\ state.prev \in Int /\ g.kp \in Int /\ g.ki \in Int /\ g.kd \in Int
  BY DEF PidGains, PidState, Usable
<1>2. g.kp * e + g.ki * (state.integral + e) - g.kd * (measured - state.prev) \in Int
  BY <1>1
<1> QED
  BY <1>1, <1>2 DEF Output, ClampOutput, RawOutput

\* And with the feedforward a duty.
LEMMA DutyType ==
  ASSUME RegulatorAssumption, NEW x \in Int
  PROVE  Duty(x) \in 0..FULL
<1>1. FULL \in Nat
  BY DEF RegulatorAssumption
<1>2. Min({FULL, x}) \in Int /\ Min({FULL, x}) <= FULL
  <2> DEFINE m == IF FULL <= x THEN FULL ELSE x
  <2>1. m \in {FULL, x} /\ (\A y \in {FULL, x} : m <= y) /\ m \in Int /\ m <= FULL
    BY <1>1
  <2> HIDE DEF m
  <2>2. \A z \in {FULL, x} : (\A y \in {FULL, x} : z <= y) => z = m
    BY <1>1, <2>1
  <2> QED
    BY <2>1, <2>2 DEF Min
<1> DEFINE k == Min({FULL, x})
<1>3. k \in Int /\ k <= FULL
  BY <1>2
<1>4. Duty(x) = Max({0, k})
  BY DEF Duty
<1> HIDE DEF k
<1> DEFINE m == IF 0 >= k THEN 0 ELSE k
<1>5. m \in {0, k} /\ (\A y \in {0, k} : m >= y) /\ m \in 0..FULL
  BY <1>1, <1>3
<1> HIDE DEF m
<1>6. \A z \in {0, k} : (\A y \in {0, k} : z >= y) => z = m
  BY <1>1, <1>3, <1>5
<1> QED
  BY <1>4, <1>5, <1>6 DEF Max

-----------------------------------------------------------------------------
(* The inductive invariant: types, with gains that are usable and a          *)
(* calibration that has a point to come, and what the integral stands for    *)
(* stays among the outputs.                                                  *)

RegulatorTypes == /\ RegulatorTypeOK /\ Usable(gains)
                  /\ Len(points) < Len(CAL_POINTS)

Held == ~swapped /\ gains.kd = 0 =>
          gains.ki * pid.integral \in gains.output_min .. gains.output_max

RegulatorInv == RegulatorTypes /\ Held /\ NoWindup

\* The assumption on the constants, one by one.
LEMMA ConstantTypes ==
  ASSUME RegulatorAssumption
  PROVE  /\ DT \in Nat /\ RampTicks \in Nat \ {0} /\ MaxElapsed \in Nat /\ MaxIntegral \in Nat
         /\ FULL \in Nat /\ MIN_SLOPE \in Nat \ {0}
         /\ Speeds \subseteq Int /\ Means \subseteq Int /\ Devs \subseteq Nat
         /\ Configs \subseteq RunConfig
         /\ CAL_POINTS \in Seq(Nat) /\ Len(CAL_POINTS) \in Nat \ {0}
<1>1. /\ {DT, RampTicks, MaxElapsed, MaxIntegral, FULL} \subseteq Nat /\ RampTicks > 0
      /\ {MIN_SLOPE, MAX_SLOPE, R_SQUARED, POINT_CV} \subseteq Nat /\ MIN_SLOPE > 0
      /\ Speeds \subseteq Int /\ Means \subseteq Int /\ Devs \subseteq Nat
      /\ Configs \subseteq RunConfig /\ CAL_POINTS \in Seq(Nat) /\ CAL_POINTS # <<>>
  BY Zenon DEF RegulatorAssumption
<1>2. /\ DT \in Nat /\ RampTicks \in Nat /\ MaxElapsed \in Nat /\ MaxIntegral \in Nat
      /\ FULL \in Nat /\ MIN_SLOPE \in Nat
  BY <1>1
<1>3. RampTicks # 0 /\ MIN_SLOPE # 0
  BY <1>1, <1>2
<1>4. Len(CAL_POINTS) \in Nat \ {0}
  BY <1>1
<1> QED
  BY <1>1, <1>2, <1>3, <1>4

\* The types of the invariant, one by one.
LEMMA StateTypes ==
  ASSUME RegulatorTypes
  PROVE  /\ config \in RunConfig /\ pid \in PidState /\ Usable(gains)
         /\ ramp \in 0..RampTicks /\ elapsed \in 0..MaxElapsed
         /\ target \in Int /\ error \in Int /\ trim \in Int /\ demand \in 0..FULL
         /\ points \in Seq(CalPoint) /\ calibration \in Seq(CalPoint)
         /\ Len(points) \in Nat /\ Len(points) < Len(CAL_POINTS)
<1>1. /\ config \in RunConfig /\ pid \in PidState /\ Usable(gains)
      /\ ramp \in 0..RampTicks /\ elapsed \in 0..MaxElapsed
      /\ {target, error, trim} \subseteq Int /\ demand \in 0..FULL
      /\ {points, calibration} \subseteq Seq(CalPoint) /\ Len(points) < Len(CAL_POINTS)
  BY Zenon DEF RegulatorTypes, RegulatorTypeOK
<1>2. points \in Seq(CalPoint) /\ calibration \in Seq(CalPoint)
  BY <1>1, Zenon
<1>3. Len(points) \in Nat
  BY <1>2
<1> QED
  BY <1>1, <1>2, <1>3

\* What a run may be configured with.
LEMMA ConfigTypes ==
  ASSUME RegulatorAssumption, NEW c \in RunConfig
  PROVE  IsProfile(c.profile) /\ Usable(c.pid) /\ c.target_rpm \in Nat
BY DEF RegulatorAssumption, RunConfig

\* An integral of 0 is held.
LEMMA NewHeld ==
  ASSUME NEW g, Usable(g)
  PROVE  g.ki * NewPid.integral \in g.output_min .. g.output_max /\ NewPid \in PidState
<1>1. g.ki \in Nat /\ NewPid.integral = 0 /\ g.ki * 0 = 0
  BY DEF Usable, PidGains, NewPid
<1> QED
  BY <1>1 DEF Usable, NewPid, PidState

\* A live adjustment leaves usable gains and a run configuration, and the
\* gains as they are unless it says so.
LEMMA LiveKeeps ==
  ASSUME RegulatorAssumption, RegulatorTypes, Live
  PROVE  /\ config' \in RunConfig /\ config'.profile = config.profile /\ Usable(gains')
         /\ gains' \in {c.pid : c \in Configs} \cup Gains /\ swapped' \in BOOLEAN
         /\ ~swapped' => ~swapped /\ gains' = gains
<1>1. CASE UNCHANGED <<gains, swapped, config>>
  BY <1>1 DEF RegulatorTypes, RegulatorTypeOK
<1>2. CASE gains' \in Gains /\ swapped' = TRUE /\ UNCHANGED config
  BY <1>2 DEF RegulatorTypes, RegulatorTypeOK, RegulatorAssumption
<1>3. CASE config' \in {[config EXCEPT !.target_rpm = rpm] : rpm \in Targets}
           /\ UNCHANGED <<gains, swapped>>
  BY <1>3 DEF RegulatorTypes, RegulatorTypeOK, RegulatorAssumption, RunConfig
<1> QED
  BY <1>1, <1>2, <1>3 DEF Live

\* An iteration that regulates.
LEMMA RegulateHeld ==
  ASSUME RegulatorAssumption, RegulatorInv, NEW setpoint \in Int, NEW feedforward \in Int,
         NEW g \in {gains, gains'}, Regulate(setpoint, feedforward, g), Usable(gains'),
         ~swapped' => ~swapped /\ gains' = gains
  PROVE  /\ pid' \in PidState /\ Held' /\ NoWindup'
         /\ target' \in Int /\ error' \in Int /\ trim' \in Int /\ demand' \in 0..FULL
<1>1. PICK measured \in Speeds :
        /\ target' = setpoint /\ demand' = Duty(feedforward + trim')
        /\ error' = setpoint - measured
        /\ trim' = Output(pid, g, setpoint - measured, measured)
        /\ pid' = Update(pid, g, setpoint - measured, measured)
        /\ pid'.integral \in -MaxIntegral .. MaxIntegral
  BY DEF Regulate
<1>2. measured \in Int /\ setpoint - measured \in Int
  <2>1. Speeds \subseteq Int
    BY ConstantTypes
  <2>2. measured \in Int
    BY <2>1
  <2> QED
    BY ONLY <2>2, setpoint \in Int
<1>3. pid'.integral = Integral(pid, g, setpoint - measured, measured)
  BY <1>1 DEF Update
<1>4. pid' \in PidState
  <2>1. pid'.integral \in Int
    <3>1. MaxIntegral \in Nat
      BY ConstantTypes
    <3> QED
      BY ONLY <1>1, <3>1
  <2> QED
    BY <1>1, <1>2, <2>1 DEF Update, PidState
<1>5. ASSUME ~swapped', gains'.kd = 0
      PROVE  /\ gains'.ki * pid'.integral \in gains'.output_min .. gains'.output_max
             /\ error' < 0 => trim' < gains'.output_max
             /\ error' > 0 => trim' > gains'.output_min
  <2>1. g = gains /\ gains' = gains /\ ~swapped /\ gains.kd = 0
    BY <1>5
  <2>2. Usable(gains) /\ gains \in PidGains /\ pid \in PidState
    BY DEF RegulatorInv, RegulatorTypes, RegulatorTypeOK, Usable
  <2>3. gains.ki * pid.integral \in gains.output_min .. gains.output_max
    BY <2>1 DEF RegulatorInv, Held
  <2>4. /\ gains.ki * Integral(pid, gains, setpoint - measured, measured)
             \in gains.output_min .. gains.output_max
        /\ setpoint - measured < 0 =>
             Output(pid, gains, setpoint - measured, measured) < gains.output_max
        /\ setpoint - measured > 0 =>
             Output(pid, gains, setpoint - measured, measured) > gains.output_min
    BY <1>2, <2>1, <2>2, <2>3, UpdateHeld
  <2> QED
    BY <1>1, <1>3, <2>1, <2>4
<1>6. trim' \in Int
  <2>1. Usable(g) /\ pid \in PidState
    BY StateTypes DEF RegulatorInv
  <2>2. trim' = Output(pid, g, setpoint - measured, measured)
    BY <1>1
  <2> QED
    BY <1>2, <2>1, <2>2, OutputType
<1>7. demand' \in 0..FULL
  <2>1. feedforward + trim' \in Int
    BY <1>6
  <2>2. Duty(feedforward + trim') \in 0..FULL
    BY <2>1, DutyType
  <2> QED
    BY <1>1, <2>2
<1> QED
  BY <1>1, <1>2, <1>4, <1>5, <1>6, <1>7 DEF Held, NoWindup

\* The initial states.
LEMMA RegulatorInit ==
  ASSUME RegulatorAssumption, Init
  PROVE  RegulatorInv
<1>1. config \in RunConfig /\ Usable(gains) /\ pid = NewPid /\ elapsed = 0 /\ error = 0
  BY DEF Init, RegulatorAssumption
<1>2. gains \in {c.pid : c \in Configs} \cup Gains /\ pid \in PidState
  BY <1>1, NewHeld DEF Init
<1>3. Len(points) < Len(CAL_POINTS)
  <2>1. Len(CAL_POINTS) \in Nat \ {0}
    BY ConstantTypes
  <2>2. Len(points) = 0
    BY DEF Init
  <2> QED
    BY <2>1, <2>2
<1>4. RegulatorTypeOK
  <2>1. RampTicks \in Nat /\ MaxElapsed \in Nat /\ FULL \in Nat
    BY ConstantTypes
  <2>2. ramp \in 0..RampTicks /\ elapsed \in 0..MaxElapsed /\ demand \in 0..FULL
    BY <2>1 DEF Init
  <2>3. {target, error, trim} \subseteq Int /\ {points, calibration} \subseteq Seq(CalPoint)
    BY DEF Init
  <2>4. mode = "CONFIGURED" /\ swapped = FALSE
    BY DEF Init
  <2> QED
    BY <1>1, <1>2, <2>2, <2>3, <2>4 DEF RegulatorTypeOK
<1> QED
  BY <1>1, <1>3, <1>4, NewHeld DEF RegulatorInv, RegulatorTypes, Held, NoWindup

\* The point that is taken is one, and completes the calibration only as the
\* last of the table.
LEMMA PointTaken ==
  ASSUME RegulatorAssumption, RegulatorTypes, NEW mean \in Means, NEW dev \in Devs,
         NEW taken, taken = Append(points, [duty |-> CAL_POINTS[Len(points) + 1],
                                            rpm_mean |-> mean, rpm_stddev |-> dev])
  PROVE  /\ taken \in Seq(CalPoint) /\ Len(taken) = Len(points) + 1
         /\ Len(taken) # Len(CAL_POINTS) => Len(taken) < Len(CAL_POINTS)
<1> DEFINE k == Len(points) + 1
<1>1. /\ points \in Seq(CalPoint) /\ Len(points) \in Nat /\ Len(CAL_POINTS) \in Nat
      /\ Len(points) < Len(CAL_POINTS) /\ CAL_POINTS \in Seq(Nat)
  BY ConstantTypes, StateTypes
<1>2. CAL_POINTS[k] \in Nat
  <2>1. k \in 1..Len(CAL_POINTS)
    BY ONLY <1>1
  <2>2. CAL_POINTS \in Seq(Nat)
    BY <1>1
  <2> HIDE DEF k
  <2> QED
    BY ONLY <2>1, <2>2
<1>3. mean \in Int /\ dev \in Nat
  BY ConstantTypes
<1> DEFINE point == [duty |-> CAL_POINTS[k], rpm_mean |-> mean, rpm_stddev |-> dev]
<1>4. point \in CalPoint
  BY <1>2, <1>3 DEF CalPoint
<1>5. taken = Append(points, point)
  OBVIOUS
<1> HIDE DEF point, k
<1> QED
  BY ONLY <1>1, <1>4, <1>5

\* What TakePoint does to the points.
LEMMA CalibrationTypes ==
  ASSUME RegulatorAssumption, RegulatorTypes, TakePoint
  PROVE  /\ points' \in Seq(CalPoint) /\ calibration' \in Seq(CalPoint)
         /\ Len(points') < Len(CAL_POINTS)
         /\ mode' \in {"CALIBRATE", "CONFIGURED"}
         /\ calibration' # calibration => Len(calibration') > 0
<1>1. PICK mean \in Means, dev \in Devs :
        LET taken == Append(points, [duty |-> CAL_POINTS[Len(points) + 1],
                                     rpm_mean |-> mean, rpm_stddev |-> dev]) IN
        IF Len(taken) = Len(CAL_POINTS)
          THEN calibration' = taken /\ points' = <<>> /\ mode' = "CONFIGURED"
          ELSE points' = taken /\ UNCHANGED <<calibration, mode>>
  BY DEF TakePoint
<1> DEFINE taken == Append(points, [duty |-> CAL_POINTS[Len(points) + 1],
                                    rpm_mean |-> mean, rpm_stddev |-> dev])
<1>2. /\ taken \in Seq(CalPoint) /\ Len(taken) = Len(points) + 1
      /\ Len(taken) # Len(CAL_POINTS) => Len(taken) < Len(CAL_POINTS)
  BY PointTaken, Zenon
<1>3. /\ calibration \in Seq(CalPoint) /\ Len(points) \in Nat /\ Len(CAL_POINTS) \in Nat
      /\ Len(CAL_POINTS) > 0 /\ mode = "CALIBRATE"
  <2>1. Len(CAL_POINTS) \in Nat \ {0}
    BY ConstantTypes
  <2>2. calibration \in Seq(CalPoint) /\ Len(points) \in Nat
    BY StateTypes
  <2> QED
    BY <2>1, <2>2 DEF TakePoint
<1>4. IF Len(taken) = Len(CAL_POINTS)
        THEN calibration' = taken /\ points' = <<>> /\ mode' = "CONFIGURED"
        ELSE points' = taken /\ UNCHANGED <<calibration, mode>>
  BY <1>1
<1> HIDE DEF taken
<1>5. CASE Len(taken) = Len(CAL_POINTS)
  BY <1>2, <1>3, <1>4, <1>5
<1>6. CASE Len(taken) # Len(CAL_POINTS)
  BY <1>2, <1>3, <1>4, <1>6
<1> QED
  BY <1>5, <1>6

\* Every step keeps the invariant.
LEMMA RegulatorStep ==
  ASSUME RegulatorAssumption, RegulatorInv, [Next]_vars
  PROVE  RegulatorInv'
<1> USE DEF RegulatorInv
<1>1. CASE Start
  <2>1. /\ config' \in RunConfig /\ pid' = NewPid /\ elapsed' = 0 /\ error' = 0
        /\ Usable(gains') /\ gains' \in {c.pid : c \in Configs} \cup Gains
    <3>1. config' \in Configs /\ config' \in RunConfig
      BY <1>1 DEF Start, RegulatorAssumption
    <3>2. CASE config'.mode = "Calibrate"
      BY <1>1, <3>1, <3>2 DEF Start, RegulatorTypes, RegulatorTypeOK
    <3>3. CASE config'.mode # "Calibrate"
      BY <1>1, <3>1, <3>3, ConfigTypes DEF Start
    <3> QED
      BY <1>1, <3>1, <3>2, <3>3 DEF Start
  <2>2. pid' \in PidState
    BY <2>1, NewHeld
  <2>3. /\ mode' \in {"CALIBRATE", "SPOOLUP"} /\ ramp' = RampTicks /\ swapped' = FALSE
        /\ target' = 0 /\ error' = 0 /\ trim' = 0 /\ demand' = 0 /\ points' = <<>>
        /\ calibration' \in {calibration, <<>>}
    BY <1>1 DEF Start
  <2>4. Len(points') < Len(CAL_POINTS)
    BY <2>3, ConstantTypes
  <2>5. RegulatorTypeOK'
    <3>1. RampTicks \in Nat /\ MaxElapsed \in Nat /\ FULL \in Nat
      BY ConstantTypes
    <3>2. ramp' \in 0..RampTicks /\ elapsed' \in 0..MaxElapsed /\ demand' \in 0..FULL
      BY <2>1, <2>3, <3>1
    <3>3. {target', error', trim'} \subseteq Int
      BY <2>3
    <3>4. {points', calibration'} \subseteq Seq(CalPoint)
      <4>1. calibration \in Seq(CalPoint)
        BY StateTypes
      <4>2. <<>> \in Seq(CalPoint)
        OBVIOUS
      <4>3. points' \in {calibration, <<>>} /\ calibration' \in {calibration, <<>>}
        BY <2>3
      <4> QED
        BY <4>1, <4>2, <4>3, Zenon
    <3> QED
      BY <2>1, <2>2, <2>3, <3>2, <3>3, <3>4 DEF RegulatorTypeOK
  <2> QED
    BY <2>1, <2>4, <2>5, NewHeld DEF RegulatorTypes, Held, NoWindup
<1>2. CASE Spool
  <2> DEFINE setpoint == EvalProfile(config.profile, elapsed')
             feedforward == Feedforward(calibration, setpoint)
  <2>1. elapsed' = elapsed + DT /\ Live /\ elapsed' \in 0..MaxElapsed /\ elapsed' \in Nat
    <3>1. DT \in Nat /\ MaxElapsed \in Nat
      BY ConstantTypes
    <3>2. elapsed \in 0..MaxElapsed
      BY StateTypes
    <3>3. elapsed' = elapsed + DT /\ elapsed + DT <= MaxElapsed /\ Live
      BY <1>2 DEF Spool
    <3> HIDE DEF setpoint, feedforward
    <3> QED
      BY <3>1, <3>2, <3>3
  <2>2. setpoint \in Int
    <3>1. config \in RunConfig
      BY StateTypes
    <3>2. IsProfile(config.profile)
      BY <3>1, ConfigTypes
    <3> QED
      BY <2>1, <3>2, SetpointType
  <2>3. Regulate(setpoint, feedforward, gains')
    BY <1>2 DEF Spool
  <2>4. feedforward \in Int
    <3>1. calibration \in Seq(CalPoint) /\ MIN_SLOPE \in Nat \ {0}
      BY ConstantTypes, StateTypes
    <3> HIDE DEF setpoint
    <3> QED
      BY <2>2, <3>1, FeedforwardType
  <2> HIDE DEF setpoint, feedforward
  <2>5. /\ config' \in RunConfig /\ Usable(gains') /\ (~swapped' => ~swapped /\ gains' = gains)
        /\ gains' \in {c.pid : c \in Configs} \cup Gains /\ swapped' \in BOOLEAN
    BY <2>1, LiveKeeps
  <2>6. /\ pid' \in PidState /\ Held' /\ NoWindup'
        /\ target' \in Int /\ error' \in Int /\ trim' \in Int /\ demand' \in 0..FULL
    BY <2>2, <2>3, <2>4, <2>5, RegulateHeld
  <2>7. UNCHANGED fit /\ mode' \in {mode, "EXCITE", "CONFIGURED"} /\ ramp' \in 0..RampTicks
    <3>1. ramp \in Nat /\ ramp <= RampTicks /\ RampTicks \in Nat
      BY ConstantTypes, StateTypes
    <3> QED
      BY <1>2, <3>1 DEF Spool
  <2>8. RegulatorTypeOK' /\ points' = points
    BY <2>1, <2>5, <2>6, <2>7, StateTypes DEF RegulatorTypes, RegulatorTypeOK, fit
  <2> QED
    BY <2>5, <2>6, <2>8 DEF RegulatorTypes
<1>3. CASE Locked
  BY <1>3 DEF Locked, run, output, fit, RegulatorTypes, RegulatorTypeOK, Held, NoWindup
<1>4. CASE Ready
  <2>1. config.target_rpm \in Int /\ 0 \in Int
    <3>1. config \in RunConfig
      BY StateTypes
    <3> QED
      BY <3>1, ConfigTypes, SMTT(30)
  <2>2. /\ Regulate(config.target_rpm, 0, gains) /\ Live
        /\ UNCHANGED <<mode, ramp, elapsed, fit>>
    BY <1>4 DEF Ready
  <2>3. /\ config' \in RunConfig /\ Usable(gains') /\ (~swapped' => ~swapped /\ gains' = gains)
        /\ gains' \in {c.pid : c \in Configs} \cup Gains /\ swapped' \in BOOLEAN
    BY <2>2, LiveKeeps
  <2>4. /\ pid' \in PidState /\ Held' /\ NoWindup'
        /\ target' \in Int /\ error' \in Int /\ trim' \in Int /\ demand' \in 0..FULL
    BY <2>1, <2>2, <2>3, RegulateHeld
  <2>5. RegulatorTypeOK' /\ points' = points
    BY <2>2, <2>3, <2>4 DEF RegulatorTypes, RegulatorTypeOK, fit
  <2> QED
    BY <2>3, <2>4, <2>5 DEF RegulatorTypes
<1>5. CASE Stop
  <2>1. /\ UNCHANGED <<config, gains, ramp, elapsed, swapped, output, calibration>>
        /\ pid' \in {pid, NewPid} /\ points' = <<>> /\ mode' = "CONFIGURED"
    BY <1>5 DEF Stop
  <2>2. pid' \in PidState
    BY <2>1, NewHeld, StateTypes
  <2>3. RegulatorTypeOK'
    BY <2>1, <2>2 DEF RegulatorTypes, RegulatorTypeOK, output
  <2>4. Len(points') < Len(CAL_POINTS)
    BY <2>1, ConstantTypes
  <2> QED
    BY <2>1, <2>3, <2>4, NewHeld DEF RegulatorTypes, Held, NoWindup, output
<1>6. CASE TakePoint
  <2>1. /\ points' \in Seq(CalPoint) /\ calibration' \in Seq(CalPoint)
        /\ Len(points') < Len(CAL_POINTS) /\ mode' \in {"CALIBRATE", "CONFIGURED"}
    BY <1>6, CalibrationTypes
  <2>2. UNCHANGED <<run, output>>
    BY <1>6 DEF TakePoint
  <2> QED
    BY <2>1, <2>2 DEF run, output, RegulatorTypes, RegulatorTypeOK, Held, NoWindup
<1>7. CASE UNCHANGED vars
  BY <1>7 DEF vars, run, output, fit, RegulatorTypes, RegulatorTypeOK, Held, NoWindup
<1> QED
  BY <1>1, <1>2, <1>3, <1>4, <1>5, <1>6, <1>7 DEF Next

\* Whatever profile, calibration, gains and speeds: the feedforward and the
\* trim add up to a duty from 0 to FULL, with a fit that never divides by 0.
THEOREM RegulatorTypesCorrect == Spec => []RegulatorTypeOK
<1>1. RegulatorInv => RegulatorTypeOK
  BY DEF RegulatorInv, RegulatorTypes
<1> QED
  BY <1>1, RegulatorAssumption, RegulatorInit, RegulatorStep, PTL DEF Spec

\* Whatever the profile, the speeds and the controller, as long as that is
\* Usable, and however long the output has been at a limit, an error of the
\* other sign takes it off at once, in a run that keeps its gains and has no
\* derivative.
THEOREM NothingWindsUp == Spec => []NoWindup
<1>1. RegulatorInv => NoWindup
  BY DEF RegulatorInv
<1> QED
  BY <1>1, RegulatorAssumption, RegulatorInit, RegulatorStep, PTL DEF Spec

\* For any number of points at any duties, and whatever was measured at them,
\* a line with integer coefficients leaves no smaller sum of squared residuals
\* than the slope and intercept of Calibrator::fit.
THEOREM FitIsOptimal == Spec => LeastSquares
<1>1. ASSUME RegulatorInv, [Next]_vars
      PROVE  TakePoint /\ calibration' # calibration =>
               \A slope \in Coefficients, intercept \in Coefficients :
                 SsRes(calibration') <=
                   Square(Divisor(calibration')) * Residuals(calibration', slope, intercept, 1)
  <2> SUFFICES ASSUME TakePoint, calibration' # calibration,
                      NEW slope \in Coefficients, NEW intercept \in Coefficients
               PROVE  SsRes(calibration') <=
                        Square(Divisor(calibration')) * Residuals(calibration', slope, intercept, 1)
    OBVIOUS
  <2>1. calibration' \in Seq(CalPoint) /\ Len(calibration') > 0
    BY <1>1, RegulatorAssumption, CalibrationTypes DEF RegulatorInv
  <2>2. slope \in Int /\ intercept \in Int
    BY DEF Coefficients
  <2> QED
    BY <2>1, <2>2, FitOptimal
<1> QED
  BY <1>1, RegulatorAssumption, RegulatorInit, RegulatorStep, PTL DEF Spec, LeastSquares

-----------------------------------------------------------------------------
(* How fast the setpoint moves. *)

\* A set of natural numbers that does not go beyond a bound has a largest one.
LEMMA LargestNumber ==
  ASSUME NEW S \in SUBSET Nat, S # {}, NEW bound \in Nat, \A y \in S : y <= bound
  PROVE  Max(S) \in S /\ \A y \in S : y <= Max(S)
<1> DEFINE U == {u \in Nat : \A y \in S : y <= u}
<1>1. U \in SUBSET Nat /\ U # {}
  OBVIOUS
<1>2. PICK u \in U : \A v \in U : u <= v
  BY <1>1, LeastMember
<1>3. u \in Nat /\ \A y \in S : y <= u
  BY <1>2
<1>4. u \in S
  <2> SUFFICES ASSUME u \notin S PROVE FALSE
    OBVIOUS
  <2>1. \A y \in S : y \in Nat /\ y <= u /\ y # u
    BY <1>3
  <2>2. u > 0
    <3>1. PICK y \in S : TRUE
      OBVIOUS
    <3> QED
      BY <1>3, <2>1, <3>1
  <2>3. u - 1 \in Nat /\ \A y \in S : y <= u - 1
    BY <1>3, <2>1, <2>2
  <2> QED
    BY <1>2, <1>3, <2>3
<1>5. \A y \in S : u >= y
  BY <1>3
<1>6. \E x \in S : \A y \in S : x >= y
  BY <1>4, <1>5
<1>7. Max(S) \in S /\ \A y \in S : Max(S) >= y
  BY <1>6, Zenon DEF Max
<1> QED
  BY <1>7

\* Numbers in a row do not go beyond some bound.
LEMMA RowBounded ==
  ASSUME NEW n \in Nat, NEW f, \A i \in 1..n : f[i] \in Nat
  PROVE  \E bound \in Nat : \A i \in 1..n : f[i] <= bound
<1> DEFINE P(k) == \E bound \in Nat : \A i \in 1..k : f[i] <= bound
           B == {k \in 0..n : ~P(k)}
<1>1. P(0)
  BY 0 \in Nat
<1>2. ASSUME NEW k \in 1..n, P(k - 1)
      PROVE  P(k)
  <2>1. PICK b \in Nat : \A i \in 1..k - 1 : f[i] <= b
    BY <1>2
  <2>2. f[k] \in Nat /\ b + f[k] \in Nat
    OBVIOUS
  <2>3. \A i \in 1..k : f[i] <= b + f[k]
    <3> TAKE i \in 1..k
    <3>1. f[i] \in Nat
      OBVIOUS
    <3>2. CASE i = k
      BY <2>2, <3>2
    <3>3. CASE i # k
      BY <2>1, <2>2, <3>1, <3>3
    <3> QED
      BY <3>2, <3>3
  <2> QED
    BY <2>2, <2>3
<1> HIDE DEF P
<1>3. B = {}
  <2> SUFFICES ASSUME B # {} PROVE FALSE
    OBVIOUS
  <2>1. B \in SUBSET Nat
    OBVIOUS
  <2>2. PICK k \in B : \A y \in B : k <= y
    BY <2>1, LeastMember
  <2>3. k \in 1..n /\ k - 1 \in 0..n /\ k - 1 \notin B
    BY <1>1, <2>2
  <2> QED
    BY <1>2, <2>2, <2>3
<1>4. P(n)
  BY <1>3
<1> QED
  BY <1>4 DEF P

\* The distance of two numbers.
LEMMA GapWithin ==
  ASSUME NEW x \in Int, NEW y \in Int
  PROVE  /\ Gap(x, y) \in Nat /\ x - y <= Gap(x, y) /\ y - x <= Gap(x, y)
         /\ \A g \in Int : x - y <= g /\ y - x <= g => Gap(x, y) <= g
<1> DEFINE m == IF x >= y THEN x - y ELSE y - x
<1>1. /\ m \in {x - y, y - x} /\ m \in Nat /\ x - y <= m /\ y - x <= m
      /\ \A g \in Int : x - y <= g /\ y - x <= g => m <= g
  OBVIOUS
<1> HIDE DEF m
<1>2. \A z \in {x - y, y - x} : (\A v \in {x - y, y - x} : z >= v) <=> z = m
  BY <1>1
<1>3. Gap(x, y) = m
  BY <1>1, <1>2 DEF Gap, Max
<1> QED
  BY <1>1, <1>3

\* Products grow with their factors.
LEMMA TimesMonotone ==
  ASSUME NEW a \in Int, NEW b \in Int, NEW c \in Nat
  PROVE  /\ a <= b => c * a <= c * b /\ a * c <= b * c
         /\ c > 0 /\ a < b => c * a < c * b /\ a * c < b * c
<1>1. (b - a) \in Int /\ c * (b - a) = c * b - c * a /\ c * a = a * c /\ c * b = b * c
  OBVIOUS
<1>2. a <= b => c * (b - a) >= 0
  OBVIOUS
<1>3. c > 0 /\ a < b => c * (b - a) > 0
  OBVIOUS
<1> QED
  BY <1>1, <1>2, <1>3

\* And factors with their products.
LEMMA LessByTimes ==
  ASSUME NEW a \in Int, NEW b \in Int, NEW c \in Nat \ {0}
  PROVE  (a * c < b * c => a < b) /\ (a * c <= b * c => a <= b)
<1>1. b <= a => b * c <= a * c
  BY TimesMonotone
<1>2. b < a => b * c < a * c
  BY TimesMonotone
<1>3. a * c \in Int /\ b * c \in Int
  OBVIOUS
<1> QED
  BY <1>1, <1>2, <1>3

\* A division that is rounded up.
LEMMA Ceiling ==
  ASSUME NEW k \in Nat, NEW T \in Nat \ {0}, NEW q, q = (k + T - 1) \div T
  PROVE  q \in Nat /\ k <= q * T
<1>1. q \in Int /\ q * T <= k + T - 1 /\ k + T - 1 < (q + 1) * T
  OBVIOUS
<1>2. (q + 1) * T = q * T + T /\ q * T \in Int
  BY <1>1
<1>3. k <= q * T
  BY <1>1, <1>2
<1>4. q >= 0
  <2> SUFFICES ASSUME q + 1 <= 0 PROVE FALSE
    BY <1>1
  <2>1. (q + 1) * T <= 0
    BY <1>1
  <2> QED
    BY <1>1, <2>1
<1> QED
  BY <1>1, <1>3, <1>4

\* A segment moves the speed no faster than the steepest one.
LEMMA SteepestBounds ==
  ASSUME NEW p, IsProfile(p), p.points # <<>>, DT \in Nat, Smooth(p)
  PROVE  /\ Steepest(p) \in Nat
         /\ \A i \in 1..Len(p.points) - 1 :
              LET w == p.points[i + 1].rpm - p.points[i].rpm
                  span == p.points[i + 1].t - p.points[i].t
              IN  DT * w <= Steepest(p) * span /\ -(DT * w) <= Steepest(p) * span
<1> DEFINE n == Len(p.points)
           t(i) == p.points[i].t
           r(i) == p.points[i].rpm
           Slopes == {i \in 1..n - 1 : t(i) < t(i + 1)}
           Run(i) == t(i + 1) - t(i)
           Rise(i) == Gap(r(i), r(i + 1))
           C(i) == (DT * Rise(i) + Run(i) - 1) \div Run(i)
           S == {0} \cup {C(i) : i \in Slopes}
<1>1. /\ n \in Nat \ {0}
      /\ \A i \in 1..n : t(i) \in Nat /\ r(i) \in Nat
  BY PointTypes
<1>2. Steepest(p) = Max(S)
  BY DEF Steepest
<1>3. \A i \in 1..n - 1 : /\ t(i) \in Nat /\ t(i + 1) \in Nat /\ r(i) \in Nat /\ r(i + 1) \in Nat
                          /\ t(i) <= t(i + 1)
                          /\ t(i) < t(i + 1) \/ r(i) = r(i + 1)
  <2> SUFFICES ASSUME NEW i \in 1..n - 1
               PROVE  /\ t(i) \in Nat /\ t(i + 1) \in Nat /\ r(i) \in Nat /\ r(i + 1) \in Nat
                      /\ t(i) <= t(i + 1)
                      /\ t(i) < t(i + 1) \/ r(i) = r(i + 1)
    OBVIOUS
  <2>1. i \in 1..n /\ i + 1 \in 1..n /\ i < i + 1
    BY <1>1
  <2>2. t(i) \in Nat /\ t(i + 1) \in Nat /\ r(i) \in Nat /\ r(i + 1) \in Nat
    BY <1>1, <2>1
  <2>3. t(i) <= t(i + 1)
    BY <2>1, PointTypes DEF IsProfile
  <2>4. t(i) < t(i + 1) \/ r(i) = r(i + 1)
    BY DEF Smooth
  <2> QED
    BY <2>2, <2>3, <2>4
<1> HIDE DEF n, t, r
<1>4. \A i \in Slopes : C(i) \in Nat /\ Run(i) \in Nat \ {0} /\ DT * Rise(i) <= C(i) * Run(i)
                        /\ Rise(i) \in Nat
  <2> SUFFICES ASSUME NEW i \in Slopes
               PROVE  C(i) \in Nat /\ Run(i) \in Nat \ {0} /\ DT * Rise(i) <= C(i) * Run(i)
                      /\ Rise(i) \in Nat
    OBVIOUS
  <2>1. Run(i) \in Nat \ {0} /\ Rise(i) \in Nat
    <3>1. i \in 1..n - 1 /\ t(i) < t(i + 1)
      OBVIOUS
    <3>2. t(i) \in Nat /\ t(i + 1) \in Nat /\ r(i) \in Int /\ r(i + 1) \in Int
      BY <1>3, <3>1
    <3>3. Gap(r(i), r(i + 1)) \in Nat
      BY <3>2, GapWithin
    <3> QED
      BY <3>1, <3>2, <3>3
  <2> DEFINE k == DT * Rise(i)
  <2>2. k \in Nat
    BY <2>1
  <2>3. C(i) = (k + Run(i) - 1) \div Run(i)
    OBVIOUS
  <2> HIDE DEF k, Run, Rise, C
  <2>4. C(i) \in Nat /\ k <= C(i) * Run(i)
    BY <2>1, <2>2, <2>3, Ceiling
  <2> QED
    BY <2>1, <2>4 DEF k
<1>5. S \in SUBSET Nat /\ 0 \in S
  BY <1>4
<1>6. \E bound \in Nat : \A y \in S : y <= bound
  <2> DEFINE f == [i \in 1..n - 1 |-> IF i \in Slopes THEN C(i) ELSE 0]
  <2>1. \A i \in 1..n - 1 : f[i] \in Nat
    BY <1>4
  <2>2. \A i \in Slopes : i \in 1..n - 1 /\ f[i] = C(i)
    OBVIOUS
  <2>3. n - 1 \in Nat
    BY <1>1
  <2> HIDE DEF f, C, Slopes
  <2>4. PICK b \in Nat : \A i \in 1..n - 1 : f[i] <= b
    BY <2>1, <2>3, RowBounded
  <2>5. \A y \in S : y <= b
    BY <2>2, <2>4
  <2> QED
    BY <2>5
<1> DEFINE G == Max(S)
<1>7. G \in S /\ \A y \in S : y <= G
  <2> HIDE DEF S
  <2> QED
    BY <1>5, <1>6, LargestNumber
<1>8. G \in Nat /\ \A i \in Slopes : C(i) <= G
  <2> HIDE DEF G, C, Slopes
  <2> QED
    BY <1>5, <1>7
<1> HIDE DEF G, S
<1>9. ASSUME NEW i \in 1..n - 1
      PROVE  /\ DT * (r(i + 1) - r(i)) <= G * (t(i + 1) - t(i))
             /\ -(DT * (r(i + 1) - r(i))) <= G * (t(i + 1) - t(i))
  <2>1. CASE t(i) = t(i + 1)
    <3>1. t(i + 1) - t(i) = 0 /\ r(i + 1) - r(i) = 0
      BY <1>3, <2>1
    <3> QED
      BY <1>8, <3>1
  <2>2. CASE t(i) # t(i + 1)
    <3>1. i \in Slopes
      BY <1>3, <2>2
    <3> DEFINE w == r(i + 1) - r(i)
               T == Run(i)
               c == C(i)
               h == Rise(i)
    <3>2. /\ c \in Nat /\ T \in Nat \ {0} /\ h \in Nat /\ DT * h <= c * T /\ c <= G
          /\ w \in Int /\ w <= h /\ -w <= h
      <4>1. r(i) \in Int /\ r(i + 1) \in Int
        BY <1>3
      <4>2. /\ h = Gap(r(i), r(i + 1)) /\ h \in Nat
            /\ r(i) - r(i + 1) <= h /\ r(i + 1) - r(i) <= h
        BY <4>1, GapWithin
      <4>3. c \in Nat /\ T \in Nat \ {0} /\ DT * h <= c * T /\ c <= G
        BY <1>4, <1>8, <3>1
      <4> HIDE DEF T, c, h
      <4> QED
        BY <4>1, <4>2, <4>3
    <3>3. DT * w <= DT * h /\ DT * (-w) <= DT * h
      <4> HIDE DEF w, T, c, h
      <4> QED
        BY <3>2, TimesMonotone
    <3>4. c * T <= G * T
      <4> HIDE DEF w, T, c, h
      <4> QED
        BY <1>8, <3>2, TimesMonotone
    <3>5. T = t(i + 1) - t(i)
      OBVIOUS
    <3>6. DT * w <= G * T /\ -(DT * w) <= G * T
      <4> HIDE DEF w, T, c, h
      <4>1. /\ DT * (-w) = -(DT * w)
            /\ DT * w \in Int /\ DT * h \in Int /\ c * T \in Int /\ G * T \in Int
        BY <1>8, <3>2, SMTT(30)
      <4> QED
        BY <3>2, <3>3, <3>4, <4>1
    <3> QED
      BY <3>5, <3>6
  <2> QED
    BY <2>1, <2>2
<1> QED
  BY <1>2, <1>8, <1>9 DEF G, n, r, t

\* A way is made in one step or in two.
LEMMA InTwoSteps ==
  ASSUME NEW a \in Int, NEW b \in Int, NEW c \in Int, NEW k \in Nat
  PROVE  /\ k * (c - a) = k * (b - a) + k * (c - b)
         /\ k * (b - a) \in Int /\ k * (c - b) \in Int
OBVIOUS

\* Nor do several segments in a row.
LEMMA RowOfSegments ==
  ASSUME NEW p, IsProfile(p), p.points # <<>>, DT \in Nat, Smooth(p),
         NEW i \in 1..Len(p.points), NEW j \in i..Len(p.points)
  PROVE  LET w == p.points[j].rpm - p.points[i].rpm
             span == p.points[j].t - p.points[i].t
         IN  /\ DT * w <= Steepest(p) * span /\ -(DT * w) <= Steepest(p) * span
             /\ span >= 0
<1> DEFINE n == Len(p.points)
           t(k) == p.points[k].t
           r(k) == p.points[k].rpm
           G == Steepest(p)
           P(k) == /\ DT * (r(k) - r(i)) <= G * (t(k) - t(i))
                   /\ -(DT * (r(k) - r(i))) <= G * (t(k) - t(i))
           B == {k \in i..n : ~P(k)}
<1>1. /\ n \in Nat \ {0}
      /\ \A k \in 1..n : t(k) \in Nat /\ r(k) \in Nat
  BY PointTypes
<1>2. G \in Nat
  BY SteepestBounds
<1>3. \A k \in 1..n - 1 : /\ DT * (r(k + 1) - r(k)) <= G * (t(k + 1) - t(k))
                          /\ -(DT * (r(k + 1) - r(k))) <= G * (t(k + 1) - t(k))
  BY SteepestBounds
<1>4. t(j) - t(i) >= 0
  <2>1. CASE i = j
    BY <1>1, <2>1
  <2>2. CASE i # j
    <3>1. i < j /\ i \in DOMAIN p.points /\ j \in DOMAIN p.points
      BY <2>2, PointTypes
    <3>2. p.points[i].t <= p.points[j].t
      BY <3>1 DEF IsProfile
    <3>3. t(i) \in Nat /\ t(j) \in Nat
      BY <1>1
    <3> QED
      BY <3>2, <3>3
  <2> QED
    BY <2>1, <2>2
<1>5. i \in 1..n /\ j \in i..n
  OBVIOUS
<1> HIDE DEF n, t, r, G
<1>6. P(i)
  <2>1. r(i) - r(i) = 0 /\ t(i) - t(i) = 0
    BY <1>1, <1>5
  <2> QED
    BY <1>2, <2>1
<1>7. ASSUME NEW k \in i + 1 .. n, P(k - 1)
      PROVE  P(k)
  <2> DEFINE l == k - 1
             a == DT * (r(l) - r(i))
             b == DT * (r(k) - r(l))
             c == G * (t(l) - t(i))
             e == G * (t(k) - t(l))
  <2>1. l \in 1..n - 1 /\ k = l + 1 /\ l \in 1..n /\ k \in 1..n
    BY <1>1, <1>5
  <2>2. b <= e /\ -b <= e
    BY <1>3, <2>1
  <2>3. a <= c /\ -a <= c
    BY <1>7
  <2>4. /\ r(k) \in Int /\ r(l) \in Int /\ r(i) \in Int
        /\ t(k) \in Int /\ t(l) \in Int /\ t(i) \in Int
    BY <1>1, <1>5, <2>1
  <2> HIDE DEF l
  <2>5. /\ DT * (r(k) - r(i)) = a + b /\ G * (t(k) - t(i)) = c + e
        /\ a \in Int /\ b \in Int /\ c \in Int /\ e \in Int
    <3> HIDE DEF r, t
    <3>1. DT * (r(k) - r(i)) = a + b /\ a \in Int /\ b \in Int
      BY <2>4, InTwoSteps, SMTT(30)
    <3>2. G * (t(k) - t(i)) = c + e /\ c \in Int /\ e \in Int
      BY <1>2, <2>4, InTwoSteps, SMTT(30)
    <3> QED
      BY <3>1, <3>2
  <2> HIDE DEF a, b, c, e
  <2> QED
    BY <2>2, <2>3, <2>5
<1> HIDE DEF P
<1>8. B = {}
  <2> SUFFICES ASSUME B # {} PROVE FALSE
    OBVIOUS
  <2>1. B \in SUBSET Nat
    BY <1>1, <1>5
  <2>2. PICK k \in B : \A y \in B : k <= y
    BY <2>1, LeastMember
  <2>3. k \in i..n /\ k # i
    BY <1>6, <2>2
  <2>4. k \in i + 1 .. n /\ k - 1 \in i..n /\ ~(k <= k - 1)
    BY <1>1, <1>5, <2>3
  <2>5. P(k - 1) /\ ~P(k)
    BY <2>2, <2>4
  <2> QED
    BY <1>7, <2>4, <2>5
<1>9. P(j)
  BY <1>5, <1>8
<1> QED
  BY <1>4, <1>9 DEF P, n, t, r, G

\* Time x is not after point k, and a speed v there as near to the point's as
\* the steepest segment allows: it is rounded down.
Before(p, x, v, k) ==
  LET rpm == p.points[k].rpm
      span == p.points[k].t - x IN
  span >= 0 /\ DT * (v - rpm) <= Steepest(p) * span /\ DT * (rpm - v) < Steepest(p) * span + DT

\* Time x is not before it.
After(p, x, v, k) ==
  LET rpm == p.points[k].rpm
      span == x - p.points[k].t IN
  span >= 0 /\ DT * (v - rpm) <= Steepest(p) * span /\ DT * (rpm - v) < Steepest(p) * span + DT

\* What is near enough before a point is so before a later one.
LEMMA BeforeLater ==
  ASSUME NEW p, IsProfile(p), p.points # <<>>, DT \in Nat, Smooth(p),
         NEW i \in 1..Len(p.points), NEW j \in i..Len(p.points),
         NEW x \in Int, NEW v \in Int, Before(p, x, v, i)
  PROVE  Before(p, x, v, j)
<1> DEFINE G == Steepest(p)
           ti == p.points[i].t
           tj == p.points[j].t
           ri == p.points[i].rpm
           rj == p.points[j].rpm
<1>1. /\ ti \in Int /\ tj \in Int /\ ri \in Int /\ rj \in Int /\ G \in Int
  <2>1. i \in 1..Len(p.points) /\ j \in 1..Len(p.points)
    BY PointTypes
  <2> QED
    BY <2>1, PointTypes, SteepestBounds
<1>2. /\ DT * (rj - ri) <= G * (tj - ti) /\ -(DT * (rj - ri)) <= G * (tj - ti)
      /\ tj - ti >= 0
  BY RowOfSegments
<1>3. /\ ti - x >= 0 /\ DT * (v - ri) <= G * (ti - x)
      /\ DT * (ri - v) < G * (ti - x) + DT
  BY DEF Before
<1> HIDE DEF G, ti, tj, ri, rj
<1> DEFINE a == DT * (rj - ri)
           b == G * (tj - ti)
           c == DT * (v - ri)
           e == G * (ti - x)
<1>4. /\ a \in Int /\ b \in Int /\ c \in Int /\ e \in Int /\ DT * (ri - v) = -c
      /\ DT * (v - rj) = c - a /\ DT * (rj - v) = a - c /\ G * (tj - x) = b + e
  BY ONLY <1>1, DT \in Nat, x \in Int, v \in Int
<1>5. a <= b /\ -a <= b /\ c <= e /\ -c < e + DT
  BY <1>2, <1>3, <1>4
<1> HIDE DEF a, b, c, e
<1>6. /\ tj - x >= 0 /\ DT * (v - rj) <= G * (tj - x)
      /\ DT * (rj - v) < G * (tj - x) + DT
  BY <1>1, <1>2, <1>3, <1>4, <1>5
<1> QED
  BY <1>6 DEF Before, G, tj, rj

\* Two speeds that are near enough to a point between them, DT apart.
LEMMA AroundPoint ==
  ASSUME NEW p, IsProfile(p), p.points # <<>>, DT \in Nat \ {0}, Smooth(p),
         NEW k \in 1..Len(p.points), NEW x \in Int, NEW u \in Int, NEW v \in Int,
         Before(p, x, u, k), After(p, x + DT, v, k)
  PROVE  u - v <= Steepest(p) /\ v - u <= Steepest(p)
<1> DEFINE G == Steepest(p)
           tk == p.points[k].t
           rk == p.points[k].rpm
<1>1. tk \in Int /\ rk \in Int /\ G \in Int
  BY PointTypes, SteepestBounds
<1> DEFINE y == x + DT
<1>2. /\ DT * (u - rk) <= G * (tk - x) /\ DT * (rk - u) < G * (tk - x) + DT
      /\ DT * (v - rk) <= G * (y - tk) /\ DT * (rk - v) < G * (y - tk) + DT
  <2> HIDE DEF y
  <2>1. After(p, y, v, k)
    BY DEF y
  <2> QED
    BY <2>1 DEF Before, After
<1> HIDE DEF G, tk, rk
<1> DEFINE a == DT * (u - rk)
           b == DT * (v - rk)
           c == G * (tk - x)
           e == G * (y - tk)
<1>3. /\ a \in Int /\ b \in Int /\ c \in Int /\ e \in Int
      /\ DT * (rk - u) = -a /\ DT * (rk - v) = -b
      /\ (u - v) * DT = a - b /\ (v - u) * DT = b - a /\ (G + 1) * DT = c + e + DT
  BY ONLY <1>1, DT \in Nat \ {0}, x \in Int, u \in Int, v \in Int
<1>4. a <= c /\ -a < c + DT /\ b <= e /\ -b < e + DT
  BY <1>2, <1>3
<1> HIDE DEF a, b, c, e
<1>5. (u - v) * DT < (G + 1) * DT /\ (v - u) * DT < (G + 1) * DT
  BY <1>3, <1>4
<1>6. u - v < G + 1 /\ v - u < G + 1
  BY <1>1, <1>5, LessByTimes
<1> QED
  BY <1>1, <1>6 DEF G
\* What is true of the rise e of a speed over a time T is true, in proportion,
\* of the part that is made in time s.
LEMMA InProportion ==
  ASSUME NEW T \in Nat \ {0}, NEW s \in Nat, NEW e \in Int, NEW h \in Int,
         NEW k \in Nat \ {0}, NEW g \in Nat, k * h <= g * T
  PROVE  /\ e * T <= s * h => k * e <= g * s
         /\ e * T < s * h => k * e < g * s
<1>1. s * (k * h) <= s * (g * T)
  BY TimesMonotone
<1>2. /\ (k * e) * T = k * (e * T) /\ k * (s * h) = s * (k * h) /\ s * (g * T) = (g * s) * T
      /\ k * e \in Int /\ g * s \in Int /\ e * T \in Int /\ s * h \in Int
      /\ k * (e * T) \in Int /\ k * (s * h) \in Int /\ (g * s) * T \in Int
  OBVIOUS
<1>3. e * T <= s * h => k * (e * T) <= k * (s * h)
  BY <1>2, TimesMonotone
<1>4. e * T < s * h => k * (e * T) < k * (s * h)
  BY <1>2, TimesMonotone
<1>5. (k * e) * T <= (g * s) * T => k * e <= g * s
  BY <1>2, LessByTimes
<1>6. (k * e) * T < (g * s) * T => k * e < g * s
  BY <1>2, LessByTimes
<1> DEFINE a == (k * e) * T
           b == k * (s * h)
           c == (g * s) * T
           l == e * T
           m == s * h
<1>7. a \in Int /\ b \in Int /\ c \in Int /\ b <= c
  BY <1>1, <1>2
<1>8. (l <= m => a <= b) /\ (l < m => a < b)
  BY <1>2, <1>3, <1>4
<1>9. (a <= c => k * e <= g * s) /\ (a < c => k * e < g * s)
  BY <1>5, <1>6
<1> HIDE DEF a, b, c, l, m
<1>10. (a <= b => a <= c) /\ (a < b => a < c)
  BY <1>7
<1>11. (l <= m => k * e <= g * s) /\ (l < m => k * e < g * s)
  BY <1>8, <1>9, <1>10
<1> QED
  BY <1>11 DEF l, m

\* The speed on segment m of profile p.
On(p, m, x) == Between(p.points[m], p.points[m + 1], x)

\* The points follow each other in time.
LEMMA PointsInOrder ==
  ASSUME NEW p, IsProfile(p), p.points # <<>>,
         NEW i \in 1..Len(p.points), NEW j \in i..Len(p.points)
  PROVE  /\ i \in Nat /\ j \in 1..Len(p.points) /\ j \in Nat
         /\ p.points[i].t \in Nat /\ p.points[j].t \in Nat /\ p.points[i].t <= p.points[j].t
<1>1. Len(p.points) \in Nat /\ DOMAIN p.points = 1..Len(p.points)
  BY PointTypes
<1>2. i \in Nat /\ j \in Nat /\ j \in 1..Len(p.points)
  BY <1>1
<1>3. p.points[i].t \in Nat /\ p.points[j].t \in Nat
  BY <1>2, PointTypes
<1>4. CASE i = j
  BY <1>2, <1>3, <1>4
<1>5. CASE i # j
  <2>1. i \in DOMAIN p.points /\ j \in DOMAIN p.points /\ i < j
    BY <1>1, <1>2, <1>5
  <2>2. p.points[i].t <= p.points[j].t
    BY <2>1 DEF IsProfile
  <2> QED
    BY <1>2, <1>3, <2>2
<1> QED
  BY <1>4, <1>5

\* A segment with both its ends, and how far into it a time is: the way made
\* is rounded down.
LEMMA OnSegment ==
  ASSUME NEW p, IsProfile(p), p.points # <<>>, DT \in Nat \ {0}, Smooth(p),
         NEW m \in 1..Len(p.points) - 1, NEW x \in p.points[m].t .. p.points[m + 1].t
  PROVE  LET a == p.points[m]
             b == p.points[m + 1]
             q == On(p, m, x) - a.rpm
             T == b.t - a.t
             w == b.rpm - a.rpm
         IN  /\ a.t \in Nat /\ b.t \in Nat /\ a.rpm \in Nat /\ b.rpm \in Nat /\ a.t <= b.t
             /\ q \in Int /\ On(p, m, x) = a.rpm + q
             /\ T = 0 => w = 0 /\ q = 0
             /\ T > 0 => q * T <= (x - a.t) * w /\ (x - a.t) * w < (q + 1) * T
             /\ Steepest(p) \in Nat
             /\ DT * w <= Steepest(p) * T /\ DT * (-w) <= Steepest(p) * T
<1> DEFINE n == Len(p.points)
           a == p.points[m]
           b == p.points[m + 1]
           q == On(p, m, x) - a.rpm
           T == b.t - a.t
           w == b.rpm - a.rpm
<1>1. n \in Nat /\ m \in 1..n /\ m + 1 \in m..n /\ m + 1 \in 1..n
  BY PointTypes
<1>2. a \in Breakpoint /\ b \in Breakpoint /\ a.rpm \in Nat /\ b.rpm \in Nat
  BY <1>1, PointTypes
<1>3. a.t \in Nat /\ b.t \in Nat /\ a.t <= b.t
  BY <1>1, PointsInOrder
<1>4. a.interp # "Step" /\ (a.t < b.t \/ a.rpm = b.rpm)
  BY <1>1, PointTypes DEF Smooth
<1>5. /\ Steepest(p) \in Nat
      /\ DT * w <= Steepest(p) * T /\ -(DT * w) <= Steepest(p) * T
  BY SteepestBounds
<1>6. DT * (-w) = -(DT * w)
  BY <1>2
<1>7. x \in a.t .. b.t
  OBVIOUS
<1>8. On(p, m, x) = Between(a, b, x)
  BY DEF On
<1> HIDE DEF a, b, n
<1> DEFINE Claim ==
             /\ q \in Int /\ On(p, m, x) = a.rpm + q
             /\ T = 0 => w = 0 /\ q = 0
             /\ T > 0 => q * T <= (x - a.t) * w /\ (x - a.t) * w < (q + 1) * T
<1>9. ASSUME T = 0 PROVE Claim
  <2>1. a.t = b.t /\ a.rpm = b.rpm /\ w = 0
    BY <1>2, <1>3, <1>4, <1>9
  <2>2. On(p, m, x) = b.rpm
    BY <1>4, <1>8, <2>1 DEF Between
  <2>3. q = 0
    BY <1>2, <2>1, <2>2
  <2>4. On(p, m, x) = a.rpm + q
    BY <1>2, <2>2, <2>3
  <2> HIDE DEF T, w, q
  <2> QED
    BY <1>9, <2>1, <2>3, <2>4
<1>10. ASSUME T # 0 PROVE Claim
  <2> DEFINE z == (x - a.t) * w
             c == z \div T
  <2>1. T \in Nat \ {0} /\ a.t # b.t /\ z \in Int
    <3>1. w \in Int /\ x - a.t \in Int
      BY <1>2, <1>3, <1>7
    <3>2. T \in Nat \ {0} /\ a.t # b.t
      BY <1>3, <1>10
    <3> HIDE DEF T, w
    <3> QED
      BY <3>1, <3>2
  <2>2. On(p, m, x) = a.rpm + c
    BY <1>4, <1>8, <2>1, Zenon DEF Between
  <2>3. c \in Int /\ c * T <= z /\ z < (c + 1) * T
    <3> HIDE DEF z, T
    <3> QED
      BY ONLY <2>1
  <2>4. q = c
    <3> HIDE DEF c
    <3> QED
      BY <1>2, <2>2, <2>3
  <2>5. /\ q \in Int /\ On(p, m, x) = a.rpm + q
        /\ q * T <= (x - a.t) * w /\ (x - a.t) * w < (q + 1) * T
    <3> HIDE DEF c, q, T, w
    <3> QED
      BY <2>2, <2>3, <2>4
  <2> HIDE DEF T, w, q
  <2> QED
    BY <1>10, <2>5
<1>11. DT * (-w) <= Steepest(p) * T
  <2> HIDE DEF T, w
  <2> QED
    BY <1>5, <1>6
<1>12. Claim
  BY <1>9, <1>10
<1> QED
  BY <1>2, <1>3, <1>5, <1>11, <1>12 DEF a, b

\* On a segment, the speed is near enough to that of both its ends.
LEMMA NearEnds ==
  ASSUME NEW p, IsProfile(p), p.points # <<>>, DT \in Nat \ {0}, Smooth(p),
         NEW m \in 1..Len(p.points) - 1, NEW x \in p.points[m].t .. p.points[m + 1].t
  PROVE  After(p, x, On(p, m, x), m) /\ Before(p, x, On(p, m, x), m + 1)
<1> DEFINE G == Steepest(p)
           v == On(p, m, x)
           ta == p.points[m].t
           tb == p.points[m + 1].t
           ra == p.points[m].rpm
           rb == p.points[m + 1].rpm
           q == v - ra
           T == tb - ta
           w == rb - ra
           s == x - ta
           u == tb - x
<1>1. /\ ta \in Nat /\ tb \in Nat /\ ra \in Nat /\ rb \in Nat /\ ta <= tb
      /\ q \in Int /\ v = ra + q
      /\ T = 0 => w = 0 /\ q = 0
      /\ T > 0 => q * T <= s * w /\ s * w < (q + 1) * T
      /\ G \in Nat /\ DT * w <= G * T /\ DT * (-w) <= G * T
  BY OnSegment
<1>2. x \in ta..tb
  OBVIOUS
<1> HIDE DEF G, v, ta, tb, ra, rb, q
<1>3. s \in Nat /\ u \in Nat /\ T \in Nat /\ w \in Int /\ T = s + u
  BY <1>1, <1>2
<1>4. v - ra = q /\ ra - v = -q /\ v - rb = q - w /\ rb - v = w - q
  BY <1>1
<1>5. /\ DT * q <= G * s /\ DT * (-q) < G * s + DT
      /\ DT * (q - w) <= G * u /\ DT * (w - q) < G * u + DT
  <2> HIDE DEF s, u, T, w
  <2>1. CASE T = 0
    <3>1. w = 0 /\ q = 0 /\ s = 0 /\ u = 0
      BY <1>1, <1>3, <2>1
    <3> QED
      BY <1>1, <3>1
  <2>2. CASE T # 0
    <3>1. T \in Nat \ {0} /\ q * T <= s * w /\ s * w < (q + 1) * T
      BY <1>1, <1>3, <2>2
    <3>2. /\ (-q - 1) * T = -((q + 1) * T) /\ s * (-w) = -(s * w)
          /\ (q + 1) * T \in Int /\ s * w \in Int /\ q * T \in Int
          /\ (q - w) * T = q * T - w * (s + u) /\ u * (-w) = s * w - w * (s + u)
          /\ (w - q - 1) * T = w * (s + u) - (q + 1) * T /\ u * w = w * (s + u) - s * w
          /\ w * (s + u) \in Int
      BY <1>1, <1>3
    <3>3. (-q - 1) * T < s * (-w)
      BY <3>1, <3>2
    <3>4. (q - w) * T <= u * (-w)
      BY <3>1, <3>2
    <3>5. (w - q - 1) * T < u * w
      BY <3>1, <3>2
    <3>6. -w \in Int /\ -q - 1 \in Int /\ q - w \in Int /\ w - q - 1 \in Int
      BY <1>1, <1>3
    <3>7. DT * q <= G * s
      BY <1>1, <1>3, <3>1, InProportion
    <3>8. DT * (-q - 1) < G * s
      BY <1>1, <1>3, <3>1, <3>3, <3>6, InProportion
    <3>9. DT * (q - w) <= G * u
      BY <1>1, <1>3, <3>1, <3>4, <3>6, InProportion
    <3>10. DT * (w - q - 1) < G * u
      BY <1>1, <1>3, <3>1, <3>5, <3>6, InProportion
    <3>11. /\ DT * (-q - 1) = DT * (-q) - DT /\ DT * (w - q - 1) = DT * (w - q) - DT
           /\ DT * (-q) \in Int /\ DT * (w - q) \in Int /\ G * s \in Int /\ G * u \in Int
      BY <1>1, <1>3
    <3> QED
      BY <3>7, <3>8, <3>9, <3>10, <3>11
  <2> QED
    BY <2>1, <2>2
<1>6. After(p, x, v, m)
  BY <1>3, <1>4, <1>5 DEF After, G, ta, ra
<1>7. Before(p, x, v, m + 1)
  BY <1>3, <1>4, <1>5 DEF Before, G, tb, rb
<1> QED
  BY <1>6, <1>7 DEF v

\* Two times on one segment, DT apart.
LEMMA SameSegment ==
  ASSUME NEW p, IsProfile(p), p.points # <<>>, DT \in Nat \ {0}, Smooth(p),
         NEW m \in 1..Len(p.points) - 1, NEW x \in p.points[m].t .. p.points[m + 1].t,
         x + DT <= p.points[m + 1].t
  PROVE  On(p, m, x) - On(p, m, x + DT) <= Steepest(p)
         /\ On(p, m, x + DT) - On(p, m, x) <= Steepest(p)
<1> DEFINE G == Steepest(p)
           y == x + DT
           u == On(p, m, x)
           v == On(p, m, y)
           ta == p.points[m].t
           tb == p.points[m + 1].t
           ra == p.points[m].rpm
           rb == p.points[m + 1].rpm
           q == u - ra
           k == v - ra
           T == tb - ta
           w == rb - ra
<1>1. /\ ta \in Nat /\ tb \in Nat /\ ra \in Nat /\ rb \in Nat /\ ta <= tb
      /\ q \in Int /\ u = ra + q
      /\ T = 0 => w = 0 /\ q = 0
      /\ T > 0 => q * T <= (x - ta) * w /\ (x - ta) * w < (q + 1) * T
      /\ G \in Nat /\ DT * w <= G * T /\ DT * (-w) <= G * T
  BY OnSegment
<1>2. y \in ta..tb /\ x \in ta..tb
  <2>1. x \in ta..tb /\ y <= tb /\ y = x + DT
    OBVIOUS
  <2>2. ta \in Nat /\ tb \in Nat
    BY <1>1
  <2> HIDE DEF ta, tb, y
  <2> QED
    BY <2>1, <2>2
<1>3. /\ k \in Int /\ v = ra + k
      /\ T > 0 => k * T <= (y - ta) * w /\ (y - ta) * w < (k + 1) * T
  <2> HIDE DEF y, G
  <2>1. y \in p.points[m].t .. p.points[m + 1].t
    BY <1>2
  <2> QED
    BY <2>1, OnSegment
<1>4. T \in Nat \ {0} /\ x \in Int /\ y = x + DT /\ w \in Int
  <2>1. y = x + DT
    OBVIOUS
  <2> HIDE DEF ta, tb, ra, rb, y
  <2> QED
    BY <1>1, <1>2, <2>1, SMTT(30)
<1> HIDE DEF G, y, u, v, ta, tb, ra, rb, q, k, T, w
<1> DEFINE c == (x - ta) * w
           e == (y - ta) * w
           d == DT * w
<1>5. /\ c \in Int /\ e = c + d /\ d \in Int /\ DT * (-w) = -d /\ G * T \in Int
      /\ q * T \in Int /\ k * T \in Int
      /\ (q + 1) * T = q * T + T /\ (k + 1) * T = k * T + T
      /\ (q - k) * T = q * T - k * T /\ (k - q) * T = k * T - q * T
      /\ (G + 1) * T = G * T + T
  <2>1. q \in Int /\ k \in Int /\ T \in Int /\ G \in Int /\ w \in Int /\ x \in Int /\ ta \in Int
        /\ DT \in Int /\ y = x + DT
    BY <1>1, <1>3, <1>4
  <2>2. /\ q * T \in Int /\ k * T \in Int /\ G * T \in Int
        /\ (q + 1) * T = q * T + T /\ (k + 1) * T = k * T + T
        /\ (q - k) * T = q * T - k * T /\ (k - q) * T = k * T - q * T
        /\ (G + 1) * T = G * T + T
    BY ONLY <2>1
  <2>3. c \in Int /\ d \in Int /\ DT * (-w) = -d
    BY ONLY <2>1
  <2>4. e = c + d
    BY ONLY <2>1
  <2> QED
    BY <2>2, <2>3, <2>4
<1>6. q * T <= c /\ c < (q + 1) * T /\ k * T <= e /\ e < (k + 1) * T /\ d <= G * T /\ -d <= G * T
  BY <1>1, <1>3, <1>4, <1>5
<1> HIDE DEF c, d, e
<1>7. (q - k) * T < (G + 1) * T /\ (k - q) * T < (G + 1) * T
  <2> DEFINE f == q * T
             g == k * T
             h == G * T
  <2>1. /\ c \in Int /\ e = c + d /\ d \in Int /\ f \in Int /\ g \in Int /\ h \in Int
        /\ f <= c /\ c < f + T /\ g <= e /\ e < g + T /\ d <= h /\ -d <= h
    BY <1>5, <1>6
  <2>2. (q - k) * T = f - g /\ (k - q) * T = g - f /\ (G + 1) * T = h + T
    BY <1>5
  <2> HIDE DEF f, g, h
  <2> QED
    BY <1>4, <2>1, <2>2
<1>8. q - k < G + 1 /\ k - q < G + 1
  BY <1>1, <1>3, <1>4, <1>7, LessByTimes
<1>9. u - v <= G /\ v - u <= G
  BY <1>1, <1>3, <1>8
<1> QED
  BY <1>9 DEF u, v, y, G
\* Between the first point and the last, the walk finds a segment.
LEMMA WalkOnSegment ==
  ASSUME NEW p, IsProfile(p), p.points # <<>>, NEW x \in Nat,
         p.points[1].t < x, x < p.points[Len(p.points)].t
  PROVE  \E m \in 1..Len(p.points) - 1 :
           /\ x \in p.points[m].t .. p.points[m + 1].t
           /\ Walk(p, x) = On(p, m, x)
<1> DEFINE n == Len(p.points)
           t(i) == p.points[i].t
           S == {i \in 1..n - 1 : t(i) <= x /\ x <= t(i + 1)}
           J == {j \in 1..n : x <= t(j)}
<1>1. n \in Nat \ {0} /\ \A i \in 1..n : t(i) \in Nat
  BY PointTypes
<1>2. t(1) < x /\ x < t(n)
  OBVIOUS
<1>3. ~(t(1) <= x => x <= t(1))
  BY <1>1, <1>2
<1>4. S # {}
  <2> HIDE DEF n, t
  <2>1. J \in SUBSET Nat /\ n \in J
    BY <1>1, <1>2
  <2>2. PICK j \in J : \A i \in J : j <= i
    BY <2>1, LeastMember
  <2>3. j \in 1..n /\ x <= t(j) /\ j # 1
    BY <1>1, <1>2, <2>2
  <2>4. j - 1 \in 1..n - 1 /\ j - 1 \in 1..n /\ j = (j - 1) + 1 /\ ~(j <= j - 1)
    BY <1>1, <2>3
  <2>5. ~(x <= t(j - 1))
    BY <2>2, <2>4
  <2>6. t(j - 1) <= x /\ x <= t((j - 1) + 1)
    BY <1>1, <2>3, <2>4, <2>5
  <2> QED
    BY <2>4, <2>6
<1> DEFINE m == Min(S)
<1>5. S \in SUBSET Nat
  BY <1>1
<1>6. m \in S
  BY <1>4, <1>5, LeastElement
<1>7. ~(x <= t(1))
  BY <1>1, <1>2
<1>8. Walk(p, x) = Between(p.points[m], p.points[m + 1], x)
  BY <1>4, <1>7, Zenon DEF Walk
<1>9. Walk(p, x) = On(p, m, x)
  BY <1>8, Zenon DEF On
<1>10. m \in 1..n - 1 /\ t(m) <= x /\ x <= t(m + 1)
  <2> HIDE DEF m, t
  <2> QED
    BY <1>6
<1>11. m \in 1..n /\ m + 1 \in 1..n
  <2> HIDE DEF m, n
  <2> QED
    BY <1>1, <1>10
<1>12. t(m) \in Nat /\ t(m + 1) \in Nat
  BY <1>1, <1>11
<1> HIDE DEF m
<1>13. x \in t(m) .. t(m + 1)
  <2> HIDE DEF t
  <2> QED
    BY <1>10, <1>12
<1> QED
  BY <1>9, <1>10, <1>13

\* The last speed, the first one, or one on a segment.
Ended(p, x, v) == x >= p.points[Len(p.points)].t /\ v = p.points[Len(p.points)].rpm
Ahead(p, x, v) == x <= p.points[1].t /\ v = p.points[1].rpm
Midway(p, x, v, m) == x \in p.points[m].t .. p.points[m + 1].t /\ v = On(p, m, x)

LEMMA SetpointCases ==
  ASSUME NEW p, IsProfile(p), p.points # <<>>, p.end # "Loop", NEW x \in Nat
  PROVE  LET v == EvalProfile(p, x)
         IN  \/ Ended(p, x, v) \/ Ahead(p, x, v)
             \/ \E m \in 1..Len(p.points) - 1 : Midway(p, x, v, m)
<1> DEFINE n == Len(p.points)
<1>1. /\ n \in Nat \ {0} /\ n \in 1..n /\ 1 \in 1..n
      /\ p.points[n].t \in Nat /\ p.points[1].t \in Nat
  BY PointTypes
<1>2. CASE x >= p.points[n].t
  <2>1. EvalProfile(p, x) = p.points[n].rpm
    BY <1>1, <1>2 DEF EvalProfile
  <2> QED
    BY <1>2, <2>1 DEF Ended
<1>3. CASE n = 1 /\ ~(x >= p.points[n].t)
  <2>1. EvalProfile(p, x) = p.points[1].rpm
    BY <1>3 DEF EvalProfile
  <2>2. x <= p.points[1].t
    BY <1>1, <1>3
  <2> QED
    BY <2>1, <2>2 DEF Ahead
<1>4. CASE n # 1 /\ ~(x >= p.points[n].t)
  <2>1. EvalProfile(p, x) = Walk(p, x)
    BY <1>1, <1>4 DEF EvalProfile
  <2>2. CASE x <= p.points[1].t
    <3>1. Walk(p, x) = p.points[1].rpm
      BY <2>2 DEF Walk
    <3> QED
      BY <2>1, <2>2, <3>1 DEF Ahead
  <2>3. CASE ~(x <= p.points[1].t)
    <3>1. p.points[1].t < x /\ x < p.points[n].t
      BY <1>1, <1>4, <2>3
    <3>2. PICK m \in 1..n - 1 : /\ x \in p.points[m].t .. p.points[m + 1].t
                                /\ Walk(p, x) = On(p, m, x)
      BY <3>1, WalkOnSegment
    <3> QED
      BY <2>1, <3>2 DEF Midway
  <2> QED
    BY <2>2, <2>3
<1> QED
  BY <1>2, <1>3, <1>4

\* At its ends, the setpoint is near enough to the first and the last point.
LEMMA NearFirst ==
  ASSUME NEW p, IsProfile(p), p.points # <<>>, DT \in Nat \ {0}, Smooth(p),
         NEW x \in Nat, NEW v, Ahead(p, x, v)
  PROVE  Before(p, x, v, 1)
<1> DEFINE G == Steepest(p)
           t == p.points[1].t
           r == p.points[1].rpm
<1>1. G \in Nat /\ t \in Nat /\ r \in Nat
  BY SteepestBounds, PointTypes
<1>2. x <= t /\ v = r
  BY DEF Ahead
<1> HIDE DEF G, t, r
<1>3. t - x >= 0 /\ v - r = 0 /\ r - v = 0 /\ G * (t - x) >= 0
  BY <1>1, <1>2
<1>4. DT * (v - r) <= G * (t - x) /\ DT * (r - v) < G * (t - x) + DT
  BY <1>1, <1>3
<1> QED
  BY <1>3, <1>4 DEF Before, G, t, r

LEMMA NearLast ==
  ASSUME NEW p, IsProfile(p), p.points # <<>>, DT \in Nat \ {0}, Smooth(p),
         NEW x \in Nat, NEW v, Ended(p, x, v)
  PROVE  After(p, x, v, Len(p.points))
<1> DEFINE G == Steepest(p)
           t == p.points[Len(p.points)].t
           r == p.points[Len(p.points)].rpm
<1>1. G \in Nat /\ t \in Nat /\ r \in Nat
  <2>1. Len(p.points) \in 1..Len(p.points)
    BY PointTypes
  <2> QED
    BY <2>1, SteepestBounds, PointTypes
<1>2. x >= t /\ v = r
  BY DEF Ended
<1> HIDE DEF G, t, r
<1>3. x - t >= 0 /\ v - r = 0 /\ r - v = 0 /\ G * (x - t) >= 0
  BY <1>1, <1>2
<1>4. DT * (v - r) <= G * (x - t) /\ DT * (r - v) < G * (x - t) + DT
  BY <1>1, <1>3
<1> QED
  BY <1>3, <1>4 DEF After, G, t, r

\* The later of two times, DT apart, is after a point that the earlier one is
\* before, or they share a segment, or the profile has ended or not begun.
LEMMA Separated ==
  ASSUME NEW p, IsProfile(p), p.points # <<>>, p.end # "Loop", DT \in Nat \ {0}, Smooth(p),
         NEW x \in Nat, NEW u, NEW v, u = EvalProfile(p, x), v = EvalProfile(p, x + DT)
  PROVE  \/ u = v
         \/ \E i \in 1..Len(p.points) : \E j \in i..Len(p.points) :
              Before(p, x, u, i) /\ After(p, x + DT, v, j)
         \/ \E m \in 1..Len(p.points) - 1 : Midway(p, x, u, m) /\ Midway(p, x + DT, v, m)
<1> DEFINE n == Len(p.points)
           y == x + DT
           Claim == \/ u = v
                    \/ \E i \in 1..n : \E j \in i..n : Before(p, x, u, i) /\ After(p, y, v, j)
                    \/ \E m \in 1..n - 1 : Midway(p, x, u, m) /\ Midway(p, y, v, m)
<1>1. n \in Nat \ {0} /\ y \in Nat /\ x < y
  BY PointTypes
<1>2. Ended(p, x, u) \/ Ahead(p, x, u) \/ \E m \in 1..n - 1 : Midway(p, x, u, m)
  BY SetpointCases
<1>3. Ended(p, y, v) \/ Ahead(p, y, v) \/ \E m \in 1..n - 1 : Midway(p, y, v, m)
  <2> HIDE DEF y
  <2>1. v = EvalProfile(p, y)
    BY DEF y
  <2> QED
    BY <1>1, <2>1, SetpointCases
<1>4. ASSUME NEW m \in 1..n - 1, NEW z \in Nat, NEW w, Midway(p, z, w, m)
      PROVE  /\ m \in 1..n /\ m + 1 \in 1..n
             /\ Before(p, z, w, m + 1) /\ After(p, z, w, m)
             /\ p.points[1].t <= z /\ z <= p.points[n].t
             /\ z \in p.points[m].t .. p.points[m + 1].t
             /\ p.points[m].t \in Nat /\ p.points[m + 1].t \in Nat
  <2>1. m \in 1..n /\ m + 1 \in 1..n /\ n \in m + 1 .. n /\ 1 \in 1..n
    BY <1>1
  <2>2. z \in p.points[m].t .. p.points[m + 1].t /\ w = On(p, m, z)
    BY <1>4 DEF Midway
  <2>3. Before(p, z, w, m + 1) /\ After(p, z, w, m)
    BY <2>2, NearEnds
  <2>4. p.points[1].t <= p.points[m].t /\ p.points[1].t \in Nat /\ p.points[m].t \in Nat
    BY <2>1, PointsInOrder
  <2>5. /\ p.points[m + 1].t <= p.points[n].t
        /\ p.points[m + 1].t \in Nat /\ p.points[n].t \in Nat
    BY <2>1, PointsInOrder
  <2>6. p.points[1].t <= z /\ z <= p.points[n].t
    <3> DEFINE a == p.points[1].t
               b == p.points[m].t
               c == p.points[m + 1].t
               d == p.points[n].t
    <3>1. /\ a \in Nat /\ b \in Nat /\ c \in Nat /\ d \in Nat /\ z \in b..c
          /\ a <= b /\ c <= d
      BY <2>2, <2>4, <2>5
    <3> HIDE DEF a, b, c, d
    <3>2. a <= z /\ z <= d
      BY <3>1
    <3> QED
      BY <3>2 DEF a, d
  <2> HIDE DEF n
  <2> QED
    BY <2>1, <2>2, <2>3, <2>4, <2>5, <2>6
<1>5. p.points[1].t \in Nat /\ p.points[n].t \in Nat /\ p.points[1].t <= p.points[n].t
  <2>1. 1 \in 1..n /\ n \in 1..n
    BY <1>1
  <2> QED
    BY <2>1, PointsInOrder
<1>6. Ahead(p, x, u) => Before(p, x, u, 1)
  BY NearFirst
<1>7. Ended(p, y, v) => After(p, y, v, n)
  <2> HIDE DEF y
  <2> QED
    BY <1>1, NearLast
<1> SUFFICES Claim
  OBVIOUS
<1> HIDE DEF n, y
<1>8. 1 \in 1..n /\ n \in 1..n
  BY <1>1
<1>9. CASE Ended(p, x, u)
  <2>1. CASE Ended(p, y, v)
    BY <1>9, <2>1 DEF Ended
  <2>2. CASE Ahead(p, y, v)
    BY <1>1, <1>5, <1>9, <2>2 DEF Ended, Ahead, n
  <2>3. ASSUME NEW m \in 1..n - 1, Midway(p, y, v, m)
        PROVE  FALSE
    <3>1. y <= p.points[n].t
      BY <1>1, <1>4, <2>3
    <3>2. x >= p.points[n].t
      BY <1>9 DEF Ended, n
    <3> QED
      BY <1>1, <1>5, <3>1, <3>2
  <2> QED
    BY <1>3, <2>1, <2>2, <2>3
<1>10. CASE Ahead(p, x, u)
  <2>1. CASE Ended(p, y, v)
    BY <1>6, <1>7, <1>8, <1>10, <2>1
  <2>2. CASE Ahead(p, y, v)
    BY <1>10, <2>2 DEF Ahead
  <2>3. ASSUME NEW m \in 1..n - 1, Midway(p, y, v, m)
        PROVE  Claim
    <3>1. m \in 1..n /\ After(p, y, v, m)
      BY <1>1, <1>4, <2>3
    <3> QED
      BY <1>6, <1>8, <1>10, <3>1
  <2> QED
    BY <1>3, <2>1, <2>2, <2>3
<1>11. ASSUME NEW k \in 1..n - 1, Midway(p, x, u, k)
       PROVE  Claim
  <2>1. /\ k \in 1..n /\ k + 1 \in 1..n /\ Before(p, x, u, k + 1)
        /\ p.points[1].t <= x /\ x \in p.points[k].t .. p.points[k + 1].t
        /\ p.points[k].t \in Nat /\ p.points[k + 1].t \in Nat
    BY <1>4, <1>11
  <2>2. CASE Ended(p, y, v)
    <3>1. n \in k + 1 .. n
      BY <1>1, <2>1
    <3> QED
      BY <1>7, <2>1, <2>2, <3>1
  <2>3. CASE Ahead(p, y, v)
    <3>1. y <= p.points[1].t
      BY <2>3 DEF Ahead
    <3> QED
      BY <1>1, <1>5, <2>1, <3>1
  <2>4. ASSUME NEW m \in 1..n - 1, Midway(p, y, v, m)
        PROVE  Claim
    <3>1. /\ m \in 1..n /\ m + 1 \in 1..n /\ After(p, y, v, m)
          /\ y \in p.points[m].t .. p.points[m + 1].t
          /\ p.points[m].t \in Nat /\ p.points[m + 1].t \in Nat
      BY <1>1, <1>4, <2>4
    <3>2. CASE m < k
      <4>1. k \in m + 1 .. n
        BY <1>1, <3>2
      <4>2. p.points[m + 1].t <= p.points[k].t
        BY <3>1, <4>1, PointsInOrder DEF n
      <4> QED
        BY <1>1, <2>1, <3>1, <4>2, SMTT(30)
    <3>3. CASE m = k
      BY <1>11, <2>4, <3>3
    <3>4. CASE m > k
      <4>1. m \in k + 1 .. n
        BY <1>1, <3>4
      <4> QED
        BY <2>1, <3>1, <4>1
    <3> QED
      BY <3>2, <3>3, <3>4
  <2> QED
    BY <1>3, <2>2, <2>3, <2>4
<1> QED
  BY <1>2, <1>9, <1>10, <1>11

\* In the time of an iteration the setpoint moves no further than the steepest
\* segment does.
LEMMA SetpointSmooth ==
  ASSUME NEW p, IsProfile(p), DT \in Nat, Smooth(p), NEW x \in Nat
  PROVE  Gap(EvalProfile(p, x), EvalProfile(p, x + DT)) <= Steepest(p)
<1> DEFINE u == EvalProfile(p, x)
           v == EvalProfile(p, x + DT)
           G == Steepest(p)
<1>1. u \in Int /\ v \in Int
  <2> DEFINE y == x + DT
  <2>1. y \in Nat
    OBVIOUS
  <2> HIDE DEF y
  <2>2. EvalProfile(p, y) \in Int /\ EvalProfile(p, x) \in Int
    BY <2>1, SetpointType
  <2> QED
    BY <2>2 DEF y
<1>2. G \in Nat
  <2>1. CASE p.points # <<>>
    BY <2>1, SteepestBounds
  <2>2. CASE p.points = <<>>
    <3> DEFINE C(i) == (DT * Gap(p.points[i].rpm, p.points[i + 1].rpm)
                          + (p.points[i + 1].t - p.points[i].t) - 1)
                         \div (p.points[i + 1].t - p.points[i].t)
    <3>1. Len(p.points) = 0
      BY <2>2
    <3>2. {i \in 1..Len(p.points) - 1 : p.points[i].t < p.points[i + 1].t} = {}
      BY <3>1
    <3>3. G = Max({0})
      BY <3>2 DEF Steepest
    <3>4. 0 \in {0} /\ \A z \in {0} : z = 0 /\ 0 >= 0
      OBVIOUS
    <3> QED
      BY <3>3, <3>4 DEF Max
  <2> QED
    BY <2>1, <2>2
<1>3. u - v <= G /\ v - u <= G
  <2>1. CASE u = v
    BY <1>1, <1>2, <2>1
  <2>2. CASE u # v
    <3>1. p.points # <<>> /\ DT \in Nat \ {0} /\ p.end # "Loop"
      <4>1. p.points # <<>>
        BY <2>2 DEF EvalProfile
      <4>2. DT # 0
        <5> SUFFICES ASSUME DT = 0 PROVE FALSE
          OBVIOUS
        <5>1. x + DT = x
          OBVIOUS
        <5> QED
          BY <2>2, <5>1
      <4> QED
        BY <4>1, <4>2 DEF Smooth
    <3> DEFINE y == x + DT
    <3>2. \/ \E i \in 1..Len(p.points) : \E j \in i..Len(p.points) :
               Before(p, x, u, i) /\ After(p, y, v, j)
          \/ \E m \in 1..Len(p.points) - 1 : Midway(p, x, u, m) /\ Midway(p, y, v, m)
      BY <2>2, <3>1, Separated
    <3> HIDE DEF u, v
    <3>3. ASSUME NEW i \in 1..Len(p.points), NEW j \in i..Len(p.points),
                 Before(p, x, u, i), After(p, y, v, j)
          PROVE  u - v <= G /\ v - u <= G
      <4>1. j \in 1..Len(p.points)
        BY <3>1, PointTypes
      <4>2. Before(p, x, u, j)
        BY <1>1, <3>1, <3>3, BeforeLater
      <4> QED
        BY <1>1, <3>1, <3>3, <4>1, <4>2, AroundPoint
    <3>4. ASSUME NEW m \in 1..Len(p.points) - 1, Midway(p, x, u, m), Midway(p, y, v, m)
          PROVE  u - v <= G /\ v - u <= G
      <4>1. /\ x \in p.points[m].t .. p.points[m + 1].t
            /\ y \in p.points[m].t .. p.points[m + 1].t
            /\ u = On(p, m, x) /\ v = On(p, m, y)
        BY <3>4 DEF Midway
      <4>2. y <= p.points[m + 1].t
        BY <4>1
      <4> QED
        BY <3>1, <4>1, <4>2, SameSegment
    <3> QED
      BY <3>2, <3>3, <3>4
  <2> QED
    BY <2>1, <2>2
<1> HIDE DEF u, v, G
<1>4. Gap(u, v) <= G
  BY <1>1, <1>2, <1>3, GapWithin
<1> QED
  BY <1>4 DEF u, v, G
-----------------------------------------------------------------------------
(* While a run spools up, the last setpoint is the profile's at its time: no *)
(* live adjustment changes the profile, and no other action comes between.   *)

AtSetpoint == mode = "SPOOLUP" /\ elapsed > 0 => target = EvalProfile(config.profile, elapsed)

\* What an iteration of SPOOLUP does to the setpoint.
LEMMA SpoolSets ==
  ASSUME RegulatorAssumption, RegulatorInv, Spool
  PROVE  /\ IsProfile(config.profile) /\ config'.profile = config.profile
         /\ DT \in Nat /\ elapsed \in Nat /\ elapsed' = elapsed + DT
         /\ target' = EvalProfile(config.profile, elapsed')
<1>1. config \in RunConfig /\ elapsed \in 0..MaxElapsed
  BY StateTypes DEF RegulatorInv
<1>2. IsProfile(config.profile) /\ DT \in Nat /\ MaxElapsed \in Nat
  BY <1>1, ConstantTypes, ConfigTypes
<1>3. Live /\ elapsed' = elapsed + DT
  BY DEF Spool
<1>4. config'.profile = config.profile
  BY <1>3, LiveKeeps DEF RegulatorInv
<1>5. target' = EvalProfile(config.profile, elapsed')
  BY DEF Spool, Regulate
<1> QED
  BY <1>1, <1>2, <1>3, <1>4, <1>5

LEMMA SetpointStep ==
  ASSUME RegulatorAssumption, RegulatorInv, AtSetpoint, [Next]_vars
  PROVE  AtSetpoint'
<1>1. CASE Start
  BY <1>1 DEF Start, AtSetpoint
<1>2. CASE Spool
  BY <1>2, SpoolSets DEF AtSetpoint
<1>3. CASE Locked
  BY <1>3 DEF Locked, AtSetpoint
<1>4. CASE Ready
  BY <1>4 DEF Ready, AtSetpoint
<1>5. CASE Stop
  BY <1>5 DEF Stop, AtSetpoint
<1>6. CASE TakePoint
  <2>1. mode' \in {"CALIBRATE", "CONFIGURED"}
    BY <1>6, CalibrationTypes DEF RegulatorInv
  <2> QED
    BY <2>1 DEF AtSetpoint
<1>7. CASE UNCHANGED vars
  BY <1>7 DEF vars, run, output, AtSetpoint
<1> QED
  BY <1>1, <1>2, <1>3, <1>4, <1>5, <1>6, <1>7 DEF Next

\* A profile that has run its course is at its last speed.
LEMMA FinishedAtLast ==
  ASSUME NEW p, IsProfile(p), NEW x \in Nat, Finished(p, x)
  PROVE  EvalProfile(p, x) = p.points[Len(p.points)].rpm
<1> DEFINE n == Len(p.points)
<1>1. p.points # <<>> /\ p.end # "Loop" /\ x >= p.total /\ p.total = p.points[n].t
  BY DEF Finished, IsProfile
<1>2. n \in Nat \ {0}
  BY <1>1, PointTypes
<1>3. x >= p.points[n].t
  BY <1>1
<1> HIDE DEF n
<1> QED
  BY <1>1, <1>2, <1>3 DEF EvalProfile, n

\* Whatever the profile, as long as its segments are linear and it neither
\* loops nor jumps, and whatever is adjusted meanwhile: an iteration of SPOOLUP
\* moves the setpoint no further than the steepest segment does in DT, over
\* however many segments the iteration reaches, and a run that Finished ends
\* has been at the profile's last speed.
THEOREM ProfileIsFollowed == Spec => ProfileFollowed
<1>1. Init => AtSetpoint
  BY DEF Init, AtSetpoint
<1>2. ASSUME RegulatorInv, AtSetpoint, [Next]_vars
      PROVE  Spool => /\ Smooth(config.profile) /\ elapsed > 0 =>
                           Gap(target, target') <= Steepest(config.profile)
                      /\ mode' = "CONFIGURED" =>
                           target' = config.profile.points[Len(config.profile.points)].rpm
  <2> SUFFICES ASSUME Spool
               PROVE  /\ Smooth(config.profile) /\ elapsed > 0 =>
                           Gap(target, target') <= Steepest(config.profile)
                      /\ mode' = "CONFIGURED" =>
                           target' = config.profile.points[Len(config.profile.points)].rpm
    OBVIOUS
  <2> DEFINE p == config.profile
  <2>1. /\ IsProfile(p) /\ DT \in Nat /\ elapsed \in Nat /\ elapsed' = elapsed + DT
        /\ target' = EvalProfile(p, elapsed')
    BY <1>2, RegulatorAssumption, SpoolSets
  <2>2. mode = "SPOOLUP" /\ (mode' = "CONFIGURED" => Finished(p, elapsed'))
    BY DEF Spool
  <2> HIDE DEF p
  <2>3. ASSUME Smooth(p), elapsed > 0
        PROVE  Gap(target, target') <= Steepest(p)
    <3>1. target = EvalProfile(p, elapsed)
      BY <1>2, <2>2, <2>3 DEF AtSetpoint, p
    <3>2. Gap(EvalProfile(p, elapsed), EvalProfile(p, elapsed + DT)) <= Steepest(p)
      BY <2>1, <2>3, SetpointSmooth
    <3> QED
      BY <2>1, <3>1, <3>2
  <2>4. ASSUME mode' = "CONFIGURED"
        PROVE  target' = p.points[Len(p.points)].rpm
    <3>1. elapsed' \in Nat
      BY <2>1
    <3> QED
      BY <2>1, <2>2, <2>4, <3>1, FinishedAtLast
  <2> QED
    BY <2>3, <2>4 DEF p
<1> QED
  BY <1>1, <1>2, RegulatorAssumption, RegulatorInit, RegulatorStep, SetpointStep, PTL
     DEF Spec, ProfileFollowed
=============================================================================
