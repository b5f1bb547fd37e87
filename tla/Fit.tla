-------------------------------- MODULE Fit --------------------------------
(* Calibrator::fit and CalResult::feedforward (calibrate.rs), in exact       *)
(* integers: slope and intercept share the divisor n * denom. The points'    *)
(* duties all differ, so denom is positive from the second point on.         *)
EXTENDS Integers, Sequences

CONSTANTS
  MIN_SLOPE, MAX_SLOPE,  \* speed per unit of duty
  R_SQUARED,             \* MIN_R_SQUARED is 1 - 1 / R_SQUARED
  POINT_CV,              \* MAX_POINT_CV is 1 / POINT_CV
  FULL                   \* a duty of 1.0

CalPoint == [duty : Nat, rpm_mean : Int, rpm_stddev : Nat]

\* What the loop over the points adds up, term by term.
Total(terms) ==
  LET sum[n \in 0..Len(terms)] == IF n = 0 THEN 0 ELSE sum[n - 1] + terms[n]
  IN  sum[Len(terms)]

Sx(pts)  == Total([i \in 1..Len(pts) |-> pts[i].duty])
Sy(pts)  == Total([i \in 1..Len(pts) |-> pts[i].rpm_mean])
Sxy(pts) == Total([i \in 1..Len(pts) |-> pts[i].duty * pts[i].rpm_mean])
Sxx(pts) == Total([i \in 1..Len(pts) |-> pts[i].duty * pts[i].duty])

Denom(pts) == Len(pts) * Sxx(pts) - Sx(pts) * Sx(pts)
Divisor(pts) == Len(pts) * Denom(pts)

\* Slope and intercept, times Divisor. Seeded bug: the sums are swapped.
SlopeSwapped(pts) == Len(pts) * (Sx(pts) * Sy(pts) - Len(pts) * Sxy(pts))
Slope(pts) == Len(pts) * (Len(pts) * Sxy(pts) - Sx(pts) * Sy(pts))
Intercept(pts) == (Sy(pts) * Divisor(pts) - Slope(pts) * Sx(pts)) \div Len(pts)

\* The sum of the squared residuals of a line, all times d squared.
Square(x) == x * x
Residuals(pts, slope, intercept, d) ==
  Total([i \in 1..Len(pts) |->
           Square(pts[i].rpm_mean * d - slope * pts[i].duty - intercept)])

SsRes(pts) == Residuals(pts, Slope(pts), Intercept(pts), Divisor(pts))
SsTot(pts) == Residuals(pts, 0, Sy(pts) * Denom(pts), Divisor(pts))

\* A point whose speed means anything and has settled: rpm_stddev over the
\* speed is within the ceiling.
Settled(p) == \E speed \in {p.rpm_mean, -p.rpm_mean} :
                speed > 1 /\ POINT_CV * p.rpm_stddev <= speed

Valid(pts) ==
  LET d == Divisor(pts) IN
  /\ Len(pts) >= 2
  /\ MIN_SLOPE * d <= Slope(pts) /\ Slope(pts) <= MAX_SLOPE * d
  /\ SsTot(pts) > 0 /\ R_SQUARED * SsRes(pts) <= SsTot(pts)
  /\ \A i \in DOMAIN pts : Settled(pts[i])

\* The feedforward duty for a speed, rounded down, where the fit is valid and
\* the duty is one; otherwise there is none, which the callers take as 0.
Feedforward(pts, rpm) ==
  LET num == rpm * Divisor(pts) - Intercept(pts) IN
  IF Valid(pts) /\ 0 <= num /\ num <= FULL * Slope(pts) THEN num \div Slope(pts) ELSE 0
=============================================================================
