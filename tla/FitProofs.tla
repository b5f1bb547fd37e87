------------------------------ MODULE FitProofs ------------------------------
(* Proofs about Fit, for every calibration: what the loop over the points    *)
(* adds up, that no line fits the points better than the fit does, and that  *)
(* a fit that validates has a slope to divide by.                            *)
EXTENDS Fit, LoopProofs


\* The function that sums up the first n terms of f, by recursion.
Loop(s, f, n) == s = [k \in 0..n |-> IF k = 0 THEN 0 ELSE s[k - 1] + f[k]]

\* It exists, if the terms are integers.
LEMMA PartialSums ==
  ASSUME NEW f, NEW n \in Nat, \A i \in 1..n : f[i] \in Int
  PROVE  \E s : Loop(s, f, n)
<1> DEFINE P(m) == \E s \in [0..m -> Int] : Loop(s, f, m)
           B == {m \in 0..n : ~P(m)}
<1>1. P(0)
  <2> DEFINE s == [k \in 0..0 |-> 0]
  <2>1. s \in [0..0 -> Int]
    OBVIOUS
  <2>2. Loop(s, f, 0)
    BY DEF Loop
  <2> QED
    BY <2>1, <2>2
<1>2. ASSUME NEW m \in 1..n, P(m - 1)
      PROVE  P(m)
  <2>1. PICK s \in [0..m - 1 -> Int] : Loop(s, f, m - 1)
    BY <1>2
  <2>2. \A k \in 0..m - 1 : s[k] \in Int /\ s[k] = IF k = 0 THEN 0 ELSE s[k - 1] + f[k]
    BY <2>1 DEF Loop
  <2> DEFINE u == [k \in 0..m |-> IF k = m THEN s[m - 1] + f[m] ELSE s[k]]
  <2>3. m \in Nat /\ m > 0 /\ m - 1 \in 0..m - 1 /\ f[m] \in Int
    OBVIOUS
  <2>4. u \in [0..m -> Int]
    BY <2>2, <2>3
  <2>5. \A k \in 0..m : u[k] = IF k = 0 THEN 0 ELSE u[k - 1] + f[k]
    <3> TAKE k \in 0..m
    <3>1. CASE k = m
      BY <2>3, <3>1
    <3>2. CASE k # m
      BY <2>2, <2>3, <3>2
    <3> QED
      BY <3>1, <3>2
  <2> HIDE DEF u
  <2>6. Loop(u, f, m)
    BY <2>4, <2>5 DEF Loop
  <2> QED
    BY <2>4, <2>6
<1> HIDE DEF P
<1>3. B = {}
  <2> SUFFICES ASSUME B # {} PROVE FALSE
    OBVIOUS
  <2>1. B \in SUBSET Nat
    OBVIOUS
  <2>2. PICK m \in B : \A y \in B : m <= y
    BY <2>1, LeastMember
  <2>3. m \in 0..n /\ ~P(m) /\ m # 0
    BY <1>1, <2>2
  <2>4. m \in 1..n /\ m - 1 \in 0..n /\ m - 1 \notin B
    BY <2>2, <2>3
  <2>5. P(m - 1)
    BY <2>4
  <2> QED
    BY <1>2, <2>3, <2>4, <2>5
<1>4. P(n)
  BY <1>3
<1> QED
  BY <1>4 DEF P

\* The n terms of a sum.
Terms(f, n) == f \in Seq(Int) /\ Len(f) = n

\* They are integers.
LEMMA TermTypes ==
  ASSUME NEW f, NEW n, Terms(f, n)
  PROVE  n \in Nat /\ \A k \in 1..n : f[k] \in Int
BY DEF Terms

\* The numbers that a loop over the n terms of f adds up to.
Adds(s, f, n) == /\ s \in [0..n -> Int] /\ s[0] = 0
                 /\ \A k \in 1..n : s[k] = s[k - 1] + f[k]

\* And so the sum does what the loop does.
LEMMA TotalSums ==
  ASSUME NEW f, NEW n, Terms(f, n)
  PROVE  \E s : Adds(s, f, n) /\ Total(f) = s[n]
<1> DEFINE sum == CHOOSE s : Loop(s, f, n)
<1>1. n \in Nat /\ \A i \in 1..n : f[i] \in Int
  BY TermTypes
<1>2. Total(f) = sum[n]
  BY DEF Total, Loop, Terms
<1>3. \E s : Loop(s, f, n)
  BY <1>1, PartialSums, Zenon
<1>4. Loop(sum, f, n)
  BY <1>3, Zenon
<1>5. /\ sum = [k \in 0..n |-> sum[k]] /\ sum[0] = 0
      /\ \A k \in 1..n : sum[k] = sum[k - 1] + f[k]
  <2> HIDE DEF sum
  <2>1. sum = [k \in 0..n |-> IF k = 0 THEN 0 ELSE sum[k - 1] + f[k]]
    BY <1>4 DEF Loop
  <2>2. \A k \in 0..n : sum[k] = IF k = 0 THEN 0 ELSE sum[k - 1] + f[k]
    BY ONLY <2>1
  <2> QED
    BY <1>1, <2>1, <2>2, SMTT(30)
<1> HIDE DEF sum
<1>6. \A k \in 0..n : sum[k] \in Int
  <2> DEFINE B == {k \in 0..n : sum[k] \notin Int}
  <2> SUFFICES ASSUME B # {} PROVE FALSE
    OBVIOUS
  <2>1. B \in SUBSET Nat
    OBVIOUS
  <2>2. PICK k \in B : \A y \in B : k <= y
    BY <2>1, LeastMember
  <2>3. k \in 1..n /\ k - 1 \in 0..n /\ k - 1 \notin B
    BY <1>1, <1>5, <2>2
  <2>4. sum[k - 1] \in Int /\ f[k] \in Int /\ sum[k] = sum[k - 1] + f[k]
    BY <1>1, <1>5, <2>3
  <2> QED
    BY <2>2, <2>4
<1>7. sum \in [0..n -> Int]
  BY <1>5, <1>6
<1> QED
  BY <1>2, <1>5, <1>7 DEF Adds

\* Terms that are a times those of f and b times those of g.
Combined(h, n, a, f, b, g) == \A i \in 1..n : h[i] = a * f[i] + b * g[i]

\* One more term of a combination.
LEMMA Combine ==
  ASSUME NEW a \in Int, NEW b \in Int, NEW x \in Int, NEW y \in Int,
         NEW v \in Int, NEW w \in Int
  PROVE  a * (x + v) + b * (y + w) = (a * x + b * y) + (a * v + b * w)
OBVIOUS

\* A sum of terms that combine those of two others combines their sums.
LEMMA TotalLinear ==
  ASSUME NEW f, NEW g, NEW h, NEW n, Terms(f, n), Terms(g, n), Terms(h, n),
         NEW a \in Int, NEW b \in Int, Combined(h, n, a, f, b, g)
  PROVE  /\ Total(f) \in Int /\ Total(g) \in Int
         /\ Total(h) = a * Total(f) + b * Total(g)
<1>1. PICK r : Adds(r, f, n) /\ Total(f) = r[n]
  BY TotalSums, Zenon
<1>2. PICK s : Adds(s, g, n) /\ Total(g) = s[n]
  BY TotalSums, Zenon
<1>3. PICK u : Adds(u, h, n) /\ Total(h) = u[n]
  BY TotalSums, Zenon
<1>4. n \in Nat /\ \A k \in 1..n : f[k] \in Int /\ g[k] \in Int /\ h[k] \in Int
  BY TermTypes
<1>5. /\ r[0] = 0 /\ s[0] = 0 /\ u[0] = 0
      /\ \A k \in 0..n : r[k] \in Int /\ s[k] \in Int /\ u[k] \in Int
      /\ \A k \in 1..n : /\ r[k] = r[k - 1] + f[k] /\ s[k] = s[k - 1] + g[k]
                         /\ u[k] = u[k - 1] + h[k]
  BY <1>1, <1>2, <1>3 DEF Adds
<1> DEFINE B == {k \in 0..n : u[k] # a * r[k] + b * s[k]}
<1>6. B = {}
  <2> SUFFICES ASSUME B # {} PROVE FALSE
    OBVIOUS
  <2>1. B \in SUBSET Nat
    BY <1>4
  <2>2. PICK k \in B : \A y \in B : k <= y
    BY <2>1, LeastMember
  <2>3. k # 0
    <3>1. u[0] = a * r[0] + b * s[0]
      BY <1>5
    <3> QED
      BY <2>2, <3>1
  <2>4. k \in 1..n /\ k - 1 \in 0..n /\ k - 1 \notin B
    BY <1>4, <2>2, <2>3
  <2> DEFINE R == r[k - 1]
             S == s[k - 1]
  <2>5. u[k - 1] = a * R + b * S /\ R \in Int /\ S \in Int /\ f[k] \in Int /\ g[k] \in Int
    BY <1>4, <1>5, <2>4
  <2>6. /\ u[k] = u[k - 1] + (a * f[k] + b * g[k])
        /\ r[k] = R + f[k] /\ s[k] = S + g[k]
    BY <1>5, <2>4 DEF Combined
  <2>7. u[k] # a * r[k] + b * s[k]
    BY <2>2
  <2> HIDE DEF R, S, B
  <2>8. a * (R + f[k]) + b * (S + g[k]) = (a * R + b * S) + (a * f[k] + b * g[k])
    BY <2>5, Combine
  <2> QED
    BY <2>5, <2>6, <2>7, <2>8
<1>7. n \in 0..n
  BY <1>4
<1> QED
  BY <1>1, <1>2, <1>3, <1>5, <1>6, <1>7

\* A sum of terms that are not negative is not negative.
LEMMA TotalNat ==
  ASSUME NEW f, NEW n, Terms(f, n), \A i \in 1..n : f[i] >= 0
  PROVE  Total(f) \in Nat
<1>1. PICK s : Adds(s, f, n) /\ Total(f) = s[n]
  BY TotalSums, Zenon
<1>2. n \in Nat /\ \A k \in 1..n : f[k] \in Int /\ f[k] >= 0
  BY TermTypes
<1> DEFINE B == {k \in 0..n : s[k] < 0}
<1>3. B = {}
  <2> SUFFICES ASSUME B # {} PROVE FALSE
    OBVIOUS
  <2>1. B \in SUBSET Nat
    BY <1>2
  <2>2. PICK k \in B : \A y \in B : k <= y
    BY <2>1, LeastMember
  <2>3. k \in 1..n /\ k - 1 \in 0..n /\ k - 1 \notin B
    BY <1>1, <1>2, <2>2 DEF Adds
  <2>4. s[k] = s[k - 1] + f[k] /\ f[k] >= 0 /\ s[k - 1] \in Int /\ f[k] \in Int
    BY <1>1, <1>2, <2>3 DEF Adds
  <2>5. s[k - 1] >= 0
    BY <2>3, <2>4
  <2> QED
    BY <2>2, <2>4, <2>5
<1>4. n \in 0..n
  BY <1>2
<1> QED
  BY <1>1, <1>3, <1>4 DEF Adds

\* A sum of n ones is n.
LEMMA TotalCounts ==
  ASSUME NEW n \in Nat
  PROVE  Terms([i \in 1..n |-> 1], n) /\ Total([i \in 1..n |-> 1]) = n
<1> DEFINE f == [i \in 1..n |-> 1]
<1>1. Terms(f, n) /\ \A i \in 1..n : f[i] = 1
  BY DEF Terms
<1> HIDE DEF f
<1>2. PICK s : Adds(s, f, n) /\ Total(f) = s[n]
  BY <1>1, TotalSums, Zenon
<1> DEFINE B == {k \in 0..n : s[k] # k}
<1>3. B = {}
  <2> SUFFICES ASSUME B # {} PROVE FALSE
    OBVIOUS
  <2>1. B \in SUBSET Nat
    OBVIOUS
  <2>2. PICK k \in B : \A y \in B : k <= y
    BY <2>1, LeastMember
  <2>3. k \in 1..n /\ k - 1 \in 0..n /\ k - 1 \notin B
    BY <1>2, <2>2 DEF Adds
  <2>4. s[k - 1] = k - 1
    BY <2>3
  <2>5. s[k] = s[k - 1] + f[k] /\ f[k] = 1
    BY <1>1, <1>2, <2>3 DEF Adds
  <2>6. s[k] # k /\ k \in Int
    BY <2>2
  <2> QED
    BY <2>4, <2>5, <2>6
<1> QED
  BY <1>1, <1>2, <1>3 DEF f

\* It is an integer.
LEMMA TotalInt ==
  ASSUME NEW f, NEW n, Terms(f, n)
  PROVE  Total(f) \in Int
<1>1. \E s : Adds(s, f, n) /\ Total(f) = s[n]
  BY TotalSums, Zenon
<1>2. n \in Nat /\ n \in 0..n
  BY TermTypes
<1> QED
  BY <1>1, <1>2 DEF Adds

\* Terms that combine those of three others.
Combined3(h, n, a, f, b, g, c, e) ==
  \A i \in 1..n : h[i] = a * f[i] + b * g[i] + c * e[i]

\* And of three others.
LEMMA TotalThree ==
  ASSUME NEW f, NEW g, NEW e, NEW h, NEW n,
         Terms(f, n), Terms(g, n), Terms(e, n), Terms(h, n),
         NEW a \in Int, NEW b \in Int, NEW c \in Int, Combined3(h, n, a, f, b, g, c, e)
  PROVE  Total(h) = a * Total(f) + b * Total(g) + c * Total(e)
<1> DEFINE m == [i \in 1..n |-> a * f[i] + b * g[i]]
<1>1. /\ n \in Nat
      /\ \A i \in 1..n : f[i] \in Int /\ g[i] \in Int /\ e[i] \in Int
  BY TermTypes
<1>2. \A i \in 1..n : a * f[i] + b * g[i] \in Int
  <2> SUFFICES ASSUME NEW i \in 1..n PROVE a * f[i] + b * g[i] \in Int
    OBVIOUS
  <2>1. f[i] \in Int /\ g[i] \in Int
    BY <1>1
  <2> QED
    BY ONLY <2>1, a \in Int, b \in Int
<1>3. /\ Terms(m, n) /\ 1 \in Int
      /\ Combined(m, n, a, f, b, g)
      /\ \A i \in 1..n : m[i] = a * f[i] + b * g[i] /\ m[i] \in Int
  BY <1>1, <1>2 DEF Terms, Combined
<1> HIDE DEF m
<1>4. /\ Total(f) \in Int /\ Total(g) \in Int
      /\ Total(m) = a * Total(f) + b * Total(g)
  BY <1>3, TotalLinear
<1>5. Combined(h, n, 1, m, c, e)
  BY <1>1, <1>3 DEF Combined, Combined3
<1>6. Total(e) \in Int /\ Total(h) = 1 * Total(m) + c * Total(e)
  BY <1>3, <1>5, TotalLinear
<1>7. Total(m) \in Int
  BY <1>4
<1> QED
  BY <1>4, <1>6, <1>7

-----------------------------------------------------------------------------
(* The fit. *)

\* A multiple is divided without a remainder.
LEMMA Exact ==
  ASSUME NEW n \in Nat \ {0}, NEW q \in Int
  PROVE  (n * q) \div n = q
OBVIOUS

\* The four sums are integers, and so are the terms of which they are made.
LEMMA SumTypes ==
  ASSUME NEW pts \in Seq(CalPoint), NEW n, n = Len(pts)
  PROVE  /\ n \in Nat
         /\ \A i \in 1..n :
              pts[i].duty \in Nat /\ pts[i].rpm_mean \in Int /\ pts[i].rpm_stddev \in Nat
         /\ Terms([i \in 1..n |-> pts[i].duty], n)
         /\ Terms([i \in 1..n |-> pts[i].rpm_mean], n)
         /\ Terms([i \in 1..n |-> pts[i].duty * pts[i].rpm_mean], n)
         /\ Terms([i \in 1..n |-> pts[i].duty * pts[i].duty], n)
<1>1. n \in Nat /\ \A i \in 1..n : pts[i] \in CalPoint
  OBVIOUS
<1>2. \A i \in 1..n : pts[i].duty \in Nat /\ pts[i].rpm_mean \in Int /\ pts[i].rpm_stddev \in Nat
  BY <1>1 DEF CalPoint
<1>3. \A i \in 1..n : pts[i].duty * pts[i].rpm_mean \in Int /\ pts[i].duty * pts[i].duty \in Int
  BY <1>2
<1> QED
  BY <1>1, <1>2, <1>3 DEF Terms


\* The sums, and what the fit makes of them; its intercept has no remainder.
LEMMA FitTypes ==
  ASSUME NEW pts \in Seq(CalPoint), Len(pts) > 0
  PROVE  /\ Sx(pts) \in Int /\ Sy(pts) \in Int /\ Sxy(pts) \in Int /\ Sxx(pts) \in Int
         /\ Denom(pts) \in Int /\ Divisor(pts) \in Int /\ Slope(pts) \in Int
         /\ Intercept(pts) = Sy(pts) * Denom(pts)
                               - (Len(pts) * Sxy(pts) - Sx(pts) * Sy(pts)) * Sx(pts)
         /\ Intercept(pts) \in Int
<1> DEFINE n == Len(pts)
           sx == Sx(pts)
           sy == Sy(pts)
           sxy == Sxy(pts)
           sxx == Sxx(pts)
           e == n * sxy - sx * sy
           d == Denom(pts)
           q == sy * d - e * sx
<1>1. n \in Nat \ {0}
  OBVIOUS
<1>2. sx \in Int /\ sy \in Int
  <2> DEFINE f == [i \in 1..n |-> pts[i].duty]
             g == [i \in 1..n |-> pts[i].rpm_mean]
  <2>1. Terms(f, n) /\ Terms(g, n)
    BY SumTypes
  <2>2. Total(f) \in Int /\ Total(g) \in Int
    <3> HIDE DEF f, g
    <3> QED
      BY <2>1, TotalInt
  <2> QED
    BY <2>2 DEF Sx, Sy
<1>3. sxy \in Int /\ sxx \in Int
  <2> DEFINE f == [i \in 1..n |-> pts[i].duty * pts[i].rpm_mean]
             g == [i \in 1..n |-> pts[i].duty * pts[i].duty]
  <2>1. Terms(f, n) /\ Terms(g, n)
    BY SumTypes
  <2>2. Total(f) \in Int /\ Total(g) \in Int
    <3> HIDE DEF f, g
    <3> QED
      BY <2>1, TotalInt
  <2> QED
    BY <2>2 DEF Sxy, Sxx
<1>4. /\ Denom(pts) = n * sxx - sx * sx
      /\ Divisor(pts) = n * d
      /\ Slope(pts) = n * e
      /\ Intercept(pts) = (sy * Divisor(pts) - Slope(pts) * sx) \div n
  BY DEF Denom, Divisor, Slope, Intercept
<1> HIDE DEF n, sx, sy, sxy, sxx
<1>5. d \in Int /\ e \in Int
  BY <1>1, <1>2, <1>3, <1>4
<1> HIDE DEF d, e
<1>6. n * d \in Int /\ n * e \in Int /\ q \in Int
  BY <1>1, <1>2, <1>5
<1>7. sy * (n * d) - (n * e) * sx = n * q
  BY <1>1, <1>2, <1>5
<1> HIDE DEF q
<1>8. (n * q) \div n = q
  BY <1>1, <1>6, Exact
<1>9. Intercept(pts) = q
  BY <1>4, <1>7, <1>8
<1> QED
  BY <1>2, <1>3, <1>4, <1>5, <1>6, <1>9 DEF n, sx, sy, sxy, sxx, e, d, q

\* No line with integer coefficients leaves smaller residuals than the fit.
LEMMA FitOptimal ==
  ASSUME NEW pts \in Seq(CalPoint), Len(pts) > 0, NEW m \in Int, NEW c \in Int
  PROVE  SsRes(pts) <= Square(Divisor(pts)) * Residuals(pts, m, c, 1)
<1> DEFINE n == Len(pts)
           D == Divisor(pts)
           M == Slope(pts)
           C == Intercept(pts)
           x(i) == pts[i].duty
           y(i) == pts[i].rpm_mean
           u(i) == y(i) * D - M * x(i) - C
           w(i) == (M - D * m) * x(i) + (C - D * c)
           r(i) == y(i) * 1 - m * x(i) - c
           X == [i \in 1..n |-> x(i)]
           Y == [i \in 1..n |-> y(i)]
           XY == [i \in 1..n |-> x(i) * y(i)]
           XX == [i \in 1..n |-> x(i) * x(i)]
           E == [i \in 1..n |-> 1]
           U == [i \in 1..n |-> u(i)]
           UX == [i \in 1..n |-> u(i) * x(i)]
           UW == [i \in 1..n |-> u(i) * w(i)]
           UU == [i \in 1..n |-> u(i) * u(i)]
           WW == [i \in 1..n |-> w(i) * w(i)]
           RR == [i \in 1..n |-> r(i) * r(i)]
           H == [i \in 1..n |-> D * D * (r(i) * r(i))]
           al == M - D * m
           be == C - D * c
<1>1. n \in Nat /\ D \in Int /\ M \in Int /\ C \in Int /\ al \in Int /\ be \in Int
  <2>1. n \in Nat
    OBVIOUS
  <2>2. D \in Int /\ M \in Int /\ C \in Int
    BY ONLY pts \in Seq(CalPoint), Len(pts) > 0, FitTypes
  <2> HIDE DEF n, D, M, C
  <2> QED
    BY ONLY <2>1, <2>2, m \in Int, c \in Int
<1>2. \A i \in 1..n : x(i) \in Int /\ y(i) \in Int
  <2>1. \A i \in 1..n : pts[i].duty \in Nat /\ pts[i].rpm_mean \in Int
    BY ONLY pts \in Seq(CalPoint), SumTypes
  <2> QED
    BY ONLY <2>1
<1>3. /\ Terms(X, n) /\ Terms(Y, n) /\ Terms(XY, n) /\ Terms(XX, n) /\ Terms(E, n)
      /\ Total(X) = Sx(pts) /\ Total(Y) = Sy(pts) /\ Total(XY) = Sxy(pts)
      /\ Total(XX) = Sxx(pts) /\ Total(E) = n
  <2>1. Terms(X, n) /\ Terms(Y, n) /\ Terms(XY, n) /\ Terms(XX, n)
    BY SumTypes
  <2>2. Terms(E, n) /\ Total(E) = n
    BY <1>1, TotalCounts
  <2> QED
    BY <2>1, <2>2 DEF Sx, Sy, Sxy, Sxx
<1>4. \A i \in 1..n : /\ u(i) \in Int /\ w(i) \in Int /\ r(i) \in Int
                      /\ D * D * (r(i) * r(i)) = u(i) * u(i) + 2 * (u(i) * w(i)) + w(i) * w(i)
  <2> TAKE i \in 1..n
  <2>1. x(i) \in Int /\ y(i) \in Int
    BY <1>2
  <2>2. /\ u(i) = y(i) * D - M * x(i) - C
        /\ w(i) = (M - D * m) * x(i) + (C - D * c)
        /\ r(i) = y(i) * 1 - m * x(i) - c
    OBVIOUS
  <2> HIDE DEF n, D, M, C, x, y, u, w, r
  <2>3. u(i) \in Int /\ w(i) \in Int /\ r(i) \in Int
    <3>1. y(i) * D - M * x(i) - C \in Int
      BY ONLY <1>1, <2>1
    <3>2. (M - D * m) * x(i) + (C - D * c) \in Int
      BY ONLY <1>1, <2>1, m \in Int, c \in Int
    <3>3. y(i) * 1 - m * x(i) - c \in Int
      BY ONLY <2>1, m \in Int, c \in Int
    <3> QED
      BY ONLY <2>2, <3>1, <3>2, <3>3
  <2>4. D * r(i) = u(i) + w(i)
    <3>1. D * (y(i) * 1 - m * x(i) - c)
            = (y(i) * D - M * x(i) - C) + ((M - D * m) * x(i) + (C - D * c))
      BY ONLY <1>1, <2>1, m \in Int, c \in Int, SMTT(30)
    <3> QED
      BY ONLY <2>2, <3>1
  <2> DEFINE k == D * r(i)
  <2>5. k = u(i) + w(i) /\ k \in Int
    BY <2>3, <2>4
  <2>6. D * D * (r(i) * r(i)) = k * k
    BY ONLY <1>1, <2>3
  <2>7. (u(i) + w(i)) * (u(i) + w(i)) = u(i) * u(i) + 2 * (u(i) * w(i)) + w(i) * w(i)
    BY ONLY <2>3
  <2> HIDE DEF k
  <2> QED
    BY <2>3, <2>5, <2>6, <2>7
<1>5. /\ D * Sy(pts) + (-M) * Sx(pts) + (-C) * n = 0
      /\ D * Sxy(pts) + (-M) * Sxx(pts) + (-C) * Sx(pts) = 0
      /\ D \in Int /\ -M \in Int /\ -C \in Int
  <2> DEFINE sx == Sx(pts)
             sy == Sy(pts)
             sxy == Sxy(pts)
             sxx == Sxx(pts)
             d == Denom(pts)
             e == n * sxy - sx * sy
  <2>1. d = n * sxx - sx * sx /\ e = n * sxy - sx * sy /\ D = n * d /\ M = n * e
    BY DEF Denom, Divisor, Slope
  <2>2. /\ C = sy * d - e * sx
        /\ sx \in Int /\ sy \in Int /\ sxy \in Int /\ sxx \in Int
    BY ONLY pts \in Seq(CalPoint), Len(pts) > 0, FitTypes
  <2> HIDE DEF n, D, M, C, d, e, sx, sy, sxy, sxx
  <2>3. d \in Int /\ e \in Int
    BY ONLY <1>1, <2>1, <2>2
  <2>4. (n * d) * sy + (-(n * e)) * sx + (-(sy * d - e * sx)) * n = 0
    BY ONLY <1>1, <2>2, <2>3
  <2>5. (n * d) * sxy + (-(n * e)) * sxx + (-(sy * d - e * sx)) * sx
          = d * (n * sxy - sx * sy) - e * (n * sxx - sx * sx)
    BY ONLY <1>1, <2>2, <2>3
  <2>6. d * e - e * d = 0
    BY ONLY <2>3
  <2>7. D * sy + (-M) * sx + (-C) * n = 0 /\ D * sxy + (-M) * sxx + (-C) * sx = 0
    BY <2>1, <2>2, <2>4, <2>5, <2>6
  <2> QED
    BY <1>1, <2>7 DEF sx, sy, sxy, sxx
<1> HIDE DEF D, M, C
<1>6. \A i \in 1..n : /\ u(i) * x(i) \in Int /\ u(i) * w(i) \in Int /\ u(i) * u(i) \in Int
                      /\ w(i) * w(i) \in Int /\ w(i) * w(i) >= 0 /\ r(i) * r(i) \in Int
                      /\ D * D * (r(i) * r(i)) \in Int
  <2> TAKE i \in 1..n
  <2>1. x(i) \in Int /\ u(i) \in Int /\ w(i) \in Int /\ r(i) \in Int
    BY <1>2, <1>4
  <2> HIDE DEF x, u, w, r
  <2> QED
    BY <1>1, <2>1, SMTT(30)
<1>7. \A i \in 1..n : /\ X[i] = x(i) /\ Y[i] = y(i) /\ XY[i] = x(i) * y(i) /\ XX[i] = x(i) * x(i)
                      /\ E[i] = 1 /\ U[i] = u(i) /\ UX[i] = u(i) * x(i) /\ UW[i] = u(i) * w(i)
                      /\ UU[i] = u(i) * u(i) /\ WW[i] = w(i) * w(i) /\ RR[i] = r(i) * r(i)
                      /\ H[i] = D * D * (r(i) * r(i))
  <2> HIDE DEF x, y, u, w, r, n
  <2> QED
    OBVIOUS
<1>8. /\ Terms(U, n) /\ Terms(UX, n) /\ Terms(UW, n) /\ Terms(UU, n) /\ Terms(WW, n)
      /\ Terms(RR, n) /\ Terms(H, n)
  <2> HIDE DEF x, y, u, w, r, n
  <2> QED
    BY <1>1, <1>4, <1>6 DEF Terms
<1>9. Combined3(U, n, D, Y, -M, X, -C, E)
  <2> SUFFICES ASSUME NEW i \in 1..n PROVE U[i] = D * Y[i] + (-M) * X[i] + (-C) * E[i]
    BY DEF Combined3
  <2>1. U[i] = u(i) /\ Y[i] = y(i) /\ X[i] = x(i) /\ E[i] = 1 /\ x(i) \in Int /\ y(i) \in Int
    BY <1>2, <1>7
  <2>2. u(i) = y(i) * D - M * x(i) - C
    OBVIOUS
  <2> HIDE DEF n, x, y, u, X, Y, E, U
  <2>3. D * y(i) + (-M) * x(i) + (-C) * 1 = y(i) * D - M * x(i) - C
    BY ONLY <1>1, <2>1
  <2> QED
    BY <2>1, <2>2, <2>3
<1>10. Combined3(UX, n, D, XY, -M, XX, -C, X)
  <2> SUFFICES ASSUME NEW i \in 1..n PROVE UX[i] = D * XY[i] + (-M) * XX[i] + (-C) * X[i]
    BY DEF Combined3
  <2>1. /\ UX[i] = u(i) * x(i) /\ XY[i] = x(i) * y(i) /\ XX[i] = x(i) * x(i) /\ X[i] = x(i)
        /\ x(i) \in Int /\ y(i) \in Int
    BY <1>2, <1>7
  <2>2. u(i) = y(i) * D - M * x(i) - C
    OBVIOUS
  <2> HIDE DEF n, x, y, u, X, XX, XY, UX
  <2>3. D * (x(i) * y(i)) + (-M) * (x(i) * x(i)) + (-C) * x(i)
          = (y(i) * D - M * x(i) - C) * x(i)
    BY ONLY <1>1, <2>1, SMTT(30)
  <2> QED
    BY <2>1, <2>2, <2>3
<1>11. Combined(UW, n, al, UX, be, U)
  <2> SUFFICES ASSUME NEW i \in 1..n PROVE UW[i] = al * UX[i] + be * U[i]
    BY DEF Combined
  <2>1. /\ UW[i] = u(i) * w(i) /\ UX[i] = u(i) * x(i) /\ U[i] = u(i)
        /\ x(i) \in Int /\ u(i) \in Int
    BY <1>2, <1>4, <1>7
  <2>2. w(i) = al * x(i) + be
    OBVIOUS
  <2> HIDE DEF n, x, u, w, U, UX, UW, al, be
  <2>3. al * (u(i) * x(i)) + be * u(i) = u(i) * (al * x(i) + be)
    BY ONLY <1>1, <2>1
  <2> QED
    BY <2>1, <2>2, <2>3
<1>12. Combined(H, n, D * D, RR, 0, RR)
  <2> SUFFICES ASSUME NEW i \in 1..n PROVE H[i] = (D * D) * RR[i] + 0 * RR[i]
    BY DEF Combined
  <2>1. H[i] = D * D * (r(i) * r(i)) /\ RR[i] = r(i) * r(i) /\ r(i) * r(i) \in Int
    BY <1>6, <1>7
  <2> HIDE DEF n, r, H, RR
  <2> DEFINE p == r(i) * r(i)
  <2>2. H[i] = D * D * p /\ RR[i] = p /\ p \in Int
    BY <2>1
  <2> HIDE DEF p
  <2> QED
    BY <1>1, <2>2
<1>13. Combined3(H, n, 1, UU, 2, UW, 1, WW)
  <2> SUFFICES ASSUME NEW i \in 1..n PROVE H[i] = 1 * UU[i] + 2 * UW[i] + 1 * WW[i]
    BY DEF Combined3
  <2>1. /\ H[i] = D * D * (r(i) * r(i)) /\ UU[i] = u(i) * u(i) /\ UW[i] = u(i) * w(i)
        /\ WW[i] = w(i) * w(i)
    BY <1>7
  <2>2. /\ D * D * (r(i) * r(i)) = u(i) * u(i) + 2 * (u(i) * w(i)) + w(i) * w(i)
        /\ u(i) * u(i) \in Int /\ u(i) * w(i) \in Int /\ w(i) * w(i) \in Int
    BY <1>4, <1>6
  <2> HIDE DEF n, r, u, w, H, UU, UW, WW
  <2> QED
    BY <2>1, <2>2
<1>14. /\ SsRes(pts) = Total(UU) /\ Residuals(pts, m, c, 1) = Total(RR)
       /\ Square(D) = D * D
  BY DEF SsRes, Residuals, Square, D, M, C
<1>15. \A i \in 1..n : WW[i] >= 0
  BY <1>6, <1>7
<1> HIDE DEF n, X, Y, XY, XX, E, U, UX, UW, UU, WW, RR, H, al, be
<1>16. Total(U) = 0 /\ Total(UX) = 0
  <2>1. Total(U) = D * Total(Y) + (-M) * Total(X) + (-C) * Total(E)
    BY <1>3, <1>5, <1>8, <1>9, TotalThree
  <2>2. Total(UX) = D * Total(XY) + (-M) * Total(XX) + (-C) * Total(X)
    BY <1>3, <1>5, <1>8, <1>10, TotalThree
  <2> QED
    BY <1>3, <1>5, <2>1, <2>2
<1>17. Total(UW) = 0
  <2>1. Total(UW) = al * Total(UX) + be * Total(U)
    BY <1>1, <1>8, <1>11, TotalLinear
  <2>2. al * 0 + be * 0 = 0
    BY <1>1
  <2> QED
    BY <1>16, <2>1, <2>2
<1>18. Total(H) = (D * D) * Total(RR) /\ D * D \in Int /\ Total(RR) \in Int
  <2>1. D * D \in Int /\ 0 \in Int
    BY <1>1
  <2>2. Total(H) = (D * D) * Total(RR) + 0 * Total(RR) /\ Total(RR) \in Int
    BY <1>8, <1>12, <2>1, TotalLinear
  <2>3. 0 * Total(RR) = 0 /\ (D * D) * Total(RR) \in Int
    BY <2>1, <2>2
  <2> QED
    BY <2>1, <2>2, <2>3
<1>19. Total(H) = Total(UU) + Total(WW) /\ Total(UU) \in Int /\ Total(WW) \in Nat
  <2>1. Total(H) = 1 * Total(UU) + 2 * Total(UW) + 1 * Total(WW)
    BY <1>8, <1>13, TotalThree
  <2>2. Total(UU) \in Int /\ Total(WW) \in Nat
    BY <1>8, <1>15, TotalInt, TotalNat
  <2> QED
    BY <1>17, <2>1, <2>2
<1>20. Total(UU) <= Total(H)
  BY <1>19
<1> QED
  BY <1>14, <1>18, <1>20 DEF D

\* The divisor is the sum of the squared distances of the duties from their
\* mean, n times each: Cauchy's inequality for the duties.
LEMMA DivisorNat ==
  ASSUME NEW pts \in Seq(CalPoint), Len(pts) > 0
  PROVE  Divisor(pts) \in Nat
<1> DEFINE n == Len(pts)
           s == Sx(pts)
           x(i) == pts[i].duty
           X == [i \in 1..n |-> x(i)]
           XX == [i \in 1..n |-> x(i) * x(i)]
           E == [i \in 1..n |-> 1]
           V == [i \in 1..n |-> (n * x(i) - s) * (n * x(i) - s)]
           a == n * n
           b == -(2 * n * s)
           c == s * s
<1>1. n \in Nat
  OBVIOUS
<1>2. s \in Int /\ Sxx(pts) \in Int
  BY ONLY pts \in Seq(CalPoint), Len(pts) > 0, FitTypes
<1>3. \A i \in 1..n : x(i) \in Int
  <2>1. \A i \in 1..n : pts[i].duty \in Nat
    BY ONLY pts \in Seq(CalPoint), SumTypes
  <2> QED
    BY ONLY <2>1
<1>4. /\ Terms(X, n) /\ Terms(XX, n) /\ Terms(E, n)
      /\ Total(X) = s /\ Total(XX) = Sxx(pts) /\ Total(E) = n
  <2>1. Terms(X, n) /\ Terms(XX, n)
    BY SumTypes
  <2>2. Terms(E, n) /\ Total(E) = n
    BY <1>1, TotalCounts
  <2> QED
    BY <2>1, <2>2 DEF Sx, Sxx
<1>5. Divisor(pts) = n * (n * Sxx(pts) - s * s)
  BY DEF Divisor, Denom
<1> HIDE DEF n, s, x
<1>6. \A i \in 1..n : (n * x(i) - s) * (n * x(i) - s) \in Nat
  <2> SUFFICES ASSUME NEW i \in 1..n PROVE (n * x(i) - s) * (n * x(i) - s) \in Nat
    OBVIOUS
  <2> DEFINE k == n * x(i) - s
  <2>1. k \in Int
    BY <1>1, <1>2, <1>3
  <2> HIDE DEF k
  <2>2. k * k \in Nat
    BY <2>1
  <2> QED
    BY <2>2 DEF k
<1>7. Terms(V, n) /\ \A i \in 1..n : V[i] >= 0
  BY <1>1, <1>6 DEF Terms
<1>8. Combined3(V, n, a, XX, b, X, c, E)
  <2> SUFFICES ASSUME NEW i \in 1..n PROVE V[i] = a * XX[i] + b * X[i] + c * E[i]
    BY DEF Combined3
  <2>1. /\ V[i] = (n * x(i) - s) * (n * x(i) - s)
        /\ XX[i] = x(i) * x(i) /\ X[i] = x(i) /\ E[i] = 1
    OBVIOUS
  <2> HIDE DEF V, XX, X, E
  <2>2. (n * x(i) - s) * (n * x(i) - s) = a * (x(i) * x(i)) + b * x(i) + c * 1
    BY <1>1, <1>2, <1>3
  <2> QED
    BY <2>1, <2>2
<1>9. a \in Int /\ b \in Int /\ c \in Int
  BY <1>1, <1>2
<1>10. a * Sxx(pts) + b * s + c * n = n * (n * Sxx(pts) - s * s)
  BY <1>1, <1>2
<1> HIDE DEF a, b, c, V, XX, X, E
<1>11. Total(V) = a * Total(XX) + b * Total(X) + c * Total(E)
  BY <1>4, <1>7, <1>8, <1>9, TotalThree
<1>12. Total(V) = Divisor(pts)
  BY <1>4, <1>5, <1>10, <1>11
<1> QED
  BY <1>7, <1>12, TotalNat

\* The slope of a fit that validates is positive: a calibration whose duties
\* do not differ has no deviation to explain.
LEMMA ValidSlope ==
  ASSUME NEW pts \in Seq(CalPoint), Valid(pts), MIN_SLOPE \in Nat \ {0}
  PROVE  Slope(pts) \in Nat \ {0} /\ Len(pts) > 0
<1> DEFINE n == Len(pts)
           D == Divisor(pts)
           Z == [i \in 1..n |->
                   Square(pts[i].rpm_mean * D - 0 * pts[i].duty - Sy(pts) * Denom(pts))]
<1>1. n \in Nat /\ n >= 2 /\ MIN_SLOPE * D <= Slope(pts) /\ SsTot(pts) > 0
  BY DEF Valid
<1>2. D \in Nat /\ Slope(pts) \in Int /\ Denom(pts) \in Int /\ Sy(pts) \in Int
  BY <1>1, DivisorNat, FitTypes
<1>3. D # 0
  <2> SUFFICES ASSUME D = 0 PROVE FALSE
    OBVIOUS
  <2>1. Denom(pts) = 0
    <3> DEFINE d == Denom(pts)
    <3>1. D = n * d
      BY DEF Divisor
    <3> HIDE DEF n, d, D
    <3>2. n * d = 0 /\ d \in Int /\ n \in Nat /\ n > 0
      BY <1>1, <1>2, <3>1 DEF d
    <3>3. d = 0
      BY <3>2
    <3> QED
      BY <3>3 DEF d
  <2>2. \A i \in 1..n : pts[i].rpm_mean \in Int /\ pts[i].duty \in Int
    <3>1. \A i \in 1..Len(pts) : pts[i].rpm_mean \in Int /\ pts[i].duty \in Nat
      BY ONLY pts \in Seq(CalPoint), SumTypes
    <3> QED
      BY <3>1
  <2>3. \A i \in 1..n : Z[i] = 0
    <3> SUFFICES ASSUME NEW i \in 1..n
                 PROVE  Square(pts[i].rpm_mean * D - 0 * pts[i].duty - Sy(pts) * Denom(pts)) = 0
      OBVIOUS
    <3> DEFINE y == pts[i].rpm_mean
               x == pts[i].duty
               t == Sy(pts)
    <3>1. y \in Int /\ x \in Int /\ t \in Int
      BY <1>2, <2>2
    <3> HIDE DEF n, y, x, t
    <3>2. y * 0 - 0 * x - t * 0 = 0
      BY <3>1
    <3> QED
      BY <2>1, <3>2 DEF Square, y, x, t
  <2>4. Terms(Z, n)
    BY <1>1, <2>3 DEF Terms
  <2>5. SsTot(pts) = Total(Z)
    BY DEF SsTot, Residuals
  <2> HIDE DEF Z, n
  <2>6. Combined(Z, n, 0, Z, 0, Z) /\ 0 \in Int
    BY <2>3 DEF Combined
  <2>7. Total(Z) \in Int /\ Total(Z) = 0 * Total(Z) + 0 * Total(Z)
    BY <2>4, <2>6, TotalLinear
  <2>8. Total(Z) = 0
    BY <2>7
  <2> QED
    BY <1>1, <2>5, <2>8
<1> HIDE DEF D, n
<1>4. MIN_SLOPE * D > 0
  BY <1>2, <1>3
<1>5. MIN_SLOPE * D \in Int
  BY <1>2
<1> QED
  BY <1>1, <1>2, <1>4, <1>5 DEF n

\* And so the feedforward is a duty, whatever the calibration.
LEMMA FeedforwardType ==
  ASSUME NEW pts \in Seq(CalPoint), NEW rpm \in Int, MIN_SLOPE \in Nat \ {0}
  PROVE  Feedforward(pts, rpm) \in Int
<1> DEFINE num == rpm * Divisor(pts) - Intercept(pts)
<1>1. CASE Valid(pts) /\ 0 <= num /\ num <= FULL * Slope(pts)
  <2>1. Slope(pts) \in Nat \ {0} /\ Len(pts) > 0
    BY <1>1, ValidSlope
  <2>2. Divisor(pts) \in Int /\ Intercept(pts) \in Int
    BY <2>1, FitTypes
  <2>3. num \in Int
    BY <2>2
  <2>4. Feedforward(pts, rpm) = num \div Slope(pts)
    BY <1>1 DEF Feedforward
  <2> HIDE DEF num
  <2> QED
    BY <2>1, <2>3, <2>4
<1>2. CASE ~(Valid(pts) /\ 0 <= num /\ num <= FULL * Slope(pts))
  BY <1>2 DEF Feedforward
<1> QED
  BY <1>1, <1>2
=============================================================================
