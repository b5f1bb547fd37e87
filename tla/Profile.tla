------------------------------ MODULE Profile ------------------------------
(* Setpoint profiles (telemetry.rs): breakpoints sorted by time, the segment *)
(* after each linear or a step, and what follows the last one. Speeds and    *)
(* times are integers, an interpolated speed is rounded down.                *)
EXTENDS Integers, Sequences, FiniteSetsExt

Ends == {"HoldLast", "Stop", "Loop"}

\* Profiles as the editor makes them: sorted, total_ms the last point's time.
IsProfile(p) ==
  /\ p.points \in Seq([t : Nat, rpm : Nat, interp : {"Linear", "Step"}])
  /\ p.end \in Ends
  /\ \A i, j \in DOMAIN p.points : i < j => p.points[i].t <= p.points[j].t
  /\ p.points # <<>> => p.total = p.points[Len(p.points)].t

\* The speed on the segment from a to b. Seeded bug: run through backwards.
BetweenReversed(a, b, t) ==
  CASE a.interp = "Step" -> a.rpm
    [] a.interp # "Step" /\ a.t = b.t -> b.rpm
    [] OTHER -> b.rpm + ((t - a.t) * (a.rpm - b.rpm)) \div (b.t - a.t)
Between(a, b, t) ==
  CASE a.interp = "Step" -> a.rpm
    [] a.interp # "Step" /\ a.t = b.t -> b.rpm
    [] OTHER -> a.rpm + ((t - a.t) * (b.rpm - a.rpm)) \div (b.t - a.t)

\* Within the breakpoints: the first segment that contains t, its ends
\* included, so that a step is taken just after the time of its point.
Walk(p, t) ==
  LET n == Len(p.points)
      S == {i \in 1..n - 1 : p.points[i].t <= t /\ t <= p.points[i + 1].t} IN
  IF t <= p.points[1].t THEN p.points[1].rpm
  ELSE IF S = {} THEN p.points[n].rpm
  ELSE Between(p.points[Min(S)], p.points[Min(S) + 1], t)

EvalProfile(p, elapsed) ==
  LET n == Len(p.points)
      ended == elapsed >= p.points[n].t
      loops == p.end = "Loop" /\ p.total # 0 IN
  IF n = 0 THEN 0
  ELSE IF n = 1 THEN p.points[1].rpm
  ELSE IF ended /\ ~loops THEN p.points[n].rpm
  ELSE Walk(p, IF ended THEN elapsed % p.total ELSE elapsed)

\* A profile that stops has run its course.
Finished(p, elapsed) == p.points # <<>> /\ p.end = "Stop" /\ elapsed >= p.total
=============================================================================
