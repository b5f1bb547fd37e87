----------------------------- MODULE Calibrator -----------------------------
(***************************************************************************)
(* Calibrator (stm32/src/guv/calibrate.rs): holds each duty of CAL_POINTS  *)
(* for SETTLE_MS, samples the last WINDOW_MS of it, and finishes after the *)
(* last point.  The least-squares fit feeds only the feedforward term of   *)
(* the control output, which is abstracted, so `sampled` stands for the    *)
(* accumulators: the number of samples of the current point.               *)
(***************************************************************************)
EXTENDS Integers, Sequences

CONSTANTS CalPoints, SettleMs, WindowMs
ASSUME CalAssumption == /\ SettleMs \in Nat /\ WindowMs \in Nat
                        /\ CalPoints \in Seq(Nat) /\ CalPoints # << >>

CalState == [phase : {"Settling", "Sampling", "Done"}, point_idx : Nat \ {0},
             elapsed : Nat, sampled : Nat, collected : Nat]

(* Until the last point is taken, the current one is a point of the table. *)
InTable(c) == c.phase # "Done" => c.point_idx <= Len(CalPoints)

NewCalibrator == [phase |-> "Settling", point_idx |-> 1, elapsed |-> 0,
                  sampled |-> 0, collected |-> 0]

(* SETTLE_MS.saturating_sub(WINDOW_MS) *)
SampleFrom == IF WindowMs > SettleMs THEN 0 ELSE SettleMs - WindowMs

(* The calibrator after one step of dt milliseconds. *)
CalStep(c, dt) ==
  LET t    == c.elapsed + dt
      last == c.point_idx = Len(CalPoints)
  IN  CASE c.phase = "Done" -> c
        [] c.phase = "Settling" /\ t < SampleFrom -> [c EXCEPT !.elapsed = t]
        [] c.phase = "Settling" /\ t >= SampleFrom ->
             [c EXCEPT !.elapsed = t, !.phase = "Sampling", !.sampled = 0]
        [] c.phase = "Sampling" /\ t < SettleMs ->
             [c EXCEPT !.elapsed = t, !.sampled = @ + 1]
        [] OTHER ->
             [c EXCEPT !.elapsed = 0, !.sampled = @ + 1,
                       !.collected = @ + 1, !.point_idx = @ + 1,
                       !.phase = IF last THEN "Done" ELSE "Settling"]

(* The duty that step asks for: the point's own, 0 once all are taken. *)
CalDuty(c, dt) ==
  IF CalStep(c, dt).phase = "Done" THEN 0 ELSE CalPoints[c.point_idx]
=============================================================================
