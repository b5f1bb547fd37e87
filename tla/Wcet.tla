-------------------------------- MODULE Wcet --------------------------------
(***************************************************************************)
(* WcetTable::record_and_check (stm32/src/guv/wcet.rs) with the state      *)
(* table of main.rs: one overrun streak per deadline-bearing state.  The   *)
(* recorded timings are diagnostics and left out.                          *)
(***************************************************************************)
EXTENDS States, Integers

CONSTANT StreakLimit          \* DEADLINE_MISS_STREAK
ASSUME StreakLimitAssumption == StreakLimit \in Nat \ {0}

(* state_has_deadline *)
DeadlineStates == {"SPOOLUP", "EXCITE", "PLL_LOCK", "READY", "GENERATE",
                   "LOAD_REJECTION", "RAMP_DOWN", "CALIBRATE", "MANUAL"}

Streaks == [DeadlineStates -> 0 .. StreakLimit]

NewStreaks == [s \in DeadlineStates |-> 0]

(* The streak is only compared with the limit, so it is counted up to it. *)
Extend(n) == IF n < StreakLimit THEN n + 1 ELSE n

(* The streaks after an iteration in state s, over budget or not. *)
RecordStreak(streaks, s, over) ==
  IF s \in DeadlineStates
    THEN [streaks EXCEPT ![s] = IF over THEN Extend(@) ELSE 0]
    ELSE streaks

(* record_and_check's verdict, given the streaks it leaves. *)
DeadlineMissed(streaks, s, over) ==
  /\ s \in DeadlineStates
  /\ over
  /\ streaks[s] >= StreakLimit
=============================================================================
