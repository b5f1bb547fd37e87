--------------------------- MODULE DeadlineHistory ---------------------------
(***************************************************************************)
(* Governor with a history of its overruns: how many iterations in a row,  *)
(* up to and including the last, were measured over budget in a state that *)
(* has a deadline.                                                         *)
(***************************************************************************)
EXTENDS MCGovernor

VARIABLE in_a_row

hvars == <<vars, in_a_row>>

Overran == pc = "check" /\ cur \in DeadlineStates /\ wcet'[cur] > 0

IterationEnds == pc # "await" /\ pc' = "await"

HInit == Init /\ in_a_row = 0

HNext ==
  /\ Next
  /\ in_a_row' = CASE ~IterationEnds            -> in_a_row
                    [] IterationEnds /\ Overran -> Extend(in_a_row)
                    [] OTHER                    -> 0

HSpec == HInit /\ [][HNext]_hvars

(* DEADLINE_MISS_STREAK is "How many CONSECUTIVE overruns in a              *)
(* deadline-bearing state before tripping ... Prevents nuisance trips"      *)
(* (main.rs:116).  The streak of a state survives leaving it, by a Stop or  *)
(* by the trip itself, so one slow iteration of a later run trips at once.  *)
DeadlineTrips == last_fault' = "DeadlineMiss" /\ last_fault # "DeadlineMiss"
MissesConsecutive == [][DeadlineTrips => in_a_row' >= StreakLimit]_hvars
=============================================================================
