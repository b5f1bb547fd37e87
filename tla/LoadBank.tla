------------------------------ MODULE LoadBank ------------------------------
(***************************************************************************)
(* LoadBank (stm32/src/guv/load_bank.rs): two relays, step 2 returns       *)
(* through step 1's ground.  `level` is the enum None/One/Both as 0, 1, 2; *)
(* step_1 and step_2 are the relay pins.                                   *)
(***************************************************************************)
EXTENDS Integers

LoadLevel == 0 .. 2

LoadState == [level : LoadLevel, step_1 : BOOLEAN, step_2 : BOOLEAN]

NewLoadBank == [level |-> 0, step_1 |-> FALSE, step_2 |-> FALSE]

StepUp(b) ==
  CASE b.level = 0 -> [b EXCEPT !.step_1 = TRUE, !.level = 1]
    [] b.level = 1 -> [b EXCEPT !.step_2 = TRUE, !.level = 2]
    [] OTHER       -> b

(* Seeded bug: the first step down opens step 1. *)
StepDownGroundFirst(b) ==
  CASE b.level = 2 -> [b EXCEPT !.step_1 = FALSE, !.level = 1]
    [] b.level = 1 -> [b EXCEPT !.step_1 = FALSE, !.level = 0]
    [] OTHER       -> b

StepDown(b) ==
  CASE b.level = 2 -> [b EXCEPT !.step_2 = FALSE, !.level = 1]
    [] b.level = 1 -> [b EXCEPT !.step_1 = FALSE, !.level = 0]
    [] OTHER       -> b

(* One turn of set_level's loop. *)
Toward(b, target) ==
  CASE b.level < target -> StepUp(b)
    [] b.level > target -> StepDown(b)
    [] OTHER            -> b

(* No target is more than two steps away, so two turns end the loop. *)
SetLevel(b, target) == Toward(Toward(b, target), target)

(* Seeded bugs: a shed by one step, and one that forgets the level. *)
ShedOneStep(b) == StepDown(b)
ShedKeepsLevel(b) == [b EXCEPT !.step_1 = FALSE, !.step_2 = FALSE]

(* Opens step 1 first, which drops both, then step 2. *)
EmergencyShed(b) == [b EXCEPT !.level = 0, !.step_1 = FALSE, !.step_2 = FALSE]
=============================================================================
