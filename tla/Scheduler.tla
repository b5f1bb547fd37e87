----------------------------- MODULE Scheduler -----------------------------
(* When the three software tasks of the STM32 run. SysTick has the lowest    *)
(* priority of all, that of the priority-1 tasks: while one of these runs no *)
(* tick is served and, an exception being pending only once, of the ticks    *)
(* that expire all but one are lost. safety_supervisor preempts both, but    *)
(* only a served tick can wake it. telemetry_task transmits in a busy wait,  *)
(* and a frame lasts several ticks. Time goes by in sample periods of the    *)
(* ADC, 250 us; whatever takes less is instantaneous.                        *)
EXTENDS Integers, FiniteSets, FiniteSetsExt

CONSTANTS
  TICK,        \* samples in a tick of Mono
  Frames,      \* how long telemetry_task may take, in samples
  Iterations   \* how long an iteration of state_manager may take

ASSUME SchedulerAssumption ==
  /\ TICK \in Nat \ {0}
  /\ Frames \subseteq Nat
  /\ Iterations \subseteq Nat

\* Neither lasts without bound: no frame is longer than one with a report, no
\* iteration loops over more than a queue or a table.
ASSUME LengthAssumption == IsFiniteSet(Frames) /\ IsFiniteSet(Iterations)

Tasks == {"state_manager", "telemetry_task", "safety_supervisor"}

\* What each task passes to Mono::delay, in ticks. Seeded bug: a supervisor at
\* a tenth of its rate.
DELAYSlow == [state_manager |-> 10, telemetry_task |-> 10, safety_supervisor |-> 20]
DELAY == [state_manager |-> 10, telemetry_task |-> 10, safety_supervisor |-> 2]

\* No priority-1 task runs.
Idle == "idle"

VARIABLES
  job, left,   \* the priority-1 task that runs, and how long it still will
  wait,        \* ticks each task's delay has still to count
  phase, pend, \* time since SysTick last expired, and whether it is pending
  adc_on,      \* whether the DRDY interrupt is armed (it is not, as shipped)
  filled,      \* adc_acc's window has a sample
  last_i,      \* last_p_total: whether the last pass saw the current
  rejection,   \* whether it took the current to have dropped
  age,         \* time since each task last started
  unjudged,    \* tasks that have started since the supervisor's last pass
  crowded      \* the window was reset by an iteration that had been kept waiting

cpu == <<job, left, wait>>
timer == <<phase, pend>>
adc == <<adc_on, filled, last_i, rejection>>
ghosts == <<age, unjudged, crowded>>
vars == <<cpu, timer, adc, ghosts>>

\* Where telemetry_task and the supervisor begin with a delay, state_manager
\* begins with an iteration. There has been no iteration before it.
Init ==
  /\ job = Idle /\ left = 0 /\ phase = 0 /\ pend = FALSE
  /\ wait = [t \in Tasks |-> IF t = "state_manager" THEN 0 ELSE DELAY[t] + 1]
  /\ adc_on \in BOOLEAN /\ filled = FALSE /\ last_i = FALSE /\ rejection = FALSE
  /\ age = [t \in Tasks |-> IF t = "state_manager" THEN DELAY[t] * TICK ELSE 0]
  /\ unjudged = {} /\ crowded = FALSE

Due(t) == wait[t] = 0

\* telemetry_task transmits while it holds state, motor and last_fault, which
\* the supervisor needs, and so with the supervisor masked.
SupervisorRuns == Due("safety_supervisor") /\ job # "telemetry_task"

\* Mono::delay waits for one period more than it is asked for, by a clock that
\* takes note of a pending tick. Seeded bug: just as long as it is asked for.
DelayedAtMost(t) == [wait EXCEPT ![t] = DELAY[t] + (IF pend THEN 1 ELSE 0)]
Delayed(t) == [wait EXCEPT ![t] = DELAY[t] + (IF pend THEN 2 ELSE 1)]

-----------------------------------------------------------------------------
\* A sample period goes by within a priority-1 task, or with nothing to do.
Elapse ==
  /\ ~SupervisorRuns
  /\ IF job = Idle THEN ~pend /\ \A t \in Tasks : ~Due(t) ELSE left > 0
  /\ left' = IF job = Idle THEN 0 ELSE left - 1
  /\ phase' = (phase + 1) % TICK
  /\ pend' = (pend \/ phase' = 0)
  /\ filled' = (filled \/ adc_on)
  /\ age' = [t \in Tasks |-> age[t] + 1]
  /\ UNCHANGED <<job, wait, adc_on, last_i, rejection, unjudged, crowded>>

\* A tick is counted by every delay that is not over. Seeded bug: by all.
CountPastZero == wait' = [t \in Tasks |-> wait[t] - 1]
Count == wait' = [t \in Tasks |-> Max({0, wait[t] - 1})]

\* Seeded bug: SysTick keeps its default priority, above all tasks.
SysTickAtOnce ==
  /\ pend /\ pend' = FALSE
  /\ Count
  /\ UNCHANGED <<job, left, phase, adc, ghosts>>

\* The handler of SysTick, between two priority-1 tasks.
SysTick ==
  /\ pend /\ job = Idle
  /\ pend' = FALSE
  /\ Count
  /\ UNCHANGED <<job, left, phase, adc, ghosts>>

\* A priority-1 task that is due begins.
Begin(t, durations) ==
  /\ job = Idle /\ Due(t) /\ ~SupervisorRuns
  /\ job' = t /\ left' \in durations
  /\ age' = [age EXCEPT ![t] = 0]
  /\ unjudged' = unjudged \cup {t}
  /\ UNCHANGED <<wait, timer>>

\* An iteration finalizes and resets the window first, unless a command ends
\* it before (EmergencyStop, Hello).
StateManager ==
  /\ Begin("state_manager", Iterations)
  /\ \/ UNCHANGED <<adc, crowded>>
     \/ /\ filled' = FALSE
        /\ crowded' = (pend \/ phase # 0)
        /\ UNCHANGED <<adc_on, last_i, rejection>>

\* telemetry_task reads the encoder and transmits, except in BOOT.
TelemetryTask == Begin("telemetry_task", Frames) /\ UNCHANGED <<adc, crowded>>

\* Seeded bugs: the delay is counted from the start of the task, to keep its
\* period; the window is reset at the end of an iteration.
FinishPeriodic ==
  /\ job # Idle /\ left = 0 /\ ~SupervisorRuns
  /\ job' = Idle
  /\ wait' = [wait EXCEPT ![job] = Max({0, DELAY[job] + 1 - age[job] \div TICK})]
  /\ UNCHANGED <<left, timer, adc, ghosts>>
FinishResets ==
  /\ job # Idle /\ left = 0 /\ ~SupervisorRuns
  /\ job' = Idle /\ wait' = Delayed(job)
  /\ filled' = (filled /\ job # "state_manager")
  /\ UNCHANGED <<left, timer, adc_on, last_i, rejection, ghosts>>

\* The task that runs arrives at its delay.
Finish ==
  /\ job # Idle /\ left = 0 /\ ~SupervisorRuns
  /\ job' = Idle /\ wait' = Delayed(job)
  /\ UNCHANGED <<left, timer, adc, ghosts>>

\* A pass of the supervisor, under a steady current above LOAD_REJECT_MIN_A:
\* it reads that current, or none while the window is empty.
SafetySupervisor ==
  /\ SupervisorRuns
  /\ wait' = Delayed("safety_supervisor")
  /\ rejection' = (last_i /\ ~filled)
  /\ last_i' = filled
  /\ age' = [age EXCEPT !["safety_supervisor"] = 0]
  /\ unjudged' = {}
  /\ UNCHANGED <<job, left, timer, adc_on, filled, crowded>>

Next == Elapse \/ SysTick \/ StateManager \/ TelemetryTask \/ Finish \/ SafetySupervisor

Spec == Init /\ [][Next]_vars

-----------------------------------------------------------------------------
(* Properties *)

\* Types of the variables; a delay counts one or two ticks more than asked.
SchedulerTypeOK ==
  /\ job \in Tasks \cup {Idle} /\ left \in Nat
  /\ wait \in [Tasks -> Nat] /\ \A t \in Tasks : wait[t] <= DELAY[t] + 2
  /\ phase \in 0..TICK - 1 /\ pend \in BOOLEAN
  /\ {adc_on, filled, last_i, rejection, crowded} \subseteq BOOLEAN
  /\ age \in [Tasks -> Nat] /\ unjudged \in SUBSET Tasks

\* The supervisor never preempts an iteration, nor a frame: what state_manager
\* reads at its start still holds when it acts.
IterationUndisturbed == [][SafetySupervisor => job = Idle]_vars

\* The supervisor has judged every speed before it is replaced by the next, and
\* passes between any two iterations, however long frames and iterations take.
JudgedInTime ==
  [][/\ TelemetryTask => "telemetry_task" \notin unjudged
     /\ StateManager => "state_manager" \notin unjudged]_vars

\* The 10 ms that the speed is computed with, and that an iteration adds to the
\* run's clock, have really gone by: speed is over-read and never under-read,
\* and a run's clock is late and never early.
NeverFast ==
  [][/\ TelemetryTask => age["telemetry_task"] >= DELAY["telemetry_task"] * TICK
     /\ StateManager => age["state_manager"] >= DELAY["state_manager"] * TICK]_vars

\* Between two passes of the supervisor at most one frame and one iteration
\* hold up its ticks; between two speeds only one frame and two iterations,
\* and between two iterations two frames.
Longest(S) == Max({0} \cup S)
Within(t, frames, iterations) ==
  age[t] <= (DELAY[t] + 1) * TICK + frames * Longest(Frames) + iterations * Longest(Iterations)
Punctual == /\ Within("safety_supervisor", 1, 1)
            /\ Within("telemetry_task", 1, 2)
            /\ Within("state_manager", 2, 1)

\* Under a steady current the supervisor sees a load rejection only when an
\* iteration that a frame had kept waiting has just reset the window.
FalseRejectionCause == [][SafetySupervisor /\ rejection' => crowded]_vars
=============================================================================
