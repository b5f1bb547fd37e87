-------------------------- MODULE SchedulerProofs --------------------------
(* Proofs about Scheduler, for every tick, frame and iteration: its types,   *)
(* that the supervisor disturbs no iteration, judges every speed in time,    *)
(* that no period is cut short, and what alone can make up a load rejection. *)
EXTENDS Scheduler, FiniteSetTheorems, WellFoundedInduction, TLAPS

\* The periods of the three tasks.
LEMMA DelayType ==
  /\ DELAY \in [Tasks -> Nat]
  /\ DELAY["state_manager"] = 10
  /\ DELAY["telemetry_task"] = 10
  /\ DELAY["safety_supervisor"] = 2
BY DEF DELAY, Tasks

\* What a served tick leaves of a delay.
LEMMA CountedDown ==
  ASSUME NEW n \in Nat
  PROVE  Max({0, n - 1}) = IF n = 0 THEN 0 ELSE n - 1
<1>1. CASE n = 0
  <2>1. \A x \in {0, n - 1} : (\A y \in {0, n - 1} : x >= y) <=> x = 0
    BY <1>1
  <2>2. 0 \in {0, n - 1}
    OBVIOUS
  <2> QED
    BY <1>1, <2>1, <2>2 DEF Max
<1>2. CASE n # 0
  <2>1. \A x \in {0, n - 1} : (\A y \in {0, n - 1} : x >= y) <=> x = n - 1
    BY <1>2
  <2>2. n - 1 \in {0, n - 1}
    OBVIOUS
  <2> QED
    BY <1>2, <2>1, <2>2 DEF Max
<1> QED
  BY <1>1, <1>2

\* The delays after a served tick, and after the delay of one of the tasks.
LEMMA CountWaits ==
  ASSUME SchedulerTypeOK, Count
  PROVE  /\ wait' \in [Tasks -> Nat]
         /\ \A t \in Tasks : wait'[t] = IF wait[t] = 0 THEN 0 ELSE wait[t] - 1
<1>1. \A t \in Tasks : Max({0, wait[t] - 1}) = IF wait[t] = 0 THEN 0 ELSE wait[t] - 1
  BY CountedDown DEF SchedulerTypeOK
<1> QED
  BY <1>1 DEF Count, SchedulerTypeOK

\* The delays once a task has arrived at its own.
LEMMA DelayedWaits ==
  ASSUME SchedulerTypeOK, NEW s \in Tasks, wait' = Delayed(s)
  PROVE  /\ wait' \in [Tasks -> Nat]
         /\ wait'[s] = DELAY[s] + IF pend THEN 2 ELSE 1
         /\ \A t \in Tasks \ {s} : wait'[t] = wait[t]
<1> DEFINE n == DELAY[s] + IF pend THEN 2 ELSE 1
<1>1. n \in Nat
  BY DelayType
<1>2. wait' = [wait EXCEPT ![s] = n]
  BY DEF Delayed
<1> HIDE DEF n
<1>3. /\ wait' \in [Tasks -> Nat]
      /\ wait'[s] = n
      /\ \A t \in Tasks \ {s} : wait'[t] = wait[t]
  BY <1>1, <1>2 DEF SchedulerTypeOK
<1> QED
  BY <1>3 DEF n

\* The phase of SysTick after a sample period.
LEMMA PhaseOn ==
  ASSUME SchedulerTypeOK, SchedulerAssumption, phase' = (phase + 1) % TICK
  PROVE  /\ phase' \in 0..TICK - 1
         /\ phase' = phase + 1 \/ (phase' = 0 /\ phase = TICK - 1)
<1>1. CASE phase + 1 < TICK
  BY <1>1, SMT DEF SchedulerTypeOK, SchedulerAssumption
<1>2. CASE phase + 1 = TICK
  BY <1>2, SMT DEF SchedulerTypeOK, SchedulerAssumption
<1> QED
  BY <1>1, <1>2 DEF SchedulerTypeOK, SchedulerAssumption

-----------------------------------------------------------------------------
(* The inductive invariant. *)

\* A priority-1 task ends before the supervisor is due again, and no tick is
\* pending when the supervisor is due.
Undisturbed == /\ job # "safety_supervisor"
               /\ job # Idle => wait["safety_supervisor"] > 0
               /\ wait["safety_supervisor"] = 0 => ~pend

\* What has not been judged is due only after the supervisor.
Judged == \A t \in unjudged \ {"safety_supervisor", job} :
            wait[t] > wait["safety_supervisor"]

\* The ticks that a delay has seen expire, the pending one included, and the
\* time that they have taken at least.
Expired(t) == DELAY[t] + 1 + (IF pend THEN 1 ELSE 0) - wait[t]
Lasting == \A t \in Tasks \ {"safety_supervisor", job} :
             Expired(t) >= 1 => age[t] >= phase + (Expired(t) - 1) * TICK

\* The window is empty after the current has been seen only until the
\* supervisor has counted another tick.
Refilled == /\ filled \/ last_i => adc_on
            /\ ~filled /\ last_i /\ ~crowded => ~pend /\ wait["safety_supervisor"] > 0

SchedulerInv == SchedulerTypeOK /\ Undisturbed /\ Judged /\ Lasting /\ Refilled

\* Time and ticks go together, at the end of a tick and within one.
LEMMA TickLater ==
  ASSUME NEW T \in Nat, NEW p \in Nat, NEW q \in Nat, NEW a \in Nat, NEW b \in Nat,
         NEW k \in Int, NEW l \in Int,
         k >= 1 => a >= p + (k - 1) * T, b = a + 1, l >= 1,
         \/ l = k /\ (q = p + 1 \/ q = 0)
         \/ l = k + 1 /\ q = 0 /\ p = T - 1
  PROVE  b >= q + (l - 1) * T
<1>1. CASE l = k
  BY <1>1
<1>2. CASE l = k + 1 /\ q = 0 /\ p = T - 1 /\ k >= 1
  <2>1. (k - 1) * T + T = k * T
    OBVIOUS
  <2>2. l - 1 = k
    BY <1>2
  <2> QED
    BY <1>2, <2>1, <2>2
<1>3. CASE l = k + 1 /\ q = 0 /\ k < 1
  <2>1. l - 1 = 0 /\ 0 * T = 0
    BY <1>3
  <2> QED
    BY <1>3, <2>1
<1> QED
  BY <1>1, <1>2, <1>3

\* Nor does a served tick put time and ticks out of step.
LEMMA TickEarlier ==
  ASSUME NEW T \in Nat, NEW p \in Nat, NEW a \in Nat, NEW k \in Int, NEW l \in Int,
         k >= 1 => a >= p + (k - 1) * T, l >= 1, l = k \/ l = k - 1
  PROVE  a >= p + (l - 1) * T
<1>1. CASE l = k
  BY <1>1
<1>2. CASE l = k - 1
  <2>1. (k - 1) * T = (l - 1) * T + T
    BY <1>2
  <2> QED
    BY <1>2, <2>1
<1> QED
  BY <1>1, <1>2

\* The initial states.
LEMMA InitInv ==
  ASSUME SchedulerAssumption, Init
  PROVE  SchedulerInv
<1>1. /\ wait \in [Tasks -> Nat]
      /\ wait["state_manager"] = 0
      /\ wait["telemetry_task"] = 11 /\ wait["safety_supervisor"] = 3
  BY DelayType DEF Init, Tasks
<1>2. /\ age \in [Tasks -> Nat] /\ age["state_manager"] = 10 * TICK
      /\ age["telemetry_task"] = 0
  BY DelayType DEF Init, Tasks, SchedulerAssumption
<1>3. SchedulerTypeOK
  <2>1. \A t \in Tasks : wait[t] <= DELAY[t] + 2
    BY <1>1, DelayType DEF Tasks
  <2>2. phase \in 0..TICK - 1
    BY DEF Init, SchedulerAssumption
  <2> QED
    BY <1>1, <1>2, <2>1, <2>2 DEF SchedulerTypeOK, Init
<1>4. Undisturbed /\ Judged /\ Refilled
  BY <1>1 DEF Undisturbed, Judged, Refilled, Init, Idle
<1>5. Lasting
  <2>1. Expired("state_manager") = 11 /\ Expired("telemetry_task") = 0
    BY <1>1, DelayType DEF Expired, Init
  <2>2. age["state_manager"] >= phase + (Expired("state_manager") - 1) * TICK
    BY <1>2, <2>1 DEF Init, SchedulerAssumption
  <2> QED
    BY <2>1, <2>2 DEF Lasting, Tasks
<1> QED
  BY <1>3, <1>4, <1>5 DEF SchedulerInv

\* A sample period: at its end one tick more may have expired.
LEMMA ElapseInv ==
  ASSUME SchedulerAssumption, SchedulerInv, Elapse
  PROVE  SchedulerInv'
<1>1. /\ phase' \in 0..TICK - 1
      /\ phase' = phase + 1 \/ (phase' = 0 /\ phase = TICK - 1)
  BY PhaseOn DEF SchedulerInv, Elapse
<1>2. /\ age' \in [Tasks -> Nat]
      /\ \A t \in Tasks : age'[t] = age[t] + 1
  BY DEF Elapse, SchedulerInv, SchedulerTypeOK
<1>3. left' \in Nat
  BY DEF Elapse, SchedulerInv, SchedulerTypeOK
<1>4. SchedulerTypeOK'
  BY <1>1, <1>2, <1>3 DEF Elapse, SchedulerInv, SchedulerTypeOK
<1>5. wait["safety_supervisor"] > 0
  BY DEF Elapse, SchedulerInv, SchedulerTypeOK, Undisturbed, SupervisorRuns, Due, Idle, Tasks
<1>6. Undisturbed' /\ Judged'
  BY <1>5 DEF Elapse, SchedulerInv, Undisturbed, Judged
<1>7. Lasting'
  <2> SUFFICES ASSUME NEW t \in Tasks \ {"safety_supervisor", job},
                      Expired(t)' >= 1
               PROVE  age'[t] >= phase' + (Expired(t)' - 1) * TICK
    BY DEF Lasting, Elapse
  <2>1. /\ Expired(t) \in Int /\ age[t] \in Nat /\ phase \in Nat /\ TICK \in Nat
        /\ Expired(t)' \in Int /\ age'[t] \in Nat /\ phase' \in Nat
    BY <1>1, <1>2, <1>4, DelayType
    DEF Expired, Elapse, SchedulerInv, SchedulerTypeOK, SchedulerAssumption
  <2>2. Expired(t) >= 1 => age[t] >= phase + (Expired(t) - 1) * TICK
    BY DEF Lasting, SchedulerInv
  <2>3. age'[t] = age[t] + 1
    BY <1>2
  <2>4. \/ Expired(t)' = Expired(t) /\ (phase' = phase + 1 \/ phase' = 0)
        \/ Expired(t)' = Expired(t) + 1 /\ phase' = 0 /\ phase = TICK - 1
    BY <1>1, DelayType DEF Expired, Elapse, SchedulerInv, SchedulerTypeOK, SchedulerAssumption
  <2> QED
    BY ONLY TickLater, <2>1, <2>2, <2>3, <2>4, Expired(t)' >= 1
<1>8. Refilled'
  BY <1>5 DEF Elapse, SchedulerInv, Refilled
<1> QED
  BY <1>4, <1>6, <1>7, <1>8 DEF SchedulerInv

\* A served tick is no longer pending and every delay has counted it.
LEMMA SysTickInv ==
  ASSUME SchedulerAssumption, SchedulerInv, SysTick
  PROVE  SchedulerInv'
<1> USE DEF SchedulerInv
<1>1. /\ wait' \in [Tasks -> Nat]
      /\ \A t \in Tasks : wait'[t] = IF wait[t] = 0 THEN 0 ELSE wait[t] - 1
  BY CountWaits DEF SysTick
<1>2. /\ job = Idle /\ pend = TRUE /\ pend' = FALSE
      /\ UNCHANGED <<job, left, phase, adc_on, filled, last_i, rejection, age, unjudged, crowded>>
  BY DEF SysTick, adc, ghosts, SchedulerTypeOK
<1>3. SchedulerTypeOK'
  <2>1. \A t \in Tasks : wait'[t] <= DELAY[t] + 2
    BY <1>1, DelayType DEF SchedulerTypeOK
  <2> QED
    BY <1>1, <1>2, <2>1 DEF SchedulerTypeOK
<1>4. wait["safety_supervisor"] > 0
  BY <1>2, DelayType DEF Undisturbed, SchedulerTypeOK, Tasks
<1>5. Undisturbed'
  BY <1>2 DEF Undisturbed
<1>6. Judged'
  BY <1>1, <1>2, <1>4 DEF Judged, SchedulerTypeOK, Tasks
<1>7. Lasting'
  <2> SUFFICES ASSUME NEW t \in Tasks \ {"safety_supervisor", job},
                      Expired(t)' >= 1
               PROVE  age[t] >= phase + (Expired(t)' - 1) * TICK
    BY <1>2 DEF Lasting
  <2>1. /\ Expired(t) \in Int /\ age[t] \in Nat /\ phase \in Nat /\ TICK \in Nat
        /\ Expired(t)' \in Int
    BY <1>1, DelayType DEF Expired, SchedulerTypeOK, SchedulerAssumption
  <2>2. Expired(t) >= 1 => age[t] >= phase + (Expired(t) - 1) * TICK
    BY DEF Lasting
  <2>3. Expired(t)' = Expired(t) \/ Expired(t)' = Expired(t) - 1
    BY <1>1, <1>2, DelayType DEF Expired, SchedulerTypeOK
  <2> QED
    BY ONLY TickEarlier, <2>1, <2>2, <2>3, Expired(t)' >= 1
<1>8. Refilled'
  BY <1>2 DEF Refilled
<1> QED
  BY <1>3, <1>5, <1>6, <1>7, <1>8

\* A priority-1 task begins only after a pass of the supervisor that was due.
LEMMA BeginInv ==
  ASSUME SchedulerAssumption, SchedulerInv,
         NEW s \in Tasks \ {"safety_supervisor"}, NEW D \in SUBSET Nat, Begin(s, D),
         \/ UNCHANGED <<adc, crowded>>
         \/ /\ filled' = FALSE
            /\ crowded' = (pend \/ phase # 0)
            /\ UNCHANGED <<adc_on, last_i, rejection>>
  PROVE  SchedulerInv' /\ s \notin unjudged /\ age[s] >= DELAY[s] * TICK
<1> USE DEF SchedulerInv
<1>1. /\ job = Idle /\ wait[s] = 0 /\ wait["safety_supervisor"] > 0
      /\ job' = s /\ left' \in Nat /\ unjudged' = unjudged \cup {s}
      /\ UNCHANGED <<wait, phase, pend>>
  BY DEF Begin, Due, SupervisorRuns, Idle, timer, SchedulerTypeOK, Tasks
<1>2. /\ age' \in [Tasks -> Nat]
      /\ \A t \in Tasks \ {s} : age'[t] = age[t]
  BY DEF Begin, SchedulerTypeOK
<1>3. UNCHANGED <<adc_on, last_i, rejection>> /\ filled' \in BOOLEAN /\ crowded' \in BOOLEAN
  BY DEF adc, SchedulerTypeOK
<1>4. SchedulerTypeOK'
  BY <1>1, <1>2, <1>3 DEF SchedulerTypeOK
<1>5. Undisturbed' /\ Judged'
  BY <1>1 DEF Undisturbed, Judged, Idle, SchedulerTypeOK, Tasks
<1>6. Lasting'
  <2> SUFFICES ASSUME NEW t \in Tasks \ {"safety_supervisor", s}
               PROVE  (Expired(t) >= 1 => age[t] >= phase + (Expired(t) - 1) * TICK)'
    BY <1>1 DEF Lasting
  <2>1. t # job
    BY <1>1 DEF Idle, Tasks
  <2> QED
    BY <1>1, <1>2, <2>1 DEF Lasting, Expired
<1>7. Refilled'
  <2>1. CASE UNCHANGED <<adc, crowded>>
    BY <1>1, <2>1 DEF Refilled, adc
  <2>2. CASE /\ filled' = FALSE /\ crowded' = (pend \/ phase # 0)
             /\ UNCHANGED <<adc_on, last_i, rejection>>
    BY <1>1, <2>2 DEF Refilled
  <2> QED
    BY <2>1, <2>2
<1>8. s \notin unjudged
  BY <1>1 DEF Judged, Idle, SchedulerTypeOK, Tasks
<1>9. age[s] >= DELAY[s] * TICK
  <2>1. s # job
    BY <1>1 DEF Idle, Tasks
  <2>2. Expired(s) \in Int /\ Expired(s) >= 11 /\ DELAY[s] = 10
    BY <1>1, DelayType DEF Expired, Tasks
  <2>3. age[s] >= phase + (Expired(s) - 1) * TICK
    BY <2>1, <2>2 DEF Lasting
  <2>4. (Expired(s) - 1) * TICK >= 10 * TICK
    <3>1. TICK \in Nat /\ Expired(s) - 11 \in Nat
      BY <2>2 DEF SchedulerAssumption
    <3>2. (Expired(s) - 11) * TICK \in Nat
      BY <3>1
    <3>3. (Expired(s) - 11) * TICK = (Expired(s) - 1) * TICK - 10 * TICK
      BY <2>2, <3>1
    <3> QED
      BY <2>2, <3>1, <3>2, <3>3
  <2> QED
    BY <2>2, <2>3, <2>4 DEF SchedulerTypeOK, SchedulerAssumption
<1> QED
  BY <1>4, <1>5, <1>6, <1>7, <1>8, <1>9

\* A task arrives at a delay longer than the supervisor's.
LEMMA FinishInv ==
  ASSUME SchedulerAssumption, SchedulerInv, Finish
  PROVE  SchedulerInv'
<1> USE DEF SchedulerInv
<1>1. /\ job \in Tasks /\ job' = Idle /\ wait["safety_supervisor"] > 0
      /\ UNCHANGED <<left, phase, pend, adc_on, filled, last_i, rejection, age, unjudged, crowded>>
  BY DEF Finish, Undisturbed, SchedulerTypeOK, timer, adc, ghosts
<1>2. /\ wait' \in [Tasks -> Nat]
      /\ wait'[job] = DELAY[job] + IF pend THEN 2 ELSE 1
      /\ \A t \in Tasks \ {job} : wait'[t] = wait[t]
  BY <1>1, DelayedWaits DEF Finish
<1>3. SchedulerTypeOK'
  <2>1. \A t \in Tasks : wait'[t] <= DELAY[t] + 2
    BY <1>1, <1>2, DelayType DEF SchedulerTypeOK
  <2> QED
    BY <1>1, <1>2, <2>1 DEF SchedulerTypeOK
<1>4. wait'["safety_supervisor"] > 0
  BY <1>1, <1>2, DelayType DEF Tasks
<1>5. Undisturbed' /\ Refilled'
  BY <1>1, <1>4 DEF Undisturbed, Refilled, Idle
<1>6. Judged'
  <2> SUFFICES ASSUME NEW t \in unjudged \ {"safety_supervisor"}
               PROVE  wait'[t] > wait'["safety_supervisor"]
    BY <1>1 DEF Judged
  <2>1. t \in Tasks /\ DELAY[t] = 10
    BY DelayType DEF SchedulerTypeOK, Tasks
  <2>2. CASE t = job
    BY <1>1, <1>2, <1>3, <2>1, <2>2, DelayType DEF SchedulerTypeOK, Tasks
  <2>3. CASE t # job
    BY <1>1, <1>2, <2>1, <2>3 DEF Judged, Undisturbed, Tasks
  <2> QED
    BY <2>2, <2>3
<1>7. Lasting'
  <2> SUFFICES ASSUME NEW t \in Tasks \ {"safety_supervisor"}, Expired(t)' >= 1
               PROVE  age[t] >= phase + (Expired(t)' - 1) * TICK
    BY <1>1 DEF Lasting
  <2>1. CASE t = job
    BY <1>1, <1>2, <2>1, DelayType DEF Expired
  <2>2. CASE t # job
    BY <1>1, <1>2, <2>2 DEF Expired, Lasting
  <2> QED
    BY <2>1, <2>2
<1> QED
  BY <1>3, <1>5, <1>6, <1>7

\* A pass of the supervisor judges all that has started.
LEMMA SupervisorInv ==
  ASSUME SchedulerAssumption, SchedulerInv, SafetySupervisor
  PROVE  SchedulerInv'
<1> USE DEF SchedulerInv
<1> DEFINE s == "safety_supervisor"
<1>1. /\ wait[s] = 0 /\ job = Idle /\ pend = FALSE
      /\ UNCHANGED <<job, left, phase, pend, adc_on, filled, crowded>>
      /\ rejection' = (last_i /\ ~filled) /\ last_i' = filled /\ unjudged' = {}
  BY DEF SafetySupervisor, SupervisorRuns, Due, Undisturbed, SchedulerTypeOK, timer
<1>2. /\ wait' \in [Tasks -> Nat]
      /\ wait'[s] = 3
      /\ \A t \in Tasks \ {s} : wait'[t] = wait[t]
  BY <1>1, DelayedWaits, DelayType DEF SafetySupervisor, Tasks
<1>3. /\ age' \in [Tasks -> Nat]
      /\ \A t \in Tasks \ {s} : age'[t] = age[t]
  BY DEF SafetySupervisor, SchedulerTypeOK
<1>4. SchedulerTypeOK'
  <2>1. \A t \in Tasks : wait'[t] <= DELAY[t] + 2
    BY <1>2, DelayType DEF SchedulerTypeOK, Tasks
  <2>2. {adc_on, filled, last_i, rejection, crowded}' \subseteq BOOLEAN
    BY <1>1 DEF SchedulerTypeOK
  <2> QED
    BY <1>1, <1>2, <1>3, <2>1, <2>2 DEF SchedulerTypeOK
<1>5. Undisturbed' /\ Judged'
  BY <1>1, <1>2 DEF Undisturbed, Judged
<1>6. Lasting'
  BY <1>1, <1>2, <1>3 DEF Lasting, Expired
<1>7. Refilled'
  BY <1>1 DEF Refilled
<1> QED
  BY <1>4, <1>5, <1>6, <1>7

\* Every step keeps the invariant.
LEMMA StepInv ==
  ASSUME SchedulerAssumption, SchedulerInv, [Next]_vars
  PROVE  SchedulerInv'
<1>1. CASE Elapse
  BY <1>1, ElapseInv
<1>2. CASE SysTick
  BY <1>2, SysTickInv
<1>3. CASE StateManager
  BY <1>3, BeginInv DEF StateManager, Tasks, SchedulerAssumption
<1>4. CASE TelemetryTask
  BY <1>4, BeginInv DEF TelemetryTask, Tasks, SchedulerAssumption
<1>5. CASE Finish
  BY <1>5, FinishInv
<1>6. CASE SafetySupervisor
  BY <1>6, SupervisorInv
<1>7. CASE UNCHANGED vars
  BY <1>7 DEF vars, cpu, timer, adc, ghosts, SchedulerInv, SchedulerTypeOK, Undisturbed,
              Judged, Lasting, Expired, Refilled
<1> QED
  BY <1>1, <1>2, <1>3, <1>4, <1>5, <1>6, <1>7 DEF Next

\* The invariant holds throughout.
LEMMA SchedulerInvariant == Spec => []SchedulerInv
BY SchedulerAssumption, InitInv, StepInv, PTL DEF Spec

-----------------------------------------------------------------------------
(* The theorems. *)

\* Types, and that no delay counts more than two ticks beyond what was asked.
THEOREM SchedulerTypes == Spec => []SchedulerTypeOK
<1>1. SchedulerInv => SchedulerTypeOK
  BY DEF SchedulerInv
<1> QED
  BY <1>1, SchedulerInvariant, PTL

\* However long frames and iterations last, the supervisor, of a higher
\* priority than either, preempts neither.
THEOREM NoPreemption == Spec => IterationUndisturbed
<1>1. SchedulerInv /\ SafetySupervisor => job = Idle
  BY DEF SchedulerInv, SchedulerTypeOK, Undisturbed, SafetySupervisor, SupervisorRuns, Due, Tasks
<1>2. SchedulerInv /\ [Next]_vars => [SafetySupervisor => job = Idle]_vars
  BY <1>1
<1> QED
  BY <1>2, SchedulerInvariant, PTL DEF Spec, IterationUndisturbed

\* Every speed is judged before the next replaces it, and the supervisor has
\* run between any two iterations.
THEOREM SpeedsJudged == Spec => JudgedInTime
<1> DEFINE A == /\ TelemetryTask => "telemetry_task" \notin unjudged
                /\ StateManager => "state_manager" \notin unjudged
<1>1. SchedulerInv => A
  BY SchedulerAssumption, BeginInv DEF TelemetryTask, StateManager, Tasks, SchedulerAssumption
<1>2. SchedulerInv /\ [Next]_vars => [A]_vars
  BY <1>1
<1> QED
  BY <1>2, SchedulerInvariant, PTL DEF Spec, JudgedInTime

\* No period of either task is shorter than the 10 ticks it is taken for.
THEOREM PeriodsNotShort == Spec => NeverFast
<1> DEFINE A == /\ TelemetryTask => age["telemetry_task"] >= DELAY["telemetry_task"] * TICK
                /\ StateManager => age["state_manager"] >= DELAY["state_manager"] * TICK
<1>1. SchedulerInv => A
  BY SchedulerAssumption, BeginInv DEF TelemetryTask, StateManager, Tasks, SchedulerAssumption
<1>2. SchedulerInv /\ [Next]_vars => [A]_vars
  BY <1>1
<1> QED
  BY <1>2, SchedulerInvariant, PTL DEF Spec, NeverFast

\* A steady current is taken for a load rejection only after an iteration that
\* a frame had kept waiting has reset the window.
THEOREM RejectionsExplained == Spec => FalseRejectionCause
<1>1. SchedulerInv /\ SafetySupervisor /\ rejection' => crowded
  BY DEF SchedulerInv, SchedulerTypeOK, Refilled, SafetySupervisor, SupervisorRuns, Due
<1>2. SchedulerInv /\ [Next]_vars => [SafetySupervisor /\ rejection' => crowded]_vars
  BY <1>1
<1> QED
  BY <1>2, SchedulerInvariant, PTL DEF Spec, FalseRejectionCause

-----------------------------------------------------------------------------
(* How late a task may be. *)

\* A finite set of numbers that is not empty has a largest one.
LEMMA LargestElement ==
  ASSUME NEW S \in SUBSET Nat, IsFiniteSet(S), S # {}
  PROVE  Max(S) \in S /\ \A x \in S : x <= Max(S)
<1> DEFINE R == StrictSubsetOrdering(S)
           Topped(X) == \E x \in X : \A y \in X : y <= x
           P == {X \in SUBSET S : X # {} /\ ~Topped(X)}
<1>1. IsWellFoundedOn(R, SUBSET S)
  BY FS_StrictSubsetOrderingWellFounded, FS_FiniteSubsetsOfFinite
<1>2. \A X, Y \in SUBSET S : X \subseteq Y /\ X # Y => <<X, Y>> \in R
  BY DEF StrictSubsetOrdering
<1> HIDE DEF R
<1>3. P = {}
  <2> SUFFICES ASSUME P # {} PROVE FALSE
    OBVIOUS
  <2>1. PICK X \in P : \A Y \in P : <<Y, X>> \notin R
    BY <1>1, WFMin
  <2>2. PICK x \in X : x \in Nat
    OBVIOUS
  <2>3. X \ {x} \notin P
    BY <1>2, <2>1, <2>2
  <2>4. CASE X \ {x} = {}
    <3>1. \A y \in X : y <= x
      BY <2>2, <2>4
    <3> QED
      BY <2>1, <2>2, <3>1
  <2>5. CASE X \ {x} # {}
    <3>1. PICK z \in X \ {x} : \A y \in X \ {x} : y <= z
      BY <2>1, <2>3, <2>5
    <3>2. z \in Nat /\ X \subseteq Nat
      BY <2>1
    <3>3. Topped(X)
      <4>1. CASE x <= z
        BY <3>1, <4>1
      <4>2. CASE z <= x
        <5>1. \A y \in X : y <= x
          BY <2>2, <3>1, <3>2, <4>2
        <5> QED
          BY <2>2, <5>1
      <4> QED
        BY <2>2, <3>2, <4>1, <4>2
    <3> QED
      BY <2>1, <3>3
  <2> QED
    BY <2>4, <2>5
<1>4. PICK x \in S : \A y \in S : y <= x
  BY <1>3
<1>5. \A y \in S : x >= y
  BY <1>4
<1> QED
  BY <1>5 DEF Max

\* What Longest says of a set of lengths.
LEMMA LongestBounds ==
  ASSUME NEW S \in SUBSET Nat, IsFiniteSet(S)
  PROVE  Longest(S) \in Nat /\ \A x \in S : x <= Longest(S)
<1>1. IsFiniteSet({0} \cup S)
  <2>1. S \cup {0} = {0} \cup S
    OBVIOUS
  <2> QED
    BY <2>1, FS_AddElement
<1>2. {0} \cup S \in SUBSET Nat /\ {0} \cup S # {}
  OBVIOUS
<1> QED
  BY <1>1, <1>2, LargestElement DEF Longest

\* How long each priority-1 task may run, and which is the other one.
Length(t) == Longest(IF t = "telemetry_task" THEN Frames ELSE Iterations)
Other(t) == IF t = "telemetry_task" THEN "state_manager" ELSE "telemetry_task"
Periodic == {"telemetry_task", "state_manager"}

\* The time that the ticks since a task's delay began account for, at most: all
\* of it but what priority-1 tasks have taken.
Ticked(t) ==
  IF wait[t] = 0 THEN (DELAY[t] + 1) * TICK
  ELSE IF pend THEN (DELAY[t] + 2 - wait[t]) * TICK
  ELSE (DELAY[t] + 1 - wait[t]) * TICK + phase

\* No delay counts a second tick more than it was asked for once the tick that
\* was pending when it began is served.
Counted == /\ \A t \in Tasks : wait[t] <= DELAY[t] + 1 + (IF pend THEN 1 ELSE 0)
           /\ job = Idle => left = 0

\* Since the last pass of the supervisor each task has run at most once.
RunOnce(t) == IF t \in unjudged THEN Length(t) ELSE 0
SupervisorLate ==
  age["safety_supervisor"] + left
    <= Ticked("safety_supervisor") + RunOnce("telemetry_task") + RunOnce("state_manager")

\* What shows that the other task has begun n times since t did: the second
\* time it is due, t is too, and no more ticks are counted before t begins.
Begun(t, n) ==
  LET o == Other(t) IN
  CASE n = 0 -> TRUE
    [] n = 1 -> job = o \/ wait[o] >= wait[t]
    [] n = 2 -> wait[t] = 0 /\ (job = o \/ wait[o] > (IF pend THEN 1 ELSE 0))
TaskLate(t) ==
  IF job = t THEN age[t] + left <= Length(t)
  ELSE \E n \in 0..2 :
         Begun(t, n) /\ age[t] + left <= Ticked(t) + Length(t) + n * Length(Other(t))

LateInv == Counted /\ SupervisorLate /\ \A t \in Periodic : TaskLate(t)

\* The lengths are numbers, no run lasts longer, and a task has one other.
LEMMA Lengths ==
  ASSUME SchedulerAssumption, LengthAssumption
  PROVE  /\ \A t \in Tasks : Length(t) \in Nat
         /\ \A x \in Frames : x <= Length("telemetry_task")
         /\ \A x \in Iterations : x <= Length("state_manager")
         /\ \A t \in Periodic : Other(t) \in Periodic /\ Other(t) # t /\ Other(Other(t)) = t
<1>1. /\ Longest(Frames) \in Nat /\ \A x \in Frames : x <= Longest(Frames)
      /\ Longest(Iterations) \in Nat /\ \A x \in Iterations : x <= Longest(Iterations)
  BY LongestBounds DEF SchedulerAssumption, LengthAssumption
<1> QED
  BY <1>1 DEF Length, Other, Periodic

\* Ticks account for no more than one of them beyond the delay asked for.
LEMMA TickedBound ==
  ASSUME SchedulerAssumption, SchedulerTypeOK, Counted, NEW t \in Tasks
  PROVE  Ticked(t) \in Nat /\ Ticked(t) <= (DELAY[t] + 1) * TICK
<1>1. /\ wait[t] \in Nat /\ DELAY[t] \in Nat /\ TICK \in Nat /\ phase \in Nat
      /\ phase < TICK /\ pend \in BOOLEAN
      /\ wait[t] <= DELAY[t] + 1 + (IF pend THEN 1 ELSE 0)
  BY DelayType DEF SchedulerTypeOK, SchedulerAssumption, Counted
<1> DEFINE w == wait[t]
           n == DELAY[t]
<1> HIDE DEF w, n
<1>2. ASSUME NEW k \in Int, 0 <= k, k <= n + 1 PROVE k * TICK \in Nat /\ k * TICK <= (n + 1) * TICK
  <2>1. (n + 1 - k) * TICK \in Nat /\ k * TICK \in Nat
    BY <1>1, <1>2 DEF n
  <2>2. (n + 1 - k) * TICK = (n + 1) * TICK - k * TICK
    BY <1>1, <1>2 DEF n
  <2>3. (n + 1) * TICK \in Nat
    BY <1>1 DEF n
  <2> QED
    BY <2>1, <2>2, <2>3
<1>3. CASE w = 0
  <2>1. Ticked(t) = (n + 1) * TICK
    BY <1>3 DEF Ticked, w, n
  <2> QED
    BY <1>1, <1>2, <2>1 DEF n
<1>4. CASE w > 0 /\ pend
  <2>1. Ticked(t) = (n + 2 - w) * TICK
    BY <1>1, <1>4 DEF Ticked, w, n
  <2>2. n + 2 - w \in Int /\ 0 <= n + 2 - w /\ n + 2 - w <= n + 1
    BY <1>1, <1>4 DEF w, n
  <2> QED
    BY <1>2, <2>1, <2>2 DEF n
<1>5. CASE w > 0 /\ ~pend
  <2>1. Ticked(t) = (n + 1 - w) * TICK + phase
    BY <1>1, <1>5 DEF Ticked, w, n
  <2>2. n + 1 - w \in Int /\ 0 <= n + 1 - w /\ n + 2 - w <= n + 1 /\ n + 2 - w \in Int
        /\ 0 <= n + 2 - w
    BY <1>1, <1>5 DEF w, n
  <2>3. (n + 1 - w) * TICK \in Nat /\ (n + 2 - w) * TICK <= (n + 1) * TICK
        /\ (n + 2 - w) * TICK \in Nat
    <3>1. n + 1 - w <= n + 1
      BY <1>1, <1>5 DEF w, n
    <3>2. (n + 1 - w) * TICK \in Nat
      BY <1>2, <2>2, <3>1
    <3>3. (n + 2 - w) * TICK \in Nat /\ (n + 2 - w) * TICK <= (n + 1) * TICK
      BY <1>2, <2>2
    <3> QED
      BY <3>2, <3>3
  <2>4. (n + 2 - w) * TICK = (n + 1 - w) * TICK + TICK
    BY <1>1 DEF w, n
  <2>5. (n + 1) * TICK \in Nat
    BY <1>1 DEF n
  <2> QED
    BY <1>1, <2>1, <2>3, <2>4, <2>5 DEF n
<1> QED
  BY <1>1, <1>3, <1>4, <1>5 DEF w

\* The same before and after a step.
LEMMA TickedNat ==
  SchedulerAssumption /\ SchedulerTypeOK /\ Counted => \A t \in Tasks : Ticked(t) \in Nat
BY TickedBound

LEMMA TickedNatNext ==
  SchedulerAssumption' /\ SchedulerTypeOK' /\ Counted' => (\A t \in Tasks : Ticked(t) \in Nat)'
BY TickedNat, PTL

\* A sample period in which nothing runs is accounted for by its tick, and one
\* within a task takes nothing back.
LEMMA ElapseTicked ==
  ASSUME SchedulerAssumption, SchedulerTypeOK, Counted, Elapse, NEW t \in Tasks
  PROVE  /\ Ticked(t)' >= Ticked(t)
         /\ job = Idle => Ticked(t)' >= Ticked(t) + 1
<1>1. /\ phase' \in 0..TICK - 1
      /\ phase' = phase + 1 \/ (phase' = 0 /\ phase = TICK - 1)
  BY PhaseOn DEF Elapse
<1>2. /\ wait' = wait /\ pend' = (pend \/ phase' = 0)
      /\ job = Idle => ~pend /\ wait[t] # 0
  BY DEF Elapse, Due
<1>3. /\ wait[t] \in Nat /\ DELAY[t] \in Nat /\ TICK \in Nat \ {0} /\ phase \in Nat
      /\ phase < TICK /\ pend \in BOOLEAN
  BY DelayType DEF SchedulerTypeOK, SchedulerAssumption
<1> DEFINE a == (DELAY[t] + 1 - wait[t]) * TICK
           b == (DELAY[t] + 2 - wait[t]) * TICK
<1>4. a \in Int /\ b \in Int /\ b = a + TICK
  BY <1>3
<1>5. Ticked(t) = IF wait[t] = 0 THEN (DELAY[t] + 1) * TICK
                  ELSE IF pend THEN b ELSE a + phase
  BY DEF Ticked
<1>6. Ticked(t)' = IF wait[t] = 0 THEN (DELAY[t] + 1) * TICK
                   ELSE IF pend' THEN b ELSE a + phase'
  BY <1>2 DEF Ticked
<1>7. (DELAY[t] + 1) * TICK \in Int
  BY <1>3
<1> HIDE DEF a, b
<1>8. CASE wait[t] = 0
  BY <1>2, <1>5, <1>6, <1>7, <1>8
<1>9. CASE wait[t] # 0 /\ pend
  <2>1. Ticked(t) = b /\ Ticked(t)' = b
    BY <1>2, <1>5, <1>6, <1>9, Zenon
  <2> QED
    BY <1>2, <1>4, <1>9, <2>1
<1>10. CASE wait[t] # 0 /\ ~pend /\ phase' # 0
  <2>1. Ticked(t) = a + phase /\ Ticked(t)' = a + phase'
    BY <1>2, <1>5, <1>6, <1>10, Zenon
  <2>2. phase' = phase + 1
    BY <1>1, <1>10
  <2> QED
    BY <1>3, <1>4, <2>1, <2>2
<1>11. CASE wait[t] # 0 /\ ~pend /\ phase' = 0
  <2>1. Ticked(t) = a + phase /\ Ticked(t)' = b
    BY <1>2, <1>5, <1>6, <1>11, Zenon
  <2> QED
    BY <1>1, <1>3, <1>4, <1>11, <2>1
<1> QED
  BY <1>8, <1>9, <1>10, <1>11

\* Nor does a served tick take anything back.
LEMMA SysTickTicked ==
  ASSUME SchedulerAssumption, SchedulerTypeOK, Counted, SysTick, NEW t \in Tasks
  PROVE  Ticked(t)' >= Ticked(t)
<1>1. wait'[t] = IF wait[t] = 0 THEN 0 ELSE wait[t] - 1
  BY CountWaits DEF SysTick
<1>2. pend /\ ~pend' /\ phase' = phase
  BY DEF SysTick
<1>3. /\ wait[t] \in Nat /\ DELAY[t] \in Nat /\ TICK \in Nat \ {0} /\ phase \in Nat
  BY DelayType DEF SchedulerTypeOK, SchedulerAssumption
<1> DEFINE w == wait[t]
           n == DELAY[t]
<1>4. Ticked(t) = IF w = 0 THEN (n + 1) * TICK ELSE (n + 2 - w) * TICK
  BY <1>2, Zenon DEF Ticked
<1>5. Ticked(t)' = IF w <= 1 THEN (n + 1) * TICK ELSE (n + 1 - (w - 1)) * TICK + phase
  <2>1. CASE w <= 1
    <3>1. wait'[t] = 0
      BY <1>1, <1>3, <2>1
    <3>2. Ticked(t)' = (n + 1) * TICK
      BY <3>1, Zenon DEF Ticked
    <3> QED
      BY <2>1, <3>2
  <2>2. CASE w > 1
    <3>1. wait'[t] = w - 1 /\ w - 1 # 0 /\ w - 1 > 0
      BY <1>1, <1>3, <2>2
    <3>2. Ticked(t)' = (n + 1 - (w - 1)) * TICK + phase
      BY <1>2, <3>1, Zenon DEF Ticked
    <3> QED
      BY <1>3, <2>2, <3>2
  <2> QED
    BY <1>3, <2>1, <2>2
<1>6. w \in Nat /\ n \in Nat
  BY <1>3
<1> HIDE DEF w, n
<1>7. (n + 1) * TICK \in Int /\ (n + 2 - w) * TICK \in Int /\ n + 1 - (w - 1) = n + 2 - w
  BY <1>3, <1>6
<1>8. CASE w = 0
  BY <1>4, <1>5, <1>7, <1>8
<1>9. CASE w = 1
  <2>1. n + 2 - w = n + 1
    BY <1>6, <1>9
  <2> QED
    BY <1>4, <1>5, <1>7, <1>9, <2>1
<1>10. CASE w > 1
  BY <1>3, <1>4, <1>5, <1>6, <1>7, <1>10
<1> QED
  BY <1>6, <1>8, <1>9, <1>10

\* In the initial states state_manager has just come to the end of its period.
LEMMA InitLate ==
  ASSUME SchedulerAssumption, LengthAssumption, Init
  PROVE  LateInv
<1>1. SchedulerTypeOK
  BY InitInv DEF SchedulerInv
<1>2. /\ wait["state_manager"] = 0
      /\ wait["telemetry_task"] = 11 /\ wait["safety_supervisor"] = 3
  BY DelayType DEF Init, Tasks
<1>3. /\ age["state_manager"] = 10 * TICK
      /\ age["telemetry_task"] = 0 /\ age["safety_supervisor"] = 0
  BY DelayType DEF Init, Tasks
<1>4. job = Idle /\ left = 0 /\ unjudged = {} /\ pend = FALSE
  BY DEF Init
<1>5. Counted
  BY <1>2, <1>4, DelayType DEF Counted, Tasks
<1>6. \A t \in Tasks : Ticked(t) \in Nat /\ Length(t) \in Nat
  BY <1>1, <1>5, TickedBound, Lengths
<1>7. SupervisorLate
  BY <1>3, <1>4, <1>6 DEF SupervisorLate, RunOnce, Tasks
<1>8. \A t \in Periodic : age[t] <= Ticked(t)
  <2>1. Ticked("state_manager") = 11 * TICK
    BY <1>2, DelayType DEF Ticked
  <2>2. 10 * TICK <= 11 * TICK
    BY DEF SchedulerAssumption
  <2> QED
    BY <1>3, <1>6, <2>1, <2>2 DEF Periodic, Tasks
<1>9. \A t \in Periodic : TaskLate(t)
  <2> SUFFICES ASSUME NEW t \in Periodic PROVE TaskLate(t)
    OBVIOUS
  <2>1. job # t
    BY <1>4 DEF Idle, Periodic
  <2>2. age[t] \in Nat /\ Ticked(t) \in Nat /\ Length(t) \in Nat /\ Length(Other(t)) \in Nat
    BY <1>1, <1>6, Lengths DEF SchedulerTypeOK, Periodic, Tasks
  <2>3. Begun(t, 0)
    BY DEF Begun
  <2>4. age[t] + left <= Ticked(t) + Length(t) + 0 * Length(Other(t))
    BY <1>4, <1>8, <2>2
  <2>5. 0 \in 0..2
    OBVIOUS
  <2> QED
    BY <2>1, <2>3, <2>4, <2>5 DEF TaskLate
<1> QED
  BY <1>5, <1>7, <1>9 DEF LateInv

\* A sample period is one of a task's run, or one that a tick accounts for.
LEMMA ElapseLate ==
  ASSUME SchedulerAssumption, LengthAssumption, SchedulerInv, LateInv, Elapse
  PROVE  LateInv'
<1>1. SchedulerTypeOK /\ Counted /\ SchedulerTypeOK' /\ SupervisorLate
  BY ElapseInv DEF SchedulerInv, LateInv
<1>2. /\ UNCHANGED <<job, wait, unjudged>> /\ pend' = (pend \/ phase' = 0)
      /\ \A t \in Tasks : age'[t] = age[t] + 1
      /\ IF job = Idle THEN left' = 0 /\ left = 0 ELSE left > 0 /\ left' = left - 1
      /\ job = Idle => \A t \in Tasks : wait[t] # 0
  BY <1>1 DEF Elapse, SchedulerTypeOK, Counted, Due
<1>3. Counted'
  BY <1>1, <1>2, DelayType DEF Counted, SchedulerTypeOK
<1>4. \A t \in Tasks : /\ Ticked(t) \in Nat /\ Ticked(t)' \in Nat
                       /\ age[t] \in Nat /\ age'[t] \in Nat /\ Length(t) \in Nat
  <2>1. \A t \in Tasks : Ticked(t)' \in Nat
    BY <1>1, <1>3, TickedNatNext DEF SchedulerAssumption, Tasks
  <2> QED
    BY <1>1, <2>1, TickedBound, Lengths DEF SchedulerTypeOK
<1>5. left \in Nat /\ left' \in Nat
  BY <1>1 DEF SchedulerTypeOK
<1>6. ASSUME NEW t \in Tasks, NEW n \in Int, age[t] + left <= Ticked(t) + n
      PROVE  age'[t] + left' <= Ticked(t)' + n
  <2>1. /\ Ticked(t)' >= Ticked(t)
        /\ job = Idle => Ticked(t)' >= Ticked(t) + 1
    BY <1>1, ElapseTicked
  <2> QED
    BY <1>2, <1>4, <1>5, <1>6, <2>1
<1>7. SupervisorLate'
  <2> DEFINE n == RunOnce("telemetry_task") + RunOnce("state_manager")
  <2>1. n \in Int /\ RunOnce("telemetry_task") \in Int /\ RunOnce("state_manager") \in Int
    BY <1>4 DEF RunOnce, Tasks
  <2>2. RunOnce("telemetry_task")' = RunOnce("telemetry_task")
        /\ RunOnce("state_manager")' = RunOnce("state_manager")
    BY <1>2 DEF RunOnce
  <2>3. age["safety_supervisor"] + left <= Ticked("safety_supervisor") + n
    BY <1>1, <1>4, <2>1 DEF SupervisorLate, Tasks
  <2>4. age'["safety_supervisor"] + left' <= Ticked("safety_supervisor")' + n
    BY <1>6, <2>1, <2>3 DEF Tasks
  <2> QED
    BY <1>4, <2>1, <2>2, <2>4 DEF SupervisorLate, Tasks
<1>8. ASSUME NEW t \in Periodic PROVE TaskLate(t)'
  <2>1. TaskLate(t) /\ t \in Tasks /\ Other(t) \in Tasks
    BY Lengths DEF LateInv, Periodic, Tasks
  <2>2. CASE job = t
    <3>1. age[t] + left <= Length(t) /\ job # Idle
      BY <2>1, <2>2 DEF TaskLate, Idle, Periodic
    <3>2. age'[t] + left' <= Length(t)
      BY <1>2, <1>4, <1>5, <2>1, <3>1
    <3> QED
      BY <1>2, <2>2, <3>2 DEF TaskLate
  <2>3. CASE job # t
    <3>1. PICK n \in 0..2 :
            Begun(t, n) /\ age[t] + left <= Ticked(t) + Length(t) + n * Length(Other(t))
      BY <2>1, <2>3 DEF TaskLate
    <3> DEFINE m == Length(t) + n * Length(Other(t))
    <3>2. m \in Int /\ n * Length(Other(t)) \in Int
      BY <1>4, <2>1
    <3>3. age[t] + left <= Ticked(t) + m
      BY <1>4, <2>1, <3>1, <3>2
    <3>4. age'[t] + left' <= Ticked(t)' + m
      BY <1>6, <2>1, <3>2, <3>3
    <3>5. age'[t] + left' <= Ticked(t)' + Length(t) + n * Length(Other(t))
      BY <1>4, <2>1, <3>2, <3>4
    <3>6. Begun(t, n)'
      <4>1. CASE n = 2 /\ job = Idle
        BY <1>2, <2>1, <3>1, <4>1 DEF Begun
      <4>2. CASE n = 2 /\ job # Idle
        <5>1. job = Other(t)
          BY <1>1, <2>1, <2>3, <4>2
             DEF SchedulerInv, Undisturbed, SchedulerTypeOK, Tasks, Periodic, Other, Idle
        <5>2. wait[t] = 0
          BY <3>1, <4>2 DEF Begun
        <5> QED
          BY <1>2, <4>2, <5>1, <5>2 DEF Begun
      <4>3. CASE n = 1
        BY <1>2, <3>1, <4>3 DEF Begun
      <4>4. CASE n = 0
        BY <4>4 DEF Begun
      <4> QED
        BY <4>1, <4>2, <4>3, <4>4
    <3> QED
      BY <1>2, <2>3, <3>5, <3>6 DEF TaskLate
  <2> QED
    BY <2>2, <2>3
<1> QED
  BY <1>3, <1>7, <1>8 DEF LateInv

\* A served tick: two delays that both count it keep their order.
LEMMA SysTickLate ==
  ASSUME SchedulerAssumption, LengthAssumption, SchedulerInv, LateInv, SysTick
  PROVE  LateInv'
<1>1. SchedulerTypeOK /\ Counted /\ SchedulerTypeOK' /\ SupervisorLate
  BY SysTickInv DEF SchedulerInv, LateInv
<1>2. /\ job = Idle /\ pend = TRUE /\ pend' = FALSE
      /\ UNCHANGED <<job, left, age, unjudged>>
  BY <1>1 DEF SysTick, adc, ghosts, SchedulerTypeOK
<1>3. /\ wait' \in [Tasks -> Nat]
      /\ \A t \in Tasks : wait'[t] = IF wait[t] = 0 THEN 0 ELSE wait[t] - 1
  BY <1>1, CountWaits DEF SysTick
<1>4. Counted'
  BY <1>1, <1>2, <1>3, DelayType DEF Counted, SchedulerTypeOK
<1>5. \A t \in Tasks : /\ Ticked(t) \in Nat /\ Ticked(t)' \in Nat
                       /\ Ticked(t)' >= Ticked(t)
                       /\ age[t] \in Nat /\ Length(t) \in Nat
  <2>1. \A t \in Tasks : Ticked(t)' \in Nat
    BY <1>1, <1>4, TickedNatNext DEF SchedulerAssumption, Tasks
  <2> QED
    BY <1>1, <2>1, TickedBound, SysTickTicked, Lengths DEF SchedulerTypeOK
<1>6. left \in Nat /\ left' = left
  BY <1>1, <1>2 DEF SchedulerTypeOK
<1>7. SupervisorLate'
  <2>1. RunOnce("telemetry_task") \in Int /\ RunOnce("state_manager") \in Int
    BY <1>5 DEF RunOnce, Tasks
  <2>2. RunOnce("telemetry_task")' = RunOnce("telemetry_task")
        /\ RunOnce("state_manager")' = RunOnce("state_manager")
    BY <1>2 DEF RunOnce
  <2> QED
    BY <1>1, <1>2, <1>5, <1>6, <2>1, <2>2 DEF SupervisorLate, Tasks
<1>8. ASSUME NEW t \in Periodic PROVE TaskLate(t)'
  <2>1. TaskLate(t) /\ t \in Tasks /\ Other(t) \in Tasks
    BY Lengths DEF LateInv, Periodic, Tasks
  <2>2. job # t /\ job # Other(t)
    BY <1>2 DEF Idle, Periodic, Other
  <2>3. PICK n \in 0..2 :
          Begun(t, n) /\ age[t] + left <= Ticked(t) + Length(t) + n * Length(Other(t))
    BY <2>1, <2>2 DEF TaskLate
  <2>4. n * Length(Other(t)) \in Int
    BY <1>5, <2>1
  <2>5. age'[t] + left' <= Ticked(t)' + Length(t) + n * Length(Other(t))
    BY <1>2, <1>5, <1>6, <2>1, <2>3, <2>4
  <2>6. wait[t] \in Nat /\ wait[Other(t)] \in Nat
    BY <1>1, <2>1 DEF SchedulerTypeOK
  <2>7. Begun(t, n)'
    <3>1. CASE n = 0
      BY <3>1 DEF Begun
    <3>2. CASE n = 1
      <4>1. wait[Other(t)] >= wait[t]
        BY <2>2, <2>3, <3>2 DEF Begun
      <4>2. wait'[Other(t)] >= wait'[t]
        BY <1>3, <2>1, <2>6, <4>1
      <4> QED
        BY <3>2, <4>2 DEF Begun
    <3>3. CASE n = 2
      <4>1. wait[t] = 0 /\ wait[Other(t)] > 1
        BY <1>2, <2>2, <2>3, <3>3 DEF Begun
      <4>2. wait'[t] = 0 /\ wait'[Other(t)] > 0
        BY <1>3, <2>1, <2>6, <4>1
      <4> QED
        BY <1>2, <3>3, <4>2 DEF Begun
    <3> QED
      BY <3>1, <3>2, <3>3
  <2> QED
    BY <1>2, <2>2, <2>5, <2>7 DEF TaskLate
<1> QED
  BY <1>4, <1>7, <1>8 DEF LateInv

\* A task begins for the first time since the supervisor passed, and for the
\* first or second time since the other task began.
LEMMA BeginLate ==
  ASSUME SchedulerAssumption, LengthAssumption, SchedulerInv, LateInv,
         NEW s \in Periodic, NEW D \in SUBSET Nat, Begin(s, D),
         s \notin unjudged, \A x \in D : x <= Length(s)
  PROVE  LateInv'
<1> DEFINE o == Other(s)
<1>1. SchedulerTypeOK /\ Counted /\ SupervisorLate
  BY DEF SchedulerInv, LateInv
<1>2. s \in Tasks /\ o \in Tasks /\ o \in Periodic /\ o # s /\ Other(o) = s
  BY Lengths DEF Periodic, Tasks
<1>3. /\ job = Idle /\ left = 0 /\ wait[s] = 0 /\ job' = s /\ left' \in Nat
      /\ left' <= Length(s) /\ unjudged' = unjudged \cup {s}
      /\ UNCHANGED <<wait, phase, pend>>
      /\ age'[s] = 0 /\ \A t \in Tasks \ {s} : age'[t] = age[t]
  BY <1>1, <1>2 DEF Begin, Due, timer, SchedulerTypeOK, Counted
<1>4. \A t \in Tasks : /\ Ticked(t) \in Nat /\ Ticked(t)' = Ticked(t)
                       /\ age[t] \in Nat /\ Length(t) \in Nat
  <2>1. \A t \in Tasks : Ticked(t)' = Ticked(t)
    BY <1>3 DEF Ticked
  <2> QED
    BY <1>1, <2>1, TickedBound, Lengths DEF SchedulerTypeOK
<1>5. Counted'
  BY <1>1, <1>2, <1>3 DEF Counted, Idle, Periodic
<1>6. SupervisorLate'
  <2>1. /\ RunOnce(o) \in Int /\ RunOnce(o)' = RunOnce(o)
        /\ RunOnce(s) = 0 /\ RunOnce(s)' = Length(s)
    BY <1>2, <1>3, <1>4 DEF RunOnce
  <2>2. age'["safety_supervisor"] = age["safety_supervisor"]
    BY <1>3 DEF Periodic, Tasks
  <2>3. CASE s = "telemetry_task"
    <3>1. o = "state_manager"
      BY <2>3 DEF Other
    <3> QED
      BY <1>1, <1>3, <1>4, <2>1, <2>2, <2>3, <3>1 DEF SupervisorLate, Tasks
  <2>4. CASE s = "state_manager"
    <3>1. o = "telemetry_task"
      BY <2>4 DEF Other
    <3> QED
      BY <1>1, <1>3, <1>4, <2>1, <2>2, <2>4, <3>1 DEF SupervisorLate, Tasks
  <2> QED
    BY <2>3, <2>4 DEF Periodic
<1> HIDE DEF o
<1>7. TaskLate(s)'
  BY <1>3, <1>4, <1>2 DEF TaskLate
<1>8. TaskLate(o)'
  <2>1. job # o /\ job' # o /\ job # s
    BY <1>2, <1>3 DEF Idle, Periodic
  <2>2. PICK n \in 0..2 :
          Begun(o, n) /\ age[o] + left <= Ticked(o) + Length(o) + n * Length(s)
    BY <1>2, <2>1 DEF LateInv, TaskLate
  <2>3. wait[o] \in Nat
    BY <1>1, <1>2 DEF SchedulerTypeOK
  <2>4. n # 2
    <3> SUFFICES ASSUME n = 2 PROVE FALSE
      OBVIOUS
    <3>1. Begun(o, 2)
      BY <2>2
    <3>2. wait[s] > IF pend THEN 1 ELSE 0
      BY <1>2, <2>1, <3>1 DEF Begun
    <3> QED
      BY <1>3, <3>2
  <2>5. n + 1 \in 0..2 /\ Begun(o, n + 1)'
    <3>1. CASE n = 0
      BY <1>2, <1>3, <3>1 DEF Begun
    <3>2. CASE n = 1
      <4>1. wait'[o] = 0
        BY <1>2, <1>3, <2>1, <2>2, <2>3, <3>2 DEF Begun
      <4> QED
        BY <1>2, <1>3, <3>2, <4>1 DEF Begun
    <3> QED
      BY <2>4, <3>1, <3>2
  <2>6. age'[o] + left' <= Ticked(o)' + Length(o) + (n + 1) * Length(s)
    <3> DEFINE m == n * Length(s)
    <3>1. m \in Int /\ (n + 1) * Length(s) = m + Length(s)
      BY <1>2, <1>4
    <3>2. age[o] + left <= Ticked(o) + Length(o) + m
      BY <2>2
    <3> HIDE DEF m
    <3>3. age'[o] = age[o] /\ Ticked(o)' = Ticked(o)
      BY <1>2, <1>3, <1>4
    <3>4. age[o] \in Nat /\ Ticked(o) \in Nat /\ Length(o) \in Nat /\ Length(s) \in Nat
      BY <1>2, <1>4
    <3> QED
      BY <1>3, <3>1, <3>2, <3>3, <3>4
  <2> QED
    BY <1>2, <2>1, <2>5, <2>6 DEF TaskLate
<1> QED
  BY <1>2, <1>5, <1>6, <1>7, <1>8 DEF LateInv, Periodic, o, Other

\* A task that ends has taken no longer than it may, and its delay is the
\* longest of all.
LEMMA FinishLate ==
  ASSUME SchedulerAssumption, LengthAssumption, SchedulerInv, LateInv, Finish
  PROVE  LateInv'
<1>1. SchedulerTypeOK /\ Counted /\ SupervisorLate /\ SchedulerTypeOK'
  BY FinishInv DEF SchedulerInv, LateInv
<1>0. PICK s \in Periodic : s = job
  BY <1>1 DEF SchedulerInv, Finish, Undisturbed, SchedulerTypeOK, Periodic, Tasks
<1> DEFINE o == Other(s)
<1>2. /\ s = job /\ s \in Tasks /\ s # Idle /\ job' = Idle /\ left = 0
      /\ UNCHANGED <<left, phase, pend, age, unjudged>>
  BY <1>0, <1>1
     DEF SchedulerInv, Finish, Undisturbed, SchedulerTypeOK, timer, ghosts, Periodic, Tasks
<1>3. o \in Tasks /\ o \in Periodic /\ o # s /\ Other(o) = s
  BY <1>2, Lengths DEF Periodic, Tasks
<1>4. /\ wait'[s] = DELAY[s] + IF pend THEN 2 ELSE 1
      /\ \A t \in Tasks \ {s} : wait'[t] = wait[t]
  BY <1>1, <1>2, DelayedWaits DEF Finish
<1>5. Counted'
  BY <1>1, <1>2, <1>4, DelayType DEF Counted, SchedulerTypeOK
<1>6. /\ \A t \in Tasks : Ticked(t) \in Nat /\ Ticked(t)' \in Nat /\ Length(t) \in Nat
                          /\ age[t] \in Nat
      /\ \A t \in Tasks \ {s} : Ticked(t)' = Ticked(t)
  <2>1. \A t \in Tasks : Ticked(t)' \in Nat
    BY <1>1, <1>5, TickedNatNext DEF SchedulerAssumption, Tasks
  <2>2. \A t \in Tasks \ {s} : Ticked(t)' = Ticked(t)
    BY <1>2, <1>4 DEF Ticked
  <2> QED
    BY <1>1, <2>1, <2>2, TickedBound, Lengths DEF SchedulerTypeOK
<1> HIDE DEF o
<1>7. SupervisorLate'
  <2>1. Ticked("safety_supervisor")' = Ticked("safety_supervisor")
    BY <1>2, <1>6 DEF Periodic, Tasks
  <2> QED
    BY <1>1, <1>2, <2>1 DEF SupervisorLate, RunOnce
<1>8. TaskLate(s)'
  <2>1. age[s] <= Length(s)
    BY <1>2, <1>3, <1>6 DEF LateInv, TaskLate
  <2>2. Length(o) \in Nat /\ Other(s) = o /\ 0 \in 0..2
    BY <1>3, <1>6 DEF o
  <2>3. age'[s] + left' <= Ticked(s)' + Length(s) + 0 * Length(Other(s))
    BY <1>2, <1>6, <2>1, <2>2
  <2>4. Begun(s, 0)'
    BY DEF Begun
  <2> QED
    BY <1>2, <2>2, <2>3, <2>4 DEF TaskLate
<1>9. TaskLate(o)'
  <2>1. job # o /\ job' # o /\ job = s
    BY <1>2, <1>3 DEF Idle, Periodic
  <2>2. PICK n \in 0..2 :
          Begun(o, n) /\ age[o] + left <= Ticked(o) + Length(o) + n * Length(s)
    BY <1>3, <2>1 DEF LateInv, TaskLate
  <2>3. wait'[o] = wait[o] /\ wait[o] \in Nat /\ DELAY[s] = 10 /\ DELAY[o] = 10
        /\ wait[o] <= 11 + IF pend THEN 1 ELSE 0
    BY <1>1, <1>2, <1>3, <1>4, DelayType DEF SchedulerTypeOK, Counted, Periodic
  <2>4. Begun(o, n)'
    <3>1. CASE n = 0
      BY <3>1 DEF Begun
    <3>2. CASE n = 1
      <4>1. wait'[s] >= wait'[o]
        BY <1>4, <2>3
      <4> QED
        BY <1>3, <3>2, <4>1 DEF Begun
    <3>3. CASE n = 2
      <4>1. wait'[o] = 0
        BY <2>2, <2>3, <3>3 DEF Begun
      <4>2. wait'[s] > IF pend' THEN 1 ELSE 0
        BY <1>2, <1>4, <2>3
      <4> QED
        BY <1>3, <3>3, <4>1, <4>2 DEF Begun
    <3> QED
      BY <3>1, <3>2, <3>3
  <2>5. Ticked(o)' = Ticked(o)
    BY <1>3, <1>6
  <2> QED
    BY <1>2, <1>3, <2>1, <2>2, <2>4, <2>5 DEF TaskLate
<1> QED
  BY <1>2, <1>5, <1>7, <1>8, <1>9 DEF LateInv, Periodic, o, Other

\* A pass of the supervisor starts its time anew.
LEMMA SupervisorPassLate ==
  ASSUME SchedulerAssumption, LengthAssumption, SchedulerInv, LateInv, SafetySupervisor
  PROVE  LateInv'
<1> DEFINE s == "safety_supervisor"
<1>1. SchedulerTypeOK /\ Counted /\ SchedulerTypeOK'
  BY SupervisorInv DEF SchedulerInv, LateInv
<1>2. /\ job = Idle /\ left = 0 /\ pend = FALSE /\ s \in Tasks
      /\ UNCHANGED <<job, left, phase, pend>> /\ unjudged' = {}
  BY <1>1 DEF SchedulerInv, SafetySupervisor, SupervisorRuns, Due, Undisturbed, SchedulerTypeOK,
              Counted, timer, Tasks
<1>3. /\ wait'[s] = 3
      /\ \A t \in Tasks \ {s} : wait'[t] = wait[t]
  BY <1>1, <1>2, DelayedWaits, DelayType DEF SafetySupervisor, Tasks
<1>4. age'[s] = 0 /\ \A t \in Tasks \ {s} : age'[t] = age[t]
  BY <1>1, <1>2 DEF SafetySupervisor, SchedulerTypeOK
<1>5. Counted'
  BY <1>1, <1>2, <1>3, DelayType DEF Counted, SchedulerTypeOK
<1>6. /\ \A t \in Tasks : Ticked(t)' \in Nat
      /\ \A t \in Tasks \ {s} : Ticked(t)' = Ticked(t)
  <2>1. \A t \in Tasks : Ticked(t)' \in Nat
    BY <1>1, <1>5, TickedNatNext DEF SchedulerAssumption, Tasks
  <2>2. \A t \in Tasks \ {s} : Ticked(t)' = Ticked(t)
    BY <1>2, <1>3 DEF Ticked
  <2> QED
    BY <2>1, <2>2
<1>7. SupervisorLate'
  BY <1>2, <1>4, <1>6 DEF SupervisorLate, RunOnce
<1>8. ASSUME NEW t \in Periodic PROVE TaskLate(t)'
  <2>1. /\ TaskLate(t) /\ t \in Tasks \ {s} /\ Other(t) \in Tasks \ {s}
    BY Lengths DEF LateInv, Periodic, Tasks
  <2>2. job # t
    BY <1>2 DEF Idle, Periodic
  <2>3. PICK n \in 0..2 :
          Begun(t, n) /\ age[t] + left <= Ticked(t) + Length(t) + n * Length(Other(t))
    BY <2>1, <2>2 DEF TaskLate
  <2>4. Begun(t, n)'
    BY <1>2, <1>3, <2>1, <2>3 DEF Begun
  <2>5. age'[t] = age[t] /\ Ticked(t)' = Ticked(t)
    BY <1>4, <1>6, <2>1
  <2> QED
    BY <1>2, <2>2, <2>3, <2>4, <2>5 DEF TaskLate
<1> QED
  BY <1>5, <1>7, <1>8 DEF LateInv

\* Every step keeps the bounds.
LEMMA LateStep ==
  ASSUME SchedulerAssumption, LengthAssumption, SchedulerInv, LateInv, [Next]_vars
  PROVE  LateInv'
<1>1. CASE Elapse
  BY <1>1, ElapseLate
<1>2. CASE SysTick
  BY <1>2, SysTickLate
<1>3. CASE StateManager
  <2>1. "state_manager" \notin unjudged
    BY <1>3, BeginInv DEF StateManager, Tasks, SchedulerAssumption
  <2>2. \A x \in Iterations : x <= Length("state_manager")
    BY Lengths
  <2>3. Begin("state_manager", Iterations) /\ Iterations \in SUBSET Nat
    BY <1>3 DEF StateManager, SchedulerAssumption
  <2> QED
    BY <2>1, <2>2, <2>3, BeginLate DEF Periodic
<1>4. CASE TelemetryTask
  <2>1. "telemetry_task" \notin unjudged
    BY <1>4, BeginInv DEF TelemetryTask, Tasks, SchedulerAssumption
  <2>2. \A x \in Frames : x <= Length("telemetry_task")
    BY Lengths
  <2>3. Begin("telemetry_task", Frames) /\ Frames \in SUBSET Nat
    BY <1>4 DEF TelemetryTask, SchedulerAssumption
  <2> QED
    BY <2>1, <2>2, <2>3, BeginLate DEF Periodic
<1>5. CASE Finish
  BY <1>5, FinishLate
<1>6. CASE SafetySupervisor
  BY <1>6, SupervisorPassLate
<1>7. CASE UNCHANGED vars
  BY <1>7 DEF vars, cpu, timer, adc, ghosts, LateInv, Counted, SupervisorLate, RunOnce,
              TaskLate, Ticked, Begun
<1> QED
  BY <1>1, <1>2, <1>3, <1>4, <1>5, <1>6, <1>7 DEF Next

\* No task waits longer than its delay and a tick, and for what may run before
\* it: for the supervisor one frame and one iteration, for the others what they
\* ran themselves and the other task twice.
THEOREM TasksPunctual == Spec => []Punctual
<1>1. SchedulerInv /\ LateInv => Punctual
  <2> SUFFICES ASSUME SchedulerInv, LateInv PROVE Punctual
    OBVIOUS
  <2> USE SchedulerAssumption, LengthAssumption
  <2>1. SchedulerTypeOK /\ Counted /\ SupervisorLate /\ \A t \in Periodic : TaskLate(t)
    BY DEF SchedulerInv, LateInv
  <2>2. \A t \in Tasks :
          /\ Ticked(t) \in Nat /\ (DELAY[t] + 1) * TICK \in Nat
          /\ Ticked(t) <= (DELAY[t] + 1) * TICK
          /\ age[t] \in Nat
    <3> SUFFICES ASSUME NEW t \in Tasks
                 PROVE  /\ Ticked(t) \in Nat /\ (DELAY[t] + 1) * TICK \in Nat
                        /\ Ticked(t) <= (DELAY[t] + 1) * TICK
                        /\ age[t] \in Nat
      OBVIOUS
    <3>1. DELAY[t] \in Nat /\ TICK \in Nat
      BY DelayType DEF SchedulerAssumption
    <3> QED
      BY <2>1, <3>1, TickedBound DEF SchedulerTypeOK
  <2> DEFINE f == Longest(Frames)
             i == Longest(Iterations)
  <2>3. /\ Length("telemetry_task") = f /\ Length("state_manager") = i
        /\ f \in Nat /\ i \in Nat
    BY Lengths DEF Length, Tasks
  <2> HIDE DEF f, i
  <2>4. left \in Nat
    BY <2>1 DEF SchedulerTypeOK
  <2>5. age["safety_supervisor"] <= (DELAY["safety_supervisor"] + 1) * TICK + 1 * f + 1 * i
    <3>1. /\ RunOnce("telemetry_task") \in Nat /\ RunOnce("telemetry_task") <= f
          /\ RunOnce("state_manager") \in Nat /\ RunOnce("state_manager") <= i
      BY <2>3 DEF RunOnce
    <3> QED
      BY <2>1, <2>2, <2>3, <2>4, <3>1 DEF SupervisorLate, Tasks
  <2>6. ASSUME NEW t \in Periodic
        PROVE  age[t] <= (DELAY[t] + 1) * TICK + Length(t) + 2 * Length(Other(t))
    <3>1. t \in Tasks /\ Other(t) \in Tasks
      BY Lengths DEF Periodic, Tasks
    <3>2. Length(t) \in Nat /\ Length(Other(t)) \in Nat
      BY <3>1, Lengths
    <3>3. CASE job = t
      <4>1. age[t] + left <= Length(t)
        BY <2>1, <3>3 DEF TaskLate
      <4> QED
        BY <2>2, <2>4, <3>1, <3>2, <4>1
    <3>4. CASE job # t
      <4>1. PICK n \in 0..2 : age[t] + left <= Ticked(t) + Length(t) + n * Length(Other(t))
        BY <2>1, <3>4 DEF TaskLate
      <4>2. n * Length(Other(t)) \in Nat /\ n * Length(Other(t)) <= 2 * Length(Other(t))
        BY <3>2
      <4> QED
        BY <2>2, <2>4, <3>1, <3>2, <4>1, <4>2
    <3> QED
      BY <3>3, <3>4
  <2>7. age["telemetry_task"] <= (DELAY["telemetry_task"] + 1) * TICK + 1 * f + 2 * i
    BY <2>3, <2>6 DEF Periodic, Other
  <2>8. age["state_manager"] <= (DELAY["state_manager"] + 1) * TICK + 2 * f + 1 * i
    <3>1. age["state_manager"] <= (DELAY["state_manager"] + 1) * TICK + i + 2 * f
      BY <2>3, <2>6 DEF Periodic, Other
    <3> QED
      BY <2>2, <2>3, <3>1 DEF Tasks
  <2> QED
    BY <2>5, <2>7, <2>8 DEF Punctual, Within, f, i
<1>2. Init => LateInv
  BY SchedulerAssumption, LengthAssumption, InitLate
<1>3. SchedulerInv /\ LateInv /\ [Next]_vars => LateInv'
  BY SchedulerAssumption, LengthAssumption, LateStep
<1> QED
  BY <1>1, <1>2, <1>3, SchedulerInvariant, PTL DEF Spec
=============================================================================
