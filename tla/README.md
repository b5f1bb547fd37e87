# A TLA+ model of the Governor firmware

These modules model the firmware of guvnuh-rs: the STM32 that governs a
motor-generator set (`src/firmware/stm32`) and the ESP32 that bridges it to the
network (`src/firmware/esp32`). Four models look at it from four sides: the
control core that decides whether the machine has power, the link by which
commands reach it, the scheduling of its tasks, and the regulation of its speed.
TLC checks them on small instances, and the TLA+ proof system proves their main
safety properties for every value of the constants.

## 1. The system

| Part | State it keeps | Operations | Modelled by |
|---|---|---|---|
| `state_manager` (main.rs 454-1365), 100 Hz, priority 1 | `STATE`, run config, ramp, elapsed time, calibrator, boot attempts | pop a command, the commands of every state, 15 state arms, the deadline check | `Governor` |
| `safety_supervisor` (main.rs 299-444), 500 Hz, priority 2 | last total power/current | E-stop pin, rpm limits, load rejection, DC-bus limits | `Governor` |
| `telemetry_task` (main.rs 1371-1494), priority 1 | the transmitter | publish the rpm, take the calibration report, send a frame in a busy wait | `Governor` (what it shares), `Scheduler` (when), `Link` (the frame) |
| `uart4_rx` (main.rs 1499-1534), priority 3 | the frame buffer | decode a command, push it on `cmd_in` | `Link` (bytes and frames), `Governor` (the queue) |
| `MotorController` (guv/motor.rs) | demand, inverted PWM duty, clamp, enabled | `set_demand`, `enable`, `disable`, `emergency_off`, `set_max_demand` | `Motor` |
| `LoadBank` (guv/load_bank.rs) | two relays and a level | `step_up`, `step_down`, `set_level`, `emergency_shed` | `LoadBank` |
| `Ramp` (guv/ramp.rs) | ends, duration, elapsed | `new`, `tick` | `Ramp` |
| `Calibrator` (guv/calibrate.rs) | point, phase, timer, points | `step`, `fit`, `feedforward` | `Calibrator`, `Fit` |
| `WcetTable` (guv/wcet.rs) | an overrun streak per state | `record_and_check` | `Wcet` |
| `STATE`, `Fault`, `RunMode`, `Command` (shared/) | - | `is_running` | `States`, `Governor` |
| `PidController` (guv/pid.rs) | gains, integral, last measurement | `update`, `set_gains`, `reset` | `Pid`, `Regulator` |
| setpoint profiles (shared telemetry.rs 255-410) | - | `eval_profile`, `profile_finished` | `Profile`, `Regulator` |
| RTIC, SysTick, `Mono` | ready tasks, delays, a pending tick | `Mono::delay`, preemption by priority | `Scheduler` |
| the bridge's `tcp_task` (esp32 main.rs 164-279) | the connection, a frame buffer | accept, forward both ways, answer a Hello | `Link` |
| `adc.rs`, `turbine.rs`, `0_boot.rs`, Wi-Fi tasks | - | acquisition, bring-up | see section 8 |
| server, terminal | records | store trials | see section 8 |

**How they interact.** All four tasks share RTIC resources; each access is a
lock. `uart4_rx` hands commands to `state_manager` through `cmd_in`, a queue of
8 that drops what does not fit. `telemetry_task` publishes `current_rpm`, which
the supervisor's limits and the PID loop read, and takes a calibration report
from a one-place mailbox. The supervisor and `state_manager` both write `state`,
`last_fault`, the motor, the relay and the load bank. `state_manager` reads the
state once, at the start of an iteration, and acts on that copy to its end.
Commands come from one TCP client at a time: the bridge passes pieces of its
stream on to the UART, frames from the STM32 on to the client, and answers a
Hello of the STM32 itself. A frame is closed by a zero byte and has no checksum
and no number; nothing is acknowledged or sent again, except the Hellos of BOOT.

**What is hard.** Two writers of the state, one of which acts on a copy.
Power that is cut in one place and restored in another. Trips on top of trips,
and clears while the cause persists. About twenty ways into and out of a run,
each of which has to leave relay, motor, ramp, calibrator and config right.
Commands that are honoured in every state. A handshake that shares the command
queue. Commands cut off by a client that leaves, an ack written into the middle of
one, a restart of either board. A supervisor whose clock stands still while a
frame goes out. A controller whose gains and setpoint change under it.
Unsigned arithmetic on times. Section "hazards" of PROJECT.json lists
these at their lines, with the properties that answer them.

**What makes each part correct.**
- The control core: the relay is closed exactly in the states `is_running`
  names; the motor is driven only there; a trip latches until the operator
  clears it; a hazard that is still seen keeps the power off; a fault has a
  cause; every arm finds what it unwraps; a Stop, an EmergencyStop and a boot
  without a gateway all come to their end.
- The motor: demand within the clamp, PWM duty and reported demand in step.
- The load bank: step 2 never without step 1, the reported level true, no load
  when a fault is cleared.
- The ramp: a stop never speeds the machine up, and it ends.
- The streaks: what trips is a streak of *consecutive* overruns.
- The link: commands arrive in order, none twice; a disturbance costs the
  commands it strikes and no others; a client that has gone is replaced.
- The schedule: an iteration is not disturbed, every speed is judged before it is
  replaced, no period is shorter than the one the arithmetic assumes.
- Regulation: nothing winds up, the setpoint follows the profile, the fit is the
  best line.

## 2. The modules

```
States  Motor  LoadBank  Ramp  Calibrator  Wcet      the components' data and operations
      \____________|______________/
                Governor ----INSTANCE----> Interlock  (abstract specification)
                /      \
        MCGovernor    ComponentProofs -> GovernorProofs -> SafetyProofs
        /       \
 Documented   DeadlineHistory

MCLink -> Link ----INSTANCE----> Channel  (abstract specification)
            \
          LinkProofs

Scheduler <- SchedulerProofs

Profile  Pid  Fit  <- FitProofs
     \____|____/            \
      Regulator <---- RegulatorProofs
          |
     MCRegulator

Drain (in Governor and in Link) <- LoopProofs (in ComponentProofs, LinkProofs, FitProofs)
```

`Motor`, `LoadBank`, `Ramp`, `Calibrator` and `Wcet` are modules of operators,
one per method, on a record that stands for the struct. `Governor` holds the
variables and the tasks and applies them. `Drain` is the loop with which BOOT takes
the acks out of the command queue; `Governor` and `Link` both have that arm. `Interlock` is the abstract
specification: a machine that is stopped, running or tripped, with power
exactly while it runs. `Documented` and `DeadlineHistory` hold what documents
and comments say where the code does otherwise.

The four models meet at what one takes as given and another shows. `Governor`
takes the schedule from two guards, which `Scheduler` derives. It lets any
command arrive at any time, which is more than `Link` lets arrive: `Link` shows
what a command goes through before that. It lets the regulating arms ask for any
demand; `Regulator` computes it.

### State and steps of `Governor`

An iteration of `state_manager` is three steps, told apart by `pc`:

| step | code |
|---|---|
| `Fetch` at `"await"` | `Mono::delay` returns; the state is read into `cur`, a command is popped into `cmd` (main.rs 454-461) |
| one action at `"handle"` | `OnEmergencyStop` and `OnHello` end the iteration; `StopRun` is the `Stop` that ends it in CALIBRATE, SPOOLUP, EXCITE, PLL_LOCK, READY, GENERATE and LOAD_REJECTION; all others are the arms of `match current_state`, with the load command of lines 494-534 folded in (`LoadCommanded`), as it always precedes the arm |
| `DeadlineCheck` at `"check"` | lines 1325-1364 |

The arms that have two or three ways through are as many actions: `Start` and
`Configured`; `SpoolRamp` and `SpoolHold`. A supervisor pass is one action of
four (`EstopTick`, `RpmTripTick`, `BusTripTick`, `QuietTick`), because nothing
but the UART interrupt has a higher priority and that one touches only the
queue.

### Scheduling in `Governor`

`init` sets SysTick's priority to 255, the lowest there is (main.rs 228). The
tick that would wake the supervisor is therefore not taken while a priority-1
task runs, and the supervisor runs only when `state_manager` waits. The
comments (main.rs 296-301) and README_old.md 182-188 describe a supervisor that
preempts the control loop. The constant `SupervisorPreempts` covers both: FALSE
is this build, TRUE is what the comments describe. The runs and theorems that
need FALSE say so. Two further facts are modelled:
- between two iterations the supervisor passes at least once (`sup_ran`, a guard
  of `Fetch`);
- the first BOOT iteration comes before the first supervisor pass (`Init`).

`Scheduler` justifies all three from priorities and ticks: `IterationUndisturbed`
and `JudgedInTime`, proved for any tick and any length of frames and
iterations, and its `Init`.

### Abstractions of `Governor`

- **Demand** is `0 .. FullDemand` for the interval 0.0 to 1.0. The output of
  the PID and of the feedforward is any demand; NaN is left out.
- **Speed** is what the encoder reports, any element of `Rpms` at each
  telemetry pass. Encoder readings are finite, so the non-finite test is moot.
- **DC bus** is a window out of `BusReadings`. The firmware as shipped has
  `ADC_HARDWARE_ENABLED = false`: its window is always empty (`NoAdc`). Runs
  `manual` and `generate` take the windows a build with the ADC would return,
  so that the supervisor's third limit is exercised as well.
- **Commands**: one `op` per variant the firmware tells apart; `Ping` stands
  for the ones no state acts on, `LiveTarget` for those that only feed the PID.
- **Over-budget iterations** are a choice, limited to `SlowStates`.
- `LOAD_REJECTION` is an arm that no line enters; it is modelled and TLC never
  reaches it.

### `Link`

Towards the STM32 the link is modelled byte by byte, because what happens there
happens between bytes: a frame is its number and its bytes the cells
`<<number, 1>>`, ..., closed by the zero byte `<<number, 0>>`. A receiver sees
which cells are zero and nothing else of where they come from. Towards the
bridge a frame is lost or mangled as a whole.

| action | code |
|---|---|
| `UartRx` | one byte of `uart4_rx`: `Store`, or `EndFrame` with `Decode` and `Accept` |
| `Iterate`, `TelemetryTask` | what `state_manager` and `telemetry_task` send, and BOOT's handshake |
| `Connect`, `Disconnect` | `accept` and `break 'conn` of `tcp_task` |
| `AnswerHello`, `ForwardFrame` | its UART half (esp32 main.rs 211-256) |
| `TcpToUart`, `EndOfStream` | its socket half (esp32 main.rs 258-272) |
| `ClientSend`, `ClientLeave`, `ConnectionLost` | the client and the network, external |
| `StmRestart`, `EspRestart` | `init` of the one, `main` of the other, the Hello of esp32 main.rs 84-93 included |

`Decode` is what `postcard::from_bytes_cobs` may make of a buffer: of a body,
its frame; of a body with something behind it, its frame or an error; of
anything else an error or, there being no checksum, some value that happens to
deserialize (`Junk`). The variables `fate`, `credit` and `cut` record what
became of each command and how many pieces may still read as `Junk`; nothing
reads them but the properties and, to account for junk, `Strike` and `Accept`.

### `Scheduler`

Time goes in sample periods of the ADC, 250 us. `Elapse` is one of them;
everything else takes none. `SysTick` is served only between priority-1 tasks,
being of the lowest priority, and as an exception is pending once or not at all,
of the ticks that expire while one task runs all but one are lost. Each task is
its body (`StateManager`, `TelemetryTask`, `SafetySupervisor`) and the arrival
at its next `Mono::delay` (`Finish`). A delay of n waits for n + 1 ticks by the
clock of the monotonic, which has noted a pending tick that the delays have not
counted: one more. The DRDY interrupt, commented out as shipped, is a switch
(`adc_on`), so that the window that one task resets and another reads is
covered with and without it: `FalseRejectionCause` is about the build with it, and
says nothing of the shipped one, whose window is always empty.

### `Regulator`

`Profile`, `Pid` and `Fit` are modules of operators that follow `eval_profile`,
`PidController::update` and `Calibrator::fit` in integers: a speed on a segment is
rounded down, slope and intercept of a fit are kept over their common divisor
and so are exact; `Total` is the loop over the points, which adds its terms one
by one. `Regulator` runs them through calibrations and runs: `Spool`
is the SPOOLUP arm, `Ready` those of READY, GENERATE and LOAD_REJECTION,
`Locked` the two arms in between that leave the controller alone, `Stop` any
end by a command or a trip. A calibration point's mean and deviation are any of
a set. Open-loop and manual runs, which use none of this, are left out, and so is
the motor's own clamp, which is `Motor`'s.

## 3. Runs

Each `.cfg` gives the constants of one run. Those on `MCGovernor` and its two
extensions have a queue of one and full power of two steps, the two liveness runs
`live` and `stops` a queue of two and full power of one; a control period is 10 ms.

| run | asks | shows |
|---|---|---|
| `manual` | a manual run under E-stops, overspeed, implausible speed and over-voltage; live duty 3 of 2 and a clamp lowered to 1; no iteration is slow | `MotorBounded`, `RelayIffRunning`, `DriveOnlyWhileRunning`, `HazardCutsPower`, `FaultAccounted`, `TripLatched`, `RampDownMonotone`, and that `Governor` implements `Interlock` |
| `generate` | spool, excite, lock, gate, with the load bank, over-current, load rejection and slow iterations of GENERATE | `ElapsedInPllNatural`, `LoadOrdered`, `ClearedUnloaded`, `RunContext`, the interlock |
| `bench` | boot handshake, calibrations and profile runs in any order, under a supervisor that strikes inside an iteration | `RunContext`, `RelayOnlyWhileRunning` hold all the same |
| `live` | a fair schedule, a manual run with a load; overspeed | `EstopObeyed`, `StopEndsRun`, `BootEnds`, `FaultSheds` |
| `stops` | a fair schedule, generator runs and calibrations | `EstopObeyed`, `StopEndsRun`, and that every end is without power: `RelayIffRunning`, `DriveOnlyWhileRunning` |
| `link` | three commands through the bridge and one disturbance | `LinkTypeOK`, `DamageConfined`, that `Link` implements `Channel`, `CommandsMeetFate`, `ClientReplaced` |
| `schedule` | the tasks under long frames and iterations | `IterationUndisturbed`, `JudgedInTime`, `NeverFast`, `Punctual`, `FalseRejectionCause` |
| `regulate` | calibrations and runs over three profiles and two controllers | `NoWindup`, `ProfileFollowed`, `LeastSquares` |
| `estop_load`, `boot_ack`, `hold`, `streak` | what a document says | each ends with a counterexample: section 4 |

In the `bench` run `RelayIffRunning` is weakened to
`RelayOnlyWhileRunning`. A supervisor that strikes between the read of the
state and the arm can see its FAULT overwritten by the arm's own next state, a
running one with its relay open; what never happens is the reverse.

In `live` and `stops` the place ahead in the queue, and the one already popped, can
hold any other command of the run: a Hello that skips an iteration, a Start, a
Configure, another Stop. Between them the two runs take a Stop and an EmergencyStop
to every running state that some line enters: MANUAL and RAMP_DOWN in `live`;
CALIBRATE, SPOOLUP, EXCITE, PLL_LOCK, READY, GENERATE and RAMP_DOWN in `stops`.
A profile's end, the third way into RAMP_DOWN, is in `bench`.

### Bounds of the runs of `Governor`

- `QueueCap` (8 in the code): in the runs of safety properties 1, which makes the
  queue full as soon as it can be, while every order of commands still arises one
  after the other; safety is proved for any capacity. In `live` and `stops` it is 2:
  a command waits behind one that is queued and one that is being dealt with. A
  longer queue adds more of the same distance: each iteration takes one from its
  front, and later arrivals go behind.
- `FullDemand` 2: off, partial, full; the clamp can lie at each. In `live` and
  `stops` 1, as no property there depends on how much power there is.
- `BootRetries` 1 (100), `StreakLimit` 2 (3): one value that is not yet the
  limit and one that is.
- `ExciteMs`, `PllMs`: 3 and 4 periods in `generate`, where ramp times lie off the
  period (3000 and 5000 ms in the code), `SettleMs`, `WindowMs` 2 and 1 periods, two
  calibration points: each phase takes at least one full iteration and one that
  crosses its end. In `live` and `stops` the delays and the settling time are 0 and
  there is one calibration point, so that each state lasts one or two iterations:
  what matters there is that a Stop meets each of them.
- `MaxElapsed` caps `run_elapsed_ms` above the last threshold that is compared
  with it (`TimingAssumption` for the ramps; the profiles and holds of the runs
  end below it too), so the cap changes no comparison.
- `Rpms`: one good, one over the limit of 2800, one beyond 4000; in `live` rest and
  overspeed. The runs whose properties do not look at the speed keep it at rest
  (`bench`, `stops`): there the E-stop pin is the trip.
- `BusReadings`: two or three DC windows: empty, loaded, over a limit. Their differences
  include a drop that is a load rejection and one that is not.

The proofs of section 6 do not depend on any of these.

### Bounds of the other runs

- `link`: three commands, the first too long for `cmd_buf` (4 cells for 2), the
  second just fitting, the third shorter and an EmergencyStop, which ends BOOT: overflow, an exact fit and what comes
  after them. The bridge reads one cell at a time (32 bytes in the code), the
  worst case, as an ack may then be written at every place within a command. The
  wire holds 2 cells, a frame of the bridge, so that each half of the loop waits
  for room. One disturbance (`MaxFaults`), at every place; an instance with two
  and a `cmd_buf` of 3 cells passes the safety properties in 4.7 million states, beyond
  the time of a routine run. The client has at most 5 cells outstanding: the long
  command alone or the other two together.
- `schedule`: nothing is bounded but the lengths. A tick is 4 samples; a frame
  takes 0 (BOOT), 24 (68 bytes at 115200 baud) or 91 samples (with a
  calibration report); an iteration 0, 1, or 33, over eight ticks. The run
  looks for deadlock.
- `regulate`: `MaxElapsed` 10 passes the ends of all profiles, twice a lap of the
  loop; profiles have a slope, a flat, a step, a double point and each of the
  three ends. `MaxIntegral` 6 is past what saturates either controller.
  Three calibration points with four means and two deviations give fits that
  are exact, close, too loose, too steep or unsettled.

### Fairness

`WF(Iterate)` and `WF(SupervisorTick)`: the timer wakes both periodic tasks
for ever and neither waits for anything else. The link and the shaft owe
nothing: no fairness on `UartRx` and `TelemetryTick`. Three liveness properties assume
`HelloStops`: a Hello makes `state_manager` skip the rest of its iteration
(main.rs 481-493), so a link that sends one in every period keeps any arm from
ever running. The ESP32 sends one Hello, when it boots (esp32 main.rs 85-94). `EstopObeyed`
needs no such assumption, as an E-stop is obeyed before the arm is reached.

`Link` assumes weak fairness of the STM32's tasks and of the bridge's end of
stream and answer to a Hello: both boards loop for ever. `ForwardFrame` and
`TcpToUart` get strong fairness. The FIFO is emptied by overflow and the wire is
at times full, but the loop returns to both halves after each piece, and
`write_all` waits for room. Clients and failures owe nothing: `CommandsMeetFate`
says that every command that is whole and undisturbed is decoded, and
`ClientReplaced` that a dead connection is noticed, because telemetry goes on.
`Scheduler` and `Regulator` have safety properties only.

## 4. Where documents and code disagree

1. **`estop_load`**: README.md:49 says the load bank sheds on E-stop. It does,
   once. `StepLoadUp` and `SetLoad` act in every state and the ESTOP arm does
   not shed again, as FAULT's does: a load command during an E-stop engages
   the bank.
2. **`boot_ack`**: README_old.md:218 says BOOT proceeds once a `HelloAck`
   arrives. The pop at the top of the loop takes an ack that is alone in the
   queue before BOOT looks for one, and nothing looks at it there. BOOT then
   ends by a later ack or by the retries.
3. **`hold`**: telemetry.rs:134 says `hold_ms` is the duration of the hold.
   It is timed only while no profile is loaded (main.rs:980), and one always
   is: the default profile from `init` on.
4. **`streak`**: main.rs:116 says consecutive overruns. A streak is kept when
   the state is left, so the first slow iteration of a new run can complete
   the streak of the last one.

Further ones have no run of their own:

5. **The supervisor's rate.** README.md:42, README_old.md:182-188 and main.rs
   297-299 describe a 500 Hz supervisor that preempts the control loop. In
   `Scheduler`, where SysTick has the lowest priority, it never runs within an
   iteration (`IterationUndisturbed`). A delay of 2 waits for 3 ticks, and for a
   frame that goes out in between: passes are 3 ms apart at best and, by
   `Punctual`, up to three ticks and one frame and one iteration.
6. **The control rate and the speed.** For the same reason README.md:43's 100 Hz
   loop and README_old.md:734's 100 Hz telemetry run with a period of 11 ms at
   the least, 17 ms with a frame in each. main.rs:1399 multiplies a count by
   100.0 as if it were 10: while frames go out the speed is over-read by up to
   that ratio. `NeverFast` shows that the error is always to that side, the one on
   which the overspeed trip comes early.
7. **Feedforward in READY.** README_old.md:422-424 says closed-loop states
   command a feedforward duty that PID trims. SPOOLUP does; READY and what follows
   regulate with the PID alone (main.rs:1072), as `Ready` shows, and a PID whose
   `output_min` is 0, the default, cannot trim a feedforward that is too high.
8. **Load actions.** telemetry.rs 275-278 and README.md:65 have profiles fire
   load steps at breakpoints. No line of the firmware reads `load_action`.
9. **Swapped gains.** `NoWindup` is promised until a live adjustment swaps the gains:
   the integral stays as it is (pid.rs:57), and what grew unseen under `ki = 0`
   enters the output with the new `ki`.

## 5. Abstract specification

`Interlock` says what a user of the machine relies on. `Governor` maps its
state to a mode (`Mode`), the relay to `closed`, and `Drive(motor)`, the power
the inverted duty stands for, to `drive`. `manual` and `generate` check that
every step is a step of the interlock or a stutter, and `SafetyProofs` proves
it. `Begin` demands that the motor is at rest when a run starts; `Reset` that
a trip is left without power and never straight into a run.

`Channel` says what a client may rely on: commands arrive in the order in which
they were sent, none twice; a disturbance strikes commands on their way and may
leave behind at most two pieces of stream that are no frame, each of which the
receiver may take for a command nobody sent. That is as much as a link without
checksums or numbers can promise. `Link` carries the abstract state along in
`fate` and `credit`, and TLC checks that each step is a step of the channel. The
content is in what the real steps do to the buffers: that a byte stream cut and
joined anywhere comes back into step at the next zero. `LinkProofs` proves it for
commands of any number and length, any capacities and any number of disturbances.

## 6. Proofs

All are checked with the assumptions that the modules state on their constants.
- `Governor` and its components: positive period and capacity, readings that are
  integers, delays in order, ramps that fit the bound. All theorems
  of `SafetyProofs` but `LoadStaysOrdered` have `~SupervisorPreempts` as a
  hypothesis.
- `Link`: capacities are positive, and every command has a body.
- `Scheduler`: a tick is positive, and of the lengths of frames and iterations
  there are finitely many (`LengthAssumption`): a frame is no longer than one with
  a report, and no iteration loops over more than a queue or a table.
- `Regulator`: profiles are sorted, the configured and live controllers are
  `Usable`, the table of duties is not empty and the least slope a fit may have is
  positive (`MIN_SLOPE` is a positive constant in calibrate.rs).

| theorem | states |
|---|---|
| `TypeCorrect`, `MotorWithinClamp` (GovernorProofs) | `[]TypeOK`, `[]MotorBounded`, whichever way the tasks are scheduled |
| `RelayFollowsState`, `DriveFollowsState` (SafetyProofs) | `[]RelayIffRunning`, `[]DriveOnlyWhileRunning` |
| `HazardHoldsPower`, `FaultHasCause`, `RunHasContext` | `[]HazardCutsPower`, `[]FaultAccounted`, `[]RunContext` |
| `TripsLatch` | `TripLatched`, an action property: state and first cause of a trip |
| `InterlockImplemented` | `Spec => Abstract!ISpec` |
| `LoadStaysOrdered` | `[]LoadOrdered`, whichever way the tasks are scheduled |
| `FaultClearedUnloaded`, `PllTimeNatural` | `ClearedUnloaded`, an action property; `[]ElapsedInPllNatural` |
| `StopOnlySlows` | `RampDownMonotone`, an action property |
| `RelayNeedsRun` (GovernorProofs) | `[]RelayOnlyWhileRunning`, whichever way the tasks are scheduled |
| `SchedulerTypes`, `NoPreemption`, `SpeedsJudged`, `PeriodsNotShort`, `RejectionsExplained` (SchedulerProofs) | `[]SchedulerTypeOK` and the action properties `IterationUndisturbed`, `JudgedInTime`, `NeverFast`, `FalseRejectionCause` |
| `TasksPunctual` | `[]Punctual` |
| `LinkTypesCorrect`, `DamageStaysConfined` (LinkProofs) | `[]LinkTypeOK`, `[]DamageConfined` |
| `LinkImplementsChannel` | `Spec => ImplementsChannel` |
| `RegulatorTypesCorrect`, `NothingWindsUp` (RegulatorProofs) | `[]RegulatorTypeOK`, `[]NoWindup` |
| `ProfileIsFollowed`, `FitIsOptimal` | the action properties `ProfileFollowed`, `LeastSquares` |
| `SetpointAmongPoints` | `eval_profile` is between the speeds of two points, for every profile and time |

**Types.** `TypeInv` is `TypeOK` with the bounds of the motor and the
calibrator's place in its table. The bounds are needed because the
calibrator indexes a sequence, and `MotorBounded` because a lowered clamp
reapplies the demand. `ComponentProofs` shows for each operation of each
component that it preserves its type, and `GovernorProofs` has one lemma per
action. `Drain` builds the kept queue turn by turn in a recursive function:
`LoopProofs` shows by least counterexample that there is one, and `KeptType`
that it is a queue no longer than the old one, without the drained commands
and with every other.

**Safety.** None of the safety properties is inductive. `SafeInv` is
- `TypeInv`;
- `CurFresh`: between the read of the state and the arm that acts on it, the
  state is still the one read; a tripped state at the deadline check was
  tripped when the iteration began; a supervisor pass since the last `Fetch`
  means that the loop is waiting. This is where `~SupervisorPreempts` enters;
- `PowerSafe`: the relay is closed and the motor may be driven exactly in
  running states. It implies `RelayIffRunning`, and with `MotorBounded` also
  `DriveOnlyWhileRunning`;
- `FaultAccounted` and `RunContext`, which the arms need of one another: the
  RAMP_DOWN arm ends where its ramp says, the CALIBRATE arm may fall back to
  IDLE with the relay closed if it finds no calibrator;
- `HazardHeld`: a hazard seen in the last pass holds a trip, or the trip has
  just been cleared and the next iteration must wait for a pass. This is
  what makes ClearFaults, Configure, Start in a row harmless.

`InitSafe` and one lemma per action give `SafeInductive`.

**Refinement.** Under `SafeInv` each action is a step of `Interlock`: an arm
that leaves the mode alone is `Run` or a stutter, a trip is `Trip`, the end of
a run is `End`. `OnlyStartRuns` is the lemma that carries it: no action but
`Start` takes the machine from a state that is not running to one that is.

**Trips.** `TrippedSteps` says that only an E-stop pass, an EmergencyStop and its own
arm do anything to a tripped state or to its cause: the other trips look at the state
first, and by `CurFresh` no other arm runs. That is `TripsLatch`.

**The plant.** `LoadSteps` says that no step does more to the bank than obey a
load command or shed it, and each of these keeps `LoadOrdered`. By `TrippedSteps`
only its own arm takes FAULT to IDLE, and that arm sheds.
`ElapsedInPllNatural` is strengthened to `PllTimed`: by PLL_LOCK the elapsed
time covers the ramp and the excitation delay; `PllSteps` says that only EXCITE
leads there and that no step inside turns time or config back.

**A stop.** A ramp down starts from the demand of the moment and is rounded at every
step, and a lowered clamp or a live duty may change the demand before it takes
over. `Falling` says that the next value of the ramp, clamped, is no higher
than the demand in force: `RampDownMade` shows it of a new ramp, and `FallsFurther`,
a lemma on quotients, that a ramp to zero which has run further is no higher.
`RampDownFalls` then needs that nothing in RAMP_DOWN raises the demand but the ramp.

**A supervisor that preempts.** `RelayNeedsRun` does without `CurFresh`, so an arm
may act on a state that a trip has overwritten. `RelayInv` is weaker than
`PowerSafe` for that: a closed relay means that the state is running and, before
an arm acts, still the one it read. Any trip that strikes in between opens
the relay, and no arm but `Start`'s closes it; in CALIBRATE it needs also that
the calibrator is there.

**The schedule.** `SchedulerInv` is `SchedulerTypeOK` with
- `Undisturbed`: while a priority-1 task runs the supervisor's delay is not over,
  and no tick is pending when it is;
- `Judged`: what started since the last pass of the supervisor is due only after
  it. A tick counts down both delays, and a task begins only when the supervisor
  is not due;
- `Lasting`: of the ticks a delay has seen expire, all but the first took a whole
  tick of time, so that one lost is time that has gone by all the same. The step of
  it is `TickLater`, a lemma on products;
- `Refilled`: after the current was seen, the window is empty only until the next
  tick, unless a frame had kept the iteration waiting.

**How late a task may be.** `Punctual` bounds the age of a task by what may run
before it. Its invariant, `LateInv`, accounts for where the time since the task's
last start has gone. `Ticked` is the part that the ticks counted so far stand for.
The rest are jobs that kept a tick waiting: for the supervisor one of each
periodic task, as `unjudged` has it; for a periodic task its own last job and n of the
other's, n up to 2. `Begun` says what shows that the other has begun n times: it
was due first, or is due later by now; when it is due for the second time, so is the
task itself. Each step moves time between these accounts (`Elapse`, `SysTick`),
adds a job to them or opens new ones.

**The link.** Two buffers and a socket that are cut and filled at different places
are hard to speak of; `LinkProofs` speaks of one stream of cells, `cmd_buf` and the
wire and the socket in a row, of which the first `Written` cells are past the
bridge. Every action then does one of four things to it: drop cells at the front
(`UartRx`), cut some off (a disconnect, a restart), insert a frame behind the first
`Written` (`AnswerHello`) or append (`ClientSend`). `StreamInv` is
- `Ordered`: the cells of commands come in the order of commands and bytes;
- `Known` and `Pending`: only what was sent and has not arrived is in the stream;
- `Intact`: a command that nothing has struck is there as a whole, behind the start of
  the stream, a zero or the place where the writing goes on, and fits `cmd_buf`;
- `Half`: what has been written ends with a zero or within the command `cut`;
- the `Strays`, zeros that close something else than a whole command, are no more
  than `credit`. This is what bounds the junk: each stray can be taken for a
  command once, when it reaches the front, and a disturbance makes at most two.

Each kind of step has a lemma that it preserves each part, by picking for a
cell of the new stream the cell of the old one that it was (`Picked`). Without
`Intact`, a frame at the front could not be known to be decoded as what was sent;
without `Half`, a cut could join two commands unnoticed. The types and the
refinement rest on the same invariant. What `uart4_rx` decodes at a zero is the
hardest step: the front of the stream is a frame that stands, or a stray, and if it is
a command nothing of an earlier one can be behind it.

**The controller.** `NoWindup` is not inductive: it looks at the last output,
and the next depends on the integral. `Held` adds that, without a swap of gains
and without a derivative, `ki` times the integral is a possible output. `UpdateHeld`
shows that an update keeps it. `RegulatorInv` is that with the types. Without `output_min < output_max` and 0 between
them neither would hold, which is what `Usable` asks of a configuration.

**The setpoint.** `LeastElement` is that a set of numbers has a least one, by
well-founded induction from the library; with it the walk along the segments ends
on one of them (`WalkAmong`), and `PartOfWay` bounds a rounded interpolation.
For `ProfileFollowed`, `AtSetpoint` says that while a run spools up its last
setpoint is the profile's at its time, as nothing adjusts a profile. What is left is
a fact about `EvalProfile` at two times that are `DT` apart (`SetpointSmooth`).
On one segment the difference of two quotients rounded down is less than one more
than that of the exact ones (`SameSegment`). From one segment to a later one the
roundings must not add up: `Before` and `After` keep how far a setpoint is from
that of a point, times `DT` and so without division. `NearEnds` shows them for the
ends of a setpoint's own segment, `BeforeLater` carries the one over any number of
segments in between (`RowOfSegments`, by least counterexample), and `AroundPoint`
adds the two where they meet and divides once. A double point at which the speed
jumps has to be excluded, as a step has: the time it takes is none.

**The fit.** Sums over the points are a recursive function, so a lemma on them is an
induction over natural numbers, done as a least counterexample (`LeastMember`):
`TotalLinear`, a sum of combinations is the combination of the sums, and `TotalNat`.
With `d` the divisor, the residuals `u` of the fit, times `d`, satisfy the normal
equations: they add up to 0, also weighted with the duties. The residual of any
other line, times `d`, is `u + w` with `w` linear in the duty, so that its squares
add up to those of `u` and those of `w` (`FitOptimal`). `ValidSlope` shows that a
valid fit has a positive slope to divide by: its divisor is a sum of squares, and if
that were 0, `SsTot` would be 0 as well, which `Valid` excludes. So the
feedforward is a number whatever was measured, which `RegulatorTypeOK` needs.

## 7. What is only model-checked

Every invariant and action property that a run checks is a theorem as well. What is
not:
- The liveness properties (`EstopObeyed`, `StopEndsRun`, `BootEnds`, `FaultSheds`,
  `CommandsMeetFate`, `ClientReplaced`): fairness and ENABLED are beyond the proof
  system.
- The four disagreements of section 4.

## 8. What is not modelled, and why

- Floating point: rounding and NaN in demands, gains, profiles and fits. `motor.rs`
  and `pid.rs` clamp with bounds off the wire, and `f32::clamp` panics on bounds that
  are NaN or out of order; `eval_profile` panics on a count beyond its points.
  A panic ends the program; the modules assume inputs of their types.
- The overflow of `u32` times: integers here are unbounded, and
  `TimingAssumption` keeps configs in range.
- The RMS, phase and frequency arithmetic of `adc.rs`: readings are any of a set.
- Encoding: postcard and COBS are third-party; `Decode` is what they may yield.
- What a telemetry frame says, and so whether a fault is ever reported: it is
  read by a server that is not in this repository.
- Line errors of the UART. The wire from the bridge to the STM32 loses bytes only
  with a restart of either end. `uart4_rx` ends its loop at any error (main.rs 1530),
  so that an overrun, noise or a framing error would lose a byte as well; a lost zero
  joins two commands, of which `Link` has the same in what a client that leaves, an
  ack in between or a restart does to them.
- Which command a buffer that merely happens to deserialize becomes (`Junk`): in the
  queue it counts with those that neither the handshake nor the end of BOOT looks at.
  A trip of the supervisor in BOOT, which ends BOOT as well, is in `Governor`.
- The bytes of a frame on the way to the bridge, whose errors the bridge passes on
  to the client.
- The electrical plant: speed, current and voltage are any of a set, so that a
  load step is not followed by its drop in current.
- Bring-up (`0_boot.rs`), the Wi-Fi and network tasks, the turbine stub, the
  driver, kernel and app crates that the image does not link; server and terminal,
  which are other repositories.

## 9. Plan

Done: the control core with its safety theorems, the link and its abstract
channel, the schedule, the regulation of the speed, each with its theorems.

Next, in this order:
1. Theorems beyond the runs: that a ramp arrives at its end (a lemma on `Ramp`), and
   of the four disagreements the part that does hold.
2. `LoadBankPins`: the load bank's two pins one write at a time, against its
   hazard that step 2 is closed alone for an instant; implements `LoadBank`.
3. `Motor` with a not-a-number demand, times with their width.
