# A TLA+ model of Grbl 1.1h for the PiBot Rev2.3

This directory holds the verification project for the firmware in
`PiBot_GRBL11-DEF/`: TLA+ modules, TLC configurations and TLAPS proofs. The
modules are written from the code as it is configured for this board (`config.h`,
`cpu_map.h`, `defaults.h`): ATmega2560, parking and the safety door input off,
hard limits compiled out, variable spindle and AMASS on, buffer synchronization
forced at coordinate changes, `HOMING_INIT_LOCK` on. Laser mode (`$32`) is
assumed off.

## 1. The system

Grbl is one cooperative main program and a handful of interrupts.

| Component | State | Operations | Talks to |
|---|---|---|---|
| Initialization (`main.c`) | `sys` and all realtime flags, cleared on every pass | power-up, re-initialization after an abort | everything |
| Realtime executor (`protocol.c`) | `sys.state`, `sys.suspend`, `sys.step_control`, `sys.abort`, `sys.spindle_stop_ovr`; a local copy of the flags | `protocol_exec_rt_system`: alarm, reset, hold / cancel / door / sleep, cycle start, cycle stop, overrides, reload of the segment ring | flags (interrupts), planner, stepper, spindle, coolant |
| Suspend loop (`protocol.c`) | `restore_condition`, progress flags in `sys.suspend` | await hold, retract, sleep, park at the door, restore, spindle stop override | executor, spindle, coolant, stepper |
| Main loop (`protocol.c`) | line buffer | read a line, execute it, auto-start | serial, parser, executor |
| System commands and flags (`system.c`) | `sys_rt_exec_*` | `$J=`, `$X`, `$C`, `$H`, `$SLP`, settings, flag setters, control pin interrupt | executor, homing, settings |
| Serial link (`serial.c`) | receive and transmit rings | pick off realtime bytes, ring input and output | executor (flags), main loop, reports |
| Motion control (`motion_control.c`) | none of its own | `mc_line`, `mc_arc`, `mc_dwell`, `mc_homing_cycle`, `mc_probe_cycle`, `mc_reset` | planner, executor, limits, probe |
| Planner (`planner.c`) | block ring, `block_buffer_planned`, position, junction speeds | plan a line, discard, recalculate, reset | parser, segment generator |
| Stepper (`stepper.c`) | segment ring, `st_block` ring, Bresenham counters, timer | `st_prep_buffer`, Timer1 interrupt, wake up, go idle, reset | planner, executor (cycle stop), probe, spindle |
| Probe (`probe.c`), jog (`jog.c`), limits (`limits.c`) | `sys_probe_state`; none; `homing_axis_lock`, `soft_limit` | monitor; jog; soft limit check, homing | stepper, planner, executor |
| Parser (`gcode.c`) | `gc_state` | one line, in four phases of which only the last changes state | motion control, spindle, coolant |
| Spindle, coolant | outputs, `sys.spindle_speed` | stop, set, sync | everyone who stops or starts something |
| Settings, EEPROM | `settings`, EEPROM records | read, write, restore defaults | main, system commands |

What is hard about it:

* **Interleaving.** The receive and stepper interrupts come between any two
  instructions of the main program. The state machine works on one copy of the
  flags, clears them later in the live word, and sits in a dozen nested wait loops
  (`mc_line` on a full queue, synchronization, probe cycle, soft limit, suspend
  loop, sleep), each of which polls it.
* **Who stops what.** A hold, door, jog cancel, motion cancel, sleep, soft limit
  and reset each end a motion in their own way, and the same flag
  (`EXEC_CYCLE_STOP`) tells the main program of all of them.
* **Waiting.** The cycle stop is raised by an interrupt that turns itself off; one
  flag lost, or one wake-up forgotten, and the machine waits for ever.
* **Reset.** It acts at interrupt level, at once, by what `sys.state` and
  `sys.step_control` say at that instant.
* **Resume.** After a hold, door or spindle stop the accessories and the motion
  must come back in order, and only because the operator asked.
* Rings with single producers and consumers, a byte-wise settings store that may
  lose power, 8-bit arithmetic of overrides, homing's phases and their exits.

The properties that make the core correct: a reset sees the motion it has to kill;
waits are answered; an alarmed machine holds nothing that could move; a hold ends
only by the operator; a door stops the spindle and keeps it off; a cancelled jog is
flushed; resets, cycles, holds and probe cycles come to their end. `PROJECT.json`
lists every hazard at its line with the properties that watch it.

## 2. Plan

1. `Realtime` (done): the executor, the suspend loop, the main loop and the
   commands that wait, with the receive and stepper interrupts.
2. `Serial` and `Fifo` (done): receive and transmit rings at the grain of one load
   or store, refined to a first-in first-out buffer, with the line filter, the
   answers, the flush and the reset exit of a full transmit ring.
3. `Planner`, `Motion` and `Path` (done): the planner ring with its look-ahead, the
   segment and `st_block` rings between `st_prep_buffer` and the stepper interrupt,
   refined to the path that the lines describe.
4. `Tracer` (done): Bresenham's algorithm with AMASS.
5. `Settings` (done): the EEPROM records written byte by byte, with a power loss at any
   byte, the commands that store and restore, the power-up that repairs.
6. `Gcode` (done): the parser from the words of a line to the planner queue, the outputs
   and the stored coordinates.
7. `Homing` (done): `$H`, `mc_homing_cycle` and `limits_go_home` with their exits.
8. Left: `Overrides`, the copy and clear of the override flags with the 8-bit arithmetic
   and clamping of the percentages; the segments of an arc; the pin debouncing of the limit
   switches.

`Realtime` keeps planner and ring as short sequences, `Serial` keeps a line as its
characters, `Motion` keeps a line as its length, `Tracer` a segment as its steps,
`Gcode` a block as its target, `Homing` a motion as its steps: each details a part that
`Realtime` leaves abstract, and they meet at `st_prep_buffer`,
`plan_discard_current_block`, the cycle stop, the line, the record of a coordinate system
and the reset.

Theorems, all in section 10. Done: type correctness and buffer bounds of the core, the flush
of a cancelled jog, `ResetSeesMotion` and the five properties of holds, doors and alarms; that
each serial ring implements its buffer for every size, and the three properties of a
counting host; the agreement of memory and store, the order of the two flags and the places
of the records in `Settings`; the exactness of the tracer; the two safety properties of
homing; the agreement of the parser with store, spindle and plan, its parsing and its work
position; that `Motion` implements `Path`, that its plan is the best one and its speeds
change smoothly.

## 3. `Realtime`

One module, because one function touches everything. A step of the main program is
the code between two accesses to something that an interrupt writes or acts upon;
`pc` names the place. Interrupt actions come between any two steps.

| Model | Code |
|---|---|
| `state`, `suspend`, `stepControl`, `abort`, `softLimit`, `spindleStop` | `sys.state`, `sys.suspend`, ... (flag words as sets of names) |
| `execState`, `execAlarm`, `execSpindle` | `sys_rt_exec_state`, `sys_rt_exec_alarm`, `EXEC_SPINDLE_OVR_STOP` of the accessory overrides |
| `rtExec` | the local copy `rt_exec` |
| `queue` | planner blocks, each with the segments still to be cut and its spindle condition |
| `segs` | prepared segments, each with its spindle output |
| `timer` | the Timer1 interrupt: `off`, `armed` by `st_wake_up`, `stepping` once a segment has run |
| `probing`, `monitor` | `sys_probe_state`; the flags the probe monitor has loaded and not stored yet |
| `pc`, `ret`, `sus` | where the main program is; the task that polled; the suspend point that polled |
| `lost`, `resumeAsked` | history only: motion cut off at speed; an operator's cycle start after the hold |

* `ReadAlarm` ... `Accessory`, `Prep`, `Wake` are the sections of
  `protocol_exec_rt_system` in its order, the copy and each clear a step of its own.
* `AwaitHold` ... `ManageSpindle` are the branches of `protocol_exec_rt_suspend`.
* `Boot`, `Reinit`, `Entry`, `ReadLine`, `NoData`, `Idle` are `main` and the main loop.
* The lines a host may stream: a motion, a motion outside the soft limits, a jog, a
  probe cycle, M3, M5, M0, `$X`, `$SLP`, `$C`; each from its dispatch through its
  waits to its end.
* `Rx` is the receive interrupt (or the control pin of the same meaning);
  `SegmentDone`, `RingEmpty`, `ProbeRead`, `ProbeWrite` are the stepper interrupt.

`st_prep_buffer` appears as what it does to the ring: it cuts segments off the first
block while there is room, and in a hold it decides at any segment that the
deceleration ends there, with a segment or less than a step before the next. A
segment is executed in one step. The code of a section between the copy and the
clear (for example the hold section) touches nothing an interrupt writes and is one
step. The restore delay of the door polls any finite number of times.

### Runs

| Run | Instance | Shows |
|---|---|---|
| `realtime_program` | 4 bytes of all six kinds, 2 lines of all kinds but probe, 1 block, 2 segments in the ring, 2 per block | the five invariants and three action properties below |
| `realtime_live` | 2 bytes, 2 lines, 2 blocks | resets, cycles, holds and doors come to their end |
| `realtime_probe` | 2 bytes but reset and start, 3 lines of probe, jog, `$SLP`, `$C`, M3 | the probe cycle, with the monitor's torn flag write, always returns |
| `probe_loses_reset` | one reset, one probe | a disagreement of section 11 |

`TypeOK` includes the bounds of both buffers. `ResetSeesMotion`: whenever the
steppers run, `mc_reset` would notice (as long as a probe does not meet an unlock,
see section 11). `WaitIsAnswered`: in a cycle, a jog or an
unfinished hold, the interrupt runs, its stop is pending, it is about to be started
or a reset is on its way. `AlarmHoldsNothing`: what `$X` unlocks cannot move.
`DoorKeepsSpindleOff`, `HoldEndsByOperator`, `StopOverrideEndsWithHold`,
`JogCancelFlushes` are as named. `ResetHonoured`, `CycleEnds`, `HoldCompletes`,
`DoorStopsSpindle` and `ProbeReturns` are leads-to properties.

Three of them name an exception, and each is a behaviour of the code that a longer run
found: a door's restore that is interrupted by a hold and resumed in its second delay
raises its own cycle start (`WaitIsAnswered` at 4 bytes, `HoldEndsByOperator` at 5), and a
soft limit that ends a hold leaves its stop override behind (`StopOverrideEndsWithHold` at
7). Section 11 has the comment that the first of them disagrees with.

The bounds: two bytes are needed for every pair of commands that meet in one
snapshot or on its two sides, three for hold, stop override and resume or for door,
restore and door again, four for the late restore; two lines for a motion and whatever
follows it. One queue slot makes `mc_line` wait on a full queue, two ring slots with two
segments per block let the ring be full, empty and overlap two blocks. Three lines were
tried with the safety run and showed nothing more; that nothing else needs more bytes,
lines or slots is what section 10 proves.

Fairness: `WF(Main)`, because the processor never stops; `WF(Stepper)`, because an
enabled timer interrupt is taken; `SF(RestoreDone)`, because the restore delay
counts down. None for the host: bytes and lines may stop at any time.

`CHECK_DEADLOCK` stays on: the main loop can always poll.

## 4. `Serial` and `Fifo`

The serial link between the host and the line that is executed.

| Model | Code |
|---|---|
| `rxHead`, `rxTail`, `rxBuffer`; `txHead`, `txTail`, `txBuffer` | the rings of `serial.c`, with their indices and the slot that stays empty |
| `udrie` | `UDRIE0`, the enable bit of the transmit interrupt |
| `pc`, `data`, `out`, `copy` | where the main program is, the character `serial_read` returned, the bytes still to write, the head that the flush has loaded |
| `line`, `lineFlags` | `line[]` up to `char_counter`, `line_flags` |
| `waiting`, `sent`, `acked`, `unanswered`, `partial`, `todo` | the host: whether it waits for a greeting, how many characters it has sent and had acknowledged, their count at the end of each line that is not answered, the line it is sending; as history, the lines sent and not executed |

* `Peek`, `Fetch`, `Advance` are the three accesses of `serial_read`; `Write`,
  `AdvanceHead`, `Enable` those of `serial_write`; `Receive` and `Udre` the two
  interrupts. So a byte can arrive or leave between any two accesses.
* `Filter`, `EndOfLine`, `Execute`, `NoData` are the loop of `protocol_main_loop`:
  comments, blanks, overflow, the poll at the end of a line, the answer.
* `Boot`, `LoadHead`, `Flush` are the part of `main` that clears the flags, empties
  the receive ring (two accesses, between which characters arrive) and greets.
* The host is external and one of two kinds, chosen at the start (`Hosts`). One is the
  character-counting streamer that Grbl's interface documents: never more unanswered
  characters than the receive buffer holds, nothing between a reset and its greeting. The
  other sends whatever it likes at any time.
* A character is one of five kinds (kept, dropped, and the three that matter to
  comments); an answer is a text byte and a last byte.
* `Stalls` lets two bytes be sent between `AdvanceHead` and `Enable`, see section 11.
  The runs assume that no interrupt holds the main program up that long; with
  `Stalls` TRUE, `TxIsFifo` fails.

| Run | Instance | Shows |
|---|---|---|
| `serial` | `RxSize` 4, `TxSize` 1, `LineSize` 2; 5 characters and 1 reset, of a counting host with all kinds but blanks, and of a careless one with blanks | counting host: `NothingDropped`, `LineIsWhole` (every executed line is the oldest unexecuted one, less comments and blanks, or refused as a whole), `EveryLineAnswered`; both: the rings implement `Fifo` (`RxIsFifo` with the flush, `TxIsFifo`), every reset is greeted (`Greeted`) |

The bounds are chosen so that every ring fills, wraps and empties, a line overflows
(two characters in a line of one), a comment opens and closes, lines queue behind each
other and a reset comes at every place. Fairness: `WF(Main)` and `WF(Udre)`, since
the processor runs and an enabled interrupt is taken; none for the host.

`Fifo` is the abstract buffer: put at the end, take from the front, discard what was
there when the reader looked. The refinement maps the tail that has not moved yet
(between `Fetch` and `Advance`) to a character already taken.

## 5. `Planner`, `Motion` and `Path`

From lines to steps. `Planner` has the functions of `planner.c` as operators on a
record of its static variables; `Motion` has the three actors that work on it: the
main program at its polls, `st_prep_buffer`, and the stepper interrupt.

| Model | Code |
|---|---|
| `plan` | `block_buffer` with tail, head and planned index, `pl.previous_nominal_speed` |
| `prep` | `st_prep_t`, and in `loaded` whether `pl_block` is set |
| `stBlocks`, `segments`, `segHead`, `segTail` | `st_block_buffer`, `segment_buffer` and its indices |
| `st`, `timer`, `cycleStop` | `stepper_t`, the Timer1 interrupt, `EXEC_CYCLE_STOP` |
| `state`, `complete`, `hold`, `endMotion`, `slow` | `sys.state`, `SUSPEND_HOLD_COMPLETE`, the step control flags, `sys.f_override` |

* `PlanLine` is `mc_line` with the whole of `planner_recalculate`, including its call
  of the stepper; `CycleStart`, `FeedHold`, `CycleStop`, `Override` are the sections of
  the executor; `Flush` is a reset or a jog cancel.
* `Load`, `Fill`, `Publish`, `NoStep`, `Filled` are the loop of `st_prep_buffer`: load
  or recompute a block, write a segment, move the head, leave. The interrupt may come
  between the write and the head.
* `Step` and `Shutdown` are the stepper interrupt, one step event at a time.

Abstractions. Speeds are squared and counted in what one step of acceleration adds to
the square, all blocks accelerate alike, so that the float arithmetic of the look-ahead
becomes exact integer arithmetic: a block of `mm` steps changes the square by at most
`mm`. A segment is any positive number of steps, because how many fit in 10 ms depends
on the speed; the speed at its end is then the one on the velocity profile
(`SpeedAfter`). The geometry of a line is its length, its rate and what its junction
allows. The feed override is 100 or 50 percent. System motions, parking and laser power
are left out. `Path` is the abstract specification: the lines' steps are taken one by
one, in order, none skipped and none repeated, until what is left is thrown away at
once.

| Run | Instance | Shows |
|---|---|---|
| `motion_plan` | 4 lines of 1 or 2 steps with slow and fast junctions, 4 block and 3 segment slots, 1 hold | `PlanIsOptimal`, `SpeedIsSmooth`, `StartsFromRest` |
| `motion_steps` | 3 lines, 3 and 3 slots, 1 hold, 1 override, the ring may run dry (`MayStarve`) | `PathFollowed` (the refinement of `Path`), `HoldCompletes`, `MotionEnds` |

`PlanIsOptimal` compares what the incremental look-ahead leaves, with its planned
pointer and its skipped blocks, with the closed form: every block is entered at the
least of the speeds that its junctions, the way from the current speed and the way to a
stop at the end allow (`SpeedLimits`). It is stated for the nominal override and outside a hold, because
the code keeps it only there. `SpeedIsSmooth` says that no segment, change of block,
replanning, hold or resume changes the speed by more than the machine accelerates.
`StartsFromRest` says that a machine that stands still starts with no speed left over.
`motion_plan` assumes `Fed`, that the main program refills the segment ring in time, as
`stepper.c:896-898` promises; `motion_steps` does not, and the path is still followed.
`HoldCompletes` and `MotionEnds`: a hold and a cycle come to their end, whichever actor
comes first at the last segment.

Bounds: four lines are more than the three that four slots hold, so that the ring fills,
wraps and the planned pointer is passed and pushed; lines of two steps span two
segments; three segment slots leave two `st_block` slots, used again by the third line.
Longer lines and slower junctions (1 and 3 steps, squared rates 1 and 4) were tried with
three lines and showed nothing more. Fairness: `WF` of `st_prep_buffer`, of the
interrupt and of the cycle stop, because the main program polls for ever and an enabled
timer fires; none for the host or the operator. `CHECK_DEADLOCK` is off because the host
may send nothing more.

## 6. `Tracer`

The innermost arithmetic of the stepper interrupt. `NewLine` scales a line's counts by
eight and sets the counters to half an event, `NewSegment` cuts off some step events at
a smoothing level of 0 to 3 (each of them then takes 1 to 8 interrupts), `Tick` is one
interrupt: every axis adds its increment and steps when its counter exceeds an event.
The run `tracer` takes every pair of lines of up to three steps on two axes and every
cut of them: `TypeOK` (no unsigned counter wraps), `LineIsExact` (every axis ends where
the line leads), `OnTheLine` (never more than half a step beside the line). The order of
segments is the business of `Motion`; the 32-bit width of the counters is not modelled,
eight times the steps of a line being far below it. `CHECK_DEADLOCK` is off because the
lines end.

## 7. `Settings`

What is kept without power. A command or an initialization is a list of operations (`todo`);
an operation leaves bytes to write (`job`), and `PutChar` writes one.

| Model | Code |
|---|---|
| `eeprom` | the chip, byte by byte; records at the addresses of `settings.h` |
| `settings`, `coordSystem` | `settings`, `gc_state.coord_system` for G54 |
| `interrupts` | the I bit of SREG, which `eeprom_put_char` sets |
| `SettingsInit`, `Report`, `Main`, `GcInit`, `MainLoop` | `settings_init` with the restore of a chip it cannot read, its report, `main`, `gc_init`, the startup lines |
| `Repair`, `ReadCoord`, `ReadLine` | the reads that rewrite what they cannot read |
| `Execute`, `ReadLine` | `system_execute_startup`, the list of the startup lines |
| `ExecuteLine` | what `gc_execute_line` writes for a startup line: nothing, or the coordinates of one system |
| `Place` | the byte address, cut to the bits of EEAR |
| `RestoreRecord` (`zero`, `clear`, `clear_info`), `RestoreRest` | `settings_restore` after its global record: coordinates, startup lines, build info, one operation each |
| `StoreGlobalSetting` ... `Restore`, `Home` | `$x=`, `$Nx=`, `$I=`, G10 L2, `$RST=` with its reset, `$H` |
| `PowerLoss` | external: at any byte, or within one, which is then old, new or erased |
| `stale`, `strayed` | history only: the records in memory that a startup line with a number that is not there was written over since they were last loaded or stored; and ever |

The global record is one setting of an axis, the pulse length, the flags and the homing
pull-off: the settings that are refused, that clear others, or that depend on each other.
`$Nx=` executes its line first, which may store coordinates, and then stores it for any x: the
number is cut to a byte, becomes an address without being compared with `N_STARTUP_LINE`, and
the address wraps at the end of the memory. With the 81 bytes of a line that is from x = 41
on (section 11). The properties of this module hold with these lines and name them as their
exceptions: `StoresStayApart` lets such a line reach the build info, and another record only if its
last byte is past the end of the memory; `RamIsStored` leaves out a record that one was written
over until it is next loaded or stored; `SoftLimitsNeedHoming` holds until one reaches the
settings. A startup line may also move the machine; that is not in this module but in `Gcode`.

The checksum is the code's, in bytes of `Bits` bits; `ByteAssumption` spells out the facts
about `2^Bits` that the proofs use, for which the provers know no exponentials.

| Run | Instance | Shows |
|---|---|---|
| `settings` | bytes of 3 bits, two coordinate systems and two startup lines of 2 bytes, 21 bytes of memory, 6 numbers of `$n=` with 4 values, startup lines 0, 2, 3, 4, 5 and 9, 3 commands, 2 power losses | `RamIsStored` (between commands the machine works with what it will find), `SoftLimitsNeedHoming`, `StoresStayApart` (a byte written changes its own record), the three with the exceptions above; `BootEnds` (every power-up ends) |
| `torn_record` | 1 command, 1 loss | a disagreement of section 11 |

The first power-up is that of a new chip. Two losses let the second come during the repair of
what the first one left. The layout is the code's with shorter records: what counts is that
they touch. Of the numbers of startup lines there is one of each kind: 0 is there, 9 becomes 1
in a byte of three bits, 2 falls on the build info, 3 and 4 wrap over the version and the
settings, 5 over the coordinates of G54. `FairSpec` makes the main program go on; the power may fail or not.
`CHECK_DEADLOCK` is off because the user may type nothing more.

## 8. `Gcode`

The parser, from the words of a line to the queue. A word is a command's name or a letter
with a whole number; a block in the queue is its target; a motion goes to its end or stops
wherever a reset or a cancel cuts it.

| Model | Code |
|---|---|
| `gc` | `gc_state`, with the modal groups this build can change |
| `block` | `gc_block` and the values of the line; after STEP 3 what STEP 4 needs |
| `store`, `queue`, `machine`, `spindle`, `coolant` | EEPROM coordinates, planner, `sys_position`, outputs |
| `ImportWord` | STEP 1 and 2, a word at a time, in any order of the words; `Refused` its errors |
| `CheckLine` with `Error`, `Prepared` | STEP 3: units, feed, coordinates, arcs, probes, jogs, unused words |
| `SetSpeed`, `SpindleControl`, `CoolantControl`, `Dwell`, `ToolLength`, `SelectSystem`, `NonModal`, `Intermediate`, `GoHome`, `Motion`, `StartProbe`, `EndProbe`, `ProgramFlow`, `EndProgram`, `Resume` | STEP 4 in its order, one step between two waits |
| `ExecuteJog`, `SoftLimit` | `jog_execute`, `limits_soft_check` |
| `Start`, `Move`, `EndCycle`, `Reset`, `TakeReset`, `Unlock`, `JogCancel`, `ToggleCoolant`, `ToggleCheck`, `KillAlarm`, `Initialize` | what the executor, the interrupts and the main loop do to the same state |

A step of STEP 4 that synchronizes is taken when the queue is empty and the cycle over, or on
an abort; while it waits the realtime actions go on. `syncing` is the synchronization that
follows a change of the work coordinates.

| Run | Instance | Shows |
|---|---|---|
| `gcode` | 32 lines with every command, 5 jogs; 3 lines, 1 reset, cancel or toggle; two coordinate systems, an inch of 2 mm, travel of five positions, a queue of 2 | `ParsedAsWritten` (a line is accepted or refused for its words, whatever their order), `CoordinatesCoherent`, `PositionsAgree`, `SpindleAsCommanded`, `WorkPositionAsProgrammed` (a move, a G92 or a G10 L20 leaves the work position that the line names) |

Three lines are needed to set, use and change a mode; positions outside the travel, a full
queue and a cut at an intermediate position all occur. The lines contain each group's
conflicts. One G10 has L258 and another P256: both words are cut to a byte before they are
compared (`WordL`, `CoordSelect`), so that they are L2 and P0. No liveness is claimed: the waits are those of `Realtime`. `CHECK_DEADLOCK` is off
because a soft limit waits for the operator and lines run out.

`SpindleAsCommanded` is about the direction and the speed that the parser commands. The speed
that each segment writes when it is loaded (`stepper.c:516`) is not in this module: the
segments that section 11 leaves in a stopped ring carry the speed of their time.

## 9. `Homing`

`$H` and the loop of `limits_go_home`, which reads switches and flags itself while the stepper
interrupt moves the axes that are not locked.

| Model | Code |
|---|---|
| `at`, `broken` | external: where each axis is, which axes have no working switch |
| `position` | `sys_position` |
| `running`, `left`, `axisLock` | the interrupt, the steps of its motion, `sys.homing_axis_lock` |
| `moving`, `way` | the axes and the direction of the motion, which may outlast its pass |
| `Free` | the axes that the interrupt steps: the lock holds only while the state is HOMING (`stepper.c:606`) |
| `pass`, `lock` | `n_cycle`, the axes that still search |
| `Home`, `HomeAxis`, `KillAlarm` | `$H`, `$HX` (accepted into the state, then refused), `$X` |
| `Enter` ... `Claim`, `NextCycle` | `limits_go_home` for each cycle of `mc_homing_cycle` |
| `CheckRealtime`, `EndSuspend`, `Finish`, `Poll` | the poll after the cycles, its suspension, the end of `$H`, the main loop |

| Run | Instance | Shows |
|---|---|---|
| `homing` | Z, then X and Y; axes of 4 steps that start on the home switch, in between or on the far switch; any switches broken; 1 byte, 2 lines | `ClearsZFirst`, `HomedMeansFound`, `HomingEnds` |

A pass that fails calls `mc_reset` to stop the motor, but `mc_reset` does nothing when a reset is
already pending: one that came in the debounce delay of the pass before, or in `mc_homing_cycle`
between two cycles. The motor then goes on after the failure, with the state in ALARM and so
without the axis lock, until the segments that are ready are used up (`CycleStop` outside
`Passing`) or the main loop initializes (`PassFails`, section 11). `ClearsZFirst` includes it: it
speaks of the axes in motion, not of the cycle that the main program has reached.

The distances keep the relations of the code: the search is longer than the axis, the
locating approach longer than the pull-off. One locating cycle is the code's default; two
lines home again after a failure or after a success. Fairness: the main program and
the stepper interrupt go on; none for the bytes, but the bound on them leaves a suspended
machine its reset. `CHECK_DEADLOCK` is off because the host may send nothing more.

## 10. Proofs

`RealtimeProofs`, for every number of slots, segments, bytes and lines
(`RealtimeAssumption` only asks them to be numbers, the buffers not empty):

* `TypeCorrect`: `Spec => []TypeOK`. One lemma for each part of the next-state
  relation; those on `Prep` and `PlanMotion` carry the bounds of the buffers.
* `JogCancelled`: `Spec => JogCancelFlushes`. The step that takes `JOG_CANCEL` out
  of `sys.suspend` must be the flush. Four other places assign `sys.suspend`: the
  initialization, the hold section in IDLE, the cycle start and the plain cycle
  stop. That none of them meets a cancelled jog needs the invariant `JogInv`: a jog
  being cancelled is still in state JOG or alarmed with a reset
  (`CancelInJog`), because no other state can be entered from it: the main program
  is in none of its waits during a jog (`JogApart`), a sleep command is executed by
  the poll that follows its line (`SleepApart`), an alarm of the main program is
  handled at once and one raised by a reset has the reset with it (`AlarmApart`),
  unless the probe monitor lost the reset, which only happens in a probe cycle
  (`ProbeApart`). `JogInv` was model-checked before it was proved.

* `ResetAlwaysSees`: if the host does not probe, `Spec => []ResetSeesMotion`. The
  invariant `ResetInv` says where the steppers may run at all: in CYCLE, in JOG or in
  a hold that still decelerates (`Moving`), or when the main program is already on
  its way to the initialization (`Ending`). It needs to know that a timer is started
  only after the state that says so, and only when the interrupt is done with the
  motion before (`StartsStopped`); that a cycle stop means a timer that is off, but
  for a stray one that the initialization left behind (`Stray`); that with a reset
  pending only the main program can have started the timer (`RestartedByMain`); and
  that the suspend flags of a completed hold or a motion cancel never meet a cycle
  (`SuspendStays`). `ResetInv` was model-checked before it was proved. That the host
  does not probe is a real restriction (section 11).
* `WaitsAreAnswered`, `HoldsEndByOperator`, `OverridesEndWithHold`, `AlarmsHoldNothing`,
  `DoorsKeepSpindleOff`, under the same assumption: `WaitIsAnswered`,
  `HoldEndsByOperator`, `StopOverrideEndsWithHold`, `AlarmHoldsNothing`,
  `DoorKeepsSpindleOff`. One more invariant on top of `ResetInv`, `HoldInv`, in parts.
  `DoorStays`: a retract belongs to a door or a sleep that has stopped the machine, with
  the spindle off until the restore begins. `OverrideStays`: a stop override lives in a
  hold, or in a door that a hold became. `CopyIsLive`: the copy of the flags that a
  section works on still agrees with the flags, which only the main program clears.
  `ResumeStays` says where a pending cycle start in a completed hold can come from: from
  the operator, together with the hold command (then it is dropped), or from a late
  restore. `StaysOut`: in ALARM and check mode there is no suspension, and an alarm holds
  nothing. `WaitStays`: a motion state has a timer, a cycle stop or a start under way.
  That each part is preserved needs most of the others, which is why they are one
  invariant. The three exceptions of section 3 came from the attempt to prove these
  properties without them: TLC then found the steps that an instance of 3 bytes had not.

`TracerProofs`, for any set of axes, any integer lines and any number of them
(`TracerAssumption`):

* `LinesAreExact`: `Spec => []LineIsExact`.
* `AxesStayTogether`: `Spec => []OnTheLine`.
* `CountersStayUnsigned`: `Spec => []TypeOK`.

All follow from one invariant, `TracerInv`. Its heart is `Balanced`, a conservation law
of each axis: counter = half an event + event * steps still to make - steps of the line
* what is still ahead of it, in eighths of an event. It is inductive because a smoothing
level divides eight without remainder (`LevelDivides`), which is what the code's comment
at `stepper.c:949-951` is about. With nothing ahead, a counter between 0 and an event
leaves room for no step (`NoHalfStep`). `Unused` covers the time before the first line.

`HomingProofs`, for any cycles of disjoint axes, any places of the switches, any distances
and number of passes (`HomingAssumption`; the pull-off shorter than the axis):

* `ZFirst`: `Spec => []ClearsZFirst`.
* `FoundWhereClaimed`: `Spec => HomedMeansFound`.
* `HomingTypeCorrect`: `Spec => []TypeOK`.

The invariant follows an axis through the phases of a pass. `Approaching`: an axis that the
search has let go of is on one of its switches, and when the approach is over all are.
`PullingOff`: they still are when the pull-off starts; while it runs an axis is at the far
switch or no further than the steps left allow (`Leaving`), and because a pull-off with a
switch still pressed fails, each is off its home switch at the end. `Locked` says which axes
the interrupt may move in a pass. `Aborts` says that after a failure no pass begins before the
initialization. The motor may still run then, if the reset came before the pass that failed;
`InMotion` says that what it moves, whatever the main program has reached, are the axes of one
cycle with those before it home. `DoneFound` says that the cycles already done are home, which the motion of
later cycles cannot change because the axes are disjoint. That passes alternate and the
last one pulls off (`PassesAlternate`) is arithmetic of the parity of `n_cycle`.

`GcodeProofs`, for any lines and jogs, any number of coordinate systems up to six, any
travel and any planner buffer (`GcodeAssumption`; lines are finite, with whole values, and
name systems there are):

* `CoordinatesAgree`: `Spec => []CoordinatesCoherent`.
* `SpindleFollows`: `Spec => []SpindleAsCommanded`.
* `PositionFollows`: `Spec => []PositionsAgree`.
* `LinesAreParsed`: `Spec => []ParsedAsWritten`.
* `WordsAreReached`: `Spec => []WorkPositionAsProgrammed`.
* `GcodeTypeCorrect`: `Spec => []TypeOK`; also, no target outside the limits is planned.

The first three hold between lines; their invariant, `IInv`, says what holds within one. `Coherent`: until the
coordinate system is selected, a block that selects one carries what is stored of it, for
which nothing may be stored before (the order of STEP 4). `Turning`: the speed has been sent
before the direction is compared, and a program end has reset the modal state before it
stops the spindle. `Positioned`: the position is the end of the plan but between the second
motion of G28 and during a probe, whose target is the whole plan. `NoAccount` are the times
when nothing is claimed: check mode, which ends in a reset, and from a reset until the
initialization. There is one lemma for each action; `PlanEnds` and `Planned` are about the
queue, `Placed`, `CoherentKept`, `TurningKept`, `PositionedKept` about what a step leaves
alone.

`ParseInv` is what makes the result of a line independent of the order of its words: the
block holds the words read so far, one command of a group (`ByCommand`), one value of a
letter (`ByValue`), at most one command that uses the axis words (`ByAxis`), and as many
entries as words (`Counted`). `ImportKeeps` shows that an accepted word keeps this;
`RefusedIllegal` that a refused one makes the words read illegal, for which it finds the
two words that clash (`NotTwo`); `ImportedLegal` that the words of such a block are legal.

`WorkInv` carries a line from its words to the position. `Aims`: what STEP 3 computes leads
to the words with the position, offset and tool length of now, and with the coordinate
system that will be in force once the line has selected it (`SystemThen`). It survives
STEP 4 because nothing there changes these before the motion, but for G43.1, G49, G10, G28,
G30, G92 and the probes, none of which shares a line with what is claimed (`Uses`: one
command has the axis words); because only a jog cancel and the initialization move the
position from outside, and a jog under way, when a line is executed, means that the line is
a jog not started yet (`JogsApart`). `Arrived`: after G92, G10 or the motion the work
position is what the words say. `BlockTypes` has the soft limit in it: once a block has met
it, a reset is locked or taken, so that a target that is planned passed the check
(`PlanTypes`). All these invariants were model-checked before they were proved.

`SerialProofs`, for rings and lines of any size (`SerialAssumption`), any number of
characters and resets, both kinds of host:

* `SerialTypeCorrect`, and `RxRingIsFifo`: `Spec => RxIsFifo`, the receive ring
  implements `Fifo` whatever the main program and the delays do.
* `TxRingIsFifo`, `TxNeverStalls`: `ASSUME ~Stalls PROVE Spec => TxIsFifo` and a transmit
  ring that holds something is being emptied or about to be (`TxKeepsSending`). With
  `Stalls` both are false (section 11), so that the assumption is not for the proof's sake.
* `NothingIsDropped`, `LinesAreAnswered`, `LinesAreWhole`, under the same assumption: the
  three properties of a host that counts.

The lemmas on a ring (`IsRing`, `Slot`) turn indices modulo the size into a sequence: a
store behind the head appends, a tail that moves drops the first, a store elsewhere
changes nothing. `RxInv` is that the character fetched is still the front of the ring
while its tail has not moved; `TxInv` that a ring not empty has its interrupt on. For the
counting host the characters are numbered as they are sent. `LinkInv` then says, unless a
reset is on its way to its greeting: what is acknowledged has been read (`Acknowledges`);
an answer is missing for the lines to be executed and those whose answer is in the ring or
still to be written (`Answered`); the lines sent lie one behind the other (`Chained`), the
receive ring holds what is left of them (`Streamed`), and the line buffer holds the first
one as far as it has been read, filtered (`Consumed`). `Filtered` is stated for a prefix, so that one
character more (`FilterStep`) is a step of the invariant and no induction is needed.
`Greets` covers the time from the initialization to the greeting: all is empty, and the
greeting the last byte on its way. `LinkInv` was model-checked before it was proved.

`SettingsProofs`, for any layout in which the records do not overlap
(`SettingsAssumption`), any bytes (`ByteAssumption`), any commands, startup lines with any
numbers, and any power losses:

* `RamMatchesStore`: `Spec => []RamIsStored`.
* `SoftLimitsAreHomed`: `Spec => []SoftLimitsNeedHoming`.
* `RecordsStayApart`: `Spec => StoresStayApart`.

Each with the exception of section 7: a startup line with a number that is not there. The
exceptions are those of the code, and no wider: TLC finds each of the three formulas violated
without its own.

`SettingsInv` looks through a command that is under way. `Stores`: every byte still to be
written lies in the record it was put for, or belongs to a startup line with a number that is not
there, which begins past the lines that are (`Strays`) and reaches the rest only by wrapping
(`InPlace`). `Ram`: memory holds what each record will be
once those bytes are written, unless the initialization that reads it again is still to
come; and `Program`, that it always is to come after a restore (`Rereads`). `Flags`: at
every instant, in memory, in the store and among the bytes to be written, soft limits come
with homing; a torn byte is the old one, the new one or an erased one, and each of these is
consistent. What the checksum computes plays no part: a record that is read is either
accepted as it stands or rewritten whole. `Ram` and `Flags` leave out what `stale` and `strayed` name, and `Missed` shows that
the bytes of a line leave the rest as it is. `SettingsInv` was model-checked before it was
proved.

`MotionProofs`, for any sizes of the two rings (the planner's at least two, the segments' at
least three slots), any lines and rates, any holds, overrides and flushes
(`PlannerAssumption`, `MotionAssumption`):

* `LinesAreFollowed`: `Spec => PathFollowed`, the refinement of `Path`.
* `MotionTypeCorrect`: `Spec => []TypeOK`.

What is left of a line is spread over the planner's block and its segments, and its data
over slots that are used again; the mapping adds up both (`RingLeft`, `PlanLeft`).
`LinesInv` says where they are. `Lined`: the blocks of the plan are the last lines, whole
but for the first if its preparation has begun. `Ringed`: the segments go on from line to
line up to the one being prepared, and refer to the slot of `st_block_buffer` that is as
many slots back as lines; because a line in the ring has at least one segment there, there
are never more of them than slots, which is why a slot can be taken for a new line
(`SlotIsFree`) although nothing checks that it is free. `Written`: the segment that is being
written is cut from the first block and out of the interrupt's sight. `Stepped`: what is not
left of the line in front has been traced, lines before it have nothing left, lines after it
everything; the tracer is restarted if and only if the line changes, because consecutive
lines have different slots (`FrontMoves`). Then each action has its lemma: replanning,
loading, filling, publishing leave what is left of every line as it is (`LinesKept`,
`LoadLines`, `FillLines`, `PublishLines`), a line planned is a step of the path
(`PlanFollows`), a step executed is the next one (`StepFollows`), a flush is a flush
(`FlushFollows`). `LinesInv` was model-checked before it was proved.

The sums and the two passes of the look-ahead are recursive functions. Induction is stated
over a set of numbers (`Induction`), from the least element that the library gives, which
the provers can instantiate; `Sums`, `Recursion`, `ReverseSpeedsAre` and `ForwardSpeedsAre`
say what those functions are. The refinement needs of the passes only that they change
speeds and no work (`RecalculatedKeeps`).

`SpeedProofs`, for the same constants:

* `PlansAreOptimal`: `Spec => []PlanIsOptimal`.
* `MachineCanBrake`: every block of the plan, from the one in execution on, is entered no
  faster than its way lets the machine brake to the speed of the next one, the last one to
  a stop, and no faster than its own rate and the rate of the block before.
* `SpeedChangesSmoothly`: `Spec => SpeedIsSmooth`, and `MachineStartsFromRest`:
  `Spec => []StartsFromRest`, both if the segment ring never runs dry while there is
  something to prepare (`~MayStarve`). This is what `stepper.c:896-898` promises and what
  the timing of the main program must provide; without it the interrupt stops the machine
  in the middle of a profile, and the property is about the machine that is fed. The first
  two theorems do not need it.

All four speak of the nominal override, as the properties do (section 11).

The closed form of `PlanIsOptimal` is not inductive: it says of a speed only that some
limit, perhaps of a block far off, is met. The invariant, `SpeedInv`, says it between
neighbours. `Braked`: the speed of a block is within its limit, and the next speed can be
reached by braking over the block's way. `Best`: no speed can be reached faster than the
block before can accelerate to, and each is held down by something: by its own limit or by
acceleration (`FromBehind`) or by braking (`FromAhead`). Up to the planned block it is held
down by what is behind it, which is why no line to come can change it and the look-ahead
may stop there. One reverse and one forward pass from the planned block lead from `Braked`
to `Best` again, whatever the blocks in front (`PassesAre`); during a hold only `Braked` is
kept, and the replanning that follows makes up for it. `Profiled` is the speed of the block
in execution: the way left of it is enough to reach the exit speed up or down, and just
enough in a hold. `Unloaded` hands it from block to block. From neighbours to limits
(`BestIsOptimal`): a speed held down by a neighbour differs from it by the way between, and
following such steps to the first speed that is held down by a limit, or to an end of the
plan, gives that limit exactly; that this exists is an argument on the extreme elements of a
finite range (`Distances` are differences of prefix sums).

The smooth speeds need four more facts. `Continuous`: a block is entered at the speed at
which the last was left, but for a hold under way, whose plan is redone at its end.
`Halted`: the preparation of a hold ends at rest. `Awaits` and `Braking`: a stop is pending
only with the steppers standing, and what is prepared with the steppers standing starts from
rest. `SpeedInv` and `SmoothInv` were model-checked before they were proved, with one and
two holds, three and four segment slots, and an override.

Not proved: the type invariant of `Settings`, because a checksum is a fold over data (what
the invariant says of shapes is in `Shapes`, and it was checked with the constants of the
run `settings`); and all liveness (`HoldCompletes`, `MotionEnds` and the other properties
that something happens), which is out of the prover's reach, as is ENABLED, and stays with
the runs.

## 11. Where code and comments disagree

Two are runs that end in a counterexample:

* `probe_loses_reset`, `CommandIsRead` (`system.h:26-27`): a reset received inside the
  probe monitor's `|=` is lost. The same property also fails where the clear of the hold
  flags (`protocol.c:327`) takes a flag that came after the copy.
* `torn_record`, `DamageIsDetected` (`eeprom.c:133`): the checksum is rotated with `||`
  where `|` was meant, and is 1 for every sum but 0. A record of which one byte is torn by a
  power loss, or damaged otherwise, is accepted.

The following are stated as properties in the modules and fail in TLC with the constants
named; no run of the project repeats them.

* `PositionLostIsAlarmed` (`motion_control.c:361-364`): a reset between the reads
  of the alarm and of the flags ends in IDLE, the alarm erased by the initialization
  (`MCRealtime`, `Bytes <- ResetAndStart`, `Lines <- MotionProgram`, 2 bytes, 2 lines,
  `BlockSlots` 1, `SegmentSlots` 2, `BlockSegments` 2).
* `AlarmEndsByOperator` (`main.c:60-61` "Only a homing cycle '$H' or kill alarm locks
  '$X' will disable the alarm"): a feed hold in the last prepared segments lets the
  synchronization of a probe return during the deceleration; the alarm of a probe
  that is already triggered then comes over a running motion, and the cycle stop that
  ends the motion sets IDLE (`protocol.c:397-398`). A second way needs no probe: a
  reset between the `st_prep_buffer` and the `st_wake_up` of a jog, whose ring then
  runs dry between `main.c:82` and `st_reset` (`MCRealtime`, `Bytes <- HoldOnly`,
  `Lines <- MotionThenProbe`, 1 byte, 2 lines, `BlockSlots` 2, the rest as above).
* `EntrySpeedsAllowBraking` (`planner.c:75-76`): the reverse pass leaves a block alone
  that is entered at its maximum (`planner.c:158`). After an override that maximum may
  still be the junction's while the next block is slower: the block is too short to brake
  in, and is executed harder than the machine's acceleration. A short block behind a slow
  junction in front of a slow line suffices; no motion need be under way
  (`MCMotion`, `BlockBufferSize` 4, `SegmentBufferSize` 3, `Lengths <- OneFour`, `Rates` and
  `Junctions <- FourSixteen`, 3 lines, no hold, 1 override, `MayStarve` FALSE).
  `PlanIsOptimal`, `SpeedIsSmooth` and `StartsFromRest` are therefore stated for the nominal
  override.
* `HoldNeedsUserInput` (`protocol.c:332-333` "Ensures auto-cycle-start doesn't resume a hold
  without an explicit user-input"): a door with a spindle to restore is closed and
  resumed; a hold meets the automatic cycle start at the end of the restore and drops it;
  the loop restores a second time, and a resume in its delay starts the cycle while the
  loop is still in it. The end of that delay sets `SUSPEND_RESTORE_COMPLETE` and raises a
  cycle start whatever the state is by then
  (`protocol.c:713-714`): a new hold is resumed by it (`MCRealtime`,
  `Bytes <- DoorAndHold`, `Lines <- SpindleAndMotion`, 5 bytes, 2 lines, `BlockSlots` 1,
  `SegmentSlots` 1, `BlockSegments` 2).
* `CoolantAsCommanded` (`protocol.c:464` "the current run state can be determined by
  checking the parser state"): M2 and M30 reset the modal coolant state, then wait in the
  synchronization of the work coordinates. A coolant toggle executed there sets the modal
  state again, and the program end then turns the output off (`MCGcode`,
  `Lines <- ProgramEnds`, `Jogs <- None`, 2 lines, 1 event, the rest as in `gcode.cfg`).
* `JogMovesItsAxes` (`gcode.c:857-860` "Feed rate word and axis word checks have already been
  performed in STEP 3"): `$J=F100` without axis words jogs to the machine zero (`MCGcode`,
  `Lines <- None`, `Jogs <- JogAnything`).
* `HomingIsHoming` (`system.h` "Performing homing cycle"): `$HX` and other `$H` with a letter
  set the state to HOMING and then return an error (`system.c:182-197`). The alarm that
  asked for homing is gone with the next reset (`MCHoming`, `Cycles <- ZThenX`, no byte, 1
  line).

`AlarmEndsByOperator` limits the other results of `Realtime`. With motion, probe and
`$X` lines and the bytes hold and start, its counterexample leads on to an unlock with
the steppers running and to a cycle start that clears `step_control`: a reset would then
neither kill the steppers nor raise an alarm, so `ResetSeesMotion` and
`AlarmHoldsNothing` do not hold there. `realtime_program` therefore leaves the probe out
and `realtime_probe` the unlock and the start byte, and the theorem on `ResetSeesMotion`
assumes no probe.

The models also contain behaviours that a comment does not lead one to expect and that
no property of a run here excludes:

* `protocol_buffer_synchronize` (`protocol.c:167` "Block until all buffered steps are
  executed or in a cycle state") may return with segments in the ring: it runs dry while
  the main program is on its way to `st_prep_buffer`, the last segments are put in a
  stopped ring, and the pending cycle stop makes the state IDLE. They are executed with
  the next cycle start.
* A probe contact leaves `STEP_CONTROL_EXECUTE_HOLD` behind; the jog that follows is
  decelerated at once and its preparation blocked with no suspend in force
  (`stepper.c:904`).
* `serial_write` moves the head, then enables the transmit interrupt. If both the last
  byte of a running transfer and the new one go out in between, the interrupt has turned
  itself off on an empty ring and is turned on again: the tail passes the head and a ring
  of stale bytes is sent (`serial.c:120`). It takes the stepper interrupt to hold the main
  program up for two byte times. It can: it lets other interrupts in (`stepper.c:474`) and
  `st_go_idle` waits with `delay_ms` unless the steppers stay enabled (`stepper.c:304`).
* A hold that completes, or an override, with an empty planner buffer replans the whole
  ring of used blocks and leaves `block_buffer_planned` outside the buffer
  (`planner.c:109-111`). It costs computation and is healed by the next planned lines.
* `$Nx=` does not compare x with `N_STARTUP_LINE` (`system.c:247-267`), but for the cut to a byte:
  `$N2=` is written over the build info, and from `$N41=` on the address passes the 4 KB of the
  chip and wraps over the version, the settings and the coordinates, where `settings.h:65-68`
  says "The lower half contains the global settings". The machine works with what it has in
  memory until the next power-up, which may accept the line as settings, because of the
  checksum above: soft limits without homing included. The run `settings` contains it all, and
  its properties name it.
* `limits.c:369` says "Stop motors, if they are running" of an `mc_reset` that does nothing when a
  reset is already pending (`motion_control.c:369`). A reset during the debounce delay
  (`limits.c:381`) lets the next pass begin, fail at its first look at the flags and leave the
  motor on, without its axis lock, until `st_reset` in the initialization. In `homing`,
  `abort => ~running` is violated by it; `ClearsZFirst` holds.
* `eeprom_put_char` says that it restores the interrupt flag and ends in `sei()`
  (`eeprom.c:124`). The power-up of a new chip depends on it: with the flag restored, the
  report of the new settings would wait for ever for the transmit interrupt. The mutant of
  `BootEnds` shows this.
* A door opened during the last debounce of homing suspends without a hold that could
  complete: only a reset gets out (`CheckRealtime` in `Homing`).
* A `$C` that follows a motion at once is accepted in IDLE with blocks queued; a line that
  changes the coordinate system then waits for ever in check mode for a queue that nothing
  starts. A `$J=` that follows a motion at once takes the queued motion along as a jog.
* The values of a line change with the modes it changes: in a line with G94 after G93, F in
  inches is not converted (`gcode.c:417-425`); F in a line without motion in G93 stays as the
  feed of G94. A T word holds for its line only. M30 in check mode selects G54 without its
  offset. G10 and G28.1 write in check mode and in an aborted line too. G10 is accepted with L
  alone, and then writes the active system.
* Two override decrements in one snapshot wrap in `uint8_t` before they are clamped: at 10
  percent they lead to 200 (`protocol.c:411-417`). The copies of the override flags are taken
  and cleared in two steps; a byte in between is lost.

## 12. Not modelled

* Percentages of the overrides (the replanning that follows a change is in `Motion`), the
  queued reports.
* Conversion of numbers (`read_float`): G16385 is read as G1 and G49.5 as G49, because the
  integer part is cut to 8 bits (`gcode.c:132`) and the fraction of some commands ignored. The
  commands of the model are what the parser has recognized. The values of a G10 are cut as in
  the code: P257 writes G54, L258 is L2. Negative L and P are left out (P is refused; L is a
  conversion of a negative number to an unsigned one, which C leaves undefined).
* The segments of an arc (`mc_arc`) and the tolerance of its radius: `Gcode` checks the arc
  and executes it as one motion to its target.
* Settings other than the four kept in `Settings`, and what a setting re-initializes: a new
  `$100` leaves the parser's position where it was in millimetres.
* Geometry and acceleration of lines, float rounding (a segment of no steps, `stepper.c:610`),
  timing of steps.
* Pins, masks, debouncing of the limit switches, PWM values; hard limits, parking, the safety
  door pin, M7, laser mode and dual axes, which this build has off; `sleep.c`, which is not
  called; reports, whose text is formatting. The status report's bytes also go through
  `serial_write`, which `Serial` shows for answers and greetings.
* `mc_reset` and the receive interrupt are atomic, and so is the stepper interrupt but for the
  probe monitor. The safety door pin is not wired, so its switch reads closed and the door is
  opened by the byte 0x84.
* The C compiler, the AVR's interrupt latching and the bootloader are taken for granted.
