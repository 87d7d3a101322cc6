------------------------------- MODULE Realtime -------------------------------
(***************************************************************************)
(* The realtime core of Grbl: the main program's polling state machine     *)
(* (protocol.c), the commands that drive it (main loop, mc_line, probe     *)
(* cycle, soft limits, jog), the serial receive interrupt that raises its  *)
(* flags and the stepper interrupt that executes the segments.             *)
(*                                                                         *)
(* The main program runs one step at a time; pc is the place where it is.  *)
(* An interrupt may come between any two of its steps, so a step is the    *)
(* code between two accesses to something an interrupt writes or acts on.  *)
(* protocol_exec_rt_system is entered at "readAlarm"; when it is done it   *)
(* returns to sus (a point of the suspend loop) or else to ret. While the  *)
(* probe monitor runs inside the stepper interrupt (monitor # <<>>) the    *)
(* main program stands still and the receive interrupt does not.           *)
(***************************************************************************)
EXTENDS Naturals, Sequences

CONSTANTS
  Bytes,          (* realtime bytes the host or the control pins may send  *)
  Lines,          (* kinds of lines the host may stream                    *)
  MaxBytes,       (* bound: realtime bytes in a behaviour                  *)
  MaxLines,       (* bound: lines in a behaviour                           *)
  BlockSlots,     (* blocks the planner holds, BLOCK_BUFFER_SIZE - 1       *)
  SegmentSlots,   (* segments the ring holds, SEGMENT_BUFFER_SIZE - 1      *)
  BlockSegments   (* bound: segments a block is cut into                   *)

RealtimeBytes == {"reset", "start", "hold", "door", "jogCancel", "spindleStop"}
LineKinds == {"motion", "outside", "jog", "probe", "spindleOn", "spindleOff",
              "pause", "unlock", "sleep", "check"}

ASSUME RealtimeAssumption ==
  /\ Bytes \subseteq RealtimeBytes
  /\ Lines \subseteq LineKinds
  /\ MaxBytes \in Nat /\ MaxLines \in Nat
  /\ BlockSlots \in Nat \ {0}
  /\ SegmentSlots \in Nat \ {0}
  /\ BlockSegments \in Nat \ {0}

VARIABLES
  (* struct system_t sys *)
  state, suspend, stepControl, abort, softLimit, spindleStop,
  (* volatile flags, written by interrupts and by the main program *)
  execState, execAlarm, execSpindle,
  (* planner queue, segment ring, Timer1 interrupt ("off", "armed" or     *)
  (* "stepping"), sys_probe_state, the probe monitor's read of execState  *)
  queue, segs, timer, probing, monitor,
  (* spindle output, gc_state.modal.spindle, restore_condition *)
  spindleOn, modalOn, restoreOn,
  (* control of the main program *)
  pc, ret, sus, rtExec, line,
  (* the host: how much it may still send *)
  bytesLeft, linesLeft,
  (* history: motion was cut off at speed; the operator asked to resume *)
  lost, resumeAsked

sysVars   == <<state, suspend, stepControl, abort, softLimit, spindleStop>>
flagVars  == <<execState, execAlarm, execSpindle>>
moveVars  == <<queue, segs, timer, probing, monitor>>
spinVars  == <<spindleOn, modalOn, restoreOn>>
ctlVars   == <<pc, ret, sus, rtExec, line>>
hostVars  == <<bytesLeft, linesLeft>>
ghostVars == <<lost, resumeAsked>>
vars == <<sysVars, flagVars, moveVars, spinVars, ctlVars, hostVars, ghostVars>>

-------------------------------------------------------------------------------
(* Flags and values                                                        *)

States == {"IDLE", "ALARM", "CHECK", "CYCLE", "HOLD", "JOG", "DOOR", "SLEEP"}
SuspendFlags == {"HOLD_COMPLETE", "RESTART_RETRACT", "RETRACT_COMPLETE",
                 "INITIATE_RESTORE", "RESTORE_COMPLETE", "DOOR_AJAR",
                 "MOTION_CANCEL", "JOG_CANCEL"}
StepFlags == {"END_MOTION", "EXECUTE_HOLD"}
SpindleStopFlags == {"ENABLED", "INITIATE", "RESTORE", "RESTORE_CYCLE"}
HoldFlags == {"MOTION_CANCEL", "FEED_HOLD", "SAFETY_DOOR", "SLEEP"}
ExecFlags == HoldFlags \cup {"RESET", "CYCLE_START", "CYCLE_STOP"}
Alarms == {"none", "SOFT_LIMIT", "ABORT_CYCLE", "PROBE_FAIL"}

(* Everything that runs motion in the main loop, blocked by ALARM and JOG. *)
GCode == {"motion", "outside", "probe", "spindleOn", "spindleOff", "pause"}

(* A planned motion: the segments still to be cut from it, spindle on or off. *)
Block == [left : 1..BlockSegments, on : BOOLEAN]

RtPoints == {"readAlarm", "critical", "clearAlarm", "snapshot", "hold",
             "clearHold", "start", "startPrep", "startWake", "clearStart",
             "stop", "clearStop", "accessory", "prep"}
SuspendPoints == {"suspend", "sleepSpin", "restored"}
Tasks == {"loop", "idle", "dispatch", "plan", "sync", "jogStart", "softWait",
          "softAlarm", "probeStart", "probeGo", "probeWait", "probeEnd"}
MainPoints == Tasks \cup {"boot", "reinit", "entry", "jogPrep", "jogWake"}

HoldOver == "EXECUTE_HOLD" \in stepControl

-------------------------------------------------------------------------------
(* Calls                                                                   *)

(* Call protocol_execute_realtime and continue at task p.                  *)
Poll(p) == pc' = "readAlarm" /\ ret' = p /\ sus' = "no"

(* Call protocol_exec_rt_system from the suspend loop, continue at p.      *)
PollSuspended(p) == pc' = "readAlarm" /\ sus' = p /\ UNCHANGED ret

Goto(p) == pc' = p /\ UNCHANGED <<ret, sus>>

At(p) == pc = p /\ monitor = <<>>

(* protocol_exec_rt_system returns: into the suspend loop that called it,  *)
(* or to protocol_execute_realtime, which enters the loop if sys.suspend.  *)
(* On entry the loop notes the accessory state it will restore.            *)
Return ==
  /\ UNCHANGED <<ret, sus>>
  /\ \/ sus # "no" /\ pc' = sus /\ UNCHANGED restoreOn
     \/ /\ sus = "no" /\ suspend # {}
        /\ pc' = "suspend"
        /\ restoreOn' = IF queue = <<>> THEN modalOn ELSE Head(queue).on
     \/ sus = "no" /\ suspend = {} /\ pc' = ret /\ UNCHANGED restoreOn

(* protocol_auto_cycle_start                                               *)
AutoStarted == IF queue # <<>> THEN execState \cup {"CYCLE_START"} ELSE execState

(* st_wake_up and st_go_idle. A timer that stops in the middle of a motion *)
(* leaves the position unknown.                                            *)
NotWoken == timer                           \* mutant: st_wake_up left out
Woken == IF timer = "off" THEN "armed" ELSE timer
CutsMotion == timer = "stepping" /\ segs # <<>>
GoIdle == timer' = "off" /\ lost' = (lost \/ CutsMotion)

(* plan_reset and st_reset; the mutant forgets the first.                  *)
DropSegmentsOnly == segs' = <<>> /\ UNCHANGED queue /\ GoIdle
DropMotion == segs' = <<>> /\ queue' = <<>> /\ GoIdle

(* mc_reset. The steppers are killed, and the alarm raised, only in what   *)
(* the code takes for a motion state.                                      *)
InCycleOrJog == state \in {"CYCLE", "JOG"}       \* mutant: not while holding
InMotionState == state \in {"CYCLE", "JOG"} \/ HoldOver
FirstReset == "RESET" \notin execState
McReset ==
  \/ /\ ~FirstReset
     /\ UNCHANGED <<execState, execAlarm, spindleOn, timer, lost>>
  \/ /\ FirstReset
     /\ execState' = execState \cup {"RESET"}
     /\ spindleOn' = FALSE
     /\ IF InMotionState THEN execAlarm' = "ABORT_CYCLE" /\ GoIdle
        ELSE UNCHANGED <<execAlarm, timer, lost>>

-------------------------------------------------------------------------------
(* protocol_exec_rt_system                                                 *)

(* The sections of the snapshot r that are executed, in the code's order.  *)
StopOn(r)  == IF "CYCLE_STOP" \in r THEN "stop" ELSE "accessory"
StartOn(r) == IF "CYCLE_START" \in r THEN "start" ELSE StopOn(r)
HoldOn(r)  == IF r \cap HoldFlags # {} THEN "hold" ELSE StartOn(r)

ReadAlarm ==
  /\ At("readAlarm")
  /\ \/ execAlarm = "none" /\ Goto("snapshot") /\ UNCHANGED <<state, execState>>
     \/ /\ execAlarm = "SOFT_LIMIT"
        /\ state' = "ALARM"
        /\ execState' = execState \ {"RESET"}
        /\ Goto("critical")
     \/ /\ execAlarm \notin {"none", "SOFT_LIMIT"}
        /\ state' = "ALARM"
        /\ Goto("clearAlarm")
        /\ UNCHANGED execState
  /\ UNCHANGED <<suspend, stepControl, abort, softLimit, spindleStop, execAlarm,
                 execSpindle, moveVars, spinVars, rtExec, line, hostVars, ghostVars>>

(* A critical event spins here until the operator resets.                  *)
Critical ==
  /\ At("critical")
  /\ Goto(IF "RESET" \in execState THEN "clearAlarm" ELSE "critical")
  /\ UNCHANGED <<sysVars, flagVars, moveVars, spinVars, rtExec, line, hostVars, ghostVars>>

ClearAlarm ==
  /\ At("clearAlarm")
  /\ execAlarm' = "none"
  /\ Goto("snapshot")
  /\ UNCHANGED <<sysVars, execState, execSpindle, moveVars, spinVars, rtExec, line,
                 hostVars, ghostVars>>

(* Copy the flags once; everything below works on the copy. A hold command *)
(* in the copy, or a start that comes too early, spends a resume request.  *)
Snapshot ==
  /\ At("snapshot")
  /\ rtExec' = execState
  /\ resumeAsked' = (/\ resumeAsked
                     /\ execState \cap HoldFlags = {}
                     /\ ~(state = "HOLD" /\ "HOLD_COMPLETE" \notin suspend))
  /\ \/ "RESET" \in execState /\ abort' = TRUE /\ Return
     \/ /\ "RESET" \notin execState
        /\ Goto(HoldOn(execState))
        /\ UNCHANGED <<abort, restoreOn>>
  /\ UNCHANGED <<state, suspend, stepControl, softLimit, spindleStop, flagVars,
                 moveVars, spindleOn, modalOn, line, hostVars, lost>>

(* The door opens again while the accessories are being restored: the      *)
(* retract starts over. The mutant forgets that it has to.                 *)
ReopenedAsRetracted(s) ==
  (s \ {"INITIATE_RESTORE", "RESTORE_COMPLETE"}) \cup {"RESTART_RETRACT"}
Reopened(s) ==
  (s \ {"RETRACT_COMPLETE", "INITIATE_RESTORE", "RESTORE_COMPLETE"}) \cup {"RESTART_RETRACT"}

(* Feed hold, motion cancel, safety door and sleep.                        *)
Hold ==
  /\ At("hold")
  /\ LET asked(f)  == state \notin {"ALARM", "CHECK"} /\ f \cap rtExec # {}
         brakes    == /\ asked(HoldFlags) /\ state \in {"CYCLE", "JOG"}
                      /\ suspend \cap {"MOTION_CANCEL", "JOG_CANCEL"} = {}
         jogCancel == brakes /\ state = "JOG" /\ "SLEEP" \notin rtExec
         cancel    == asked({"MOTION_CANCEL"}) /\ state # "JOG"
         held      == IF asked({"FEED_HOLD"}) /\ state \notin {"DOOR", "JOG", "SLEEP"}
                      THEN "HOLD" ELSE state
         stopped   == (IF asked(HoldFlags) /\ state = "IDLE" THEN {"HOLD_COMPLETE"} ELSE suspend)
                        \cup (IF jogCancel THEN {"JOG_CANCEL"} ELSE {})
                        \cup (IF cancel THEN {"MOTION_CANCEL"} ELSE {})
         door      == asked({"SAFETY_DOOR"}) /\ "JOG_CANCEL" \notin stopped
         reopened  == door /\ held = "DOOR" /\ "INITIATE_RESTORE" \in stopped
         opened    == (IF reopened THEN Reopened(stopped) ELSE stopped)
                        \cup (IF asked({"SAFETY_DOOR"}) THEN {"DOOR_AJAR"} ELSE {})
         awake     == IF door /\ held # "SLEEP" THEN "DOOR" ELSE held
     IN /\ stepControl' = IF brakes THEN {"EXECUTE_HOLD"} ELSE stepControl
        /\ state' = IF "SLEEP" \in rtExec THEN "SLEEP" ELSE awake
        /\ suspend' = IF "SLEEP" \in rtExec /\ awake = "ALARM"
                      THEN opened \cup {"RETRACT_COMPLETE", "HOLD_COMPLETE"} ELSE opened
  /\ Goto("clearHold")
  /\ UNCHANGED <<abort, softLimit, spindleStop, flagVars, moveVars, spinVars, rtExec,
                 line, hostVars, ghostVars>>

(* All four flags are cleared, whichever of them the snapshot had. The     *)
(* mutant clears the cycle stop with them.                                 *)
Cleared(f) ==
  /\ execState' = execState \ f
  /\ UNCHANGED <<sysVars, execAlarm, execSpindle, moveVars, spinVars, rtExec, line,
                 hostVars, ghostVars>>
ClearHoldAndStop ==
  At("clearHold") /\ Cleared(HoldFlags \cup {"CYCLE_STOP"}) /\ Goto(StartOn(rtExec))
ClearHold == At("clearHold") /\ Cleared(HoldFlags) /\ Goto(StartOn(rtExec))

(* Cycle start: from IDLE, from a completed hold, or from a closed door.   *)
DoorClosed == state = "DOOR" /\ "DOOR_AJAR" \notin suspend
Restored == DoorClosed /\ "RESTORE_COMPLETE" \in suspend
Startable == \/ state = "IDLE" \/ Restored
             \/ state = "HOLD" /\ "HOLD_COMPLETE" \in suspend
NoHoldAsked == rtExec \cap {"FEED_HOLD", "MOTION_CANCEL", "SAFETY_DOOR"} = {}
StartBesideHold == Startable                \* mutant: starts whatever came with it
MayStart == Startable /\ NoHoldAsked
NoOverride == FALSE                         \* mutant: ignores the stop override
SpindleOverridden == state = "HOLD" /\ spindleStop # {}
Resumes ==
  /\ stepControl' = {}
  /\ suspend' = {}
  /\ UNCHANGED spindleStop
  /\ IF queue # <<>> /\ "MOTION_CANCEL" \notin suspend
     THEN state' = "CYCLE" /\ Goto("startPrep")
     ELSE state' = "IDLE" /\ Goto("clearStart")

Start ==
  /\ At("start")
  /\ \/ /\ MayStart
        /\ ~SpindleOverridden
        /\ Resumes
     \/ /\ MayStart /\ SpindleOverridden
        /\ spindleStop' = spindleStop \cup {"RESTORE_CYCLE"}
        /\ Goto("clearStart")
        /\ UNCHANGED <<state, suspend, stepControl>>
     \/ /\ ~MayStart
        /\ suspend' = IF NoHoldAsked /\ DoorClosed /\ "RETRACT_COMPLETE" \in suspend
                      THEN suspend \cup {"INITIATE_RESTORE"} ELSE suspend
        /\ Goto("clearStart")
        /\ UNCHANGED <<state, stepControl, spindleStop>>
  /\ UNCHANGED <<abort, softLimit, flagVars, moveVars, spinVars, rtExec, line,
                 hostVars, ghostVars>>

ClearStart == At("clearStart") /\ Cleared({"CYCLE_START"}) /\ Goto(StopOn(rtExec))

(* Cycle stop: the stepper interrupt ran out of segments. A hold becomes   *)
(* complete; a motion, a jog cancel, a motion cancel or a soft limit stop  *)
(* ends in IDLE, a jog cancel flushing both buffers.                       *)
Stop ==
  /\ At("stop")
  /\ \/ /\ state \in {"HOLD", "DOOR", "SLEEP"}
        /\ ~softLimit /\ "JOG_CANCEL" \notin suspend
        /\ suspend' = IF HoldOver THEN suspend \cup {"HOLD_COMPLETE"} ELSE suspend
        /\ stepControl' = stepControl \ {"EXECUTE_HOLD"}
        /\ UNCHANGED <<state, queue, segs, timer, lost>>
     \/ /\ state \notin {"HOLD", "DOOR", "SLEEP"} \/ softLimit \/ "JOG_CANCEL" \in suspend
        /\ IF "JOG_CANCEL" \in suspend
           THEN stepControl' = {} /\ DropMotion
           ELSE UNCHANGED <<stepControl, queue, segs, timer, lost>>
        /\ IF "DOOR_AJAR" \in suspend
           THEN /\ suspend' = (suspend \ {"JOG_CANCEL"}) \cup {"HOLD_COMPLETE"}
                /\ state' = "DOOR"
           ELSE suspend' = {} /\ state' = "IDLE"
  /\ Goto("clearStop")
  /\ UNCHANGED <<abort, softLimit, spindleStop, flagVars, probing, monitor, spinVars,
                 rtExec, line, hostVars, resumeAsked>>

ClearStop == At("clearStop") /\ Cleared({"CYCLE_STOP"}) /\ Goto("accessory")

(* The spindle stop override, then the reload of the segment ring.         *)
Accessory ==
  /\ At("accessory")
  /\ execSpindle' = FALSE
  /\ rtExec' = {}                      \* the copy is not used below this point
  /\ spindleStop' =
       IF ~execSpindle \/ state # "HOLD" THEN spindleStop
       ELSE IF spindleStop = {} THEN {"INITIATE"}
       ELSE IF "ENABLED" \in spindleStop THEN spindleStop \cup {"RESTORE"}
       ELSE spindleStop
  /\ IF state \in {"CYCLE", "HOLD", "DOOR", "SLEEP", "JOG"}
     THEN Goto("prep") /\ UNCHANGED restoreOn
     ELSE Return
  /\ UNCHANGED <<state, suspend, stepControl, abort, softLimit, execState, execAlarm,
                 moveVars, spindleOn, modalOn, line, hostVars, ghostVars>>

(* st_prep_buffer, one segment per step: called at the end of              *)
(* protocol_exec_rt_system, by a cycle start and by a jog, the last two    *)
(* followed by st_wake_up. In a hold the deceleration ends within the      *)
(* block (with a segment or, less than a step away, without) or reaches    *)
(* into the next one.                                                      *)
RingOverrun == "END_MOTION" \notin stepControl /\ queue # <<>>   \* mutant: no ring check
CanPrep == "END_MOTION" \notin stepControl /\ queue # <<>> /\ Len(segs) < SegmentSlots
Prepared ==
  \/ pc = "prep" /\ Return
  \/ pc = "startPrep" /\ Goto("startWake") /\ UNCHANGED restoreOn
  \/ pc = "jogPrep" /\ Goto("jogWake") /\ UNCHANGED restoreOn
PushSegment == segs' = Append(segs, Head(queue).on)
TakeSegment ==
  queue' = IF Head(queue).left = 1 THEN Tail(queue)
           ELSE <<[Head(queue) EXCEPT !.left = @ - 1]>> \o Tail(queue)

Prep ==
  /\ monitor = <<>>
  /\ pc \in {"prep", "startPrep", "jogPrep"}
  /\ \/ ~CanPrep /\ Prepared /\ UNCHANGED <<queue, segs, stepControl>>
     \/ /\ CanPrep
        /\ PushSegment /\ TakeSegment
        /\ UNCHANGED <<pc, ret, sus, restoreOn, stepControl>>
     \/ /\ CanPrep /\ HoldOver
        /\ \/ Head(queue).left > 1 /\ PushSegment /\ TakeSegment
           \/ UNCHANGED <<queue, segs>>
        /\ stepControl' = stepControl \cup {"END_MOTION"}
        /\ Prepared
  /\ UNCHANGED <<state, suspend, abort, softLimit, spindleStop, flagVars, timer,
                 probing, monitor, spindleOn, modalOn, rtExec, line, hostVars, ghostVars>>

Wake ==
  /\ \/ At("startWake") /\ Goto("clearStart")
     \/ At("jogWake") /\ Goto("loop")
  /\ timer' = Woken
  /\ UNCHANGED <<sysVars, flagVars, queue, segs, probing, monitor, spinVars, rtExec,
                 line, hostVars, ghostVars>>

-------------------------------------------------------------------------------
(* protocol_exec_rt_suspend                                                *)

DeafToAbort == suspend = {}                 \* mutant: no check for abort
EndsSuspend == suspend = {} \/ abort

LeaveSuspend ==
  /\ At("suspend") /\ EndsSuspend
  /\ pc' = ret /\ sus' = "no"
  /\ UNCHANGED <<sysVars, flagVars, moveVars, spinVars, ret, rtExec, line, hostVars,
                 ghostVars>>

InSuspend == At("suspend") /\ ~EndsSuspend
HoldDone == InSuspend /\ "HOLD_COMPLETE" \in suspend

(* The motion is still decelerating.                                       *)
AwaitHold ==
  /\ InSuspend /\ "HOLD_COMPLETE" \notin suspend
  /\ PollSuspended("suspend")
  /\ UNCHANGED <<sysVars, flagVars, moveVars, spinVars, rtExec, line, hostVars, ghostVars>>

(* Door or sleep: de-energize.                                             *)
Retract ==
  /\ HoldDone /\ state \in {"DOOR", "SLEEP"} /\ "RETRACT_COMPLETE" \notin suspend
  /\ spindleStop' = {}
  /\ spindleOn' = FALSE
  /\ suspend' = (suspend \ {"RESTART_RETRACT"}) \cup {"RETRACT_COMPLETE"}
  /\ PollSuspended("suspend")
  /\ UNCHANGED <<state, stepControl, abort, softLimit, flagVars, moveVars, modalOn,
                 restoreOn, rtExec, line, hostVars, ghostVars>>

(* Sleep: drivers off, poll until reset.                                   *)
FallAsleep ==
  /\ HoldDone /\ state = "SLEEP" /\ "RETRACT_COMPLETE" \in suspend
  /\ spindleOn' = FALSE
  /\ GoIdle
  /\ PollSuspended("sleepSpin")
  /\ UNCHANGED <<sysVars, flagVars, queue, segs, probing, monitor, modalOn, restoreOn,
                 rtExec, line, hostVars, resumeAsked>>

StayAsleep ==
  /\ At("sleepSpin")
  /\ \/ ~abort /\ PollSuspended("sleepSpin")
     \/ abort /\ pc' = ret /\ sus' = "no" /\ UNCHANGED ret
  /\ UNCHANGED <<sysVars, flagVars, moveVars, spinVars, rtExec, line, hostVars, ghostVars>>

(* Door: the switch is not wired in this build and always reads closed.    *)
(* Once asked to restore, re-energize what was on and wait out the spindle *)
(* delay, polling; a door that reopens meanwhile restarts the retract.     *)
ParkedAtDoor ==
  /\ HoldDone /\ state = "DOOR" /\ "RETRACT_COMPLETE" \in suspend
  /\ suspend' = suspend \ {"DOOR_AJAR"}
  /\ \/ /\ "INITIATE_RESTORE" \notin suspend
        /\ PollSuspended("suspend")
        /\ UNCHANGED spindleOn
     \/ /\ "INITIATE_RESTORE" \in suspend
        /\ modalOn /\ "RESTART_RETRACT" \notin suspend
        /\ spindleOn' = restoreOn
        /\ PollSuspended("restored")
     \/ /\ "INITIATE_RESTORE" \in suspend
        /\ ~modalOn \/ "RESTART_RETRACT" \in suspend
        /\ Goto("restored")
        /\ UNCHANGED spindleOn
  /\ UNCHANGED <<state, stepControl, abort, softLimit, spindleStop, flagVars, moveVars,
                 modalOn, restoreOn, rtExec, line, hostVars, ghostVars>>

RestoreDelay ==
  /\ At("restored")
  /\ modalOn /\ "RESTART_RETRACT" \notin suspend /\ ~abort
  /\ PollSuspended("restored")
  /\ UNCHANGED <<sysVars, flagVars, moveVars, spinVars, rtExec, line, hostVars, ghostVars>>

RestoreDone ==
  /\ At("restored")
  /\ IF "RESTART_RETRACT" \in suspend THEN UNCHANGED <<suspend, execState>>
     ELSE /\ suspend' = suspend \cup {"RESTORE_COMPLETE"}
          /\ execState' = execState \cup {"CYCLE_START"}
  /\ PollSuspended("suspend")
  /\ UNCHANGED <<state, stepControl, abort, softLimit, spindleStop, execAlarm,
                 execSpindle, moveVars, spinVars, rtExec, line, hostVars, ghostVars>>

(* Feed hold: manage the spindle stop override.                            *)
ManageSpindle ==
  /\ HoldDone /\ state \notin {"DOOR", "SLEEP"}
  /\ \/ spindleStop = {} /\ UNCHANGED <<spindleStop, spindleOn, execState>>
     \/ /\ "INITIATE" \in spindleStop
        /\ spindleOn' = (spindleOn /\ ~modalOn)
        /\ spindleStop' = IF modalOn THEN {"ENABLED"} ELSE {}
        /\ UNCHANGED execState
     \/ /\ "INITIATE" \notin spindleStop
        /\ spindleStop \cap {"RESTORE", "RESTORE_CYCLE"} # {}
        /\ spindleOn' = IF modalOn THEN restoreOn ELSE spindleOn
        /\ execState' = IF "RESTORE_CYCLE" \in spindleStop
                        THEN execState \cup {"CYCLE_START"} ELSE execState
        /\ spindleStop' = {}
     \/ spindleStop = {"ENABLED"} /\ UNCHANGED <<spindleStop, spindleOn, execState>>
  /\ PollSuspended("suspend")
  /\ UNCHANGED <<state, suspend, stepControl, abort, softLimit, execAlarm, execSpindle,
                 moveVars, modalOn, restoreOn, rtExec, line, hostVars, ghostVars>>

-------------------------------------------------------------------------------
(* main and protocol_main_loop                                             *)

(* Clear struct sys but its state, the probe state and the realtime flags. *)
Boot ==
  /\ At("boot")
  /\ suspend' = {} /\ stepControl' = {} /\ spindleStop' = {}
  /\ abort' = FALSE /\ softLimit' = FALSE
  /\ execState' = {} /\ execAlarm' = "none" /\ execSpindle' = FALSE
  /\ probing' = FALSE
  /\ Goto("reinit")
  /\ UNCHANGED <<state, queue, segs, timer, monitor, spinVars, rtExec, line, hostVars,
                 ghostVars>>

(* gc_init, spindle_init, plan_reset, st_reset.                            *)
Reinit ==
  /\ At("reinit")
  /\ modalOn' = FALSE /\ spindleOn' = FALSE
  /\ DropMotion
  /\ Goto("entry")
  /\ UNCHANGED <<sysVars, flagVars, probing, monitor, restoreOn, rtExec, line,
                 hostVars, resumeAsked>>

Entry ==
  /\ At("entry")
  /\ state' = IF state \in {"ALARM", "SLEEP"} THEN "ALARM" ELSE "IDLE"
  /\ Goto("loop")
  /\ UNCHANGED <<suspend, stepControl, abort, softLimit, spindleStop, flagVars, moveVars,
                 spinVars, rtExec, line, hostVars, ghostVars>>

(* A line is complete: poll, then execute it.                              *)
ReadLine ==
  /\ At("loop") /\ linesLeft > 0
  /\ line' \in Lines
  /\ linesLeft' = linesLeft - 1
  /\ Poll("dispatch")
  /\ UNCHANGED <<sysVars, flagVars, moveVars, spinVars, rtExec, bytesLeft, ghostVars>>

(* Nothing to read: start what is queued, poll.                            *)
NoData ==
  /\ At("loop")
  /\ line' = "none"
  /\ execState' = AutoStarted
  /\ Poll("idle")
  /\ UNCHANGED <<sysVars, execAlarm, execSpindle, moveVars, spinVars, rtExec, hostVars,
                 ghostVars>>

Idle ==
  /\ At("idle")
  /\ Goto(IF abort THEN "boot" ELSE "loop")
  /\ UNCHANGED <<sysVars, flagVars, moveVars, spinVars, rtExec, line, hostVars, ghostVars>>

-------------------------------------------------------------------------------
(* The lines: system_execute_line and gc_execute_line                      *)

AbortLine ==
  /\ At("dispatch") /\ abort
  /\ Goto("boot")
  /\ UNCHANGED <<sysVars, flagVars, moveVars, spinVars, rtExec, line, hostVars, ghostVars>>

Dispatched(l) == At("dispatch") /\ ~abort /\ line = l

(* The line's own state check or the G-code lock does not let it run, check *)
(* mode swallows it, or the spindle is programmed as it is already.         *)
Refuse ==
  /\ At("dispatch") /\ ~abort
  /\ \/ line \in GCode /\ state \in {"ALARM", "JOG"}
     \/ line = "unlock" /\ state # "ALARM"
     \/ line = "sleep" /\ state \notin {"IDLE", "ALARM"}
     \/ line = "check" /\ state \notin {"IDLE", "CHECK"}
     \/ line = "jog" /\ state \notin {"IDLE", "JOG"}
     \/ line \in {"motion", "probe"} /\ state = "CHECK"
     \/ line \in {"spindleOn", "spindleOff"} /\ state # "CHECK" /\ modalOn = (line = "spindleOn")
  /\ Goto("loop")
  /\ UNCHANGED <<sysVars, flagVars, moveVars, spinVars, rtExec, line, hostVars, ghostVars>>

(* $X: the operator takes responsibility for the position.                 *)
Unlock ==
  /\ Dispatched("unlock") /\ state = "ALARM"
  /\ state' = "IDLE"
  /\ lost' = FALSE
  /\ Goto("loop")
  /\ UNCHANGED <<suspend, stepControl, abort, softLimit, spindleStop, flagVars, moveVars,
                 spinVars, rtExec, line, hostVars, resumeAsked>>

(* $SLP                                                                    *)
Sleep ==
  /\ Dispatched("sleep") /\ state \in {"IDLE", "ALARM"}
  /\ execState' = execState \cup {"SLEEP"}
  /\ Goto("loop")
  /\ UNCHANGED <<sysVars, execAlarm, execSpindle, moveVars, spinVars, rtExec, line,
                 hostVars, ghostVars>>

(* $C: enter check mode, or leave it by a reset.                           *)
Check ==
  /\ Dispatched("check")
  /\ \/ /\ state = "IDLE"
        /\ state' = "CHECK"
        /\ UNCHANGED <<execState, execAlarm, spindleOn, timer, lost>>
     \/ state = "CHECK" /\ McReset /\ UNCHANGED state
  /\ Goto("loop")
  /\ UNCHANGED <<suspend, stepControl, abort, softLimit, spindleStop, execSpindle, queue,
                 segs, probing, monitor, modalOn, restoreOn, rtExec, line, hostVars,
                 resumeAsked>>

(* G-code other than motion, in check mode: only the parser state changes. *)
CheckedWord ==
  /\ At("dispatch") /\ ~abort /\ state = "CHECK"
  /\ \/ line = "spindleOn" /\ modalOn' = TRUE
     \/ line = "spindleOff" /\ modalOn' = FALSE
  /\ Goto("loop")
  /\ UNCHANGED <<sysVars, flagVars, moveVars, spindleOn, restoreOn, rtExec, line,
                 hostVars, ghostVars>>

(* G0, G1 and $J=: mc_line.                                                *)
BeginMotion ==
  /\ \/ Dispatched("motion") /\ state \notin {"ALARM", "JOG", "CHECK"}
     \/ Dispatched("jog") /\ state \in {"IDLE", "JOG"}
  /\ Poll("plan")
  /\ UNCHANGED <<sysVars, flagVars, moveVars, spinVars, rtExec, line, hostVars, ghostVars>>

(* Where a planned (or abandoned) motion returns to.                       *)
AfterPlan == CASE line = "jog" -> "jogStart" [] line = "probe" -> "probeGo" [] OTHER -> "loop"

PlanMotion ==
  /\ At("plan")
  /\ \/ /\ abort
        /\ Goto(AfterPlan)
        /\ UNCHANGED <<execState, queue>>
     \/ /\ ~abort /\ Len(queue) >= BlockSlots
        /\ execState' = AutoStarted
        /\ Poll("plan")
        /\ UNCHANGED queue
     \/ /\ ~abort /\ Len(queue) < BlockSlots
        /\ \/ \E n \in 1..BlockSegments :
                queue' = Append(queue, [left |-> n, on |-> modalOn])
           \/ line # "probe" /\ UNCHANGED queue   \* zero length
        /\ Goto(AfterPlan)
        /\ UNCHANGED execState
  /\ UNCHANGED <<sysVars, execAlarm, execSpindle, segs, timer, probing, monitor,
                 spinVars, rtExec, line, hostVars, ghostVars>>

(* jog_execute, after mc_line. An abort does not stop it here.             *)
JogStart ==
  /\ At("jogStart")
  /\ \/ /\ state = "IDLE" /\ queue # <<>>
        /\ state' = "JOG"
        /\ Goto("jogPrep")
     \/ /\ state # "IDLE" \/ queue = <<>>
        /\ Goto("loop")
        /\ UNCHANGED state
  /\ UNCHANGED <<suspend, stepControl, abort, softLimit, spindleStop, flagVars, moveVars,
                 spinVars, rtExec, line, hostVars, ghostVars>>

-------------------------------------------------------------------------------
(* limits_soft_check: a target outside the travel                          *)

SoftLimit ==
  /\ Dispatched("outside") /\ state \notin {"ALARM", "JOG"}
  /\ softLimit' = TRUE
  /\ \/ /\ state = "CYCLE"
        /\ execState' = execState \cup {"FEED_HOLD"}
        /\ Poll("softWait")
     \/ state # "CYCLE" /\ Goto("softAlarm") /\ UNCHANGED execState
  /\ UNCHANGED <<state, suspend, stepControl, abort, spindleStop, execAlarm, execSpindle,
                 moveVars, spinVars, rtExec, line, hostVars, ghostVars>>

SoftWait ==
  /\ At("softWait")
  /\ \/ abort /\ Poll("plan")
     \/ ~abort /\ state # "IDLE" /\ Poll("softWait")
     \/ ~abort /\ state = "IDLE" /\ Goto("softAlarm")
  /\ UNCHANGED <<sysVars, flagVars, moveVars, spinVars, rtExec, line, hostVars, ghostVars>>

(* mc_reset, then the critical alarm over whatever alarm it raised.        *)
SoftAlarm ==
  /\ At("softAlarm")
  /\ execState' = execState \cup {"RESET"}
  /\ execAlarm' = "SOFT_LIMIT"
  /\ spindleOn' = (spindleOn /\ ~FirstReset)
  /\ IF FirstReset /\ InMotionState THEN GoIdle ELSE UNCHANGED <<timer, lost>>
  /\ Poll("plan")
  /\ UNCHANGED <<sysVars, execSpindle, queue, segs, probing, monitor, modalOn, restoreOn,
                 rtExec, line, hostVars, resumeAsked>>

-------------------------------------------------------------------------------
(* protocol_buffer_synchronize and its callers                             *)

BeginSync ==
  /\ At("dispatch") /\ ~abort
  /\ \/ /\ line \in {"probe", "spindleOn", "spindleOff"} /\ state \notin {"ALARM", "JOG", "CHECK"}
        /\ line = "spindleOff" => modalOn
     \/ line = "pause" /\ state \notin {"ALARM", "JOG"}
  /\ execState' = AutoStarted
  /\ Poll("sync")
  /\ UNCHANGED <<sysVars, execAlarm, execSpindle, moveVars, spinVars, rtExec, line,
                 hostVars, ghostVars>>

Synced == At("sync") /\ (abort \/ (queue = <<>> /\ state # "CYCLE"))

AwaitSync ==
  /\ At("sync") /\ ~abort
  /\ queue # <<>> \/ state = "CYCLE"
  /\ Poll("sync")
  /\ UNCHANGED <<sysVars, flagVars, moveVars, spinVars, rtExec, line, hostVars, ghostVars>>

(* spindle_set_state is blocked by an abort; the parser state is not.      *)
SpindleSync ==
  /\ Synced /\ line \in {"spindleOn", "spindleOff"}
  /\ modalOn' = (line = "spindleOn")
  /\ spindleOn' = IF abort THEN spindleOn ELSE line = "spindleOn"
  /\ Goto("loop")
  /\ UNCHANGED <<sysVars, flagVars, moveVars, restoreOn, rtExec, line, hostVars, ghostVars>>

(* M0 pauses by a feed hold, which it executes at once.                    *)
Pause ==
  /\ Synced /\ line = "pause"
  /\ \/ /\ state # "CHECK"
        /\ execState' = execState \cup {"FEED_HOLD"}
        /\ Poll("loop")
     \/ state = "CHECK" /\ Goto("loop") /\ UNCHANGED execState
  /\ UNCHANGED <<sysVars, execAlarm, execSpindle, moveVars, spinVars, rtExec, line,
                 hostVars, ghostVars>>

-------------------------------------------------------------------------------
(* mc_probe_cycle, after its synchronization                               *)

ProbeStart ==
  /\ Synced /\ line = "probe"
  /\ \/ abort /\ Goto("loop") /\ UNCHANGED execAlarm
     \/ /\ ~abort                          \* the probe is already triggered
        /\ execAlarm' = "PROBE_FAIL"
        /\ Poll("loop")
     \/ ~abort /\ Poll("plan") /\ UNCHANGED execAlarm
  /\ UNCHANGED <<sysVars, execState, execSpindle, moveVars, spinVars, rtExec, line,
                 hostVars, ghostVars>>

ProbeGo ==
  /\ At("probeGo")
  /\ probing' = TRUE
  /\ execState' = execState \cup {"CYCLE_START"}
  /\ Poll("probeWait")
  /\ UNCHANGED <<sysVars, execAlarm, execSpindle, queue, segs, timer, monitor, spinVars,
                 rtExec, line, hostVars, ghostVars>>

(* Without contact the cycle raises an alarm, unless it is a no-error one. *)
ProbeWait ==
  /\ At("probeWait")
  /\ \/ abort /\ Goto("loop") /\ UNCHANGED <<execAlarm, probing>>
     \/ ~abort /\ state # "IDLE" /\ Poll("probeWait") /\ UNCHANGED <<execAlarm, probing>>
     \/ /\ ~abort /\ state = "IDLE"
        /\ \/ probing /\ execAlarm' = "PROBE_FAIL"
           \/ UNCHANGED execAlarm
        /\ probing' = FALSE
        /\ Poll("probeEnd")
  /\ UNCHANGED <<sysVars, execState, execSpindle, queue, segs, timer, monitor, spinVars,
                 rtExec, line, hostVars, ghostVars>>

(* st_reset and plan_reset drop the rest of the probe motion.              *)
ProbeEnd ==
  /\ At("probeEnd")
  /\ DropMotion
  /\ Goto("loop")
  /\ UNCHANGED <<sysVars, flagVars, probing, monitor, spinVars, rtExec, line, hostVars,
                 resumeAsked>>

-------------------------------------------------------------------------------
(* Interrupts                                                              *)

(* A realtime byte from the host, or the control pin with the same meaning.*)
RxReset ==
  /\ McReset
  /\ UNCHANGED <<execSpindle, resumeAsked>>
RxFlag(f) ==
  /\ execState' = execState \cup {f}
  /\ resumeAsked' = (resumeAsked \/ f = "CYCLE_START")
  /\ UNCHANGED <<execAlarm, execSpindle, spindleOn, timer, lost>>
RxSpindleStop ==
  /\ execSpindle' = TRUE
  /\ UNCHANGED <<execState, execAlarm, spindleOn, timer, lost, resumeAsked>>

Rx(b) ==
  /\ bytesLeft > 0
  /\ bytesLeft' = bytesLeft - 1
  /\ \/ b = "reset" /\ RxReset
     \/ b = "start" /\ RxFlag("CYCLE_START")
     \/ b = "hold" /\ RxFlag("FEED_HOLD")
     \/ b = "door" /\ RxFlag("SAFETY_DOOR")
     \/ b = "jogCancel" /\ state = "JOG" /\ RxFlag("MOTION_CANCEL")
     \/ b = "spindleStop" /\ RxSpindleStop
  /\ UNCHANGED <<sysVars, queue, segs, probing, monitor, modalOn, restoreOn, ctlVars,
                 linesLeft>>

(* The stepper interrupt executes a segment, setting the spindle as it     *)
(* loads it, or finds the ring empty, shuts down and flags the cycle end.  *)
SegmentDone ==
  /\ timer # "off" /\ segs # <<>> /\ monitor = <<>>
  /\ timer' = "stepping"
  /\ spindleOn' = Head(segs)
  /\ segs' = Tail(segs)
  /\ UNCHANGED <<sysVars, flagVars, queue, probing, monitor, modalOn, restoreOn, ctlVars,
                 hostVars, ghostVars>>

RingEmpty ==
  /\ timer # "off" /\ segs = <<>> /\ monitor = <<>>
  /\ timer' = "off"
  /\ execState' = execState \cup {"CYCLE_STOP"}
  /\ UNCHANGED <<sysVars, execAlarm, execSpindle, queue, segs, probing, monitor, spinVars,
                 ctlVars, hostVars, ghostVars>>

(* probe_state_monitor, inside the stepper interrupt with interrupts       *)
(* enabled: its |= on the flags is a read and a later write.               *)
ProbeRead ==
  /\ timer # "off" /\ segs # <<>> /\ probing /\ monitor = <<>>
  /\ probing' = FALSE
  /\ monitor' = <<execState>>
  /\ UNCHANGED <<sysVars, flagVars, queue, segs, timer, spinVars, ctlVars, hostVars,
                 ghostVars>>

ProbeWrite ==
  /\ monitor # <<>>
  /\ execState' = monitor[1] \cup {"MOTION_CANCEL"}
  /\ monitor' = <<>>
  /\ UNCHANGED <<sysVars, execAlarm, execSpindle, queue, segs, timer, probing, spinVars,
                 ctlVars, hostVars, ghostVars>>

-------------------------------------------------------------------------------
Init ==
  /\ state \in {"ALARM", "IDLE"}      \* ALARM at power-up when homing is enabled
  /\ suspend = {} /\ stepControl = {} /\ spindleStop = {}
  /\ abort = FALSE /\ softLimit = FALSE
  /\ execState = {} /\ execAlarm = "none" /\ execSpindle = FALSE
  /\ queue = <<>> /\ segs = <<>> /\ timer = "off" /\ probing = FALSE /\ monitor = <<>>
  /\ spindleOn = FALSE /\ modalOn = FALSE /\ restoreOn = FALSE
  /\ pc = "boot" /\ ret = "loop" /\ sus = "no" /\ rtExec = {} /\ line = "none"
  /\ bytesLeft = MaxBytes /\ linesLeft = MaxLines
  /\ lost = FALSE /\ resumeAsked = FALSE

RtSystem == \/ ReadAlarm \/ Critical \/ ClearAlarm \/ Snapshot \/ Hold \/ ClearHold
            \/ Start \/ ClearStart \/ Stop \/ ClearStop \/ Accessory \/ Prep \/ Wake
RtSuspend == \/ LeaveSuspend \/ AwaitHold \/ Retract \/ FallAsleep \/ StayAsleep
             \/ ParkedAtDoor \/ RestoreDelay \/ RestoreDone \/ ManageSpindle
MainLoop == Boot \/ Reinit \/ Entry \/ ReadLine \/ NoData \/ Idle
Execute == \/ AbortLine \/ Refuse \/ Unlock \/ Sleep \/ Check \/ CheckedWord
           \/ BeginMotion \/ PlanMotion \/ JogStart \/ SoftLimit \/ SoftWait \/ SoftAlarm
           \/ BeginSync \/ AwaitSync \/ SpindleSync \/ Pause
           \/ ProbeStart \/ ProbeGo \/ ProbeWait \/ ProbeEnd

Main == RtSystem \/ RtSuspend \/ MainLoop \/ Execute
Stepper == SegmentDone \/ RingEmpty \/ ProbeRead \/ ProbeWrite
Next == Main \/ Stepper \/ \E b \in Bytes : Rx(b)

Spec == Init /\ [][Next]_vars

(* The main program never stops running, an enabled interrupt is taken and *)
(* the restore delay ends. The host need not send anything.                *)
FairSpec == Spec /\ WF_vars(Main) /\ WF_vars(Stepper) /\ SF_vars(RestoreDone)

-------------------------------------------------------------------------------
(* Properties                                                              *)

(* Every variable has a value of its kind; the queue and the segment ring  *)
(* never hold more than their slots.                                       *)
TypeOK ==
  /\ state \in States /\ suspend \subseteq SuspendFlags /\ stepControl \subseteq StepFlags
  /\ abort \in BOOLEAN /\ softLimit \in BOOLEAN /\ spindleStop \subseteq SpindleStopFlags
  /\ execState \subseteq ExecFlags /\ execAlarm \in Alarms /\ execSpindle \in BOOLEAN
  /\ queue \in Seq(Block) /\ Len(queue) <= BlockSlots
  /\ segs \in Seq(BOOLEAN) /\ Len(segs) <= SegmentSlots
  /\ timer \in {"off", "armed", "stepping"} /\ probing \in BOOLEAN
  /\ monitor \in {<<>>} \cup {<<f>> : f \in SUBSET ExecFlags}
  /\ spindleOn \in BOOLEAN /\ modalOn \in BOOLEAN /\ restoreOn \in BOOLEAN
  /\ pc \in MainPoints \cup RtPoints \cup SuspendPoints
  /\ ret \in Tasks /\ sus \in SuspendPoints \cup {"no"}
  /\ rtExec \subseteq ExecFlags /\ line \in LineKinds \cup {"none"}
  /\ bytesLeft \in 0..MaxBytes /\ linesLeft \in 0..MaxLines
  /\ lost \in BOOLEAN /\ resumeAsked \in BOOLEAN

(* mc_reset kills the steppers and raises the alarm only in what it takes  *)
(* for a motion state (motion_control.c:380). So whenever the steppers run *)
(* and no reset is pending yet, the state must tell it so, at whatever     *)
(* instruction of the main program the reset comes in.                     *)
ResetSeesMotion ==
  timer # "off" /\ "RESET" \notin execState /\ pc # "reinit" => InMotionState

(* Whoever waits for the steppers will hear from them: in a cycle, a jog   *)
(* or an incomplete hold either the stepper interrupt is running, or its   *)
(* cycle stop is pending or being handled, or the main program is about to *)
(* start it, or a reset is on its way. (A restore that is resumed before   *)
(* it is over may suspend IDLE, until the cycle start that it raises.)     *)
StopPending == \/ "CYCLE_STOP" \in execState
               \/ "CYCLE_STOP" \in rtExec /\ pc \in {"hold", "clearHold", "start", "clearStart", "stop"}
Decelerating == suspend # {} /\ "HOLD_COMPLETE" \notin suspend
WaitIsAnswered ==
  state \in {"CYCLE", "JOG"} \/ Decelerating =>
    \/ timer # "off"
    \/ StopPending
    \/ pc \in {"startPrep", "startWake", "jogPrep", "jogWake", "boot", "reinit", "entry"}
    \/ "RESET" \in execState \/ execAlarm # "none"
    \/ state = "IDLE" /\ "CYCLE_START" \in execState

(* A hold ends in motion or in IDLE only because the operator asked for it *)
(* after the hold was commanded (protocol.c:332-333), by a reset, or when  *)
(* a soft limit stops the machine; or because a restore that a hold had    *)
(* interrupted, resumed in its second delay, raises its own cycle start.   *)
HoldEndsByOperator ==
  [][state = "HOLD" /\ state' \in {"CYCLE", "IDLE"} =>
       resumeAsked \/ softLimit \/ pc = "entry" \/ "RESTORE_COMPLETE" \in suspend]_vars

(* Unlocking the alarm must not set anything in motion: an alarmed main    *)
(* loop has nothing queued, nothing prepared and the steppers off.         *)
AlarmHoldsNothing ==
  state = "ALARM" /\ pc \in {"loop", "dispatch"} /\ ~abort /\ "RESET" \notin execState =>
    queue = <<>> /\ segs = <<>> /\ timer = "off"

(* Once the door has stopped the machine the spindle stays off until the   *)
(* operator starts the restore.                                            *)
DoorKeepsSpindleOff ==
  state = "DOOR" /\ "RETRACT_COMPLETE" \in suspend /\ "INITIATE_RESTORE" \notin suspend =>
    ~spindleOn

(* A spindle stop override lives within its hold: no cycle starts with one *)
(* requested, in force or half restored, until a soft limit stops the      *)
(* machine: that ends a hold in IDLE with the override still there.        *)
StopOverrideEndsWithHold ==
  [][state # "CYCLE" /\ state' = "CYCLE" => spindleStop' = {} \/ softLimit]_vars

(* A cancelled jog is gone: nothing of it is left to be auto-started.      *)
JogCancelFlushes ==
  [][("JOG_CANCEL" \in suspend /\ "JOG_CANCEL" \notin suspend' /\ pc # "boot")
       => (queue' = <<>> /\ segs' = <<>>)]_vars

(* A pending reset is always honoured: the main program gets back to its   *)
(* initialization, wherever it was waiting, unless a critical alarm that   *)
(* is just being raised takes the reset for its own and asks for another.  *)
ResetHonoured == "RESET" \in execState ~> pc \in {"boot", "critical"}

(* A cycle comes to an end, a jog too, and a feed hold becomes complete.   *)
CycleEnds == state \in {"CYCLE", "JOG"} ~> state \notin {"CYCLE", "JOG"}
HoldCompletes == state = "HOLD" ~> "HOLD_COMPLETE" \in suspend \/ state # "HOLD"

(* Whatever was running when the door opened, its spindle is turned off.   *)
DoorStopsSpindle == state = "DOOR" ~> ~spindleOn \/ state # "DOOR"

(* A probe cycle comes back with a result, by contact, at the end of its   *)
(* travel or by cancellation, unless the operator holds it.                *)
ProbeReturns == pc = "probeWait" ~> pc = "loop" \/ state \in {"HOLD", "DOOR"}

-------------------------------------------------------------------------------
(* What the comments of the code promise and the code does not keep        *)

(* motion_control.c:361-364: a reset in a motion state raises the alarm    *)
(* that flags the position lost. So the main loop never runs unalarmed     *)
(* with a position that was lost and not acknowledged.                     *)
PositionLostIsAlarmed ==
  lost /\ pc = "loop" /\ ~abort /\ "RESET" \notin execState /\ execAlarm = "none" =>
    state \in {"ALARM", "SLEEP"}

(* protocol.c:332-333: an automatic cycle start does not resume a hold     *)
(* without an explicit input of the user. It does if a hold comes in the   *)
(* second delay of a restore that was interrupted by a hold and resumed:   *)
(* the end of that delay raises a cycle start whatever the state is.       *)
HoldNeedsUserInput ==
  [][state = "HOLD" /\ state' = "CYCLE" => resumeAsked]_vars

(* main.c:60-61: only a homing cycle or $X will disable the alarm. (Sleep  *)
(* may cover it; the reset that ends a sleep brings it back.)              *)
AlarmEndsByOperator ==
  [][state = "ALARM" /\ state' # "ALARM" => state' = "SLEEP" \/ pc = "dispatch"]_vars

(* system.h:26-27: a realtime flag notifies the main program to execute    *)
(* its command. So a flag is cleared only after a snapshot has read it, by *)
(* a reset, or by the critical alarm that asks for a new reset.            *)
CommandIsRead ==
  [][\A f \in execState \ execState' : f \in rtExec \/ pc = "boot" \/ execAlarm = "SOFT_LIMIT"]_vars
===============================================================================
