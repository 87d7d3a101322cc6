---------------------------- MODULE RealtimeProofs ----------------------------
(* Theorems about Realtime, for every value of its constants.              *)
EXTENDS Realtime, TLAPS

Points == MainPoints \cup RtPoints \cup SuspendPoints

(* The first block of a queue that is not empty is a block.                *)
LEMMA HeadBlock ==
  ASSUME TypeOK, queue # <<>>
  PROVE  /\ Head(queue) \in Block /\ Head(queue).on \in BOOLEAN
         /\ Head(queue).left \in 1..BlockSegments
<1>1. Head(queue) \in Block BY DEF TypeOK
<1> QED BY <1>1 DEF Block

(* Returning from protocol_exec_rt_system leads to a point of the program. *)
LEMMA ReturnType ==
  ASSUME TypeOK, Return
  PROVE  pc' \in Points /\ ret' = ret /\ sus' = sus /\ restoreOn' \in BOOLEAN
<1>1. CASE sus # "no" BY <1>1 DEF TypeOK, Return, Points
<1>2. CASE sus = "no" /\ suspend # {}
  BY <1>2, HeadBlock DEF TypeOK, Return, Points, SuspendPoints
<1>3. CASE sus = "no" /\ suspend = {}
  BY <1>3 DEF TypeOK, Return, Points, MainPoints
<1> QED BY <1>1, <1>2, <1>3

(* Stopping the timer, alone or with both buffers dropped, keeps the types. *)
LEMMA GoIdleType ==
  ASSUME TypeOK, GoIdle
  PROVE  timer' \in {"off", "armed", "stepping"} /\ lost' \in BOOLEAN
BY DEF GoIdle

LEMMA DropMotionType ==
  ASSUME TypeOK, DropMotion
  PROVE  /\ queue' \in Seq(Block) /\ Len(queue') <= BlockSlots
         /\ segs' \in Seq(BOOLEAN) /\ Len(segs') <= SegmentSlots
         /\ timer' \in {"off", "armed", "stepping"} /\ lost' \in BOOLEAN
<1>1. <<>> \in Seq(Block) /\ <<>> \in Seq(BOOLEAN) /\ Len(<<>>) = 0 OBVIOUS
<1> QED BY <1>1, GoIdleType, RealtimeAssumption DEF DropMotion

LEMMA PrepType == TypeOK /\ Prep => TypeOK'
<1> SUFFICES ASSUME TypeOK, Prep PROVE TypeOK' OBVIOUS
<1> USE RealtimeAssumption
<1>1. /\ pc' \in Points /\ ret' = ret /\ sus' = sus /\ restoreOn' \in BOOLEAN
  BY ReturnType DEF Prep, Prepared, Goto, TypeOK, Points, RtPoints, MainPoints
<1>2. stepControl' \subseteq StepFlags
  BY DEF Prep, TypeOK, StepFlags
<1>3. ASSUME CanPrep, PushSegment PROVE segs' \in Seq(BOOLEAN) /\ Len(segs') <= SegmentSlots
  BY <1>3, HeadBlock DEF CanPrep, PushSegment, TypeOK
<1>4. ASSUME CanPrep, TakeSegment PROVE queue' \in Seq(Block) /\ Len(queue') <= BlockSlots
  <2>1. CASE Head(queue).left = 1
    BY <2>1, <1>4 DEF CanPrep, TakeSegment, TypeOK
  <2>2. CASE Head(queue).left # 1
    <3> DEFINE b == [Head(queue) EXCEPT !.left = @ - 1]
    <3>1. b \in Block
      BY <2>2, <1>4, HeadBlock DEF CanPrep, Block
    <3>2. queue' = <<b>> \o Tail(queue)
      BY <2>2, <1>4 DEF TakeSegment
    <3>3. <<b>> \in Seq(Block) /\ Tail(queue) \in Seq(Block) /\ Len(Tail(queue)) = Len(queue) - 1
      BY <3>1, <1>4 DEF CanPrep, TypeOK
    <3> HIDE DEF b
    <3> QED BY <3>2, <3>3 DEF TypeOK
  <2> QED BY <2>1, <2>2
<1>5. /\ queue' \in Seq(Block) /\ Len(queue') <= BlockSlots
      /\ segs' \in Seq(BOOLEAN) /\ Len(segs') <= SegmentSlots
  BY <1>3, <1>4 DEF Prep, TypeOK
<1> QED
  BY <1>1, <1>2, <1>5 DEF Prep, TypeOK, Points, flagVars, hostVars, ghostVars

(* Each part of the main program, and each interrupt, keeps every variable *)
(* within its type and both buffers within their slots.                    *)
LEMMA RtSystemType == TypeOK /\ RtSystem => TypeOK'
<1> SUFFICES ASSUME TypeOK, RtSystem PROVE TypeOK' OBVIOUS
<1> USE DEF TypeOK, At, Goto, MainPoints, RtPoints, Tasks, SuspendPoints,
            sysVars, flagVars, moveVars, spinVars, hostVars, ghostVars
<1>1. CASE ReadAlarm BY <1>1 DEF ReadAlarm, States
<1>2. CASE Critical BY <1>2 DEF Critical
<1>3. CASE ClearAlarm BY <1>3 DEF ClearAlarm, Alarms
<1>4. CASE Snapshot
  <2>1. pc' \in Points /\ ret' = ret /\ sus' = sus /\ restoreOn' \in BOOLEAN
    BY <1>4, ReturnType DEF Snapshot, HoldOn, StartOn, StopOn, Points
  <2>2. resumeAsked' \in BOOLEAN /\ abort' \in BOOLEAN
    BY <1>4 DEF Snapshot
  <2> QED BY <1>4, <2>1, <2>2 DEF Snapshot, Points
<1>5. CASE Hold BY <1>5 DEF Hold, Reopened, States, SuspendFlags, StepFlags
<1>6. CASE ClearHold BY <1>6 DEF ClearHold, Cleared, StartOn, StopOn
<1>7. CASE Start
  <2>1. /\ state' \in States /\ suspend' \subseteq SuspendFlags /\ stepControl' \subseteq StepFlags
        /\ spindleStop' \subseteq SpindleStopFlags /\ pc' \in Points
    BY <1>7 DEF Start, Resumes, States, SuspendFlags, SpindleStopFlags, Points
  <2>2. ret' = ret /\ sus' = sus
    BY <1>7 DEF Start, Resumes
  <2> QED BY <1>7, <2>1, <2>2 DEF Start, Points
<1>8. CASE ClearStart BY <1>8 DEF ClearStart, Cleared, StopOn
<1>9. CASE Stop
  <2>1. /\ queue' \in Seq(Block) /\ Len(queue') <= BlockSlots
        /\ segs' \in Seq(BOOLEAN) /\ Len(segs') <= SegmentSlots
        /\ timer' \in {"off", "armed", "stepping"} /\ lost' \in BOOLEAN
    BY <1>9, DropMotionType DEF Stop
  <2>2. state' \in States /\ suspend' \subseteq SuspendFlags /\ stepControl' \subseteq StepFlags
    BY <1>9 DEF Stop, States, SuspendFlags
  <2> QED BY <1>9, <2>1, <2>2 DEF Stop
<1>10. CASE ClearStop BY <1>10 DEF ClearStop, Cleared
<1>11. CASE Accessory
  <2>1. pc' \in Points /\ ret' = ret /\ sus' = sus /\ restoreOn' \in BOOLEAN
    BY <1>11, ReturnType DEF Accessory, Points
  <2>2. spindleStop' \subseteq SpindleStopFlags
    BY <1>11 DEF Accessory, SpindleStopFlags
  <2>3. rtExec' \subseteq ExecFlags /\ execSpindle' \in BOOLEAN
    BY <1>11 DEF Accessory
  <2> QED BY <1>11, <2>1, <2>2, <2>3 DEF Accessory, Points
<1>12. CASE Prep BY <1>12, PrepType
<1>13. CASE Wake BY <1>13 DEF Wake, Woken
<1> QED BY <1>1, <1>2, <1>3, <1>4, <1>5, <1>6, <1>7, <1>8, <1>9, <1>10, <1>11, <1>12, <1>13
        DEF RtSystem

LEMMA RtSuspendType == TypeOK /\ RtSuspend => TypeOK'
<1> SUFFICES ASSUME TypeOK, RtSuspend PROVE TypeOK' OBVIOUS
<1> USE DEF TypeOK, At, Goto, PollSuspended, InSuspend, HoldDone, MainPoints, RtPoints,
            Tasks, SuspendPoints, sysVars, flagVars, moveVars, spinVars, hostVars, ghostVars
<1>1. CASE LeaveSuspend BY <1>1 DEF LeaveSuspend
<1>2. CASE AwaitHold BY <1>2 DEF AwaitHold
<1>3. CASE Retract
  <2>1. spindleOn' \in BOOLEAN BY <1>3 DEF Retract
  <2>2. suspend' \subseteq SuspendFlags BY <1>3 DEF Retract, SuspendFlags
  <2> QED BY <1>3, <2>1, <2>2 DEF Retract
<1>4. CASE FallAsleep
  <2>1. spindleOn' \in BOOLEAN BY <1>4 DEF FallAsleep
  <2>2. timer' \in {"off", "armed", "stepping"} /\ lost' \in BOOLEAN
    BY <1>4, GoIdleType DEF FallAsleep
  <2> QED BY <1>4, <2>1, <2>2 DEF FallAsleep
<1>5. CASE StayAsleep BY <1>5 DEF StayAsleep
<1>6. CASE ParkedAtDoor BY <1>6 DEF ParkedAtDoor
<1>7. CASE RestoreDone
  <2>1. suspend' \subseteq SuspendFlags /\ execState' \subseteq ExecFlags
    BY <1>7 DEF RestoreDone, SuspendFlags, ExecFlags
  <2> QED BY <1>7, <2>1 DEF RestoreDone
<1>8. CASE ManageSpindle
  <2>1. spindleOn' \in BOOLEAN BY <1>8 DEF ManageSpindle
  <2>2. spindleStop' \subseteq SpindleStopFlags /\ execState' \subseteq ExecFlags
    BY <1>8 DEF ManageSpindle, SpindleStopFlags, ExecFlags
  <2> QED BY <1>8, <2>1, <2>2 DEF ManageSpindle
<1>9. CASE RestoreDelay BY <1>9 DEF RestoreDelay
<1> QED BY <1>1, <1>2, <1>3, <1>4, <1>5, <1>6, <1>7, <1>8, <1>9 DEF RtSuspend

LEMMA MainLoopType == TypeOK /\ MainLoop => TypeOK'
<1> SUFFICES ASSUME TypeOK, MainLoop PROVE TypeOK' OBVIOUS
<1> USE DEF TypeOK, At, Goto, Poll, MainPoints, RtPoints,
            Tasks, SuspendPoints, sysVars, flagVars, moveVars, spinVars, hostVars, ghostVars
<1>1. CASE Boot
  <2>1. /\ abort' \in BOOLEAN /\ softLimit' \in BOOLEAN
        /\ execSpindle' \in BOOLEAN /\ probing' \in BOOLEAN
    BY <1>1 DEF Boot
  <2> QED BY <1>1, <2>1 DEF Boot, Alarms
<1>2. CASE Reinit
  <2>1. modalOn' \in BOOLEAN /\ spindleOn' \in BOOLEAN BY <1>2 DEF Reinit
  <2>2. /\ queue' \in Seq(Block) /\ Len(queue') <= BlockSlots
        /\ segs' \in Seq(BOOLEAN) /\ Len(segs') <= SegmentSlots
        /\ timer' \in {"off", "armed", "stepping"} /\ lost' \in BOOLEAN
    BY <1>2, DropMotionType DEF Reinit
  <2> QED BY <1>2, <2>1, <2>2 DEF Reinit
<1>3. CASE Entry BY <1>3 DEF Entry, States
<1>4. CASE ReadLine BY <1>4, RealtimeAssumption DEF ReadLine
<1>5. CASE NoData BY <1>5 DEF NoData, AutoStarted, ExecFlags
<1>6. CASE Idle BY <1>6 DEF Idle
<1> QED BY <1>1, <1>2, <1>3, <1>4, <1>5, <1>6 DEF MainLoop

(* mc_reset, wherever it is called from.                                   *)
LEMMA McResetType ==
  ASSUME TypeOK, McReset
  PROVE  /\ execState' \subseteq ExecFlags /\ execAlarm' \in Alarms
         /\ spindleOn' \in BOOLEAN
         /\ timer' \in {"off", "armed", "stepping"} /\ lost' \in BOOLEAN
<1>1. CASE ~FirstReset BY <1>1 DEF McReset, TypeOK
<1>2. CASE FirstReset
  BY <1>2, GoIdleType DEF McReset, TypeOK, ExecFlags, Alarms
<1> QED BY <1>1, <1>2

(* A motion is planned only into a free slot of the queue.                 *)
LEMMA PlanMotionType == TypeOK /\ PlanMotion => TypeOK'
<1> SUFFICES ASSUME TypeOK, PlanMotion PROVE TypeOK' OBVIOUS
<1>1. queue' \in Seq(Block) /\ Len(queue') <= BlockSlots
  <2>1. CASE UNCHANGED queue BY <2>1 DEF TypeOK
  <2>2. ASSUME NEW b, b \in Block, Len(queue) < BlockSlots, queue' = Append(queue, b)
        PROVE  queue' \in Seq(Block) /\ Len(queue') <= BlockSlots
    BY <2>2, RealtimeAssumption DEF TypeOK
  <2>3. ASSUME NEW n \in 1..BlockSegments PROVE [left |-> n, on |-> modalOn] \in Block
    BY DEF TypeOK, Block
  <2>4. \/ UNCHANGED queue
        \/ /\ Len(queue) < BlockSlots
           /\ \E n \in 1..BlockSegments : queue' = Append(queue, [left |-> n, on |-> modalOn])
    BY DEF PlanMotion
  <2> QED BY <2>1, <2>2, <2>3, <2>4
<1>2. pc' \in Points /\ ret' \in Tasks /\ sus' \in SuspendPoints \cup {"no"}
  BY DEF PlanMotion, AfterPlan, Goto, Poll, Points, MainPoints, RtPoints, Tasks, TypeOK
<1>3. execState' \subseteq ExecFlags
  BY DEF PlanMotion, AutoStarted, ExecFlags, TypeOK
<1> QED
  BY <1>1, <1>2, <1>3 DEF PlanMotion, TypeOK, Points, sysVars, spinVars, hostVars, ghostVars

LEMMA ExecuteType == TypeOK /\ Execute => TypeOK'
<1> SUFFICES ASSUME TypeOK, Execute PROVE TypeOK' OBVIOUS
<1> USE DEF TypeOK, At, Goto, Poll, Dispatched, Synced, MainPoints, RtPoints,
            Tasks, SuspendPoints, sysVars, flagVars, moveVars, spinVars, hostVars, ghostVars
<1>1. CASE AbortLine BY <1>1 DEF AbortLine
<1>2. CASE Refuse BY <1>2 DEF Refuse
<1>3. CASE Unlock
  <2>1. lost' \in BOOLEAN BY <1>3 DEF Unlock
  <2> QED BY <1>3, <2>1 DEF Unlock, States
<1>4. CASE Sleep BY <1>4 DEF Sleep, ExecFlags, HoldFlags
<1>5. CASE Check
  <2>1. /\ execState' \subseteq ExecFlags /\ execAlarm' \in Alarms
        /\ spindleOn' \in BOOLEAN
        /\ timer' \in {"off", "armed", "stepping"} /\ lost' \in BOOLEAN
    BY <1>5, McResetType DEF Check
  <2> QED BY <1>5, <2>1 DEF Check, States
<1>6. CASE CheckedWord
  <2>1. modalOn' \in BOOLEAN BY <1>6 DEF CheckedWord
  <2> QED BY <1>6, <2>1 DEF CheckedWord
<1>7. CASE BeginMotion BY <1>7 DEF BeginMotion
<1>8. CASE PlanMotion BY <1>8, PlanMotionType
<1>9. CASE JogStart BY <1>9 DEF JogStart, States
<1>10. CASE SoftLimit
  <2>1. softLimit' \in BOOLEAN /\ execState' \subseteq ExecFlags
    BY <1>10 DEF SoftLimit, ExecFlags, HoldFlags
  <2> QED BY <1>10, <2>1 DEF SoftLimit
<1>11. CASE SoftWait BY <1>11 DEF SoftWait
<1>12. CASE SoftAlarm
  <2>1. timer' \in {"off", "armed", "stepping"} /\ lost' \in BOOLEAN
    BY <1>12, GoIdleType DEF SoftAlarm
  <2>2. spindleOn' \in BOOLEAN BY <1>12 DEF SoftAlarm
  <2> QED BY <1>12, <2>1, <2>2 DEF SoftAlarm, ExecFlags, Alarms
<1>13. CASE BeginSync BY <1>13 DEF BeginSync, AutoStarted, ExecFlags
<1>14. CASE AwaitSync BY <1>14 DEF AwaitSync
<1>15. CASE SpindleSync
  <2>1. modalOn' \in BOOLEAN /\ spindleOn' \in BOOLEAN BY <1>15 DEF SpindleSync
  <2> QED BY <1>15, <2>1 DEF SpindleSync
<1>16. CASE Pause BY <1>16 DEF Pause, ExecFlags, HoldFlags
<1>17. CASE ProbeStart BY <1>17 DEF ProbeStart, Alarms
<1>18. CASE ProbeGo BY <1>18 DEF ProbeGo, ExecFlags
<1>19. CASE ProbeWait
  <2>1. probing' \in BOOLEAN /\ execAlarm' \in Alarms BY <1>19 DEF ProbeWait, Alarms
  <2> QED BY <1>19, <2>1 DEF ProbeWait
<1>20. CASE ProbeEnd BY <1>20, DropMotionType DEF ProbeEnd
<1> QED BY <1>1, <1>2, <1>3, <1>4, <1>5, <1>6, <1>7, <1>8, <1>9, <1>10, <1>11, <1>12,
           <1>13, <1>14, <1>15, <1>16, <1>17, <1>18, <1>19, <1>20 DEF Execute

LEMMA InterruptType ==
  ASSUME TypeOK, Stepper \/ \E b \in Bytes : Rx(b)
  PROVE  TypeOK'
<1> USE DEF TypeOK, sysVars, flagVars, spinVars, ctlVars, hostVars, ghostVars
<1>1. CASE SegmentDone
  <2>1. /\ spindleOn' \in BOOLEAN
        /\ segs' \in Seq(BOOLEAN) /\ Len(segs') <= SegmentSlots
    BY <1>1, RealtimeAssumption DEF SegmentDone
  <2> QED BY <1>1, <2>1 DEF SegmentDone
<1>2. CASE RingEmpty BY <1>2 DEF RingEmpty, ExecFlags
<1>3. CASE ProbeRead
  <2>1. probing' \in BOOLEAN BY <1>3 DEF ProbeRead
  <2>2. monitor' \in {<<f>> : f \in SUBSET ExecFlags} BY <1>3 DEF ProbeRead
  <2> QED BY <1>3, <2>1, <2>2 DEF ProbeRead
<1>4. CASE ProbeWrite
  <2>1. PICK f \in SUBSET ExecFlags : monitor = <<f>> BY <1>4 DEF ProbeWrite
  <2>2. execState' = f \cup {"MOTION_CANCEL"} BY <1>4, <2>1 DEF ProbeWrite
  <2>3. execState' \subseteq ExecFlags BY <2>2 DEF ExecFlags, HoldFlags
  <2> QED BY <1>4, <2>3 DEF ProbeWrite
<1>5. ASSUME NEW b \in Bytes, Rx(b) PROVE TypeOK'
  <2> DEFINE Types ==
        /\ execState' \subseteq ExecFlags /\ execAlarm' \in Alarms /\ execSpindle' \in BOOLEAN
        /\ spindleOn' \in BOOLEAN /\ resumeAsked' \in BOOLEAN
        /\ timer' \in {"off", "armed", "stepping"} /\ lost' \in BOOLEAN
  <2>1. Types
    <3>1. CASE RxReset BY <3>1, McResetType DEF RxReset
    <3>2. ASSUME NEW f \in ExecFlags, RxFlag(f) PROVE Types
      BY <3>2 DEF RxFlag
    <3>3. CASE RxSpindleStop BY <3>3 DEF RxSpindleStop
    <3>4. \/ RxReset \/ RxSpindleStop \/ \E f \in ExecFlags : RxFlag(f)
      BY <1>5 DEF Rx, ExecFlags, HoldFlags
    <3>5. CASE \E f \in ExecFlags : RxFlag(f)
      <4>1. PICK f \in ExecFlags : RxFlag(f) BY <3>5
      <4> QED BY <3>2, <4>1
    <3> QED BY <3>1, <3>3, <3>4, <3>5
  <2>2. bytesLeft' \in 0..MaxBytes BY <1>5, RealtimeAssumption DEF Rx
  <2> QED BY <1>5, <2>1, <2>2 DEF Rx
<1> QED BY <1>1, <1>2, <1>3, <1>4, <1>5 DEF Stepper

LEMMA TypeStep == TypeOK /\ [Next]_vars => TypeOK'
<1> SUFFICES ASSUME TypeOK, [Next]_vars PROVE TypeOK' OBVIOUS
<1>1. CASE Main BY <1>1, RtSystemType, RtSuspendType, MainLoopType, ExecuteType DEF Main
<1>2. CASE Stepper \/ \E b \in Bytes : Rx(b) BY <1>2, InterruptType
<1>3. CASE UNCHANGED vars
  BY <1>3 DEF TypeOK, vars, sysVars, flagVars, moveVars, spinVars, ctlVars, hostVars, ghostVars
<1> QED BY <1>1, <1>2, <1>3 DEF Next

(* Every variable keeps its type; neither the planner queue nor the        *)
(* segment ring is ever filled beyond its slots, whatever their sizes,     *)
(* whatever the host sends and wherever the interrupts come.               *)
THEOREM TypeCorrect == Spec => []TypeOK
<1>1. Init => TypeOK
  <2> SUFFICES ASSUME Init PROVE TypeOK OBVIOUS
  <2>1. /\ queue \in Seq(Block) /\ Len(queue) <= BlockSlots
        /\ segs \in Seq(BOOLEAN) /\ Len(segs) <= SegmentSlots
    BY RealtimeAssumption DEF Init
  <2>2. /\ abort \in BOOLEAN /\ softLimit \in BOOLEAN /\ execSpindle \in BOOLEAN
        /\ probing \in BOOLEAN /\ lost \in BOOLEAN /\ resumeAsked \in BOOLEAN
        /\ spindleOn \in BOOLEAN /\ modalOn \in BOOLEAN /\ restoreOn \in BOOLEAN
    BY DEF Init
  <2>3. bytesLeft \in 0..MaxBytes /\ linesLeft \in 0..MaxLines
    BY RealtimeAssumption DEF Init
  <2> QED BY <2>1, <2>2, <2>3 DEF Init, TypeOK, States, Alarms, MainPoints, Tasks
<1> QED BY <1>1, TypeStep, PTL DEF Spec
-------------------------------------------------------------------------------
(* A cancelled jog is flushed: the invariant that shows it.                *)

InPoll == RtPoints \cup SuspendPoints

(* The task of the main program that is running, or that called the poll.  *)
Task == IF pc \in InPoll THEN ret ELSE pc

Jogging == state = "JOG" \/ "JOG_CANCEL" \in suspend

(* Where the main program is between an abort and the initialization.      *)
Aborting == abort /\ (pc \in {"loop", "boot"} \/ Task \in {"dispatch", "idle"})
ProbeRegion == Task = "probeWait" \/ Aborting

(* The monitor interrupts one poll of a probe cycle, or of its abort. What *)
(* it read is still set when it writes.                                    *)
ProbeApart ==
  /\ probing \/ monitor # <<>> => ProbeRegion /\ ~Jogging
  /\ monitor # <<>> => monitor[1] \subseteq execState

(* No jog while the main program synchronizes, probes or raises an alarm.  *)
JogApart ==
  Jogging => /\ Task \notin {"sync", "softWait", "softAlarm", "probeGo", "probeWait"}
             /\ ~(Task = "plan" /\ line = "probe")

(* A sleep command is executed by the poll that follows its line.          *)
SleepApart ==
  /\ "SLEEP" \in execState =>
       /\ state # "JOG"
       /\ \/ pc \in {"loop", "boot"}
          \/ /\ ret \in {"dispatch", "idle"}
             /\ \/ pc \in {"readAlarm", "critical", "clearAlarm", "snapshot", "hold", "clearHold"}
                \/ abort /\ pc \in SuspendPoints \cup {"dispatch", "idle"}
  /\ pc = "hold" /\ "SLEEP" \in rtExec => state # "JOG"

(* An alarm of the main program's own is handled at once; the alarm of a   *)
(* reset has the reset with it, unless the probe monitor lost it.          *)
AlarmApart ==
  /\ execAlarm \in {"PROBE_FAIL", "SOFT_LIMIT"} =>
       pc \in {"readAlarm", "critical", "clearAlarm"} /\ ~Jogging
  /\ execAlarm = "ABORT_CYCLE" =>
       \/ "RESET" \in execState
       \/ ~Jogging /\ (ProbeRegion \/ (ret = "probeEnd" /\ pc \in {"readAlarm", "clearAlarm"}))

(* A jog that is being cancelled is still a jog, or an alarm with a reset. *)
CancelInJog ==
  /\ "JOG_CANCEL" \in suspend =>
       \/ pc = "boot"
       \/ state = "JOG"
       \/ /\ state = "ALARM" /\ "RESET" \in execState
          /\ pc \in {"readAlarm", "clearAlarm", "snapshot"} \/ (abort /\ pc \in Tasks \cup SuspendPoints)
  /\ pc \in {"reinit", "entry"} => suspend = {}

JogInv == ProbeApart /\ JogApart /\ SleepApart /\ AlarmApart /\ CancelInJog

(* Each part of the main program, each interrupt and each realtime byte    *)
(* preserves JogInv; one lemma per part.                                   *)
LEMMA RtSystemJog == TypeOK /\ JogInv /\ RtSystem => JogInv'
<1> SUFFICES ASSUME TypeOK, JogInv, RtSystem PROVE JogInv' OBVIOUS
<1> /\ pc \in Points /\ ret \in Tasks /\ sus \in SuspendPoints \cup {"no"}
  BY DEF TypeOK, Points
<1> USE DEF JogInv, ProbeApart, JogApart, SleepApart, AlarmApart, CancelInJog, Jogging, ProbeRegion,
            Aborting, Task, InPoll, Points, MainPoints, RtPoints, SuspendPoints, Tasks,
            At, Goto, Poll, PollSuspended, InSuspend, HoldDone, Dispatched, Synced,
            sysVars, flagVars, moveVars, spinVars, ctlVars, hostVars, ghostVars
<1>1. CASE ReadAlarm
  <2>1. execAlarm \in Alarms BY DEF TypeOK
  <2> QED BY <1>1, <2>1 DEF ReadAlarm, Alarms
<1>2. CASE Critical BY <1>2 DEF Critical
<1>3. CASE ClearAlarm BY <1>3 DEF ClearAlarm
<1>4. CASE Snapshot BY <1>4 DEF Snapshot, Return, HoldOn, StartOn, StopOn, HoldFlags
<1>5. CASE Hold BY <1>5 DEF Hold, Reopened, HoldFlags
<1>6. CASE ClearHold BY <1>6 DEF ClearHold, Cleared, StartOn, StopOn, HoldFlags
<1>7. CASE Start BY <1>7 DEF Start, MayStart, Startable, DoorClosed, Restored, Resumes, NoHoldAsked
<1>8. CASE ClearStart BY <1>8 DEF ClearStart, Cleared, StopOn
<1>9. CASE Stop BY <1>9 DEF Stop, DropMotion, GoIdle
<1>10. CASE ClearStop BY <1>10 DEF ClearStop, Cleared
<1>11. CASE Accessory BY <1>11 DEF Accessory, Return
<1>12. CASE Prep BY <1>12 DEF Prep, Prepared, Return
<1>13. CASE Wake BY <1>13 DEF Wake
<1> QED BY <1>1, <1>2, <1>3, <1>4, <1>5, <1>6, <1>7, <1>8, <1>9, <1>10, <1>11, <1>12, <1>13 DEF RtSystem

LEMMA RtSuspendJog == TypeOK /\ JogInv /\ RtSuspend => JogInv'
<1> SUFFICES ASSUME TypeOK, JogInv, RtSuspend PROVE JogInv' OBVIOUS
<1> /\ pc \in Points /\ ret \in Tasks /\ sus \in SuspendPoints \cup {"no"}
  BY DEF TypeOK, Points
<1> USE DEF JogInv, ProbeApart, JogApart, SleepApart, AlarmApart, CancelInJog, Jogging, ProbeRegion,
            Aborting, Task, InPoll, Points, MainPoints, RtPoints, SuspendPoints, Tasks,
            At, Goto, Poll, PollSuspended, InSuspend, HoldDone, Dispatched, Synced,
            sysVars, flagVars, moveVars, spinVars, ctlVars, hostVars, ghostVars
<1>1. CASE LeaveSuspend BY <1>1 DEF LeaveSuspend
<1>2. CASE AwaitHold BY <1>2 DEF AwaitHold
<1>3. CASE Retract BY <1>3 DEF Retract
<1>4. CASE FallAsleep BY <1>4 DEF FallAsleep, GoIdle
<1>5. CASE StayAsleep BY <1>5 DEF StayAsleep
<1>6. CASE ParkedAtDoor BY <1>6 DEF ParkedAtDoor
<1>7. CASE RestoreDone BY <1>7 DEF RestoreDone
<1>8. CASE ManageSpindle BY <1>8 DEF ManageSpindle
<1>9. CASE RestoreDelay BY <1>9 DEF RestoreDelay
<1> QED BY <1>1, <1>2, <1>3, <1>4, <1>5, <1>6, <1>7, <1>8, <1>9 DEF RtSuspend

LEMMA MainLoopJog == TypeOK /\ JogInv /\ MainLoop => JogInv'
<1> SUFFICES ASSUME TypeOK, JogInv, MainLoop PROVE JogInv' OBVIOUS
<1> /\ pc \in Points /\ ret \in Tasks /\ sus \in SuspendPoints \cup {"no"}
  BY DEF TypeOK, Points
<1> USE DEF JogInv, ProbeApart, JogApart, SleepApart, AlarmApart, CancelInJog, Jogging, ProbeRegion,
            Aborting, Task, InPoll, Points, MainPoints, RtPoints, SuspendPoints, Tasks,
            At, Goto, Poll, PollSuspended, InSuspend, HoldDone, Dispatched, Synced,
            sysVars, flagVars, moveVars, spinVars, ctlVars, hostVars, ghostVars
<1>1. CASE Boot BY <1>1 DEF Boot
<1>2. CASE Reinit BY <1>2 DEF Reinit, DropMotion
<1>3. CASE Entry BY <1>3 DEF Entry
<1>4. CASE ReadLine BY <1>4 DEF ReadLine
<1>5. CASE NoData BY <1>5 DEF NoData, AutoStarted
<1>6. CASE Idle BY <1>6 DEF Idle
<1> QED BY <1>1, <1>2, <1>3, <1>4, <1>5, <1>6 DEF MainLoop

LEMMA ExecuteJog == TypeOK /\ JogInv /\ Execute => JogInv'
<1> SUFFICES ASSUME TypeOK, JogInv, Execute PROVE JogInv' OBVIOUS
<1> /\ pc \in Points /\ ret \in Tasks /\ sus \in SuspendPoints \cup {"no"}
  BY DEF TypeOK, Points
<1> USE DEF JogInv, ProbeApart, JogApart, SleepApart, AlarmApart, CancelInJog, Jogging, ProbeRegion,
            Aborting, Task, InPoll, Points, MainPoints, RtPoints, SuspendPoints, Tasks,
            At, Goto, Poll, PollSuspended, InSuspend, HoldDone, Dispatched, Synced,
            sysVars, flagVars, moveVars, spinVars, ctlVars, hostVars, ghostVars
<1>1. CASE AbortLine BY <1>1 DEF AbortLine
<1>2. CASE Refuse BY <1>2 DEF Refuse
<1>3. CASE Unlock BY <1>3 DEF Unlock
<1>4. CASE Sleep BY <1>4 DEF Sleep
<1>5. CASE Check BY <1>5 DEF Check, McReset, FirstReset, InMotionState
<1>6. CASE CheckedWord BY <1>6 DEF CheckedWord
<1>7. CASE BeginMotion BY <1>7 DEF BeginMotion
<1>8. CASE PlanMotion BY <1>8 DEF PlanMotion, AfterPlan, AutoStarted
<1>9. CASE JogStart BY <1>9 DEF JogStart
<1>10. CASE SoftLimit BY <1>10 DEF SoftLimit
<1>11. CASE SoftWait BY <1>11 DEF SoftWait
<1>12. CASE SoftAlarm BY <1>12 DEF SoftAlarm, FirstReset
<1>13. CASE BeginSync BY <1>13 DEF BeginSync, AutoStarted
<1>14. CASE AwaitSync BY <1>14 DEF AwaitSync
<1>15. CASE SpindleSync BY <1>15 DEF SpindleSync
<1>16. CASE Pause BY <1>16 DEF Pause
<1>17. CASE ProbeStart BY <1>17 DEF ProbeStart
<1>18. CASE ProbeGo BY <1>18 DEF ProbeGo
<1>19. CASE ProbeWait BY <1>19 DEF ProbeWait
<1>20. CASE ProbeEnd BY <1>20 DEF ProbeEnd, DropMotion
<1> QED BY <1>1, <1>2, <1>3, <1>4, <1>5, <1>6, <1>7, <1>8, <1>9, <1>10, <1>11, <1>12, <1>13, <1>14, <1>15, <1>16, <1>17, <1>18, <1>19, <1>20 DEF Execute

LEMMA StepperJog == TypeOK /\ JogInv /\ Stepper => JogInv'
<1> SUFFICES ASSUME TypeOK, JogInv, Stepper PROVE JogInv' OBVIOUS
<1> /\ pc \in Points /\ ret \in Tasks /\ sus \in SuspendPoints \cup {"no"}
  BY DEF TypeOK, Points
<1> USE DEF JogInv, ProbeApart, JogApart, SleepApart, AlarmApart, CancelInJog, Jogging, ProbeRegion,
            Aborting, Task, InPoll, Points, MainPoints, RtPoints, SuspendPoints, Tasks,
            At, Goto, Poll, PollSuspended, InSuspend, HoldDone, Dispatched, Synced,
            sysVars, flagVars, moveVars, spinVars, ctlVars, hostVars, ghostVars
<1>1. CASE SegmentDone BY <1>1 DEF SegmentDone
<1>2. CASE RingEmpty BY <1>2 DEF RingEmpty
<1>3. CASE ProbeRead BY <1>3 DEF ProbeRead
<1>4. CASE ProbeWrite BY <1>4 DEF ProbeWrite
<1> QED BY <1>1, <1>2, <1>3, <1>4 DEF Stepper
LEMMA RxJog == ASSUME TypeOK, JogInv, NEW b \in Bytes, Rx(b) PROVE JogInv'
<1> /\ pc' = pc /\ ret' = ret /\ sus' = sus /\ line' = line /\ rtExec' = rtExec
    /\ state' = state /\ suspend' = suspend /\ abort' = abort
    /\ probing' = probing /\ monitor' = monitor
  BY DEF Rx, sysVars, ctlVars
<1>1. /\ execState \subseteq execState'
      /\ "SLEEP" \in execState' => "SLEEP" \in execState
      /\ execAlarm' = execAlarm \/ (execAlarm' = "ABORT_CYCLE" /\ "RESET" \in execState')
  BY DEF Rx, RxReset, RxFlag, RxSpindleStop, McReset, FirstReset
<1> QED
  BY <1>1 DEF JogInv, ProbeApart, JogApart, SleepApart, AlarmApart, CancelInJog, Jogging,
              ProbeRegion, Aborting, Task, InPoll

LEMMA JogStep == TypeOK /\ JogInv /\ [Next]_vars => JogInv'
<1> SUFFICES ASSUME TypeOK, JogInv, [Next]_vars PROVE JogInv' OBVIOUS
<1>1. CASE Main BY <1>1, RtSystemJog, RtSuspendJog, MainLoopJog, ExecuteJog DEF Main
<1>2. CASE Stepper BY <1>2, StepperJog
<1>3. CASE \E b \in Bytes : Rx(b) BY <1>3, RxJog
<1>4. CASE UNCHANGED vars
  BY <1>4 DEF JogInv, ProbeApart, JogApart, SleepApart, AlarmApart, CancelInJog, Jogging,
              ProbeRegion, Aborting, Task, InPoll,
              vars, sysVars, flagVars, moveVars, spinVars, ctlVars, hostVars, ghostVars
<1> QED BY <1>1, <1>2, <1>3, <1>4 DEF Next

(* Whoever executes the jog cancel flag flushes both buffers with it. Only *)
(* three places take flags out of sys.suspend for good: the end of the     *)
(* cycle flushes, and the other two are never reached by a jog.            *)
LEMMA JogFlushed ==
  TypeOK /\ JogInv /\ [Next]_vars =>
    ("JOG_CANCEL" \in suspend /\ "JOG_CANCEL" \notin suspend' /\ pc # "boot"
       => (queue' = <<>> /\ segs' = <<>>))
<1> SUFFICES ASSUME TypeOK, JogInv, [Next]_vars,
                    "JOG_CANCEL" \in suspend, "JOG_CANCEL" \notin suspend', pc # "boot"
             PROVE  queue' = <<>> /\ segs' = <<>>
  OBVIOUS
<1> USE DEF sysVars
<1>1. state \in {"JOG", "ALARM"} /\ (state = "ALARM" => pc # "hold")
  BY DEF JogInv, CancelInJog, Tasks, SuspendPoints
<1>2. CASE RtSystem
  <2>1. CASE Hold BY <1>1, <2>1 DEF Hold, Reopened, At
  <2>2. CASE Start BY <1>1, <2>2 DEF Start, MayStart, Startable, DoorClosed, Restored
  <2>3. CASE Stop BY <2>3 DEF Stop, DropMotion
  <2> QED
    BY <1>2, <2>1, <2>2, <2>3
    DEF RtSystem, ReadAlarm, Critical, ClearAlarm, Snapshot, ClearHold, ClearStart, ClearStop,
        Cleared, Accessory, Prep, Wake
<1>3. CASE RtSuspend
  BY <1>3 DEF RtSuspend, LeaveSuspend, AwaitHold, Retract, FallAsleep, StayAsleep,
              ParkedAtDoor, RestoreDelay, RestoreDone, ManageSpindle
<1>4. CASE MainLoop
  BY <1>4 DEF MainLoop, Boot, At, Reinit, Entry, ReadLine, NoData, Idle
<1>5. CASE Execute
  BY <1>5 DEF Execute, AbortLine, Refuse, Unlock, Sleep, Check, CheckedWord, BeginMotion,
              PlanMotion, JogStart, SoftLimit, SoftWait, SoftAlarm, BeginSync, AwaitSync,
              SpindleSync, Pause, ProbeStart, ProbeGo, ProbeWait, ProbeEnd
<1>6. CASE Stepper \/ (\E b \in Bytes : Rx(b)) \/ UNCHANGED vars
  BY <1>6 DEF Stepper, SegmentDone, RingEmpty, ProbeRead, ProbeWrite, Rx, vars
<1> QED BY <1>2, <1>3, <1>4, <1>5, <1>6 DEF Next, Main

(* A cancelled jog leaves nothing in the planner queue or the segment ring *)
(* that a later cycle start would run.                                     *)
THEOREM JogCancelled == Spec => JogCancelFlushes
<1>1. Init => JogInv
  BY DEF Init, JogInv, ProbeApart, JogApart, SleepApart, AlarmApart, CancelInJog, Jogging
<1> QED BY <1>1, TypeCorrect, JogStep, JogFlushed, PTL DEF Spec, JogCancelFlushes

-------------------------------------------------------------------------------
(* What holds as long as the host does not probe: a reset never overlooks  *)
(* a motion; and holds, doors and alarms end as they should.               *)

(* The main program is on its way to the initialization, or spins in a     *)
(* critical alarm: nothing but a flag or the timer changes any more.       *)
Ending ==
  \/ abort \/ pc \in {"boot", "reinit", "critical"}
  \/ "RESET" \in execState /\ pc \in {"readAlarm", "clearAlarm", "snapshot"}

(* The motion states: a cycle, a jog, or a hold that still decelerates.    *)
Moving ==
  \/ state \in {"CYCLE", "JOG"}
  \/ HoldOver /\ state \in {"HOLD", "DOOR", "SLEEP"} /\ "HOLD_COMPLETE" \notin suspend

(* A cycle stop has been raised and not been executed.                     *)
BeforeStop == {"hold", "clearHold", "start", "startPrep", "startWake", "clearStart", "stop"}
Stopped ==
  \/ "CYCLE_STOP" \in execState /\ pc # "clearStop"
  \/ "CYCLE_STOP" \in rtExec /\ pc \in BeforeStop

(* A cycle stop of a motion that the initialization dropped: the first     *)
(* poll executes it, with nothing queued.                                  *)
Stray ==
  /\ queue = <<>> /\ timer = "off"
  /\ \/ pc \in {"entry", "loop", "readAlarm", "snapshot"}
     \/ pc \in {"hold", "clearHold", "start", "clearStart", "stop"} /\ "CYCLE_STOP" \in rtExec

(* The steppers run, or have just run, only in a motion state.             *)
RunsMoving == ~Ending /\ (timer # "off" \/ Stopped) => Moving \/ Stray

(* The main program starts the timer only after the state that says so,    *)
(* when the interrupt is done with the motion before. A cycle stop means   *)
(* that the interrupt has turned itself off.                               *)
StartsStopped ==
  /\ pc \in {"startPrep", "startWake"} => state = "CYCLE"
  /\ pc \in {"jogPrep", "jogWake"} => state = "JOG"
  /\ ~Ending /\ pc \in {"startPrep", "startWake", "jogPrep", "jogWake"} => timer = "off" /\ ~Stopped
  /\ ~Ending /\ (Stopped \/ pc = "clearStop") => timer = "off"
  /\ pc \in {"stop", "clearStop"} => "CYCLE_STOP" \in rtExec
  /\ pc = "entry" => timer = "off" /\ queue = <<>>

(* With a reset pending the timer runs only if the main program was just   *)
(* about to start it.                                                      *)
RestartedByMain ==
  ~Ending /\ "RESET" \in execState /\ timer # "off" =>
    state \in {"CYCLE", "JOG"} /\ pc \notin {"hold", "clearHold", "start", "startPrep", "startWake"}

(* The places that a reset or a soft limit leads to.                       *)
ResetStays ==
  /\ abort => /\ "RESET" \in execState
              /\ pc \in MainPoints \cup SuspendPoints \cup {"readAlarm", "clearAlarm", "snapshot"}
  /\ pc = "boot" => abort \/ timer = "off"
  /\ pc = "clearAlarm" => "RESET" \in execState
  /\ pc = "critical" => timer = "off"
  /\ execAlarm = "SOFT_LIMIT" => timer = "off" /\ ~abort
  /\ ret # "softAlarm"
  /\ pc = "softAlarm" => ~abort /\ state \notin {"CYCLE", "JOG", "ALARM"}

(* Suspended, the main program stays in the poll; a door that does not     *)
(* stand open has stopped the motion; a motion cancel or a completed hold  *)
(* finds no cycle.                                                         *)
SuspendStays ==
  /\ pc \in MainPoints => suspend = {} \/ abort
  /\ state = "DOOR" /\ pc \notin {"reinit", "entry"} => suspend \cap {"DOOR_AJAR", "HOLD_COMPLETE"} # {}
  /\ suspend \cap {"MOTION_CANCEL", "HOLD_COMPLETE"} # {} => Ending \/ state \notin {"CYCLE", "JOG"}
  /\ "MOTION_CANCEL" \in execState => state # "CYCLE"
  /\ "MOTION_CANCEL" \in rtExec /\ pc = "hold" => state # "CYCLE"
  /\ "MOTION_CANCEL" \in execState /\ pc \in {"hold", "clearHold", "start"} =>
       "MOTION_CANCEL" \in rtExec \/ state = "JOG"

(* The host does not probe.                                                *)
NoProbe ==
  /\ line # "probe" /\ ~probing /\ monitor = <<>> /\ execAlarm # "PROBE_FAIL"
  /\ ret \notin {"probeStart", "probeGo", "probeWait", "probeEnd"}
  /\ pc \notin {"probeStart", "probeGo", "probeWait", "probeEnd"}

ResetInv == /\ NoProbe /\ RunsMoving /\ StartsStopped /\ RestartedByMain /\ ResetStays
            /\ SuspendStays

(* Each part of the program preserves ResetInv; one lemma per part.        *)
LEMMA RtSystemReset ==
  ASSUME "probe" \notin Lines, TypeOK, JogInv, ResetInv, RtSystem PROVE ResetInv'
<1> /\ pc \in Points /\ ret \in Tasks /\ sus \in SuspendPoints \cup {"no"}
  BY DEF TypeOK, Points
<1> USE DEF ResetInv, NoProbe, RunsMoving, StartsStopped, RestartedByMain, ResetStays, SuspendStays,
            Ending, Moving, Stopped, BeforeStop, Stray, HoldOver,
            Points, MainPoints, RtPoints, SuspendPoints, Tasks,
            At, Goto, Poll, PollSuspended, InSuspend, HoldDone, Dispatched, Synced,
            sysVars, flagVars, moveVars, spinVars, ctlVars, hostVars, ghostVars
<1>1. CASE ReadAlarm
  BY <1>1 DEF TypeOK, JogInv, ReadAlarm, AlarmApart, ProbeRegion, Aborting, Task, InPoll, Alarms
<1>2. CASE Critical
  BY <1>2 DEF Critical
<1>3. CASE ClearAlarm
  BY <1>3 DEF ClearAlarm
<1>4. CASE Snapshot
  <2>1. CASE "RESET" \in execState
    BY <1>4, <2>1 DEF Snapshot, Return, JogInv, AlarmApart
  <2>2. CASE "RESET" \notin execState
    <3>1. pc' = HoldOn(execState) /\ pc' \in {"hold", "start", "stop", "accessory"}
      BY <1>4, <2>2 DEF Snapshot, HoldOn, StartOn, StopOn
    <3>2. /\ UNCHANGED <<sysVars, flagVars, moveVars, ret, line, restoreOn>> /\ rtExec' = execState
      BY <1>4, <2>2 DEF Snapshot
    <3>3. "CYCLE_STOP" \in execState => pc' # "accessory"
      BY <3>1 DEF HoldOn, StartOn, StopOn
    <3>4. pc' = "stop" => "CYCLE_STOP" \in execState
      BY <3>1 DEF HoldOn, StartOn, StopOn
    <3>5. Stopped' => Stopped
      BY <1>4, <3>1, <3>2 DEF Snapshot
    <3>6. NoProbe' BY <1>4, <3>1, <3>2
    <3>7. RunsMoving' BY <1>4, <2>2, <3>1, <3>2, <3>3, <3>4, <3>5 DEF Snapshot
    <3>8. StartsStopped' BY <1>4, <2>2, <3>1, <3>2, <3>3, <3>4, <3>5 DEF Snapshot
    <3>9. RestartedByMain' BY <1>4, <2>2, <3>1, <3>2 DEF Snapshot
    <3>10. ResetStays' BY <1>4, <2>2, <3>1, <3>2 DEF Snapshot
    <3>11. SuspendStays' BY <1>4, <2>2, <3>1, <3>2 DEF Snapshot
    <3> QED BY <3>6, <3>7, <3>8, <3>9, <3>10, <3>11
  <2> QED BY <2>1, <2>2
<1>5. CASE Hold
  <2>1. /\ UNCHANGED <<flagVars, moveVars, ret, sus, line, abort, rtExec>>
        /\ pc = "hold" /\ monitor = <<>> /\ pc' = "clearHold"
    BY <1>5 DEF Hold
  <2>2. Stopped' = Stopped BY <2>1
  <2>3. stepControl' = stepControl \/ stepControl' = {"EXECUTE_HOLD"}
    BY <1>5 DEF Hold
  <2>4. state \in {"CYCLE", "JOG"} /\ state' # state => state' \in {"HOLD", "DOOR", "SLEEP"}
    BY <1>5 DEF Hold
  <2>5. Stray => Stray' BY <2>1
  <2>6. state \in {"HOLD", "DOOR", "SLEEP"} => state' \in {"HOLD", "DOOR", "SLEEP"}
    BY <1>5 DEF Hold
  <2>7. ~abort BY <2>1
  <2>13. Moving => Moving'
    BY <1>5, <2>7 DEF Hold, Reopened, HoldFlags, JogInv, SleepApart, CancelInJog
  <2>8. RunsMoving' BY <2>1, <2>2, <2>5, <2>7, <2>13
  <2>9. NoProbe' /\ StartsStopped' BY <2>1, <2>2
  <2>10. RestartedByMain' BY <2>1
  <2>11. ResetStays' BY <2>1
  <2>12. SuspendStays'
    BY <1>5, <2>7 DEF Hold, Reopened, HoldFlags, JogInv, SleepApart, CancelInJog
  <2> QED BY <2>8, <2>9, <2>10, <2>11, <2>12
<1>6. CASE ClearHold
  BY <1>6 DEF ClearHold, Cleared, StartOn, StopOn, HoldFlags
<1>7. CASE Start
  BY <1>7 DEF Start, MayStart, Startable, DoorClosed, Restored, Resumes, NoHoldAsked
<1>8. CASE ClearStart
  BY <1>8 DEF ClearStart, Cleared, StopOn
<1>9. CASE Stop
  BY <1>9 DEF Stop, DropMotion, GoIdle
<1>10. CASE ClearStop
  BY <1>10 DEF ClearStop, Cleared
<1>11. CASE Accessory
  BY <1>11 DEF Accessory, Return
<1>12. CASE Prep
  BY <1>12 DEF Prep, Prepared, Return, CanPrep, TakeSegment
<1>13. CASE Wake
  BY <1>13 DEF JogInv, AlarmApart, Wake, Woken
<1> QED BY <1>1, <1>2, <1>3, <1>4, <1>5, <1>6, <1>7, <1>8, <1>9, <1>10, <1>11, <1>12, <1>13 DEF RtSystem

LEMMA RtSuspendReset ==
  ASSUME "probe" \notin Lines, TypeOK, JogInv, ResetInv, RtSuspend PROVE ResetInv'
<1> /\ pc \in Points /\ ret \in Tasks /\ sus \in SuspendPoints \cup {"no"}
  BY DEF TypeOK, Points
<1> USE DEF ResetInv, NoProbe, RunsMoving, StartsStopped, RestartedByMain, ResetStays, SuspendStays,
            Ending, Moving, Stopped, BeforeStop, Stray, HoldOver,
            Points, MainPoints, RtPoints, SuspendPoints, Tasks,
            At, Goto, Poll, PollSuspended, InSuspend, HoldDone, Dispatched, Synced,
            sysVars, flagVars, moveVars, spinVars, ctlVars, hostVars, ghostVars
<1>1. CASE LeaveSuspend
  BY <1>1 DEF LeaveSuspend, EndsSuspend
<1>2. CASE AwaitHold
  BY <1>2 DEF AwaitHold
<1>3. CASE Retract
  BY <1>3 DEF Retract
<1>4. CASE FallAsleep
  BY <1>4 DEF FallAsleep, GoIdle
<1>5. CASE StayAsleep
  BY <1>5 DEF StayAsleep
<1>6. CASE ParkedAtDoor
  BY <1>6 DEF ParkedAtDoor
<1>7. CASE RestoreDelay
  BY <1>7 DEF RestoreDelay
<1>8. CASE RestoreDone
  BY <1>8 DEF RestoreDone
<1>9. CASE ManageSpindle
  BY <1>9 DEF ManageSpindle
<1> QED BY <1>1, <1>2, <1>3, <1>4, <1>5, <1>6, <1>7, <1>8, <1>9 DEF RtSuspend

LEMMA MainLoopReset ==
  ASSUME "probe" \notin Lines, TypeOK, JogInv, ResetInv, MainLoop PROVE ResetInv'
<1> /\ pc \in Points /\ ret \in Tasks /\ sus \in SuspendPoints \cup {"no"}
  BY DEF TypeOK, Points
<1> USE DEF ResetInv, NoProbe, RunsMoving, StartsStopped, RestartedByMain, ResetStays, SuspendStays,
            Ending, Moving, Stopped, BeforeStop, Stray, HoldOver,
            Points, MainPoints, RtPoints, SuspendPoints, Tasks,
            At, Goto, Poll, PollSuspended, InSuspend, HoldDone, Dispatched, Synced,
            sysVars, flagVars, moveVars, spinVars, ctlVars, hostVars, ghostVars
<1>1. CASE Boot
  BY <1>1 DEF JogInv, Boot, CancelInJog
<1>2. CASE Reinit
  BY <1>2 DEF JogInv, Reinit, DropMotion, GoIdle, CancelInJog
<1>3. CASE Entry
  BY <1>3 DEF JogInv, Entry, CancelInJog
<1>4. CASE ReadLine
  BY <1>4 DEF ReadLine
<1>5. CASE NoData
  BY <1>5 DEF NoData, AutoStarted
<1>6. CASE Idle
  BY <1>6 DEF Idle
<1> QED BY <1>1, <1>2, <1>3, <1>4, <1>5, <1>6 DEF MainLoop

LEMMA ExecuteReset ==
  ASSUME "probe" \notin Lines, TypeOK, JogInv, ResetInv, Execute PROVE ResetInv'
<1> /\ pc \in Points /\ ret \in Tasks /\ sus \in SuspendPoints \cup {"no"}
  BY DEF TypeOK, Points
<1> USE DEF ResetInv, NoProbe, RunsMoving, StartsStopped, RestartedByMain, ResetStays, SuspendStays,
            Ending, Moving, Stopped, BeforeStop, Stray, HoldOver,
            Points, MainPoints, RtPoints, SuspendPoints, Tasks,
            At, Goto, Poll, PollSuspended, InSuspend, HoldDone, Dispatched, Synced,
            sysVars, flagVars, moveVars, spinVars, ctlVars, hostVars, ghostVars
<1>1. CASE AbortLine
  BY <1>1 DEF AbortLine
<1>2. CASE Refuse
  BY <1>2 DEF Refuse
<1>3. CASE Unlock
  BY <1>3 DEF Unlock
<1>4. CASE Sleep
  BY <1>4 DEF Sleep
<1>5. CASE Check
  BY <1>5 DEF Check, McReset, FirstReset, InMotionState, GoIdle
<1>6. CASE CheckedWord
  BY <1>6 DEF CheckedWord
<1>7. CASE BeginMotion
  BY <1>7 DEF BeginMotion
<1>8. CASE PlanMotion
  BY <1>8 DEF PlanMotion, AutoStarted, AfterPlan
<1>9. CASE JogStart
  BY <1>9 DEF JogStart
<1>10. CASE SoftLimit
  BY <1>10 DEF SoftLimit
<1>11. CASE SoftWait
  BY <1>11 DEF SoftWait
<1>12. CASE SoftAlarm
  BY <1>12 DEF SoftAlarm, FirstReset, InMotionState, GoIdle
<1>13. CASE BeginSync
  BY <1>13 DEF BeginSync, AutoStarted
<1>14. CASE AwaitSync
  BY <1>14 DEF AwaitSync
<1>15. CASE SpindleSync
  BY <1>15 DEF SpindleSync
<1>16. CASE Pause
  BY <1>16 DEF Pause
<1>17. CASE ProbeStart
  BY <1>17 DEF ProbeStart
<1>18. CASE ProbeGo
  BY <1>18 DEF ProbeGo
<1>19. CASE ProbeWait
  BY <1>19 DEF ProbeWait
<1>20. CASE ProbeEnd
  BY <1>20 DEF ProbeEnd
<1> QED BY <1>1, <1>2, <1>3, <1>4, <1>5, <1>6, <1>7, <1>8, <1>9, <1>10, <1>11, <1>12, <1>13, <1>14, <1>15, <1>16, <1>17, <1>18, <1>19, <1>20 DEF Execute

LEMMA StepperReset ==
  ASSUME "probe" \notin Lines, TypeOK, JogInv, ResetInv, Stepper PROVE ResetInv'
<1> /\ pc \in Points /\ ret \in Tasks /\ sus \in SuspendPoints \cup {"no"}
  BY DEF TypeOK, Points
<1> USE DEF ResetInv, NoProbe, RunsMoving, StartsStopped, RestartedByMain, ResetStays, SuspendStays,
            Ending, Moving, Stopped, BeforeStop, Stray, HoldOver,
            Points, MainPoints, RtPoints, SuspendPoints, Tasks,
            At, Goto, Poll, PollSuspended, InSuspend, HoldDone, Dispatched, Synced,
            sysVars, flagVars, moveVars, spinVars, ctlVars, hostVars, ghostVars
<1>1. CASE SegmentDone
  BY <1>1 DEF SegmentDone
<1>2. CASE RingEmpty
  BY <1>2 DEF RingEmpty
<1>3. CASE ProbeRead
  BY <1>3 DEF ProbeRead
<1>4. CASE ProbeWrite
  BY <1>4 DEF ProbeWrite
<1> QED BY <1>1, <1>2, <1>3, <1>4 DEF Stepper

LEMMA RxResets ==
  ASSUME TypeOK, JogInv, ResetInv, NEW b \in Bytes, Rx(b) PROVE ResetInv'
<1> /\ pc \in Points /\ ret \in Tasks /\ sus \in SuspendPoints \cup {"no"}
  BY DEF TypeOK, Points
<1> USE DEF ResetInv, NoProbe, RunsMoving, StartsStopped, RestartedByMain, ResetStays, SuspendStays,
            Ending, Moving, Stopped, BeforeStop, Stray, HoldOver,
            Points, MainPoints, RtPoints, SuspendPoints, Tasks,
            At, Goto, Poll, PollSuspended, InSuspend, HoldDone, Dispatched, Synced,
            sysVars, flagVars, moveVars, spinVars, ctlVars, hostVars, ghostVars
<1> QED BY DEF Rx, RxReset, RxFlag, RxSpindleStop, McReset, FirstReset, InMotionState, GoIdle

LEMMA ResetStep ==
  ASSUME "probe" \notin Lines, TypeOK, JogInv, ResetInv, [Next]_vars PROVE ResetInv'
<1>1. CASE Main BY <1>1, RtSystemReset, RtSuspendReset, MainLoopReset, ExecuteReset DEF Main
<1>2. CASE Stepper BY <1>2, StepperReset
<1>3. CASE \E b \in Bytes : Rx(b) BY <1>3, RxResets
<1>4. CASE UNCHANGED vars
  BY <1>4 DEF ResetInv, NoProbe, RunsMoving, StartsStopped, RestartedByMain, ResetStays,
              SuspendStays, Ending, Moving, Stopped, Stray, HoldOver,
              vars, sysVars, flagVars, moveVars, spinVars, ctlVars, hostVars, ghostVars
<1> QED BY <1>1, <1>2, <1>3, <1>4 DEF Next

LEMMA ResetStarts == Init => JogInv /\ ResetInv
<1> SUFFICES ASSUME Init PROVE JogInv /\ ResetInv OBVIOUS
<1>1. JogInv
  BY DEF Init, JogInv, ProbeApart, JogApart, SleepApart, AlarmApart, CancelInJog, Jogging
<1>2. ResetInv
  BY DEF Init, ResetInv, NoProbe, RunsMoving, StartsStopped, RestartedByMain, ResetStays,
         SuspendStays, Ending, Moving, Stopped, Stray, HoldOver, BeforeStop, MainPoints, Tasks
<1> QED BY <1>1, <1>2

LEMMA ResetSeen == ResetInv => ResetSeesMotion
BY DEF ResetInv, ResetSeesMotion, RunsMoving, ResetStays, Ending, Moving, Stray, InMotionState

(* Whenever the steppers run, a reset finds a state in which it kills them *)
(* and raises the alarm, at every instruction of the main program. The     *)
(* assumption is needed: a probe that fails during a hold leaves the       *)
(* steppers running in ALARM, and an unlock then takes them to IDLE.       *)
THEOREM ResetAlwaysSees ==
  ASSUME "probe" \notin Lines PROVE Spec => []ResetSeesMotion
<1>1. ResetInv /\ TypeOK /\ JogInv /\ [Next]_vars => ResetInv' BY ResetStep
<1> QED BY <1>1, TypeCorrect, JogStep, ResetStarts, ResetSeen, PTL DEF Spec

-------------------------------------------------------------------------------
(* Holds, doors and resumes, as long as the host does not probe.           *)

(* A door, or a sleep, that has stopped the machine has it retracted, and  *)
(* retracted means that the spindle is off until the restore begins. A     *)
(* door that closed before the retract is not a door any more.             *)
DoorStays ==
  /\ "RETRACT_COMPLETE" \in suspend =>
       "HOLD_COMPLETE" \in suspend /\ (Ending \/ state \in {"DOOR", "SLEEP"})
  /\ "RESTART_RETRACT" \in suspend => Ending \/ state \in {"DOOR", "SLEEP"}
  /\ state \in {"DOOR", "SLEEP"} /\ "HOLD_COMPLETE" \in suspend => timer = "off"
  /\ state = "DOOR" /\ "DOOR_AJAR" \notin suspend /\ pc \notin {"reinit", "entry"} =>
       "RETRACT_COMPLETE" \in suspend
  /\ state \in {"DOOR", "SLEEP"} /\ "RETRACT_COMPLETE" \in suspend /\ "INITIATE_RESTORE" \notin suspend =>
       ~spindleOn

(* A spindle stop override exists in a hold, or in a door that a hold      *)
(* became and that the retract has not reached yet.                        *)
OverrideStays ==
  /\ spindleStop # {} => \/ state = "HOLD" \/ Ending \/ softLimit
                         \/ state \in {"DOOR", "SLEEP"} /\ "RETRACT_COMPLETE" \notin suspend
  /\ pc \in {"reinit", "entry"} => spindleStop = {}

(* The copy of the flags that the main program works on still agrees with  *)
(* the flags where it matters: only the main program clears them.          *)
CopyIsLive ==
  /\ pc = "hold" => rtExec \cap HoldFlags # {}
  /\ pc = "start" => "CYCLE_START" \in rtExec
  /\ pc \in {"hold", "clearHold", "start"} /\ "CYCLE_START" \in rtExec => "CYCLE_START" \in execState
  /\ pc = "hold" /\ "SLEEP" \in rtExec => "SLEEP" \in execState
  /\ pc \in {"loop", "readAlarm", "snapshot", "hold"} /\ "SLEEP" \in execState /\ ~Ending =>
       state \in {"IDLE", "ALARM"}

(* Where a pending cycle start comes from: in a completed hold, from the   *)
(* operator, unless it came with the hold command itself (and is dropped), *)
(* or from the end of a restore that the hold met in its second delay. An  *)
(* override is given up for the cycle only on such a request.              *)
LateRestore == "RESTORE_COMPLETE" \in suspend
Blocked == /\ pc \in {"hold", "clearHold", "start", "clearStart"} /\ "CYCLE_START" \in rtExec
           /\ IF pc = "hold" THEN rtExec \cap HoldFlags # {} ELSE ~NoHoldAsked
ResumeStays ==
  /\ pc \in {"hold", "clearHold", "start"} /\ "CYCLE_START" \in execState \ rtExec => resumeAsked
  /\ pc \in {"stop", "clearStop"} /\ "CYCLE_START" \in execState => resumeAsked
  /\ state = "HOLD" /\ "HOLD_COMPLETE" \in suspend /\ "CYCLE_START" \in execState =>
       resumeAsked \/ softLimit \/ Blocked \/ LateRestore \/ Ending
  /\ "RESTORE_CYCLE" \in spindleStop =>
       \/ softLimit \/ Ending \/ state \in {"DOOR", "SLEEP"} \/ LateRestore
       \/ /\ "HOLD_COMPLETE" \in suspend
          /\ \/ sus = "restored" \/ pc = "restored"
             \/ /\ resumeAsked
                /\ pc \in {"clearStart", "stop", "clearStop", "accessory", "prep", "suspend"}

(* The suspension is left with its flags; in ALARM and in check mode there *)
(* is none, and an alarm leaves nothing queued, prepared or running.       *)
StaysOut ==
  /\ pc \in MainPoints => sus = "no"
  /\ pc = "suspend" => sus \in {"no", "suspend"}
  /\ sus = "sleepSpin" \/ pc = "sleepSpin" => state = "SLEEP" \/ Ending \/ softLimit
  /\ pc \in {"critical", "clearAlarm"} => execAlarm # "none"
  /\ state \in {"ALARM", "CHECK"} /\ ~Ending =>
       suspend = {} /\ sus = "no" /\ pc \notin SuspendPoints
  /\ state = "ALARM" /\ ~Ending =>
       queue = <<>> /\ segs = <<>> /\ timer = "off" /\ ~spindleOn /\ Task \in {"loop", "idle", "dispatch", "entry"}
  /\ pc = "entry" => segs = <<>> /\ ~spindleOn

(* A motion state has a timer, a cycle stop or a start under way; a hold   *)
(* that is not complete decelerates. IDLE is suspended only between the    *)
(* end of a late restore and the cycle start that it raises.               *)
Braking == state \in {"HOLD", "DOOR", "SLEEP"} /\ "HOLD_COMPLETE" \notin suspend
Ended == Ending \/ pc = "entry" \/ "RESET" \in execState
WaitStays ==
  /\ ~Ended /\ (state \in {"CYCLE", "JOG"} \/ Braking) =>
       timer # "off" \/ Stopped \/ pc \in {"startPrep", "startWake", "jogPrep", "jogWake"}
  /\ ~Ending /\ pc # "entry" /\ Braking => HoldOver
  /\ ~Ending /\ state = "IDLE" /\ Decelerating =>
       /\ "CYCLE_START" \in execState
       /\ pc \in {"readAlarm", "snapshot", "hold"} \/ (pc = "start" /\ NoHoldAsked)

HoldInv == /\ DoorStays /\ OverrideStays /\ CopyIsLive /\ ResumeStays /\ StaysOut
           /\ WaitStays

(* Each part of the program preserves HoldInv, in three groups of its      *)
(* conjuncts: the door and the override, the requests to resume, and the   *)
(* waiting.                                                                *)
LEMMA RtSystemDoor ==
  ASSUME "probe" \notin Lines, TypeOK, JogInv, ResetInv, HoldInv, RtSystem
  PROVE  DoorStays' /\ OverrideStays'
<1> /\ pc \in Points /\ ret \in Tasks /\ sus \in SuspendPoints \cup {"no"}
    /\ execAlarm \in Alarms
  BY DEF TypeOK, Points
<1> USE DEF HoldInv, DoorStays, OverrideStays, StaysOut,
            ResetInv, NoProbe, RunsMoving, StartsStopped, RestartedByMain, ResetStays, SuspendStays,
            Ending, Moving, Stopped, BeforeStop, Stray, HoldOver, JogInv, AlarmApart, CancelInJog,
            SleepApart, ProbeRegion, Aborting, Task, InPoll,
            Points, MainPoints, RtPoints, SuspendPoints, Tasks,
            At, Goto, Poll, PollSuspended, InSuspend, HoldDone, Dispatched, Synced,
            sysVars, flagVars, moveVars, spinVars, ctlVars, hostVars, ghostVars
<1>1. CASE ReadAlarm BY <1>1 DEF ReadAlarm, Alarms
<1>2. CASE Critical BY <1>2 DEF Critical
<1>3. CASE ClearAlarm BY <1>3 DEF ClearAlarm
<1>4. CASE Snapshot BY <1>4 DEF Snapshot, Return, HoldOn, StartOn, StopOn
<1>5. CASE Hold BY <1>5 DEF Hold, Reopened, HoldFlags
<1>6. CASE ClearHold BY <1>6 DEF ClearHold, Cleared, StartOn, StopOn, HoldFlags
<1>7. CASE Start BY <1>7 DEF Start, MayStart, Startable, DoorClosed, Restored, Resumes, NoHoldAsked, SpindleOverridden
<1>8. CASE ClearStart BY <1>8 DEF ClearStart, Cleared, StopOn
<1>9. CASE Stop
  <2>1. pc = "stop" /\ pc' = "clearStop" /\ ~Ending /\ timer = "off" /\ timer' = "off"
    BY <1>9 DEF Stop, DropMotion, GoIdle
  <2>2. /\ state' # state => state' \in {"IDLE", "DOOR"}
        /\ "HOLD_COMPLETE" \in suspend => "HOLD_COMPLETE" \in suspend' \/ suspend' = {}
        /\ suspend' # {} => suspend' \ {"HOLD_COMPLETE"} = suspend \ {"HOLD_COMPLETE", "JOG_CANCEL"} \/ suspend' \ {"HOLD_COMPLETE"} = suspend \ {"HOLD_COMPLETE"}
    BY <1>9 DEF Stop, DropMotion, GoIdle
  <2>3. /\ "RETRACT_COMPLETE" \in suspend' =>
             "HOLD_COMPLETE" \in suspend' /\ (Ending' \/ state' \in {"DOOR", "SLEEP"})
        /\ "RESTART_RETRACT" \in suspend' => Ending' \/ state' \in {"DOOR", "SLEEP"}
    BY <1>9, <2>1 DEF Stop, DropMotion, GoIdle
  <2>4. state' = "DOOR" /\ "DOOR_AJAR" \notin suspend' => "RETRACT_COMPLETE" \in suspend'
    BY <1>9, <2>1 DEF Stop, DropMotion, GoIdle
  <2>5. state' \in {"DOOR", "SLEEP"} /\ "RETRACT_COMPLETE" \in suspend' /\ "INITIATE_RESTORE" \notin suspend' => ~spindleOn'
    BY <1>9, <2>1 DEF Stop, DropMotion, GoIdle
  <2>6. OverrideStays' BY <1>9 DEF Stop, DropMotion, GoIdle
  <2> QED BY <2>1, <2>3, <2>4, <2>5, <2>6
<1>10. CASE ClearStop BY <1>10 DEF ClearStop, Cleared
<1>11. CASE Accessory BY <1>11 DEF Accessory, Return
<1>12. CASE Prep BY <1>12 DEF Prep, Prepared, Return, CanPrep, TakeSegment
<1>13. CASE Wake BY <1>13 DEF Wake, Woken
<1> QED BY <1>1, <1>2, <1>3, <1>4, <1>5, <1>6, <1>7, <1>8, <1>9, <1>10, <1>11, <1>12, <1>13 DEF RtSystem

LEMMA RtSuspendDoor ==
  ASSUME "probe" \notin Lines, TypeOK, JogInv, ResetInv, HoldInv, RtSuspend
  PROVE  DoorStays' /\ OverrideStays'
<1> /\ pc \in Points /\ ret \in Tasks /\ sus \in SuspendPoints \cup {"no"}
    /\ execAlarm \in Alarms
  BY DEF TypeOK, Points
<1> USE DEF HoldInv, DoorStays, OverrideStays, StaysOut,
            ResetInv, NoProbe, RunsMoving, StartsStopped, RestartedByMain, ResetStays, SuspendStays,
            Ending, Moving, Stopped, BeforeStop, Stray, HoldOver, JogInv, AlarmApart, CancelInJog,
            SleepApart, ProbeRegion, Aborting, Task, InPoll,
            Points, MainPoints, RtPoints, SuspendPoints, Tasks,
            At, Goto, Poll, PollSuspended, InSuspend, HoldDone, Dispatched, Synced,
            sysVars, flagVars, moveVars, spinVars, ctlVars, hostVars, ghostVars
<1>1. CASE LeaveSuspend BY <1>1 DEF LeaveSuspend, EndsSuspend
<1>2. CASE AwaitHold BY <1>2 DEF AwaitHold
<1>3. CASE Retract BY <1>3 DEF Retract
<1>4. CASE FallAsleep BY <1>4 DEF FallAsleep, GoIdle
<1>5. CASE StayAsleep BY <1>5 DEF StayAsleep
<1>6. CASE ParkedAtDoor BY <1>6 DEF ParkedAtDoor
<1>7. CASE RestoreDelay BY <1>7 DEF RestoreDelay
<1>8. CASE RestoreDone BY <1>8 DEF RestoreDone
<1>9. CASE ManageSpindle BY <1>9 DEF ManageSpindle
<1> QED BY <1>1, <1>2, <1>3, <1>4, <1>5, <1>6, <1>7, <1>8, <1>9 DEF RtSuspend

LEMMA MainLoopDoor ==
  ASSUME "probe" \notin Lines, TypeOK, JogInv, ResetInv, HoldInv, MainLoop
  PROVE  DoorStays' /\ OverrideStays'
<1> /\ pc \in Points /\ ret \in Tasks /\ sus \in SuspendPoints \cup {"no"}
    /\ execAlarm \in Alarms
  BY DEF TypeOK, Points
<1> USE DEF HoldInv, DoorStays, OverrideStays, StaysOut,
            ResetInv, NoProbe, RunsMoving, StartsStopped, RestartedByMain, ResetStays, SuspendStays,
            Ending, Moving, Stopped, BeforeStop, Stray, HoldOver, JogInv, AlarmApart, CancelInJog,
            SleepApart, ProbeRegion, Aborting, Task, InPoll,
            Points, MainPoints, RtPoints, SuspendPoints, Tasks,
            At, Goto, Poll, PollSuspended, InSuspend, HoldDone, Dispatched, Synced,
            sysVars, flagVars, moveVars, spinVars, ctlVars, hostVars, ghostVars
<1>1. CASE Boot BY <1>1 DEF Boot
<1>2. CASE Reinit BY <1>2 DEF Reinit, DropMotion, GoIdle
<1>3. CASE Entry BY <1>3 DEF Entry
<1>4. CASE ReadLine BY <1>4 DEF ReadLine
<1>5. CASE NoData BY <1>5 DEF NoData, AutoStarted
<1>6. CASE Idle BY <1>6 DEF Idle
<1> QED BY <1>1, <1>2, <1>3, <1>4, <1>5, <1>6 DEF MainLoop

LEMMA ExecuteDoor ==
  ASSUME "probe" \notin Lines, TypeOK, JogInv, ResetInv, HoldInv, Execute
  PROVE  DoorStays' /\ OverrideStays'
<1> /\ pc \in Points /\ ret \in Tasks /\ sus \in SuspendPoints \cup {"no"}
    /\ execAlarm \in Alarms
  BY DEF TypeOK, Points
<1> USE DEF HoldInv, DoorStays, OverrideStays, StaysOut,
            ResetInv, NoProbe, RunsMoving, StartsStopped, RestartedByMain, ResetStays, SuspendStays,
            Ending, Moving, Stopped, BeforeStop, Stray, HoldOver, JogInv, AlarmApart, CancelInJog,
            SleepApart, ProbeRegion, Aborting, Task, InPoll,
            Points, MainPoints, RtPoints, SuspendPoints, Tasks,
            At, Goto, Poll, PollSuspended, InSuspend, HoldDone, Dispatched, Synced,
            sysVars, flagVars, moveVars, spinVars, ctlVars, hostVars, ghostVars
<1>1. CASE AbortLine BY <1>1 DEF AbortLine
<1>2. CASE Refuse BY <1>2 DEF Refuse
<1>3. CASE Unlock BY <1>3 DEF Unlock
<1>4. CASE Sleep BY <1>4 DEF Sleep
<1>5. CASE Check BY <1>5 DEF Check, McReset, FirstReset, InMotionState, GoIdle
<1>6. CASE CheckedWord BY <1>6 DEF CheckedWord
<1>7. CASE BeginMotion BY <1>7 DEF BeginMotion
<1>8. CASE PlanMotion BY <1>8 DEF PlanMotion, AutoStarted, AfterPlan
<1>9. CASE JogStart BY <1>9 DEF JogStart
<1>10. CASE SoftLimit BY <1>10 DEF SoftLimit
<1>11. CASE SoftWait BY <1>11 DEF SoftWait
<1>12. CASE SoftAlarm BY <1>12 DEF SoftAlarm, FirstReset, InMotionState, GoIdle
<1>13. CASE BeginSync BY <1>13 DEF BeginSync, AutoStarted
<1>14. CASE AwaitSync BY <1>14 DEF AwaitSync
<1>15. CASE SpindleSync BY <1>15 DEF SpindleSync
<1>16. CASE Pause BY <1>16 DEF Pause
<1>17. CASE ProbeStart BY <1>17 DEF ProbeStart
<1>18. CASE ProbeGo BY <1>18 DEF ProbeGo
<1>19. CASE ProbeWait BY <1>19 DEF ProbeWait
<1>20. CASE ProbeEnd BY <1>20 DEF ProbeEnd
<1> QED BY <1>1, <1>2, <1>3, <1>4, <1>5, <1>6, <1>7, <1>8, <1>9, <1>10, <1>11, <1>12, <1>13, <1>14, <1>15, <1>16, <1>17, <1>18, <1>19, <1>20 DEF Execute

LEMMA StepperDoor ==
  ASSUME "probe" \notin Lines, TypeOK, JogInv, ResetInv, HoldInv, Stepper
  PROVE  DoorStays' /\ OverrideStays'
<1> /\ pc \in Points /\ ret \in Tasks /\ sus \in SuspendPoints \cup {"no"}
    /\ execAlarm \in Alarms
  BY DEF TypeOK, Points
<1> USE DEF HoldInv, DoorStays, OverrideStays, StaysOut,
            ResetInv, NoProbe, RunsMoving, StartsStopped, RestartedByMain, ResetStays, SuspendStays,
            Ending, Moving, Stopped, BeforeStop, Stray, HoldOver, JogInv, AlarmApart, CancelInJog,
            SleepApart, ProbeRegion, Aborting, Task, InPoll,
            Points, MainPoints, RtPoints, SuspendPoints, Tasks,
            At, Goto, Poll, PollSuspended, InSuspend, HoldDone, Dispatched, Synced,
            sysVars, flagVars, moveVars, spinVars, ctlVars, hostVars, ghostVars
<1>1. CASE SegmentDone BY <1>1 DEF SegmentDone
<1>2. CASE RingEmpty BY <1>2 DEF RingEmpty
<1>3. CASE ProbeRead BY <1>3 DEF ProbeRead
<1>4. CASE ProbeWrite BY <1>4 DEF ProbeWrite
<1> QED BY <1>1, <1>2, <1>3, <1>4 DEF Stepper

LEMMA RxDoor ==
  ASSUME TypeOK, JogInv, ResetInv, HoldInv, NEW b \in Bytes, Rx(b)
  PROVE  DoorStays' /\ OverrideStays'
<1> /\ pc \in Points /\ ret \in Tasks /\ sus \in SuspendPoints \cup {"no"}
    /\ execAlarm \in Alarms
  BY DEF TypeOK, Points
<1> USE DEF HoldInv, DoorStays, OverrideStays, StaysOut,
            ResetInv, NoProbe, RunsMoving, StartsStopped, RestartedByMain, ResetStays, SuspendStays,
            Ending, Moving, Stopped, BeforeStop, Stray, HoldOver, JogInv, AlarmApart, CancelInJog,
            SleepApart, ProbeRegion, Aborting, Task, InPoll,
            Points, MainPoints, RtPoints, SuspendPoints, Tasks,
            At, Goto, Poll, PollSuspended, InSuspend, HoldDone, Dispatched, Synced,
            sysVars, flagVars, moveVars, spinVars, ctlVars, hostVars, ghostVars
<1> QED BY DEF Rx, RxReset, RxFlag, RxSpindleStop, McReset, FirstReset, InMotionState, GoIdle

LEMMA RtSystemResume ==
  ASSUME "probe" \notin Lines, TypeOK, JogInv, ResetInv, HoldInv, RtSystem
  PROVE  CopyIsLive' /\ ResumeStays'
<1> /\ pc \in Points /\ ret \in Tasks /\ sus \in SuspendPoints \cup {"no"}
    /\ execAlarm \in Alarms
  BY DEF TypeOK, Points
<1> USE DEF HoldInv, DoorStays, OverrideStays, CopyIsLive, ResumeStays, StaysOut, LateRestore, Blocked, NoHoldAsked, HoldFlags,
            ResetInv, NoProbe, RunsMoving, StartsStopped, RestartedByMain, ResetStays, SuspendStays,
            Ending, Moving, Stopped, BeforeStop, Stray, HoldOver, JogInv, AlarmApart, CancelInJog,
            SleepApart, ProbeRegion, Aborting, Task, InPoll,
            Points, MainPoints, RtPoints, SuspendPoints, Tasks,
            At, Goto, Poll, PollSuspended, InSuspend, HoldDone, Dispatched, Synced,
            sysVars, flagVars, moveVars, spinVars, ctlVars, hostVars, ghostVars
<1>1. CASE ReadAlarm BY <1>1 DEF ReadAlarm, Alarms
<1>2. CASE Critical BY <1>2 DEF Critical
<1>3. CASE ClearAlarm BY <1>3 DEF ClearAlarm
<1>4. CASE Snapshot BY <1>4 DEF Snapshot, Return, HoldOn, StartOn, StopOn
<1>5. CASE Hold
  <2>1. CopyIsLive' BY <1>5 DEF Hold, Reopened, HoldFlags
  <2>2. ResumeStays' BY <1>5 DEF Hold, Reopened, HoldFlags
  <2> QED BY <2>1, <2>2
<1>6. CASE ClearHold BY <1>6 DEF ClearHold, Cleared, StartOn, StopOn, HoldFlags
<1>7. CASE Start
  <2>1. CopyIsLive' BY <1>7 DEF Start, MayStart, Startable, DoorClosed, Restored, Resumes, NoHoldAsked, SpindleOverridden
  <2>2. ResumeStays' BY <1>7 DEF Start, MayStart, Startable, DoorClosed, Restored, Resumes, NoHoldAsked, SpindleOverridden
  <2> QED BY <2>1, <2>2
<1>8. CASE ClearStart BY <1>8 DEF ClearStart, Cleared, StopOn
<1>9. CASE Stop
  <2>1. CopyIsLive' BY <1>9 DEF Stop, DropMotion, GoIdle
  <2>2. ResumeStays' BY <1>9 DEF Stop, DropMotion, GoIdle
  <2> QED BY <2>1, <2>2
<1>10. CASE ClearStop BY <1>10 DEF ClearStop, Cleared
<1>11. CASE Accessory BY <1>11 DEF Accessory, Return
<1>12. CASE Prep BY <1>12 DEF Prep, Prepared, Return, CanPrep, TakeSegment
<1>13. CASE Wake BY <1>13 DEF Wake, Woken
<1> QED BY <1>1, <1>2, <1>3, <1>4, <1>5, <1>6, <1>7, <1>8, <1>9, <1>10, <1>11, <1>12, <1>13 DEF RtSystem

LEMMA RtSuspendResume ==
  ASSUME "probe" \notin Lines, TypeOK, JogInv, ResetInv, HoldInv, RtSuspend
  PROVE  CopyIsLive' /\ ResumeStays'
<1> /\ pc \in Points /\ ret \in Tasks /\ sus \in SuspendPoints \cup {"no"}
    /\ execAlarm \in Alarms
  BY DEF TypeOK, Points
<1> USE DEF HoldInv, DoorStays, OverrideStays, CopyIsLive, ResumeStays, StaysOut, LateRestore, Blocked, NoHoldAsked, HoldFlags,
            ResetInv, NoProbe, RunsMoving, StartsStopped, RestartedByMain, ResetStays, SuspendStays,
            Ending, Moving, Stopped, BeforeStop, Stray, HoldOver, JogInv, AlarmApart, CancelInJog,
            SleepApart, ProbeRegion, Aborting, Task, InPoll,
            Points, MainPoints, RtPoints, SuspendPoints, Tasks,
            At, Goto, Poll, PollSuspended, InSuspend, HoldDone, Dispatched, Synced,
            sysVars, flagVars, moveVars, spinVars, ctlVars, hostVars, ghostVars
<1>1. CASE LeaveSuspend BY <1>1 DEF LeaveSuspend, EndsSuspend
<1>2. CASE AwaitHold BY <1>2 DEF AwaitHold
<1>3. CASE Retract BY <1>3 DEF Retract
<1>4. CASE FallAsleep BY <1>4 DEF FallAsleep, GoIdle
<1>5. CASE StayAsleep BY <1>5 DEF StayAsleep
<1>6. CASE ParkedAtDoor BY <1>6 DEF ParkedAtDoor
<1>7. CASE RestoreDelay BY <1>7 DEF RestoreDelay
<1>8. CASE RestoreDone BY <1>8 DEF RestoreDone
<1>9. CASE ManageSpindle
  <2>1. CopyIsLive' BY <1>9 DEF ManageSpindle
  <2>2. ResumeStays' BY <1>9 DEF ManageSpindle
  <2> QED BY <2>1, <2>2
<1> QED BY <1>1, <1>2, <1>3, <1>4, <1>5, <1>6, <1>7, <1>8, <1>9 DEF RtSuspend

LEMMA MainLoopResume ==
  ASSUME "probe" \notin Lines, TypeOK, JogInv, ResetInv, HoldInv, MainLoop
  PROVE  CopyIsLive' /\ ResumeStays'
<1> /\ pc \in Points /\ ret \in Tasks /\ sus \in SuspendPoints \cup {"no"}
    /\ execAlarm \in Alarms
  BY DEF TypeOK, Points
<1> USE DEF HoldInv, DoorStays, OverrideStays, CopyIsLive, ResumeStays, StaysOut, LateRestore, Blocked, NoHoldAsked, HoldFlags,
            ResetInv, NoProbe, RunsMoving, StartsStopped, RestartedByMain, ResetStays, SuspendStays,
            Ending, Moving, Stopped, BeforeStop, Stray, HoldOver, JogInv, AlarmApart, CancelInJog,
            SleepApart, ProbeRegion, Aborting, Task, InPoll,
            Points, MainPoints, RtPoints, SuspendPoints, Tasks,
            At, Goto, Poll, PollSuspended, InSuspend, HoldDone, Dispatched, Synced,
            sysVars, flagVars, moveVars, spinVars, ctlVars, hostVars, ghostVars
<1>1. CASE Boot BY <1>1 DEF Boot
<1>2. CASE Reinit BY <1>2 DEF Reinit, DropMotion, GoIdle
<1>3. CASE Entry BY <1>3 DEF Entry
<1>4. CASE ReadLine BY <1>4 DEF ReadLine
<1>5. CASE NoData BY <1>5 DEF NoData, AutoStarted
<1>6. CASE Idle BY <1>6 DEF Idle
<1> QED BY <1>1, <1>2, <1>3, <1>4, <1>5, <1>6 DEF MainLoop

LEMMA ExecuteResume ==
  ASSUME "probe" \notin Lines, TypeOK, JogInv, ResetInv, HoldInv, Execute
  PROVE  CopyIsLive' /\ ResumeStays'
<1> /\ pc \in Points /\ ret \in Tasks /\ sus \in SuspendPoints \cup {"no"}
    /\ execAlarm \in Alarms
  BY DEF TypeOK, Points
<1> USE DEF HoldInv, DoorStays, OverrideStays, CopyIsLive, ResumeStays, StaysOut, LateRestore, Blocked, NoHoldAsked, HoldFlags,
            ResetInv, NoProbe, RunsMoving, StartsStopped, RestartedByMain, ResetStays, SuspendStays,
            Ending, Moving, Stopped, BeforeStop, Stray, HoldOver, JogInv, AlarmApart, CancelInJog,
            SleepApart, ProbeRegion, Aborting, Task, InPoll,
            Points, MainPoints, RtPoints, SuspendPoints, Tasks,
            At, Goto, Poll, PollSuspended, InSuspend, HoldDone, Dispatched, Synced,
            sysVars, flagVars, moveVars, spinVars, ctlVars, hostVars, ghostVars
<1>1. CASE AbortLine BY <1>1 DEF AbortLine
<1>2. CASE Refuse BY <1>2 DEF Refuse
<1>3. CASE Unlock BY <1>3 DEF Unlock
<1>4. CASE Sleep BY <1>4 DEF Sleep
<1>5. CASE Check BY <1>5 DEF Check, McReset, FirstReset, InMotionState, GoIdle
<1>6. CASE CheckedWord BY <1>6 DEF CheckedWord
<1>7. CASE BeginMotion BY <1>7 DEF BeginMotion
<1>8. CASE PlanMotion BY <1>8 DEF PlanMotion, AutoStarted, AfterPlan
<1>9. CASE JogStart BY <1>9 DEF JogStart
<1>10. CASE SoftLimit BY <1>10 DEF SoftLimit
<1>11. CASE SoftWait BY <1>11 DEF SoftWait
<1>12. CASE SoftAlarm BY <1>12 DEF SoftAlarm, FirstReset, InMotionState, GoIdle
<1>13. CASE BeginSync BY <1>13 DEF BeginSync, AutoStarted
<1>14. CASE AwaitSync BY <1>14 DEF AwaitSync
<1>15. CASE SpindleSync BY <1>15 DEF SpindleSync
<1>16. CASE Pause BY <1>16 DEF Pause
<1>17. CASE ProbeStart BY <1>17 DEF ProbeStart
<1>18. CASE ProbeGo BY <1>18 DEF ProbeGo
<1>19. CASE ProbeWait BY <1>19 DEF ProbeWait
<1>20. CASE ProbeEnd BY <1>20 DEF ProbeEnd
<1> QED BY <1>1, <1>2, <1>3, <1>4, <1>5, <1>6, <1>7, <1>8, <1>9, <1>10, <1>11, <1>12, <1>13, <1>14, <1>15, <1>16, <1>17, <1>18, <1>19, <1>20 DEF Execute

LEMMA StepperResume ==
  ASSUME "probe" \notin Lines, TypeOK, JogInv, ResetInv, HoldInv, Stepper
  PROVE  CopyIsLive' /\ ResumeStays'
<1> /\ pc \in Points /\ ret \in Tasks /\ sus \in SuspendPoints \cup {"no"}
    /\ execAlarm \in Alarms
  BY DEF TypeOK, Points
<1> USE DEF HoldInv, DoorStays, OverrideStays, CopyIsLive, ResumeStays, StaysOut, LateRestore, Blocked, NoHoldAsked, HoldFlags,
            ResetInv, NoProbe, RunsMoving, StartsStopped, RestartedByMain, ResetStays, SuspendStays,
            Ending, Moving, Stopped, BeforeStop, Stray, HoldOver, JogInv, AlarmApart, CancelInJog,
            SleepApart, ProbeRegion, Aborting, Task, InPoll,
            Points, MainPoints, RtPoints, SuspendPoints, Tasks,
            At, Goto, Poll, PollSuspended, InSuspend, HoldDone, Dispatched, Synced,
            sysVars, flagVars, moveVars, spinVars, ctlVars, hostVars, ghostVars
<1>1. CASE SegmentDone BY <1>1 DEF SegmentDone
<1>2. CASE RingEmpty BY <1>2 DEF RingEmpty
<1>3. CASE ProbeRead BY <1>3 DEF ProbeRead
<1>4. CASE ProbeWrite BY <1>4 DEF ProbeWrite
<1> QED BY <1>1, <1>2, <1>3, <1>4 DEF Stepper

LEMMA RxResume ==
  ASSUME TypeOK, JogInv, ResetInv, HoldInv, NEW b \in Bytes, Rx(b)
  PROVE  CopyIsLive' /\ ResumeStays'
<1> /\ pc \in Points /\ ret \in Tasks /\ sus \in SuspendPoints \cup {"no"}
    /\ execAlarm \in Alarms
  BY DEF TypeOK, Points
<1> USE DEF HoldInv, DoorStays, OverrideStays, CopyIsLive, ResumeStays, StaysOut, LateRestore, Blocked, NoHoldAsked, HoldFlags,
            ResetInv, NoProbe, RunsMoving, StartsStopped, RestartedByMain, ResetStays, SuspendStays,
            Ending, Moving, Stopped, BeforeStop, Stray, HoldOver, JogInv, AlarmApart, CancelInJog,
            SleepApart, ProbeRegion, Aborting, Task, InPoll,
            Points, MainPoints, RtPoints, SuspendPoints, Tasks,
            At, Goto, Poll, PollSuspended, InSuspend, HoldDone, Dispatched, Synced,
            sysVars, flagVars, moveVars, spinVars, ctlVars, hostVars, ghostVars
<1>1. CopyIsLive' BY DEF Rx, RxReset, RxFlag, RxSpindleStop, McReset, FirstReset, InMotionState, GoIdle
<1>2. UNCHANGED <<pc, sus, state, suspend, spindleStop, rtExec, softLimit, abort>>
      /\ execState \subseteq execState'
  BY DEF Rx, RxReset, RxFlag, RxSpindleStop, McReset, FirstReset
<1>4. /\ resumeAsked => resumeAsked'
      /\ "CYCLE_START" \in execState' => "CYCLE_START" \in execState \/ resumeAsked'
  <2>1. ASSUME NEW f, RxFlag(f)
        PROVE  /\ resumeAsked => resumeAsked'
               /\ "CYCLE_START" \in execState' => "CYCLE_START" \in execState \/ resumeAsked'
    <3>1. resumeAsked => resumeAsked' BY <2>1, Zenon DEF RxFlag
    <3>2. f = "CYCLE_START" => resumeAsked' BY <2>1, Zenon DEF RxFlag
    <3>3. "CYCLE_START" \in execState' => "CYCLE_START" \in execState \/ f = "CYCLE_START"
      BY <2>1 DEF RxFlag
    <3> QED BY <3>1, <3>2, <3>3
  <2>2. CASE RxReset BY <2>2 DEF RxReset, McReset, FirstReset
  <2>3. CASE RxSpindleStop BY <2>3 DEF RxSpindleStop
  <2> QED BY <2>1, <2>2, <2>3 DEF Rx
<1>3. (Blocked => Blocked') /\ (Ending => Ending') BY <1>2
<1> QED BY <1>1, <1>2, <1>3, <1>4

LEMMA RtSystemWait ==
  ASSUME "probe" \notin Lines, TypeOK, JogInv, ResetInv, HoldInv, RtSystem
  PROVE  StaysOut' /\ WaitStays'
<1> /\ pc \in Points /\ ret \in Tasks /\ sus \in SuspendPoints \cup {"no"}
    /\ execAlarm \in Alarms
  BY DEF TypeOK, Points
<1> USE DEF HoldInv, DoorStays, CopyIsLive, StaysOut, WaitStays, Braking, Ended, Decelerating, NoHoldAsked, HoldFlags,
            ResetInv, NoProbe, RunsMoving, StartsStopped, RestartedByMain, ResetStays, SuspendStays,
            Ending, Moving, Stopped, BeforeStop, Stray, HoldOver, JogInv, AlarmApart, CancelInJog,
            SleepApart, ProbeRegion, Aborting, Task, InPoll,
            Points, MainPoints, RtPoints, SuspendPoints, Tasks,
            At, Goto, Poll, PollSuspended, InSuspend, HoldDone, Dispatched, Synced,
            sysVars, flagVars, moveVars, spinVars, ctlVars, hostVars, ghostVars
<1>1. CASE ReadAlarm BY <1>1 DEF ReadAlarm, Alarms
<1>2. CASE Critical BY <1>2 DEF Critical
<1>3. CASE ClearAlarm BY <1>3 DEF ClearAlarm
<1>4. CASE Snapshot BY <1>4 DEF Snapshot, Return, HoldOn, StartOn, StopOn
<1>5. CASE Hold
  <2>1. StaysOut' BY <1>5 DEF Hold, Reopened, HoldFlags
  <2>2. /\ UNCHANGED <<execState, execAlarm, timer, rtExec, abort>>
        /\ pc = "hold" /\ pc' = "clearHold" /\ ~Ending
    BY <1>5 DEF Hold, Reopened, HoldFlags
  <2>3. Stopped' = Stopped /\ ~Ending' BY <2>2
  <2>8. state \in {"IDLE", "ALARM", "CHECK"} => ~Braking'
    BY <1>5, <2>2 DEF Hold, Reopened, HoldFlags
  <2>9. state = "JOG" => state' = "JOG"
    BY <1>5, <2>2 DEF Hold, Reopened, HoldFlags
  <2>10. state = "CYCLE" => state' = "CYCLE" \/ stepControl' = {"EXECUTE_HOLD"}
    BY <1>5, <2>2 DEF Hold, Reopened, HoldFlags
  <2>11. state \in {"HOLD", "DOOR", "SLEEP"} /\ "HOLD_COMPLETE" \in suspend => "HOLD_COMPLETE" \in suspend'
    BY <1>5, <2>2 DEF Hold, Reopened, HoldFlags
  <2>4. Braking' /\ ~Braking => state = "CYCLE" /\ stepControl' = {"EXECUTE_HOLD"}
    BY <2>8, <2>9, <2>10, <2>11 DEF TypeOK, States
  <2>5. Braking' /\ Braking => stepControl' = stepControl
    BY <1>5, <2>2 DEF Hold, Reopened, HoldFlags
  <2>6. state' \in {"CYCLE", "JOG"} => state' = state
    BY <1>5, <2>2 DEF Hold, Reopened, HoldFlags
  <2>7. state' = "IDLE" => ~Decelerating'
    BY <1>5, <2>2 DEF Hold, Reopened, HoldFlags
  <2> QED BY <2>1, <2>2, <2>3, <2>4, <2>5, <2>6, <2>7
<1>6. CASE ClearHold BY <1>6 DEF ClearHold, Cleared, StartOn, StopOn, HoldFlags
<1>7. CASE Start BY <1>7 DEF Start, MayStart, Startable, DoorClosed, Restored, Resumes, NoHoldAsked, SpindleOverridden
<1>8. CASE ClearStart BY <1>8 DEF ClearStart, Cleared, StopOn
<1>9. CASE Stop BY <1>9 DEF Stop, DropMotion, GoIdle
<1>10. CASE ClearStop BY <1>10 DEF ClearStop, Cleared
<1>11. CASE Accessory BY <1>11 DEF Accessory, Return
<1>12. CASE Prep BY <1>12 DEF Prep, Prepared, Return, CanPrep, TakeSegment
<1>13. CASE Wake BY <1>13 DEF Wake, Woken
<1> QED BY <1>1, <1>2, <1>3, <1>4, <1>5, <1>6, <1>7, <1>8, <1>9, <1>10, <1>11, <1>12, <1>13 DEF RtSystem

LEMMA RtSuspendWait ==
  ASSUME "probe" \notin Lines, TypeOK, JogInv, ResetInv, HoldInv, RtSuspend
  PROVE  StaysOut' /\ WaitStays'
<1> /\ pc \in Points /\ ret \in Tasks /\ sus \in SuspendPoints \cup {"no"}
    /\ execAlarm \in Alarms
  BY DEF TypeOK, Points
<1> USE DEF HoldInv, DoorStays, CopyIsLive, StaysOut, WaitStays, Braking, Ended, Decelerating, NoHoldAsked, HoldFlags,
            ResetInv, NoProbe, RunsMoving, StartsStopped, RestartedByMain, ResetStays, SuspendStays,
            Ending, Moving, Stopped, BeforeStop, Stray, HoldOver, JogInv, AlarmApart, CancelInJog,
            SleepApart, ProbeRegion, Aborting, Task, InPoll,
            Points, MainPoints, RtPoints, SuspendPoints, Tasks,
            At, Goto, Poll, PollSuspended, InSuspend, HoldDone, Dispatched, Synced,
            sysVars, flagVars, moveVars, spinVars, ctlVars, hostVars, ghostVars
<1>1. CASE LeaveSuspend BY <1>1 DEF LeaveSuspend, EndsSuspend
<1>2. CASE AwaitHold BY <1>2 DEF AwaitHold
<1>3. CASE Retract BY <1>3 DEF Retract
<1>4. CASE FallAsleep BY <1>4 DEF FallAsleep, GoIdle
<1>5. CASE StayAsleep BY <1>5 DEF StayAsleep
<1>6. CASE ParkedAtDoor BY <1>6 DEF ParkedAtDoor
<1>7. CASE RestoreDelay BY <1>7 DEF RestoreDelay
<1>8. CASE RestoreDone BY <1>8 DEF RestoreDone
<1>9. CASE ManageSpindle BY <1>9 DEF ManageSpindle
<1> QED BY <1>1, <1>2, <1>3, <1>4, <1>5, <1>6, <1>7, <1>8, <1>9 DEF RtSuspend

LEMMA MainLoopWait ==
  ASSUME "probe" \notin Lines, TypeOK, JogInv, ResetInv, HoldInv, MainLoop
  PROVE  StaysOut' /\ WaitStays'
<1> /\ pc \in Points /\ ret \in Tasks /\ sus \in SuspendPoints \cup {"no"}
    /\ execAlarm \in Alarms
  BY DEF TypeOK, Points
<1> USE DEF HoldInv, DoorStays, CopyIsLive, StaysOut, WaitStays, Braking, Ended, Decelerating, NoHoldAsked, HoldFlags,
            ResetInv, NoProbe, RunsMoving, StartsStopped, RestartedByMain, ResetStays, SuspendStays,
            Ending, Moving, Stopped, BeforeStop, Stray, HoldOver, JogInv, AlarmApart, CancelInJog,
            SleepApart, ProbeRegion, Aborting, Task, InPoll,
            Points, MainPoints, RtPoints, SuspendPoints, Tasks,
            At, Goto, Poll, PollSuspended, InSuspend, HoldDone, Dispatched, Synced,
            sysVars, flagVars, moveVars, spinVars, ctlVars, hostVars, ghostVars
<1>1. CASE Boot BY <1>1 DEF Boot
<1>2. CASE Reinit BY <1>2 DEF Reinit, DropMotion, GoIdle
<1>3. CASE Entry BY <1>3 DEF Entry
<1>4. CASE ReadLine BY <1>4 DEF ReadLine
<1>5. CASE NoData BY <1>5 DEF NoData, AutoStarted
<1>6. CASE Idle BY <1>6 DEF Idle
<1> QED BY <1>1, <1>2, <1>3, <1>4, <1>5, <1>6 DEF MainLoop

LEMMA ExecuteWait ==
  ASSUME "probe" \notin Lines, TypeOK, JogInv, ResetInv, HoldInv, Execute
  PROVE  StaysOut' /\ WaitStays'
<1> /\ pc \in Points /\ ret \in Tasks /\ sus \in SuspendPoints \cup {"no"}
    /\ execAlarm \in Alarms
  BY DEF TypeOK, Points
<1> USE DEF HoldInv, DoorStays, CopyIsLive, StaysOut, WaitStays, Braking, Ended, Decelerating, NoHoldAsked, HoldFlags,
            ResetInv, NoProbe, RunsMoving, StartsStopped, RestartedByMain, ResetStays, SuspendStays,
            Ending, Moving, Stopped, BeforeStop, Stray, HoldOver, JogInv, AlarmApart, CancelInJog,
            SleepApart, ProbeRegion, Aborting, Task, InPoll,
            Points, MainPoints, RtPoints, SuspendPoints, Tasks,
            At, Goto, Poll, PollSuspended, InSuspend, HoldDone, Dispatched, Synced,
            sysVars, flagVars, moveVars, spinVars, ctlVars, hostVars, ghostVars
<1>1. CASE AbortLine BY <1>1 DEF AbortLine
<1>2. CASE Refuse BY <1>2 DEF Refuse
<1>3. CASE Unlock BY <1>3 DEF Unlock
<1>4. CASE Sleep BY <1>4 DEF Sleep
<1>5. CASE Check BY <1>5 DEF Check, McReset, FirstReset, InMotionState, GoIdle
<1>6. CASE CheckedWord BY <1>6 DEF CheckedWord
<1>7. CASE BeginMotion BY <1>7 DEF BeginMotion
<1>8. CASE PlanMotion BY <1>8 DEF PlanMotion, AutoStarted, AfterPlan
<1>9. CASE JogStart BY <1>9 DEF JogStart
<1>10. CASE SoftLimit BY <1>10 DEF SoftLimit
<1>11. CASE SoftWait BY <1>11 DEF SoftWait
<1>12. CASE SoftAlarm BY <1>12 DEF SoftAlarm, FirstReset, InMotionState, GoIdle
<1>13. CASE BeginSync BY <1>13 DEF BeginSync, AutoStarted
<1>14. CASE AwaitSync BY <1>14 DEF AwaitSync
<1>15. CASE SpindleSync BY <1>15 DEF SpindleSync
<1>16. CASE Pause BY <1>16 DEF Pause
<1>17. CASE ProbeStart BY <1>17 DEF ProbeStart
<1>18. CASE ProbeGo BY <1>18 DEF ProbeGo
<1>19. CASE ProbeWait BY <1>19 DEF ProbeWait
<1>20. CASE ProbeEnd BY <1>20 DEF ProbeEnd
<1> QED BY <1>1, <1>2, <1>3, <1>4, <1>5, <1>6, <1>7, <1>8, <1>9, <1>10, <1>11, <1>12, <1>13, <1>14, <1>15, <1>16, <1>17, <1>18, <1>19, <1>20 DEF Execute

LEMMA StepperWait ==
  ASSUME "probe" \notin Lines, TypeOK, JogInv, ResetInv, HoldInv, Stepper
  PROVE  StaysOut' /\ WaitStays'
<1> /\ pc \in Points /\ ret \in Tasks /\ sus \in SuspendPoints \cup {"no"}
    /\ execAlarm \in Alarms
  BY DEF TypeOK, Points
<1> USE DEF HoldInv, DoorStays, CopyIsLive, StaysOut, WaitStays, Braking, Ended, Decelerating, NoHoldAsked, HoldFlags,
            ResetInv, NoProbe, RunsMoving, StartsStopped, RestartedByMain, ResetStays, SuspendStays,
            Ending, Moving, Stopped, BeforeStop, Stray, HoldOver, JogInv, AlarmApart, CancelInJog,
            SleepApart, ProbeRegion, Aborting, Task, InPoll,
            Points, MainPoints, RtPoints, SuspendPoints, Tasks,
            At, Goto, Poll, PollSuspended, InSuspend, HoldDone, Dispatched, Synced,
            sysVars, flagVars, moveVars, spinVars, ctlVars, hostVars, ghostVars
<1>1. CASE SegmentDone BY <1>1 DEF SegmentDone
<1>2. CASE RingEmpty BY <1>2 DEF RingEmpty
<1>3. CASE ProbeRead BY <1>3 DEF ProbeRead
<1>4. CASE ProbeWrite BY <1>4 DEF ProbeWrite
<1> QED BY <1>1, <1>2, <1>3, <1>4 DEF Stepper

LEMMA RxWait ==
  ASSUME TypeOK, JogInv, ResetInv, HoldInv, NEW b \in Bytes, Rx(b)
  PROVE  StaysOut' /\ WaitStays'
<1> /\ pc \in Points /\ ret \in Tasks /\ sus \in SuspendPoints \cup {"no"}
    /\ execAlarm \in Alarms
  BY DEF TypeOK, Points
<1> USE DEF HoldInv, DoorStays, CopyIsLive, StaysOut, WaitStays, Braking, Ended, Decelerating, NoHoldAsked, HoldFlags,
            ResetInv, NoProbe, RunsMoving, StartsStopped, RestartedByMain, ResetStays, SuspendStays,
            Ending, Moving, Stopped, BeforeStop, Stray, HoldOver, JogInv, AlarmApart, CancelInJog,
            SleepApart, ProbeRegion, Aborting, Task, InPoll,
            Points, MainPoints, RtPoints, SuspendPoints, Tasks,
            At, Goto, Poll, PollSuspended, InSuspend, HoldDone, Dispatched, Synced,
            sysVars, flagVars, moveVars, spinVars, ctlVars, hostVars, ghostVars
<1> QED BY DEF Rx, RxReset, RxFlag, RxSpindleStop, McReset, FirstReset, InMotionState, GoIdle

LEMMA HoldStep ==
  ASSUME "probe" \notin Lines, TypeOK, JogInv, ResetInv, HoldInv, [Next]_vars PROVE HoldInv'
<1>1. CASE RtSystem BY <1>1, RtSystemDoor, RtSystemResume, RtSystemWait DEF HoldInv
<1>2. CASE RtSuspend BY <1>2, RtSuspendDoor, RtSuspendResume, RtSuspendWait DEF HoldInv
<1>3. CASE MainLoop BY <1>3, MainLoopDoor, MainLoopResume, MainLoopWait DEF HoldInv
<1>4. CASE Execute BY <1>4, ExecuteDoor, ExecuteResume, ExecuteWait DEF HoldInv
<1>5. CASE Stepper BY <1>5, StepperDoor, StepperResume, StepperWait DEF HoldInv
<1>6. CASE \E b \in Bytes : Rx(b) BY <1>6, RxDoor, RxResume, RxWait DEF HoldInv
<1>7. CASE UNCHANGED vars
  BY <1>7 DEF HoldInv, DoorStays, OverrideStays, CopyIsLive, ResumeStays, StaysOut, WaitStays,
              LateRestore, Blocked, NoHoldAsked, Braking, Ended, Ending, Stopped, HoldOver,
              Decelerating, Task, InPoll,
              vars, sysVars, flagVars, moveVars, spinVars, ctlVars, hostVars, ghostVars
<1> QED BY <1>1, <1>2, <1>3, <1>4, <1>5, <1>6, <1>7 DEF Next, Main

LEMMA HoldStarts == Init => HoldInv
BY DEF Init, HoldInv, DoorStays, OverrideStays, CopyIsLive, ResumeStays, StaysOut, WaitStays,
       LateRestore, Blocked, NoHoldAsked, Braking, Ended, Ending, Stopped, HoldOver,
       Decelerating, Task, InPoll, MainPoints, SuspendPoints, RtPoints

(* What HoldInv says about the properties of the model.                    *)
LEMMA WaitAnswered == TypeOK /\ ResetInv /\ HoldInv => WaitIsAnswered
<1> SUFFICES ASSUME TypeOK, ResetInv, HoldInv, state \in {"CYCLE", "JOG"} \/ Decelerating
             PROVE  \/ timer # "off" \/ StopPending
                    \/ pc \in {"startPrep", "startWake", "jogPrep", "jogWake", "boot", "reinit", "entry"}
                    \/ "RESET" \in execState \/ execAlarm # "none"
                    \/ state = "IDLE" /\ "CYCLE_START" \in execState
  BY DEF WaitIsAnswered
<1> USE DEF HoldInv, DoorStays, OverrideStays, CopyIsLive, ResumeStays, StaysOut, WaitStays,
            ResetInv, NoProbe, RunsMoving, StartsStopped, RestartedByMain, ResetStays, SuspendStays,
            LateRestore, Blocked, Braking, Ended, Ending, Moving, Stopped, BeforeStop, Stray, HoldOver,
            Decelerating, NoHoldAsked, MainPoints, SuspendPoints, Tasks
<1>1. CASE Ended BY <1>1 DEF TypeOK
<1>2. CASE ~Ended
  <2>1. state \in {"ALARM", "CHECK"} => suspend = {} BY <1>2
  <2>2. Stopped => StopPending \/ pc \in {"startPrep", "startWake"} BY DEF StopPending
  <2> QED BY <1>2, <2>1, <2>2 DEF TypeOK, States
<1> QED BY <1>1, <1>2

LEMMA AlarmIdle == ResetInv /\ HoldInv => AlarmHoldsNothing
BY DEF AlarmHoldsNothing, HoldInv, StaysOut, Ending, ResetInv, ResetStays

LEMMA DoorSpindle == HoldInv => DoorKeepsSpindleOff
BY DEF DoorKeepsSpindleOff, HoldInv, DoorStays

(* Only the cycle start starts a cycle, and only it, a cycle stop or the   *)
(* entry of the main loop ends a hold there or in IDLE.                    *)
LEMMA StateKept ==
  ASSUME "probe" \notin Lines, TypeOK, JogInv, ResetInv, HoldInv, [Next]_vars
  PROVE  /\ state = "HOLD" /\ state' \in {"CYCLE", "IDLE"} => Start \/ Stop \/ pc = "entry"
         /\ state' = "CYCLE" => state = "CYCLE" \/ Start
<1> USE DEF HoldInv, StaysOut, ResetInv, ResetStays, SuspendStays, Ending,
            At, Goto, Poll, PollSuspended, InSuspend, HoldDone, Dispatched, Synced, MainPoints,
            sysVars, flagVars, moveVars, spinVars, ctlVars, hostVars, ghostVars
<1>1. CASE RtSystem
  <2>1. CASE Hold BY <2>1 DEF Hold
  <2>2. CASE Stop BY <2>2 DEF Stop
  <2> QED BY <1>1, <2>1, <2>2 DEF RtSystem, ReadAlarm, Critical, ClearAlarm, Snapshot, ClearHold,
      ClearStart, ClearStop, Cleared, Accessory, Prep, Wake
<1>2. CASE RtSuspend
  BY <1>2 DEF RtSuspend, LeaveSuspend, AwaitHold, Retract, FallAsleep, StayAsleep, ParkedAtDoor,
              RestoreDelay, RestoreDone, ManageSpindle
<1>3. CASE MainLoop
  BY <1>3 DEF MainLoop, Boot, Reinit, Entry, ReadLine, NoData, Idle
<1>4. CASE Execute
  BY <1>4 DEF Execute, AbortLine, Refuse, Unlock, Sleep, Check, CheckedWord, BeginMotion,
      PlanMotion, JogStart, SoftLimit, SoftWait, SoftAlarm, BeginSync, AwaitSync, SpindleSync,
      Pause, ProbeStart, ProbeGo, ProbeWait, ProbeEnd
<1>5. CASE Stepper BY <1>5 DEF Stepper, SegmentDone, RingEmpty, ProbeRead, ProbeWrite
<1>6. CASE \E b \in Bytes : Rx(b) BY <1>6 DEF Rx
<1>7. CASE UNCHANGED vars BY <1>7 DEF vars
<1> QED BY <1>1, <1>2, <1>3, <1>4, <1>5, <1>6, <1>7 DEF Next, Main

LEMMA HoldAnswered ==
  ASSUME "probe" \notin Lines, TypeOK, JogInv, ResetInv, HoldInv, [Next]_vars
  PROVE  state = "HOLD" /\ state' \in {"CYCLE", "IDLE"} =>
           resumeAsked \/ softLimit \/ pc = "entry" \/ "RESTORE_COMPLETE" \in suspend
<1> SUFFICES ASSUME state = "HOLD", state' \in {"CYCLE", "IDLE"}, pc # "entry"
             PROVE  resumeAsked \/ softLimit \/ LateRestore
  BY DEF LateRestore
<1> USE DEF HoldInv, DoorStays, OverrideStays, CopyIsLive, ResumeStays, StaysOut, WaitStays,
            ResetInv, NoProbe, RunsMoving, StartsStopped, RestartedByMain, ResetStays, SuspendStays,
            LateRestore, Blocked, Braking, Ended, Ending, Moving, Stopped, BeforeStop, Stray, HoldOver,
            Decelerating, NoHoldAsked, MainPoints, SuspendPoints, Tasks
<1>1. CASE Start
  <2>1. MayStart /\ pc = "start" BY <1>1 DEF Start, At
  <2>2. "HOLD_COMPLETE" \in suspend BY <2>1 DEF MayStart, Startable, Restored, DoorClosed
  <2>3. ~Ending BY <2>1
  <2> QED BY <2>1, <2>2, <2>3 DEF MayStart
<1>2. CASE Stop
  BY <1>2 DEF Stop, At, JogInv, CancelInJog, Jogging
<1> QED BY <1>1, <1>2, StateKept

LEMMA OverrideEnded ==
  ASSUME "probe" \notin Lines, TypeOK, JogInv, ResetInv, HoldInv, [Next]_vars
  PROVE  state # "CYCLE" /\ state' = "CYCLE" => spindleStop' = {} \/ softLimit
<1> SUFFICES ASSUME state # "CYCLE", state' = "CYCLE"
             PROVE  spindleStop' = {} \/ softLimit
  OBVIOUS
<1> USE DEF HoldInv, DoorStays, OverrideStays, CopyIsLive, ResumeStays, StaysOut, WaitStays,
            ResetInv, NoProbe, RunsMoving, StartsStopped, RestartedByMain, ResetStays, SuspendStays,
            LateRestore, Blocked, Braking, Ended, Ending, Moving, Stopped, BeforeStop, Stray, HoldOver,
            Decelerating, NoHoldAsked, MainPoints, SuspendPoints, Tasks
<1>1. Start BY StateKept
<1>2. MayStart /\ ~SpindleOverridden /\ spindleStop' = spindleStop /\ pc = "start"
  BY <1>1 DEF Start, Resumes, At
<1>3. ~Ending BY <1>2
<1> QED BY <1>2, <1>3 DEF MayStart, Startable, Restored, DoorClosed, SpindleOverridden, At

LEMMA HoldAlways ==
  ASSUME "probe" \notin Lines PROVE Spec => [](TypeOK /\ JogInv /\ ResetInv /\ HoldInv)
<1>1. ResetInv /\ TypeOK /\ JogInv /\ [Next]_vars => ResetInv' BY ResetStep
<1>2. HoldInv /\ ResetInv /\ TypeOK /\ JogInv /\ [Next]_vars => HoldInv' BY HoldStep
<1> QED BY <1>1, <1>2, TypeCorrect, JogStep, ResetStarts, HoldStarts, PTL DEF Spec

(* Nobody waits for steppers that will not report: in a cycle, a jog or a  *)
(* hold that still decelerates, the stepper interrupt runs, its cycle stop *)
(* is pending, or the main program is about to start it.                   *)
THEOREM WaitsAreAnswered ==
  ASSUME "probe" \notin Lines PROVE Spec => []WaitIsAnswered
BY HoldAlways, WaitAnswered, PTL

(* A hold is left for the cycle or for IDLE only on an input of the        *)
(* operator after the hold command, by a reset or a soft limit, or by the  *)
(* late end of a restore.                                                  *)
THEOREM HoldsEndByOperator ==
  ASSUME "probe" \notin Lines PROVE Spec => HoldEndsByOperator
<1>1. TypeOK /\ JogInv /\ ResetInv /\ HoldInv /\ [Next]_vars =>
        [state = "HOLD" /\ state' \in {"CYCLE", "IDLE"} =>
          resumeAsked \/ softLimit \/ pc = "entry" \/ "RESTORE_COMPLETE" \in suspend]_vars
  BY HoldAnswered
<1> QED BY <1>1, HoldAlways, PTL DEF Spec, HoldEndsByOperator

(* No cycle starts with a spindle stop override left over from a hold,     *)
(* unless a soft limit has stopped the machine.                            *)
THEOREM OverridesEndWithHold ==
  ASSUME "probe" \notin Lines PROVE Spec => StopOverrideEndsWithHold
<1>1. TypeOK /\ JogInv /\ ResetInv /\ HoldInv /\ [Next]_vars =>
        [state # "CYCLE" /\ state' = "CYCLE" => spindleStop' = {} \/ softLimit]_vars
  BY OverrideEnded
<1> QED BY <1>1, HoldAlways, PTL DEF Spec, StopOverrideEndsWithHold

(* The main loop of an alarmed machine has nothing queued, nothing         *)
(* prepared and no stepper running, so that $X sets nothing in motion.     *)
THEOREM AlarmsHoldNothing ==
  ASSUME "probe" \notin Lines PROVE Spec => []AlarmHoldsNothing
BY HoldAlways, AlarmIdle, PTL

(* A door that has stopped the machine keeps the spindle off until the     *)
(* operator starts the restore.                                            *)
THEOREM DoorsKeepSpindleOff ==
  ASSUME "probe" \notin Lines PROVE Spec => []DoorKeepsSpindleOff
BY HoldAlways, DoorSpindle, PTL
===============================================================================
