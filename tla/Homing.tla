--------------------------------- MODULE Homing ---------------------------------
(***************************************************************************)
(* The homing cycle: $H (system.c), mc_homing_cycle (motion_control.c) and *)
(* limits_go_home (limits.c), a loop of its own that reads the limit       *)
(* switches and the realtime flags while the stepper interrupt moves the   *)
(* axes it has not locked. Switches may be broken, and at both ends; a     *)
(* reset, the safety door and a feed hold may come at any time.            *)
(*                                                                         *)
(* An axis is at a whole number of steps, its home switch pressed from 0   *)
(* down and the far one from Length up; beyond Low and High it stalls.     *)
(***************************************************************************)
EXTENDS Integers, Sequences, FiniteSets

CONSTANTS
  Cycles,                 (* the axes of HOMING_CYCLE_0, HOMING_CYCLE_1    *)
  Length, Low, High,      (* the far switch and the ends of an axis        *)
  Starts,                 (* where an axis may be at power-up              *)
  Seek, PullOff, Locate,  (* the distances of the passes                   *)
  N_HOMING_LOCATE_CYCLE,
  MaxBytes, MaxLines      (* bounds                                        *)

Axes == UNION {Cycles[i] : i \in 1..Len(Cycles)}

ASSUME HomingAssumption ==
  /\ Cycles \in Seq(SUBSET Axes) /\ Len(Cycles) > 0 /\ IsFiniteSet(Axes)
  /\ \A i, j \in 1..Len(Cycles) : i # j => Cycles[i] \cap Cycles[j] = {}
  /\ Low \in Int /\ Low < 0 /\ Length \in Nat /\ High \in Nat /\ High > Length
  /\ Starts \subseteq Low..High
  /\ PullOff \in 1..(Length - 1) /\ {Seek, Locate} \subseteq Nat \ {0}
  /\ N_HOMING_LOCATE_CYCLE \in 1..127
  /\ MaxBytes \in Nat /\ MaxLines \in Nat

VARIABLES
  at, broken,             (* where the axes are; the axes without switches *)
  position,               (* sys_position                                  *)
  state, flags, alarm, abort,  (* sys.state, sys_rt_exec_state,            *)
                          (* sys_rt_exec_alarm, sys.abort                  *)
  running, left, axisLock,  (* the stepper interrupt, its steps to take,   *)
                          (* sys.homing_axis_lock: the axes it may move    *)
  moving, way,            (* the axes and the direction of its motion      *)
  pc, cycle,              (* where the main program is; the homing cycle   *)
  pass, lock,             (* passes left (n_cycle); axes that search       *)
  bytes, lines

Motion == <<moving, way>>
Motor == <<running, left, axisLock, Motion>>
System == <<state, flags, alarm, abort>>
Program == <<pc, cycle, pass, lock>>
vars == <<at, broken, position, System, Motor, Program, bytes, lines>>

Pressed == {a \in Axes \ broken : at[a] <= 0 \/ at[a] >= Length}
Active == IF cycle = 0 THEN {} ELSE Cycles[cycle]

(* Passes go towards the switch and off it in turn, the first one to seek. *)
FirstPass == 2 * N_HOMING_LOCATE_CYCLE + 1
Approach == pass % 2 = 1
Distance ==
  IF ~Approach THEN PullOff ELSE IF pass = FirstPass THEN Seek ELSE Locate
Direction == IF Approach THEN -1 ELSE 1
Claimed == -PullOff

Init ==
  /\ at \in [Axes -> Starts] /\ broken \in SUBSET Axes
  /\ position = [a \in Axes |-> 0]
  /\ state = "ALARM" /\ flags = {} /\ alarm = "none" /\ abort = FALSE
  /\ running = FALSE /\ left = 0 /\ axisLock = {} /\ moving = {} /\ way = -1
  /\ pc = "idle" /\ cycle = 0 /\ pass = 0 /\ lock = {}
  /\ bytes = 0 /\ lines = 0

----------------------------------------------------------------------------
(* The interrupts: a step, the end of the motion, and the realtime bytes.  *)

Stalled(p) == IF p < Low THEN Low ELSE IF p > High THEN High ELSE p

(* The lock holds while the state is HOMING; the position is counted for a *)
(* locked axis too.                                                        *)
Free == IF state = "HOMING" THEN moving \cap axisLock ELSE moving
Step ==
  /\ running /\ left > 0 /\ left' = left - 1
  /\ at' = [a \in Axes |-> IF a \in Free THEN Stalled(at[a] + way) ELSE at[a]]
  /\ position' = [a \in Axes |-> IF a \in moving THEN position[a] + way ELSE position[a]]
  /\ UNCHANGED <<broken, System, running, axisLock, Motion, Program, bytes, lines>>

(* The points of a pass. Only there the motion is cut into segments: past  *)
(* them it ends where those that are ready do.                             *)
Passing == {"plan", "limits", "flags", "stop", "delay", "claim"}
CycleStop ==
  /\ running /\ (left = 0 \/ pc \notin Passing)
  /\ running' = FALSE /\ flags' = flags \cup {"stop"}
  /\ UNCHANGED <<at, broken, position, state, alarm, abort, left, axisLock, Motion, Program, bytes, lines>>

(* mc_reset; it stops no motor that was started since it was last called.  *)
McReset(raised) ==
  IF "reset" \in flags THEN alarm' = raised /\ UNCHANGED <<flags, running>>
  ELSE /\ flags' = flags \cup {"reset"}
       /\ running' = IF state = "HOMING" THEN FALSE ELSE running
       /\ alarm' = IF state = "HOMING" /\ raised = "none" THEN "reset" ELSE raised

Byte == bytes < MaxBytes /\ bytes' = bytes + 1
(* The bound leaves a suspended machine the reset that gets it out.        *)
Reset ==
  /\ McReset(alarm)
  /\ \/ Byte
     \/ pc = "suspended" /\ UNCHANGED bytes
  /\ UNCHANGED <<at, broken, position, state, abort, left, axisLock, Motion, Program, lines>>
DoorOrHold ==
  /\ Byte /\ pc # "idle" /\ \E f \in {"door", "hold"} : flags' = flags \cup {f}
  /\ UNCHANGED <<at, broken, position, state, alarm, abort, Motor, Program, lines>>

----------------------------------------------------------------------------
(* The commands.                                                           *)

Command == pc = "idle" /\ flags = {} /\ lines < MaxLines /\ lines' = lines + 1

(* $H                                                                      *)
Home ==
  /\ Command /\ state \in {"IDLE", "ALARM"}
  /\ state' = "HOMING" /\ pc' = "enter" /\ cycle' = 1
  /\ UNCHANGED <<at, broken, position, flags, alarm, abort, Motor, pass, lock, bytes>>

(* $HX and the like are refused, after the state is set.                   *)
HomeAxis ==
  /\ Command /\ state \in {"IDLE", "ALARM"}
  /\ state' = "HOMING"
  /\ UNCHANGED <<at, broken, position, flags, alarm, abort, Motor, Program, bytes>>

(* $X                                                                      *)
KillAlarm ==
  /\ Command /\ state = "ALARM" /\ state' = "IDLE"
  /\ UNCHANGED <<at, broken, position, flags, alarm, abort, Motor, Program, bytes>>

----------------------------------------------------------------------------
(* limits_go_home                                                          *)

Skip == pc' = "next" /\ UNCHANGED <<pass, lock>>

(* Mutant: a homing cycle starts whatever became of the one before.        *)
EnterAnyway ==
  /\ pc = "enter"
  /\ pc' = "plan" /\ pass' = FirstPass /\ UNCHANGED lock
  /\ UNCHANGED <<at, broken, position, System, Motor, cycle, bytes, lines>>

Enter ==
  /\ pc = "enter"
  /\ IF abort THEN Skip ELSE pc' = "plan" /\ pass' = FirstPass /\ UNCHANGED lock
  /\ UNCHANGED <<at, broken, position, System, Motor, cycle, bytes, lines>>

PlanPass ==
  /\ pc = "plan" /\ pc' = "limits"
  /\ position' = [a \in Axes |-> IF a \in Active THEN 0 ELSE position[a]]
  /\ lock' = Active /\ axisLock' = Active
  /\ running' = TRUE /\ left' = Distance /\ moving' = Active /\ way' = Direction
  /\ UNCHANGED <<at, broken, System, cycle, pass, bytes, lines>>

ReadLimits ==
  /\ pc = "limits" /\ pc' = "flags"
  /\ lock' = IF Approach THEN lock \ Pressed ELSE lock
  /\ axisLock' = IF Approach THEN lock' ELSE axisLock
  /\ UNCHANGED <<at, broken, position, System, running, left, Motion, cycle, pass, bytes, lines>>

(* The failure a pass ends with: of those that apply, the last one.        *)
(* Mutant: a switch that is still pressed after the pull-off is accepted.  *)
FailurePressed ==
  IF Approach /\ "stop" \in flags THEN "approach"
  ELSE IF "door" \in flags THEN "door"
  ELSE IF "reset" \in flags THEN "reset"
  ELSE alarm
Failure ==
  IF Approach /\ "stop" \in flags THEN "approach"
  ELSE IF ~Approach /\ Pressed \cap Active # {} THEN "pulloff"
  ELSE IF "door" \in flags THEN "door"
  ELSE IF "reset" \in flags THEN "reset"
  ELSE alarm

(* Mutant: the end of the motion does not end an approach.                 *)
ExitFlagsBytes == IF Approach THEN {"door", "reset"} ELSE {"door", "reset", "stop"}
ExitFlags == {"door", "reset", "stop"}

GoesOn ==
  /\ pc = "flags" /\ flags \cap ExitFlags = {}
  /\ pc' = IF lock = {} THEN "stop" ELSE "limits"
  /\ UNCHANGED <<at, broken, position, System, Motor, cycle, pass, lock, bytes, lines>>

PassEnds ==
  /\ pc = "flags" /\ flags \cap ExitFlags # {} /\ Failure = "none"
  /\ flags' = flags \ {"stop"} /\ pc' = "stop"
  /\ UNCHANGED <<at, broken, position, state, alarm, abort, Motor, cycle, pass, lock, bytes, lines>>

(* mc_reset and protocol_execute_realtime: the alarm, then the abort. With *)
(* a reset that came before the pass began, mc_reset leaves the motor on.  *)
PassFails ==
  /\ pc = "flags" /\ flags \cap ExitFlags # {} /\ Failure # "none"
  /\ flags' = flags \cup {"reset"}
  /\ running' = IF "reset" \in flags THEN running ELSE FALSE
  /\ state' = "ALARM" /\ alarm' = "none" /\ abort' = TRUE
  /\ pc' = "next"
  /\ UNCHANGED <<at, broken, position, left, axisLock, Motion, cycle, pass, lock, bytes, lines>>

(* st_reset; then the debounce delay and the next pass, or the claim.      *)
StopPass ==
  /\ pc = "stop" /\ pc' = "delay"
  /\ running' = FALSE /\ left' = 0
  /\ UNCHANGED <<at, broken, position, System, axisLock, Motion, cycle, pass, lock, bytes, lines>>

NextPass ==
  /\ pc = "delay"
  /\ IF pass > 0 THEN pc' = "plan" /\ pass' = pass - 1 ELSE pc' = "claim" /\ UNCHANGED pass
  /\ UNCHANGED <<at, broken, position, System, Motor, cycle, lock, bytes, lines>>

Claim ==
  /\ pc = "claim" /\ pc' = "next"
  /\ position' = [a \in Axes |-> IF a \in Active THEN Claimed ELSE position[a]]
  /\ UNCHANGED <<at, broken, System, Motor, cycle, pass, lock, bytes, lines>>

----------------------------------------------------------------------------
(* mc_homing_cycle, and what follows it in $H.                             *)

NextCycle ==
  /\ pc = "next"
  /\ IF cycle < Len(Cycles) THEN pc' = "enter" /\ cycle' = cycle + 1
     ELSE pc' = "check" /\ UNCHANGED cycle
  /\ UNCHANGED <<at, broken, position, System, Motor, pass, lock, bytes, lines>>

(* protocol_execute_realtime: a door that opened after the last pass       *)
(* suspends without a hold that could complete, until a reset.             *)
CheckRealtime ==
  /\ pc = "check"
  /\ LET door == "door" \in flags /\ alarm = "none" /\ state # "ALARM"
         held == "hold" \in flags /\ alarm = "none" /\ state # "ALARM"
     IN  IF "reset" \in flags
         THEN /\ state' = IF alarm # "none" THEN "ALARM" ELSE state
              /\ abort' = TRUE /\ pc' = "finish" /\ UNCHANGED flags
         ELSE /\ flags' = {} /\ UNCHANGED abort
              /\ state' = IF alarm # "none" THEN "ALARM"
                          ELSE IF door THEN "DOOR" ELSE IF held THEN "HOLD"
                          ELSE IF "stop" \in flags THEN "IDLE" ELSE state
              /\ pc' = IF door THEN "suspended" ELSE "finish"
  /\ alarm' = "none"
  /\ UNCHANGED <<at, broken, position, Motor, cycle, pass, lock, bytes, lines>>

EndSuspend ==
  /\ pc = "suspended" /\ "reset" \in flags
  /\ abort' = TRUE /\ pc' = "finish"
  /\ UNCHANGED <<at, broken, position, state, flags, alarm, Motor, cycle, pass, lock, bytes, lines>>

Finish ==
  /\ pc = "finish" /\ pc' = "idle" /\ cycle' = 0 /\ pass' = 0 /\ lock' = {}
  /\ state' = IF abort THEN state ELSE "IDLE"
  /\ running' = IF abort THEN running ELSE FALSE
  /\ UNCHANGED <<at, broken, position, flags, alarm, abort, left, axisLock, Motion, bytes, lines>>

(* The main loop: the realtime check, which ends in the initialization     *)
(* after a reset. A hold or a door that it finds at rest is Realtime's.    *)
Poll ==
  /\ pc = "idle" /\ flags # {}
  /\ IF "reset" \in flags
     THEN /\ state' = IF alarm # "none" \/ state = "ALARM" THEN "ALARM" ELSE "IDLE"
          /\ running' = FALSE /\ left' = 0
     ELSE UNCHANGED <<state, running, left>>
  /\ abort' = FALSE /\ flags' = {} /\ alarm' = "none"
  /\ UNCHANGED <<at, broken, position, axisLock, Motion, Program, bytes, lines>>

----------------------------------------------------------------------------
Interrupts == Step \/ CycleStop
Bytes == Reset \/ DoorOrHold
Commands == Home \/ HomeAxis \/ KillAlarm
GoHome ==
  \/ Enter \/ PlanPass \/ ReadLimits \/ GoesOn \/ PassEnds \/ PassFails \/ StopPass \/ NextPass
  \/ Claim \/ NextCycle \/ CheckRealtime \/ EndSuspend \/ Finish \/ Poll

Next == Interrupts \/ Bytes \/ Commands \/ GoHome
Spec == Init /\ [][Next]_vars
(* The processor runs the main program and takes the timer interrupt.      *)
FairSpec == Spec /\ WF_vars(GoHome) /\ WF_vars(Interrupts)

----------------------------------------------------------------------------
TypeOK ==
  /\ at \in [Axes -> Low..High] /\ broken \subseteq Axes
  /\ state \in {"IDLE", "ALARM", "HOMING", "HOLD", "DOOR"}
  /\ flags \subseteq {"reset", "door", "hold", "stop"}
  /\ alarm \in {"none", "reset"} /\ abort \in BOOLEAN
  /\ running \in BOOLEAN /\ left \in 0..Seek + Locate + PullOff
  /\ axisLock \subseteq Axes /\ lock \subseteq Axes /\ moving \subseteq Axes /\ way \in {-1, 1}
  /\ cycle \in 0..Len(Cycles) /\ pass \in 0..FirstPass

(* An axis that is off its home switch by no more than the pull-off.       *)
AtHome(a) == a \notin broken /\ at[a] \in 1..PullOff

(* $H leaves IDLE behind only if each axis found its own home switch, and  *)
(* let go of it, and claims the position that this gives it: never with a  *)
(* broken switch, at the far one, or cut by a reset (limits_go_home).      *)
HomedMeansFound ==
  [][pc = "finish" /\ state' = "IDLE"
       => \A a \in Axes : AtHome(a) /\ position[a] = Claimed]_vars

(* The axes of a homing cycle move only when those of the cycles before it *)
(* are home: X and Y only with Z off the work ("First move Z to clear      *)
(* workspace", config.h), a motor that a failure leaves on included.       *)
ClearsZFirst ==
  running => \A j \in 1..Len(Cycles) : moving \cap Cycles[j] # {}
               => \A i \in 1..(j - 1) : \A a \in Cycles[i] : AtHome(a)

(* The homing cycle ends, whatever switch is broken, in an answer or in    *)
(* the suspension that a door starts (mc_homing_cycle).                    *)
HomingEnds == pc # "idle" ~> pc \in {"idle", "suspended"}

(* system.h, STATE_HOMING: "Performing homing cycle".                      *)
HomingIsHoming == state = "HOMING" => pc # "idle"
================================================================================
