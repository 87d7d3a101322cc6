----------------------------- MODULE HomingProofs -----------------------------
(* Homing keeps X and Y still until Z is home, and claims no position that *)
(* was not found: for any axes, cycles, switches, distances and passes.    *)
EXTENDS Homing, TLAPS

(* An axis on one of its switches; one that leaves it; one that has.       *)
OnSwitch(a) == a \notin broken /\ (at[a] <= 0 \/ at[a] >= Length)
Leaving(a) == a \notin broken /\ (at[a] >= Length \/ at[a] + left <= PullOff)
Off(a) == a \notin broken /\ at[a] >= 1 /\ at[a] + left <= PullOff
Found(a) == AtHome(a) /\ position[a] = Claimed

Points == Passing \cup {"idle", "enter", "next", "check", "suspended", "finish"}

Typed ==
  /\ TypeOK /\ position \in [Axes -> Int] /\ pc \in Points
  /\ pc = "idle" <=> cycle = 0
  /\ pc \in {"check", "suspended", "finish"} => cycle = Len(Cycles)

(* The motor runs within a pass, or after a failure that found it on. An   *)
(* aborted cycle has no pass: its reset stays pending until the            *)
(* initialization. Only a cycle that was not aborted leaves IDLE behind.   *)
Aborts ==
  /\ running => abort \/ pc \in {"limits", "flags", "stop"}
  /\ abort => "reset" \in flags /\ pc \notin Passing
  /\ pc \in Passing \cup {"enter", "next", "check"} => state = IF abort THEN "ALARM" ELSE "HOMING"
  /\ pc = "suspended" => state = "DOOR"
  /\ pc = "finish" /\ abort => state # "IDLE"

(* Where the active axes are in the phases of a pass. A switch that an     *)
(* approach found holds its axis until the pull-off.                       *)
Approaching ==
  /\ pc \in {"limits", "flags"} /\ Approach => \A a \in Active \ lock : OnSwitch(a)
  /\ pc = "stop" /\ Approach => lock = {} /\ \A a \in Active : OnSwitch(a)
  /\ pc = "delay" /\ Approach => \A a \in Active : OnSwitch(a)
PullingOff ==
  /\ pc = "plan" /\ ~Approach => \A a \in Active : OnSwitch(a)
  /\ pc \in {"limits", "flags"} /\ ~Approach => lock = Active /\ \A a \in Active : Leaving(a)
  /\ pc = "stop" /\ ~Approach => \A a \in Active : Off(a)
  /\ pc = "delay" /\ ~Approach => \A a \in Active : AtHome(a)
  /\ pc = "claim" => \A a \in Active : AtHome(a)
Locked ==
  pc \in {"limits", "flags", "stop"} =>
    axisLock = lock /\ lock \subseteq Active /\ moving = Active /\ way = Direction

(* What moves is the axes of one cycle, with those before it home.         *)
HomeBefore(j) == \A i \in 1..(j - 1) : \A a \in Cycles[i] : AtHome(a)
InMotion == running => \E j \in 1..Len(Cycles) : moving = Cycles[j] /\ HomeBefore(j)

(* The cycles that are done are home, at the position they claimed.        *)
Done == IF pc \in {"next", "check", "suspended", "finish"} THEN cycle ELSE cycle - 1
DoneFound == ~abort => \A i \in 1..Done : \A a \in Cycles[i] : Found(a)

IInv == Typed /\ Aborts /\ Approaching /\ PullingOff /\ Locked /\ InMotion /\ DoneFound

----------------------------------------------------------------------------
(* The axes of a cycle are axes, and of no other cycle.                    *)
LEMMA CyclesApart ==
  /\ Len(Cycles) \in Nat /\ Len(Cycles) > 0
  /\ \A i \in 1..Len(Cycles) : Cycles[i] \subseteq Axes
  /\ \A i, j \in 1..Len(Cycles) : i # j => Cycles[i] \cap Cycles[j] = {}
  /\ \A a \in Axes : \E i \in 1..Len(Cycles) : a \in Cycles[i]
BY HomingAssumption DEF Axes

(* The passes of a cycle: the first approaches, a pull-off follows each    *)
(* approach, and the last one pulls off.                                   *)
LEMMA PassesAlternate ==
  /\ FirstPass \in Nat /\ FirstPass % 2 = 1
  /\ 0 % 2 # 1
  /\ \A n \in Nat : n > 0 /\ (n - 1) % 2 # 1 => n % 2 = 1
BY HomingAssumption, SMTT(30) DEF FirstPass

LEMMA Initial == Init => IInv
<1> SUFFICES ASSUME Init PROVE IInv
  OBVIOUS
<1>1. Typed
  <2>1. at \in [Axes -> Low..High] /\ position \in [Axes -> Int]
    <3>1. at \in [Axes -> Starts] /\ Starts \subseteq Low..High
      BY HomingAssumption DEF Init
    <3>2. position \in [Axes -> Int]
      BY DEF Init
    <3> QED
      BY <3>1, <3>2
  <2>2. left \in 0..Seek + Locate + PullOff
    BY HomingAssumption DEF Init
  <2>3. cycle \in 0..Len(Cycles) /\ pass \in 0..FirstPass
    BY CyclesApart, PassesAlternate DEF Init
  <2> QED
    BY <2>1, <2>2, <2>3 DEF Init, Typed, TypeOK, Points
<1>2. Aborts /\ Approaching /\ PullingOff /\ Locked /\ InMotion /\ DoneFound
  BY CyclesApart DEF Init, Aborts, Approaching, PullingOff, Locked, InMotion, DoneFound, Done, Passing
<1> QED
  BY <1>1, <1>2 DEF IInv

(* What a step does: only the axes of the motion are counted, and of those *)
(* only the free ones move, by one, or not at all against an end.          *)
LEMMA StepMoves ==
  ASSUME IInv, Step
  PROVE  /\ UNCHANGED <<broken, System, running, axisLock, Motion, Program>>
         /\ Active' = Active /\ Approach' = Approach /\ Direction' = Direction
         /\ left \in Nat /\ left' = left - 1 /\ left' \in Nat
         /\ at' \in [Axes -> Low..High] /\ position' \in [Axes -> Int]
         /\ \A a \in Axes \ Free : at'[a] = at[a]
         /\ \A a \in Axes \ moving : at'[a] = at[a] /\ position'[a] = position[a]
         /\ way = 1 => \A a \in Axes : at'[a] \in {at[a], at[a] + 1}
<1> USE HomingAssumption
<1>1. /\ at \in [Axes -> Low..High] /\ position \in [Axes -> Int]
      /\ way \in {-1, 1} /\ Free \subseteq moving /\ moving \subseteq Axes /\ left \in Nat
  BY DEF IInv, Typed, TypeOK, Free
<1>2. /\ \A p \in Int : Stalled(p) \in Low..High
      /\ \A p \in Low..High : Stalled(p + 1) \in {p, p + 1}
  BY DEF Stalled
<1>3. \A a \in Axes : at'[a] = IF a \in Free THEN Stalled(at[a] + way) ELSE at[a]
  BY DEF Step
<1>4. \A a \in Axes : /\ at[a] \in Low..High /\ at'[a] \in Low..High
                      /\ way = 1 => at'[a] \in {at[a], at[a] + 1}
  <2> TAKE a \in Axes
  <2>1. at[a] \in Low..High
    BY <1>1
  <2>2. at[a] \in Int /\ at[a] + way \in Int
    BY <1>1, <2>1
  <2> QED
    BY <1>2, <1>3, <2>1, <2>2
<1>5. at' \in [Axes -> Low..High]
  BY <1>4 DEF Step
<1>6. position' \in [Axes -> Int] /\ \A a \in Axes \ moving : position'[a] = position[a]
  BY <1>1 DEF Step
<1>7. \A a \in Axes \ moving : a \notin Free
  BY <1>1
<1>8. /\ UNCHANGED <<broken, System, running, axisLock, Motion, Program>>
      /\ left' = left - 1 /\ left' \in Nat
  BY <1>1 DEF Step
<1>9. Active' = Active /\ Approach' = Approach /\ Direction' = Direction
  BY <1>8 DEF Active, Approach, Direction, Program
<1> QED
  BY <1>1, <1>3, <1>4, <1>5, <1>6, <1>7, <1>8, <1>9

(* Homed axes stay so while the axes of a later cycle move, and the        *)
(* pull-off takes no axis further than its distance.                       *)
LEMMA StepKeeps == IInv /\ Step => IInv'
<1> SUFFICES ASSUME IInv, Step PROVE IInv'
  OBVIOUS
<1> USE HomingAssumption, CyclesApart
<1>1. /\ UNCHANGED <<broken, state, flags, alarm, abort, running, axisLock, moving, way>>
      /\ UNCHANGED <<pc, cycle, pass, lock>>
      /\ Active' = Active /\ Approach' = Approach /\ Direction' = Direction
      /\ left \in Nat /\ left' = left - 1 /\ left' \in Nat
  BY StepMoves DEF System, Motion, Program
<1>2. /\ at' \in [Axes -> Low..High] /\ position' \in [Axes -> Int]
      /\ \A a \in Axes \ Free : at'[a] = at[a]
      /\ \A a \in Axes \ moving : at'[a] = at[a] /\ position'[a] = position[a]
      /\ way = 1 => \A a \in Axes : at'[a] \in {at[a], at[a] + 1}
  BY StepMoves
<1>3. Typed'
  BY <1>1, <1>2 DEF IInv, Typed, TypeOK, Step
<1>4. Aborts'
  BY <1>1 DEF IInv, Aborts
<1>5. Locked'
  BY <1>1 DEF IInv, Locked
<1>6. InMotion'
  <2>1. running
    BY DEF Step
  <2>2. PICK j \in 1..Len(Cycles) : moving = Cycles[j] /\ HomeBefore(j)
    BY <2>1 DEF IInv, InMotion
  <2>3. ASSUME NEW i \in 1..(j - 1), NEW a \in Cycles[i]
        PROVE  AtHome(a)'
    <3>1. i \in 1..Len(Cycles) /\ i # j
      OBVIOUS
    <3>2. a \in Axes \ moving /\ AtHome(a)
      BY <2>2, <2>3, <3>1 DEF HomeBefore
    <3> QED
      BY <1>1, <1>2, <3>2 DEF AtHome
  <2> QED
    BY <1>1, <2>2, <2>3 DEF InMotion, HomeBefore
<1>7. CASE abort
  <2>1. pc \notin Passing
    BY <1>7 DEF IInv, Aborts
  <2>2. Approaching' /\ PullingOff' /\ DoneFound'
    BY <1>1, <1>7, <2>1 DEF Approaching, PullingOff, DoneFound, Passing
  <2> QED
    BY <1>3, <1>4, <1>5, <1>6, <2>2 DEF IInv
<1>8. CASE ~abort
  <2>1. /\ pc \in {"limits", "flags", "stop"} /\ state = "HOMING"
        /\ axisLock = lock /\ lock \subseteq Active /\ moving = Active /\ way = Direction
        /\ Active = Cycles[cycle] /\ cycle \in 1..Len(Cycles) /\ Active \subseteq Axes
        /\ Free = lock
    BY <1>8 DEF IInv, Typed, TypeOK, Aborts, Locked, Step, Passing, Active, Free
  <2>2. Approaching'
    BY <1>1, <1>2, <2>1 DEF IInv, Approaching, OnSwitch
  <2>3. PullingOff'
    <3>1. ASSUME ~Approach, NEW a \in Active
          PROVE  (Leaving(a) => Leaving(a)') /\ (Off(a) => Off(a)')
      <4>1. at[a] \in Low..High /\ at'[a] \in Low..High
        BY <1>2, <2>1 DEF IInv, Typed, TypeOK
      <4>2. at'[a] \in {at[a], at[a] + 1}
        BY <1>2, <2>1, <3>1 DEF Direction
      <4>3. left \in Int /\ left' = left - 1 /\ broken' = broken
        BY <1>1
      <4>4. PullOff \in Int /\ Length \in Int /\ Low \in Int /\ High \in Int /\ High > Length
        OBVIOUS
      <4> HIDE HomingAssumption, CyclesApart
      <4> QED
        BY <4>1, <4>2, <4>3, <4>4 DEF Leaving, Off
    <3> QED
      BY <1>1, <2>1, <3>1 DEF IInv, PullingOff
  <2>4. DoneFound'
    <3> SUFFICES ASSUME NEW i \in 1..(cycle - 1), NEW a \in Cycles[i] PROVE Found(a)'
      BY <1>1, <2>1 DEF DoneFound, Done
    <3>1. Found(a)
      BY <1>8, <2>1 DEF IInv, DoneFound, Done
    <3>2. i \in 1..Len(Cycles) /\ i # cycle
      BY <2>1
    <3>3. a \in Axes /\ a \notin moving
      BY <2>1, <3>2
    <3> QED
      BY <1>1, <1>2, <3>1, <3>3 DEF Found, AtHome, Claimed
  <2> QED
    BY <1>3, <1>4, <1>5, <1>6, <2>2, <2>3, <2>4 DEF IInv
<1> QED
  BY <1>7, <1>8

(* What starts no motor and moves no axis.                                 *)
LEMMA MotionKept ==
  ASSUME InMotion, UNCHANGED <<at, broken, moving>>, running' => running
  PROVE  InMotion'
BY DEF InMotion, HomeBefore, AtHome

(* What leaves the axes, the pass and the cycle as they are.               *)
LEMMA FlagsKeep ==
  IInv /\ (CycleStop \/ Reset \/ DoorOrHold) => IInv'
<1> SUFFICES ASSUME IInv, CycleStop \/ Reset \/ DoorOrHold PROVE IInv'
  OBVIOUS
<1>1. /\ UNCHANGED <<at, broken, position, state, abort, left, axisLock, moving, way>>
      /\ UNCHANGED <<pc, cycle, pass, lock>> /\ Direction' = Direction
      /\ running' \in {running, FALSE} /\ flags \subseteq flags'
      /\ flags' \subseteq {"reset", "door", "hold", "stop"} /\ alarm' \in {"none", "reset"}
      /\ Active' = Active /\ Approach' = Approach /\ running \in BOOLEAN
  BY DEF IInv, Typed, TypeOK, CycleStop, Reset, DoorOrHold, McReset, Byte, System, Motor, Motion,
         Program, Active, Approach, Direction
<1>2. Typed'
  BY <1>1 DEF IInv, Typed, TypeOK
<1>3. Aborts'
  <2>1. running' => running
    BY <1>1, Zenon
  <2>2. "reset" \in flags => "reset" \in flags'
    BY <1>1
  <2> QED
    BY <1>1, <2>1, <2>2 DEF IInv, Aborts
<1>6. Locked' /\ InMotion'
  <2>1. running' => running
    BY <1>1, Zenon
  <2> QED
    BY <1>1, <2>1, MotionKept DEF IInv, Locked
<1>4. Approaching' /\ PullingOff'
  BY <1>1 DEF IInv, Approaching, PullingOff, OnSwitch, Leaving, Off, AtHome
<1>5. DoneFound'
  BY <1>1 DEF IInv, DoneFound, Done, Found, AtHome, Claimed
<1> QED
  BY <1>2, <1>3, <1>4, <1>5, <1>6 DEF IInv

(* The commands, at rest, and the poll that ends in the initialization.    *)
LEMMA CommandsKeep == IInv /\ (Commands \/ Poll) => IInv'
<1> SUFFICES ASSUME IInv, Commands \/ Poll PROVE IInv'
  OBVIOUS
<1> USE DEF Commands, Home, HomeAxis, KillAlarm, Command, Poll, System, Motor, Motion, Program
<1>1. /\ UNCHANGED <<at, broken, position, axisLock, moving, way, pass, lock>>
      /\ pc = "idle" /\ cycle = 0 /\ abort' \in {abort, FALSE} /\ running' \in {running, FALSE}
      /\ left' \in {left, 0} /\ flags' \in {flags, {}} /\ alarm' \in {alarm, "none"}
      /\ state' \in {"IDLE", "ALARM", "HOMING", state}
      /\ abort' => flags' = flags
      /\ (pc' = "enter" /\ cycle' = 1 /\ state' = "HOMING") \/ (pc' = "idle" /\ cycle' = 0)
  BY DEF IInv, Typed, TypeOK
<1>2. Typed'
  <2>1. left' \in 0..Seek + Locate + PullOff
    BY <1>1, HomingAssumption DEF IInv, Typed, TypeOK
  <2>2. cycle' \in 0..Len(Cycles)
    BY <1>1, CyclesApart
  <2> QED
    <3>1. abort' \in BOOLEAN /\ running' \in BOOLEAN
      BY <1>1, Zenon DEF IInv, Typed, TypeOK
    <3>2. /\ state' \in {"IDLE", "ALARM", "HOMING", "HOLD", "DOOR"} /\ alarm' \in {"none", "reset"}
          /\ flags' \subseteq {"reset", "door", "hold", "stop"}
      BY <1>1 DEF IInv, Typed, TypeOK
    <3>3. pc' \in Points /\ (pc' = "idle" <=> cycle' = 0)
          /\ pc' \notin {"check", "suspended", "finish"}
      BY <1>1 DEF Points
    <3> QED
      BY <1>1, <2>1, <2>2, <3>1, <3>2, <3>3 DEF IInv, Typed, TypeOK
<1>3. ~abort' /\ ~running'
  BY DEF IInv, Typed, TypeOK, Aborts
<1>4. Aborts'
  BY <1>1, <1>3 DEF IInv, Aborts, Passing
<1>5. Locked' /\ Approaching' /\ PullingOff' /\ InMotion'
  BY <1>1, <1>3 DEF Locked, Approaching, PullingOff, InMotion
<1>6. DoneFound'
  <2>1. 1..Done' = {}
    BY <1>1 DEF Done
  <2> QED
    BY <2>1 DEF DoneFound
<1> QED
  BY <1>2, <1>4, <1>5, <1>6 DEF IInv

(* The beginning of a cycle and of a pass.                                 *)
LEMMA EnterKeeps == IInv /\ Enter => IInv'
<1> SUFFICES ASSUME IInv, Enter PROVE IInv'
  OBVIOUS
<1> USE CyclesApart, PassesAlternate DEF Enter, Skip, System, Motor
<1>1. Typed'
  BY DEF IInv, Typed, TypeOK, Motion, Points, Passing
<1>2. Aborts' /\ Locked'
  BY DEF IInv, Typed, TypeOK, Aborts, Locked, Passing
<1>12. InMotion'
  BY MotionKept DEF IInv, Enter, Motor, Motion
<1>3. Approaching' /\ PullingOff'
  BY DEF Approaching, PullingOff, Approach
<1>4. DoneFound'
  BY DEF IInv, DoneFound, Done, Found, AtHome, Claimed
<1> QED
  BY <1>12, <1>1, <1>2, <1>3, <1>4 DEF IInv

LEMMA PlanPassKeeps == IInv /\ PlanPass => IInv'
<1> SUFFICES ASSUME IInv, PlanPass PROVE IInv'
  OBVIOUS
<1> USE HomingAssumption, CyclesApart
<1>1. /\ ~abort /\ Active' = Active /\ Active = Cycles[cycle] /\ cycle \in 1..Len(Cycles)
      /\ Approach' = Approach /\ Direction' = Direction /\ Active \subseteq Axes
  BY DEF IInv, Typed, TypeOK, Aborts, Passing, PlanPass, System, Active, Approach,
         Direction
<1>2. /\ Direction \in {-1, 1} /\ Distance \in Nat /\ Distance <= Seek + Locate + PullOff
      /\ ~Approach => Distance = PullOff
  BY DEF Distance, Direction
<1>3. Typed'
  BY <1>1, <1>2 DEF IInv, Typed, TypeOK, PlanPass, System, Points, Passing
<1>4. Aborts' /\ Locked'
  BY <1>1 DEF IInv, Aborts, Locked, PlanPass, System, Passing
<1>8. InMotion'
  <2>1. HomeBefore(cycle)
    BY <1>1 DEF IInv, DoneFound, Done, Found, HomeBefore, PlanPass
  <2> QED
    BY <1>1, <2>1 DEF InMotion, HomeBefore, AtHome, PlanPass
<1>5. Approaching'
  BY <1>1 DEF Approaching, PlanPass
<1>6. PullingOff'
  BY <1>1, <1>2 DEF IInv, Typed, TypeOK, PullingOff, OnSwitch, Leaving, PlanPass
<1>7. DoneFound'
  <2> SUFFICES ASSUME NEW i \in 1..(cycle - 1), NEW a \in Cycles[i] PROVE Found(a)'
    BY DEF DoneFound, Done, PlanPass
  <2>1. Found(a)
    BY <1>1 DEF IInv, DoneFound, Done, PlanPass
  <2>2. i \in 1..Len(Cycles) /\ i # cycle
    BY <1>1
  <2>3. a \in Axes /\ a \notin Active
    BY <1>1, <2>2
  <2> QED
    BY <2>1, <2>3 DEF Found, AtHome, Claimed, PlanPass
<1> QED
  BY <1>3, <1>4, <1>5, <1>6, <1>7, <1>8 DEF IInv

(* An axis stops searching on a switch.                                    *)
LEMMA ReadLimitsKeeps == IInv /\ ReadLimits => IInv'
<1> SUFFICES ASSUME IInv, ReadLimits PROVE IInv'
  OBVIOUS
<1>1. /\ Active' = Active /\ Approach' = Approach /\ lock' \subseteq lock
      /\ axisLock' = lock' /\ axisLock = lock /\ lock \subseteq Active
      /\ (~Approach => lock' = lock)
  BY DEF IInv, Locked, ReadLimits, Active, Approach
<1>2. Typed'
  BY <1>1 DEF IInv, Typed, TypeOK, ReadLimits, System, Motion, Points, Passing
<1>3. Aborts' /\ Locked'
  BY <1>1 DEF IInv, Aborts, Locked, ReadLimits, System, Motion, Direction, Passing
<1>13. InMotion'
  BY MotionKept DEF IInv, ReadLimits, Motor, Motion
<1>4. Approaching'
  BY <1>1, CyclesApart DEF IInv, Typed, TypeOK, Approaching, OnSwitch, ReadLimits, Pressed, Active
<1>5. PullingOff'
  BY <1>1 DEF IInv, PullingOff, Leaving, ReadLimits
<1>6. DoneFound'
  BY DEF IInv, DoneFound, Done, Found, AtHome, Claimed, ReadLimits, System
<1> QED
  BY <1>13, <1>2, <1>3, <1>4, <1>5, <1>6 DEF IInv

(* The exits of a pass: with all switches found, with all let go, or with  *)
(* an alarm.                                                               *)
LEMMA GoesOnKeeps == IInv /\ GoesOn => IInv'
<1> SUFFICES ASSUME IInv, GoesOn PROVE IInv'
  OBVIOUS
<1>1. Active' = Active /\ Approach' = Approach
  BY DEF GoesOn, Active, Approach
<1>2. Typed'
  BY DEF IInv, Typed, TypeOK, GoesOn, System, Motor, Motion, Points, Passing
<1>3. Aborts' /\ Locked'
  BY <1>1 DEF IInv, Aborts, Locked, GoesOn, System, Motor, Motion, Direction, Passing
<1>13. InMotion'
  BY MotionKept DEF IInv, GoesOn, Motor, Motion
<1>4. Approaching' /\ PullingOff'
  BY <1>1 DEF IInv, Approaching, PullingOff, OnSwitch, Leaving, Off, GoesOn, Motor
<1>5. DoneFound'
  BY DEF IInv, DoneFound, Done, Found, AtHome, Claimed, GoesOn, System
<1> QED
  BY <1>13, <1>2, <1>3, <1>4, <1>5 DEF IInv

LEMMA PassEndsKeeps == IInv /\ PassEnds => IInv'
<1> SUFFICES ASSUME IInv, PassEnds PROVE IInv'
  OBVIOUS
<1> USE HomingAssumption, CyclesApart
<1>1. Active' = Active /\ Approach' = Approach
  BY DEF PassEnds, Active, Approach
<1>2. Typed'
  BY DEF IInv, Typed, TypeOK, PassEnds, Motor, Motion, Points, Passing
<1>3. Aborts' /\ Locked'
  BY <1>1 DEF IInv, Aborts, Locked, PassEnds, Motor, Motion, Direction, Passing
<1>13. InMotion'
  BY MotionKept DEF IInv, PassEnds, Motor, Motion
<1>4. ~Approach /\ Pressed \cap Active = {}
  <2>1. flags \cap {"door", "reset"} = {}
    BY DEF PassEnds, Failure
  <2>2. "stop" \in flags
    BY <2>1 DEF PassEnds, ExitFlags
  <2> QED
    BY <2>2 DEF PassEnds, Failure
<1>5. Approaching'
  BY <1>1, <1>4 DEF Approaching, PassEnds
<1>6. PullingOff'
  <2>1. \A a \in Active : a \in Axes /\ at[a] \in Int /\ Leaving(a)
    BY <1>4 DEF IInv, Typed, TypeOK, PullingOff, PassEnds, Active
  <2>2. \A a \in Active : Off(a)
    BY <1>4, <2>1 DEF Pressed, Leaving, Off
  <2> QED
    BY <1>1, <2>2 DEF PullingOff, Off, PassEnds, Motor
<1>7. DoneFound'
  BY DEF IInv, DoneFound, Done, Found, AtHome, Claimed, PassEnds
<1> QED
  BY <1>13, <1>2, <1>3, <1>5, <1>6, <1>7 DEF IInv

LEMMA PassFailsKeeps == IInv /\ PassFails => IInv'
<1> SUFFICES ASSUME IInv, PassFails PROVE IInv'
  OBVIOUS
<1>1. Typed'
  BY DEF IInv, Typed, TypeOK, PassFails, Motion, Points, Passing
<1>2. Aborts' /\ Locked'
  BY DEF IInv, Aborts, Locked, PassFails, Passing
<1>12. InMotion'
  BY MotionKept DEF IInv, PassFails, Motor, Motion
<1>3. Approaching' /\ PullingOff' /\ DoneFound'
  BY DEF Approaching, PullingOff, DoneFound, PassFails
<1> QED
  BY <1>12, <1>1, <1>2, <1>3 DEF IInv

(* The steppers are stopped, and the next pass begins where they stand.    *)
LEMMA StopPassKeeps == IInv /\ StopPass => IInv'
<1> SUFFICES ASSUME IInv, StopPass PROVE IInv'
  OBVIOUS
<1> USE HomingAssumption, CyclesApart
<1>1. Active' = Active /\ Approach' = Approach
  BY DEF StopPass, Active, Approach
<1>2. Typed'
  <2>1. left' \in 0..Seek + Locate + PullOff
    BY DEF StopPass
  <2> QED
    BY <2>1 DEF IInv, Typed, TypeOK, StopPass, System, Motion, Points, Passing
<1>3. Aborts' /\ Locked'
  BY DEF IInv, Aborts, Locked, StopPass, System, Passing
<1>13. InMotion'
  BY MotionKept DEF IInv, StopPass, Motor, Motion
<1>4. Approaching'
  BY <1>1 DEF IInv, Approaching, OnSwitch, StopPass
<1>5. PullingOff'
  <2>1. ~Approach => \A a \in Active : AtHome(a)
    <3>1. \A a \in Active : a \in Axes /\ at[a] \in Int
      BY DEF IInv, Typed, TypeOK, Active
    <3> QED
      BY <3>1 DEF IInv, Typed, TypeOK, PullingOff, StopPass, Off, AtHome
  <2> QED
    BY <1>1, <2>1 DEF PullingOff, AtHome, StopPass
<1>6. DoneFound'
  BY DEF IInv, DoneFound, Done, Found, AtHome, Claimed, StopPass, System
<1> QED
  BY <1>13, <1>2, <1>3, <1>4, <1>5, <1>6 DEF IInv

LEMMA NextPassKeeps == IInv /\ NextPass => IInv'
<1> SUFFICES ASSUME IInv, NextPass PROVE IInv'
  OBVIOUS
<1>1. Active' = Active /\ pass \in Nat
  BY PassesAlternate DEF IInv, Typed, TypeOK, NextPass, Active
<1>2. Typed'
  BY PassesAlternate DEF IInv, Typed, TypeOK, NextPass, System, Motor, Motion, Points, Passing
<1>3. Aborts' /\ Locked'
  BY DEF IInv, Aborts, Locked, NextPass, System, Motor, Passing
<1>13. InMotion'
  BY MotionKept DEF IInv, NextPass, Motor, Motion
<1>4. Approaching'
  BY DEF Approaching, NextPass
<1>5. PullingOff'
  <2>1. CASE pass > 0
    BY <1>1, <2>1, PassesAlternate DEF IInv, Approaching, PullingOff, OnSwitch, Approach, NextPass
  <2>2. CASE pass = 0
    BY <1>1, <2>2, PassesAlternate DEF IInv, PullingOff, AtHome, Approach, NextPass
  <2> QED
    BY <1>1, <2>1, <2>2
<1>6. DoneFound'
  BY DEF IInv, DoneFound, Done, Found, AtHome, Claimed, NextPass, System
<1> QED
  BY <1>13, <1>2, <1>3, <1>4, <1>5, <1>6 DEF IInv

(* The position of a cycle is claimed, and the next cycle begins.          *)
LEMMA ClaimKeeps == IInv /\ Claim => IInv'
<1> SUFFICES ASSUME IInv, Claim PROVE IInv'
  OBVIOUS
<1> USE HomingAssumption, CyclesApart
<1>1. Active' = Active /\ Active = Cycles[cycle] /\ cycle \in 1..Len(Cycles)
  BY DEF IInv, Typed, TypeOK, Claim, Active
<1>2. Typed'
  BY <1>1 DEF IInv, Typed, TypeOK, Claim, System, Motor, Motion, Points, Passing, Claimed
<1>3. Aborts' /\ Locked'
  BY DEF IInv, Aborts, Locked, Claim, System, Motor, Passing
<1>13. InMotion'
  BY MotionKept DEF IInv, Claim, Motor, Motion
<1>4. Approaching' /\ PullingOff'
  BY DEF Approaching, PullingOff, Claim
<1>5. DoneFound'
  <2>1. \A a \in Active : AtHome(a)
    BY DEF IInv, PullingOff, Claim
  <2>2. ~abort' => \A i \in 1..(cycle - 1) : \A a \in Cycles[i] : Found(a)
    BY DEF IInv, DoneFound, Done, Claim, System
  <2>3. Done' = cycle
    BY DEF Done, Claim
  <2> SUFFICES ASSUME ~abort, NEW i \in 1..cycle, NEW a \in Cycles[i] PROVE Found(a)'
    BY <2>3 DEF DoneFound, Claim, System
  <2>4. a \in Axes /\ position \in [Axes -> Int]
    BY <1>1 DEF IInv, Typed
  <2>5. CASE i = cycle
    BY <1>1, <2>1, <2>4, <2>5 DEF Found, AtHome, Claim, Claimed
  <2>6. CASE i # cycle
    <3>1. i \in 1..(cycle - 1) /\ i \in 1..Len(Cycles)
      BY <1>1, <2>6
    <3>2. Found(a) /\ a \notin Active
      BY <1>1, <2>2, <2>6, <3>1 DEF Claim, System
    <3> QED
      BY <2>4, <3>2 DEF Found, AtHome, Claim, Claimed
  <2> QED
    BY <2>5, <2>6
<1> QED
  BY <1>13, <1>2, <1>3, <1>4, <1>5 DEF IInv

LEMMA NextCycleKeeps == IInv /\ NextCycle => IInv'
<1> SUFFICES ASSUME IInv, NextCycle PROVE IInv'
  OBVIOUS
<1> USE CyclesApart
<1>1. Typed'
  BY DEF IInv, Typed, TypeOK, NextCycle, System, Motor, Motion, Points, Passing
<1>2. Aborts' /\ Locked'
  BY DEF IInv, Typed, TypeOK, Aborts, Locked, NextCycle, System, Motor, Passing
<1>12. InMotion'
  BY MotionKept DEF IInv, NextCycle, Motor, Motion
<1>3. Approaching' /\ PullingOff'
  BY DEF Approaching, PullingOff, NextCycle
<1>4. DoneFound'
  BY DEF IInv, Typed, TypeOK, DoneFound, Done, Found, AtHome, Claimed, NextCycle, System
<1> QED
  BY <1>12, <1>1, <1>2, <1>3, <1>4 DEF IInv

(* The end of $H: the poll, the suspension, the answer.                    *)
LEMMA CheckRealtimeKeeps == IInv /\ CheckRealtime => IInv'
<1> SUFFICES ASSUME IInv, CheckRealtime PROVE IInv'
  OBVIOUS
<1> USE DEF Motor, Motion
<1>1. /\ UNCHANGED <<at, broken, position, running, left, axisLock, moving, way>>
      /\ UNCHANGED <<cycle, pass, lock>>
      /\ pc = "check" /\ pc' \in {"suspended", "finish"} /\ cycle = Len(Cycles)
      /\ alarm' = "none" /\ flags' \in {flags, {}} /\ abort' \in BOOLEAN
      /\ state' \in {"ALARM", "DOOR", "HOLD", "IDLE", state}
  BY DEF IInv, Typed, TypeOK, CheckRealtime
<1>2. /\ abort' => /\ "reset" \in flags /\ flags' = flags /\ pc' = "finish"
                   /\ state' \in {"ALARM", state}
      /\ pc' = "suspended" => state' = "DOOR"
      /\ state = (IF abort THEN "ALARM" ELSE "HOMING") /\ (running => abort)
      /\ abort => abort'
  BY DEF IInv, Typed, TypeOK, Aborts, CheckRealtime
<1>3. Typed'
  BY <1>1, CyclesApart DEF IInv, Typed, TypeOK, Points, Passing
<1>4. Aborts'
  BY <1>1, <1>2 DEF Aborts, Passing
<1>5. Locked' /\ Approaching' /\ PullingOff' /\ InMotion'
  BY <1>1, MotionKept DEF IInv, Locked, Approaching, PullingOff
<1>6. DoneFound'
  BY <1>1, <1>2 DEF IInv, DoneFound, Done, Found, AtHome, Claimed
<1> QED
  BY <1>3, <1>4, <1>5, <1>6 DEF IInv

LEMMA EndSuspendKeeps == IInv /\ EndSuspend => IInv'
<1> SUFFICES ASSUME IInv, EndSuspend PROVE IInv'
  OBVIOUS
<1> USE DEF Motor, Motion, EndSuspend
<1>1. Typed'
  BY CyclesApart DEF IInv, Typed, TypeOK, Points, Passing
<1>2. Aborts'
  BY DEF IInv, Aborts, Passing
<1>3. Locked' /\ Approaching' /\ PullingOff' /\ InMotion' /\ DoneFound'
  BY MotionKept DEF IInv, Locked, Approaching, PullingOff, DoneFound
<1> QED
  BY <1>1, <1>2, <1>3 DEF IInv

LEMMA FinishKeeps == IInv /\ Finish => IInv'
<1> SUFFICES ASSUME IInv, Finish PROVE IInv'
  OBVIOUS
<1> USE DEF Finish, Motion
<1>1. Typed'
  <2>1. pass' \in 0..FirstPass /\ cycle' \in 0..Len(Cycles) /\ Len(Cycles) # 0
    BY CyclesApart, PassesAlternate
  <2>2. running' \in BOOLEAN /\ state' \in {"IDLE", "ALARM", "HOMING", "HOLD", "DOOR"}
    BY DEF IInv, Typed, TypeOK
  <2> QED
    BY <2>1, <2>2 DEF IInv, Typed, TypeOK, Points
<1>2. Aborts'
  BY DEF IInv, Aborts, Passing
<1>3. Locked' /\ Approaching' /\ PullingOff' /\ InMotion'
  BY MotionKept DEF IInv, Locked, Approaching, PullingOff
<1>4. DoneFound'
  <2>1. 1..Done' = {}
    BY DEF Done
  <2> QED
    BY <2>1 DEF DoneFound
<1> QED
  BY <1>1, <1>2, <1>3, <1>4 DEF IInv

LEMMA Stutters == IInv /\ UNCHANGED vars => IInv'
BY DEF IInv, Typed, TypeOK, Aborts, Approaching, PullingOff, Locked, InMotion, HomeBefore, DoneFound,
       Done, Found, OnSwitch, Leaving, Off, AtHome, Claimed, Active, Approach, Direction, vars, System,
       Motor, Motion, Program

LEMMA Inductive == IInv /\ [Next]_vars => IInv'
BY StepKeeps, FlagsKeep, CommandsKeep, EnterKeeps, PlanPassKeeps, ReadLimitsKeeps, GoesOnKeeps,
   PassEndsKeeps, PassFailsKeeps, StopPassKeeps, NextPassKeeps, ClaimKeeps, NextCycleKeeps,
   CheckRealtimeKeeps, EndSuspendKeeps, FinishKeeps, Stutters DEF Next, Interrupts, Bytes, GoHome

LEMMA Invariant == Spec => []IInv
BY Initial, Inductive, PTL DEF Spec

----------------------------------------------------------------------------
(* mc_homing_cycle: whatever axes the cycles home, and whatever fails, the *)
(* axes of a cycle never move before those of the cycles before it are     *)
(* home, not even with the motor that mc_reset leaves on when a reset came *)
(* before the pass that fails.                                             *)
THEOREM ZFirst == Spec => []ClearsZFirst
<1>1. IInv => ClearsZFirst
  <2> SUFFICES ASSUME IInv, running, NEW j \in 1..Len(Cycles), moving \cap Cycles[j] # {}
               PROVE  HomeBefore(j)
    BY DEF ClearsZFirst, HomeBefore
  <2>1. PICK k \in 1..Len(Cycles) : moving = Cycles[k] /\ HomeBefore(k)
    BY DEF IInv, InMotion
  <2>2. k = j
    BY <2>1, CyclesApart
  <2> QED
    BY <2>1, <2>2
<1> QED
  BY <1>1, Invariant, PTL

(* limits_go_home: whatever switches are broken, wherever the axes start   *)
(* and whatever comes in between, $H ends in IDLE only with every axis off *)
(* its home switch by no more than the pull-off and at the position that   *)
(* this is.                                                                *)
THEOREM FoundWhereClaimed == Spec => HomedMeansFound
<1>1. IInv /\ [Next]_vars =>
        [pc = "finish" /\ state' = "IDLE"
           => \A a \in Axes : AtHome(a) /\ position[a] = Claimed]_vars
  <2> SUFFICES ASSUME IInv, Next, pc = "finish", state' = "IDLE", NEW a \in Axes
               PROVE AtHome(a) /\ position[a] = Claimed
    OBVIOUS
  <2>1. state' = state \/ ~abort
    BY DEF Next, Interrupts, Step, CycleStop, Bytes, Reset, DoorOrHold, Commands, Home, HomeAxis,
           KillAlarm, Command, GoHome, Enter, PlanPass, ReadLimits, GoesOn, PassEnds, PassFails,
           StopPass, NextPass, Claim, NextCycle, CheckRealtime, EndSuspend, Finish, Poll, System
  <2>2. ~abort
    BY <2>1 DEF IInv, Aborts
  <2>3. \A i \in 1..Len(Cycles) : \A b \in Cycles[i] : Found(b)
    BY <2>2 DEF IInv, Typed, DoneFound, Done
  <2> QED
    BY <2>3, CyclesApart DEF Found
<1> QED
  BY <1>1, Invariant, PTL DEF Spec, HomedMeansFound

(* The switches, flags, locks, distances and counters of the homing cycle  *)
(* keep their types whatever comes in between: no axis leaves its ends, no *)
(* lock names an axis that is not there, and no pass counts below zero.    *)
THEOREM HomingTypeCorrect == Spec => []TypeOK
<1>1. IInv => TypeOK BY DEF IInv, Typed
<1> QED BY <1>1, Invariant, PTL
================================================================================
