--------------------------------- MODULE Tracer ---------------------------------
(***************************************************************************)
(* The line tracer in the stepper interrupt (stepper.c): Bresenham's       *)
(* algorithm with adaptive multi-axis step smoothing (AMASS).              *)
(*                                                                         *)
(* A line is the number of steps of every axis. It is traced in segments   *)
(* of some of its step events, each at the smoothing level its speed asks  *)
(* for; a segment of level k takes 2^k interrupts to a step event. That    *)
(* the segments of a line come in order is what Motion is about.           *)
(***************************************************************************)
EXTENDS Integers

CONSTANTS
  Axes,
  Lines,          (* the lines that may come: functions from Axes to steps *)
  MaxLines        (* bound: how many come                                  *)

Max_AMASS_Level == 3
Levels == 0..Max_AMASS_Level
Scale(level) == IF level = 0 THEN 1 ELSE IF level = 1 THEN 2 ELSE IF level = 2 THEN 4 ELSE 8
ASSUME TracerAssumption ==
  /\ Lines \subseteq [Axes -> Int]
  /\ MaxLines \in Nat

Abs(n) == IF n < 0 THEN -n ELSE n

VARIABLES
  line, events,               (* the line; its step_event_count            *)
  left,                       (* step events not yet cut into segments     *)
  level, ticks,               (* segment: amass_level, step_count          *)
  counter,                    (* counter_x, counter_y, counter_z           *)
  position, target,           (* sys_position; where the lines lead        *)
  linesLeft

vars == <<line, events, left, level, ticks, counter, position, target, linesLeft>>

Idle == left = 0 /\ ticks = 0

(* plan_buffer_line counts the steps, the interrupt that finds a new block *)
(* sets its counters to half an event.                                     *)
EventCounts(l) == {n \in {Abs(l[a]) : a \in Axes} : n > 0 /\ \A a \in Axes : Abs(l[a]) <= n}
HalfEventKept(n) == counter                          \* mutant: not initialized
HalfEvent(n) == [a \in Axes |-> (n * Scale(Max_AMASS_Level)) \div 2]
NewLine ==
  /\ Idle /\ linesLeft > 0
  /\ linesLeft' = linesLeft - 1
  /\ line' \in Lines
  /\ events' \in EventCounts(line')
  /\ left' = events'
  /\ counter' = HalfEvent(events')
  /\ target' = [a \in Axes |-> target[a] + line'[a]]
  /\ UNCHANGED <<level, ticks, position>>

(* st_prep_buffer: n step events at some level of smoothing.               *)
RemainingTicks(n, k) == left - n * Scale(k)          \* mutant: counts interrupts
Remaining(n, k) == left - n
NewSegment ==
  /\ ticks = 0 /\ left > 0
  /\ \E n \in 1..left, k \in Levels :
       /\ level' = k
       /\ ticks' = n * Scale(k)
       /\ left' = Remaining(n, k)
  /\ UNCHANGED <<line, events, counter, position, target, linesLeft>>

(* One interrupt: every axis steps when its counter exceeds an event.      *)
IncrementUnscaled(a) == Abs(line[a]) * Scale(Max_AMASS_Level)   \* mutant: level ignored
Increment(a) == (Abs(line[a]) * Scale(Max_AMASS_Level)) \div Scale(level)
Event == events * Scale(Max_AMASS_Level)
Steps(a) == counter[a] + Increment(a) > Event
Tick ==
  /\ ticks > 0
  /\ ticks' = ticks - 1
  /\ counter' = [a \in Axes |-> counter[a] + Increment(a) - (IF Steps(a) THEN Event ELSE 0)]
  /\ position' = [a \in Axes |-> position[a] + (IF ~Steps(a) THEN 0
                                                ELSE IF line[a] < 0 THEN -1 ELSE 1)]
  /\ UNCHANGED <<line, events, left, level, target, linesLeft>>

Init ==
  /\ line = [a \in Axes |-> 0] /\ events = 0 /\ left = 0 /\ level = 0 /\ ticks = 0
  /\ counter = [a \in Axes |-> 0]
  /\ position = [a \in Axes |-> 0] /\ target = [a \in Axes |-> 0]
  /\ linesLeft = MaxLines

Next == NewLine \/ NewSegment \/ Tick
Spec == Init /\ [][Next]_vars

-------------------------------------------------------------------------------
(* The counters are unsigned: what is taken off them was there before.     *)
TypeOK ==
  /\ line \in [Axes -> Int] /\ \A a \in Axes : Abs(line[a]) <= events
  /\ events \in Nat /\ left \in 0..events
  /\ level \in Levels /\ ticks \in Nat
  /\ counter \in [Axes -> 0..Event] /\ position \in [Axes -> Int] /\ target \in [Axes -> Int]
  /\ linesLeft \in 0..MaxLines

(* No step is lost or made up: at the end of a line every axis is where    *)
(* the line leads, whatever segments and levels it was traced with.        *)
LineIsExact == Idle => position = target

(* All the way, every axis is within half a step of the straight line, so   *)
(* that the axes stay together. What is still ahead of an axis is compared *)
(* with its share of the interrupts still to come, in eighths of an event. *)
Ahead == 8 * left + ticks * (8 \div Scale(level))
OnTheLine ==
  \A a \in Axes : Abs(8 * events * (target[a] - position[a]) - line[a] * Ahead) <= 4 * events
===============================================================================
