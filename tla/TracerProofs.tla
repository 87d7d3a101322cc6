------------------------------ MODULE TracerProofs ------------------------------
(***************************************************************************)
(* For any axes, any lines and any cut of a line into segments of any      *)
(* smoothing level, the line tracer is exact and keeps the axes together.  *)
(***************************************************************************)
EXTENDS Tracer, TLAPS

(* The steps an axis has still to make, and what its counter must be then. *)
Todo(a) == IF line[a] < 0 THEN position[a] - target[a] ELSE target[a] - position[a]
Balanced(a) == counter[a] = 4 * events + (8 * events) * Todo(a) - Abs(line[a]) * Ahead

(* Before the first line there is nothing to balance.                      *)
Unused == events = 0 => Idle /\ position = target

TracerInv == TypeOK /\ Unused /\ \A a \in Axes : Balanced(a)

-------------------------------------------------------------------------------
LEMMA Distribute ==
  ASSUME NEW x \in Int, NEW y \in Int, NEW z \in Int
  PROVE  /\ x * (y - z) = x * y - x * z
         /\ x * (y - 1) = x * y - x
         /\ x * 0 = 0
OBVIOUS

LEMMA HalfIsWhole == \A n \in Int : (n * 8) \div 2 = 4 * n
OBVIOUS

LEMMA AbsNat == \A n \in Int : Abs(n) \in Nat
BY DEF Abs

(* A smoothing level spreads an event over the interrupts without          *)
(* remainder.                                                              *)
LEMMA LevelDivides ==
  ASSUME NEW k \in Levels, NEW s \in Nat
  PROVE  /\ Scale(k) \in 1..8 /\ 8 \div Scale(k) \in 1..8
         /\ (s * 8) \div Scale(k) = s * (8 \div Scale(k))
         /\ \A n \in Nat : (n * Scale(k)) * (8 \div Scale(k)) = 8 * n
<1>1. k = 0 \/ k = 1 \/ k = 2 \/ k = 3
  BY DEF Levels, Max_AMASS_Level
<1>2. CASE k = 0
  BY <1>2 DEF Scale
<1>3. CASE k = 1
  BY <1>3 DEF Scale
<1>4. CASE k = 2
  BY <1>4 DEF Scale
<1>5. CASE k = 3
  BY <1>5 DEF Scale
<1> QED
  BY <1>1, <1>2, <1>3, <1>4, <1>5

(* A multiple that is no more than half a unit away from nothing is none.  *)
LEMMA NoHalfStep ==
  ASSUME NEW e \in Nat \ {0}, NEW d \in Int, (8 * e) * d <= 4 * e, (8 * e) * d >= -(4 * e)
  PROVE  d = 0
<1>1. CASE d >= 1
  <2>1. (8 * e) * d >= 8 * e
    BY <1>1
  <2> QED
    BY <2>1
<1>2. CASE d <= -1
  <2>1. (8 * e) * d <= -(8 * e)
    BY <1>2
  <2> QED
    BY <2>1
<1> QED
  BY <1>1, <1>2

-------------------------------------------------------------------------------
LEMMA InitInv == Init => TracerInv
<1> SUFFICES ASSUME Init PROVE TracerInv
  OBVIOUS
<1>1. TypeOK
  BY TracerAssumption DEF Init, TypeOK, Abs, Levels, Max_AMASS_Level, Event, Scale
<1>2. Unused
  BY DEF Init, Unused, Idle
<1>3. ASSUME NEW a \in Axes PROVE Balanced(a)
  <2>1. counter[a] = 0 /\ line[a] = 0 /\ position[a] = 0 /\ target[a] = 0 /\ events = 0
    BY DEF Init
  <2>2. Todo(a) = 0 /\ Abs(line[a]) = 0
    BY <2>1 DEF Todo, Abs
  <2>3. Ahead = 0
    BY DEF Init, Ahead, Scale
  <2> QED
    BY <2>1, <2>2, <2>3 DEF Balanced
<1> QED
  BY <1>1, <1>2, <1>3 DEF TracerInv

(* At the end of a line nothing is left to do.                             *)
LEMMA Exact == TracerInv => LineIsExact
<1> SUFFICES ASSUME TracerInv, Idle PROVE position = target
  BY DEF LineIsExact
<1>1. CASE events = 0
  BY <1>1 DEF TracerInv, Unused
<1>2. CASE events # 0
  <2> SUFFICES ASSUME NEW a \in Axes PROVE position[a] = target[a]
    BY DEF TracerInv, TypeOK
  <2>1. /\ events \in Nat \ {0} /\ counter[a] \in 0..(events * 8)
        /\ position[a] \in Int /\ target[a] \in Int /\ line[a] \in Int /\ Todo(a) \in Int
    BY <1>2 DEF TracerInv, TypeOK, Event, Scale, Max_AMASS_Level, Todo
  <2>2. Ahead = 0
    BY LevelDivides DEF Idle, Ahead, TracerInv, TypeOK
  <2>3. counter[a] = 4 * events + (8 * events) * Todo(a) - Abs(line[a]) * 0
    BY <2>2 DEF TracerInv, Balanced
  <2>4. Abs(line[a]) * 0 = 0
    BY <2>1, AbsNat, Distribute
  <2>5. (8 * events) * Todo(a) = counter[a] - 4 * events
    BY <2>1, <2>3, <2>4
  <2>6. Todo(a) = 0
    <3> DEFINE d == Todo(a)
    <3>1. (8 * events) * d <= 4 * events /\ (8 * events) * d >= -(4 * events)
      BY <2>1, <2>5
    <3> QED
      BY <2>1, <3>1, NoHalfStep
  <2> QED
    BY <2>1, <2>6 DEF Todo
<1> QED
  BY <1>1, <1>2

LEMMA NewLineInv == TracerInv /\ NewLine => TracerInv'
<1> SUFFICES ASSUME TracerInv, NewLine PROVE TracerInv'
  OBVIOUS
<1> USE TracerAssumption
<1>1. position = target
  BY Exact DEF LineIsExact, NewLine
<1>2. /\ line' \in [Axes -> Int] /\ events' \in Nat \ {0}
      /\ \A a \in Axes : Abs(line'[a]) <= events'
  BY AbsNat DEF NewLine, EventCounts
<1>3. counter' = [a \in Axes |-> 4 * events']
  BY <1>2, HalfIsWhole DEF NewLine, HalfEvent, Scale, Max_AMASS_Level
<1>4. TypeOK'
  <2>1. counter' \in [Axes -> 0..Event']
    <3>1. Event' = events' * 8
      BY DEF Event, Scale, Max_AMASS_Level
    <3>2. \A n \in Nat : 4 * n \in 0..(n * 8)
      OBVIOUS
    <3> QED
      BY <1>2, <1>3, <3>1, <3>2
  <2>2. position' \in [Axes -> Int] /\ target' \in [Axes -> Int]
    BY <1>2 DEF TracerInv, TypeOK, NewLine
  <2>3. /\ left' \in 0..events' /\ ticks' \in Nat /\ level' \in Levels
        /\ linesLeft' \in 0..MaxLines
    BY <1>2 DEF TracerInv, TypeOK, NewLine
  <2> QED
    BY <1>2, <2>1, <2>2, <2>3 DEF TypeOK
<1>5. Unused'
  BY <1>2 DEF Unused
<1>6. ASSUME NEW a \in Axes PROVE Balanced(a)'
  <2>1. Ahead' = 8 * events'
    <3>1. ticks' = 0 /\ left' = events' /\ level' \in Levels
      BY DEF NewLine, Idle, TracerInv, TypeOK
    <3> QED
      BY <1>2, <3>1, LevelDivides DEF Ahead
  <2>2. Todo(a)' = Abs(line'[a])
    BY <1>1, <1>2 DEF NewLine, Todo, Abs, TracerInv, TypeOK
  <2>3. Abs(line'[a]) \in Nat
    BY <1>2, AbsNat
  <2> DEFINE n == Abs(line'[a])
  <2>4. (8 * events') * n = n * (8 * events')
    BY <1>2, <2>3
  <2> QED
    BY <1>2, <1>3, <2>1, <2>2, <2>3, <2>4 DEF Balanced
<1> QED
  BY <1>4, <1>5, <1>6 DEF TracerInv

LEMMA NewSegmentInv == TracerInv /\ NewSegment => TracerInv'
<1> SUFFICES ASSUME TracerInv, NewSegment PROVE TracerInv'
  OBVIOUS
<1>1. PICK n \in 1..left, k \in Levels :
        /\ level' = k /\ ticks' = n * Scale(k) /\ left' = left - n
  BY DEF NewSegment, Remaining
<1>2. n \in Nat /\ Scale(k) \in 1..8 /\ left \in Nat /\ events \in Nat /\ left <= events
  BY LevelDivides DEF TracerInv, TypeOK
<1>3. ticks' \in Nat
  <2> DEFINE m == Scale(k)
  <2>1. \A x, y \in Nat : x * y \in Nat
    OBVIOUS
  <2> QED
    BY <1>1, <1>2, <2>1
<1>4. TypeOK'
  BY <1>1, <1>2, <1>3 DEF TracerInv, TypeOK, NewSegment, Event
<1>5. Unused'
  BY <1>2, <1>1 DEF TracerInv, Unused, NewSegment, Idle
<1>6. Ahead' = Ahead
  <2>1. ticks = 0 /\ level \in Levels
    BY DEF NewSegment, TracerInv, TypeOK
  <2>2. ticks' * (8 \div Scale(level')) = 8 * n
    BY <1>1, <1>2, LevelDivides
  <2>3. ticks * (8 \div Scale(level)) = 0
    BY <2>1, LevelDivides
  <2> QED
    BY <1>1, <1>2, <2>2, <2>3 DEF Ahead
<1>7. \A a \in Axes : Balanced(a)'
  BY <1>6 DEF TracerInv, Balanced, Todo, NewSegment
<1> QED
  BY <1>4, <1>5, <1>7 DEF TracerInv

LEMMA TickInv == TracerInv /\ Tick => TracerInv'
<1> SUFFICES ASSUME TracerInv, Tick PROVE TracerInv'
  OBVIOUS
<1> DEFINE unit == 8 \div Scale(level)
<1>1. /\ events \in Nat \ {0} /\ left \in Nat /\ ticks \in Nat \ {0} /\ level \in Levels
      /\ unit \in 1..8
  <2>1. events # 0
    BY DEF TracerInv, TypeOK, Unused, Idle, Tick
  <2> QED
    BY <2>1, LevelDivides DEF TracerInv, TypeOK, Tick
<1>2. Ahead' = Ahead - unit /\ Ahead \in Int
  <2>1. ticks' * unit = ticks * unit - unit
    BY <1>1, Distribute DEF Tick
  <2>2. ticks * unit \in Int
    BY <1>1
  <2> QED
    BY <1>1, <2>1, <2>2 DEF Tick, Ahead
<1>3. ASSUME NEW a \in Axes
      PROVE  /\ counter'[a] \in 0..(8 * events) /\ position'[a] \in Int
             /\ Balanced(a)'
  <2> DEFINE s == Abs(line[a])
             full == Steps(a)
             d == Todo(a)
  <2>1. /\ s \in Nat /\ s <= events /\ counter[a] \in 0..(8 * events) /\ line[a] \in Int
        /\ position[a] \in Int /\ target[a] \in Int /\ d \in Int
    BY AbsNat DEF TracerInv, TypeOK, Event, Scale, Max_AMASS_Level, Todo
  <2>2. Increment(a) = s * unit /\ s * unit \in 0..(8 * events)
    <3>1. Increment(a) = s * unit
      BY <1>1, <2>1, LevelDivides DEF Increment, Scale, Max_AMASS_Level
    <3>2. s * unit \in 0..(8 * s)
      BY <1>1, <2>1
    <3> QED
      BY <1>1, <2>1, <3>1, <3>2
  <2>3. full <=> counter[a] + s * unit > 8 * events
    BY <1>1, <2>2 DEF Steps, Event, Scale, Max_AMASS_Level
  <2>4. counter'[a] = counter[a] + s * unit - (IF full THEN 8 * events ELSE 0)
    BY <1>1, <2>1, <2>2 DEF Tick, Event, Scale, Max_AMASS_Level
  <2>5. counter'[a] \in 0..(8 * events)
    BY <1>1, <2>1, <2>2, <2>3, <2>4
  <2>6. /\ position'[a] \in Int
        /\ Todo(a)' = IF full THEN d - 1 ELSE d
    BY <2>1 DEF Tick, Todo, TracerInv, TypeOK
  <2>7. s * Ahead' = s * Ahead - s * unit
    BY <1>1, <1>2, <2>1, Distribute
  <2>8. (8 * events) * (d - 1) = (8 * events) * d - 8 * events
    BY <1>1, <2>1, Distribute
  <2>9. /\ s * Ahead \in Int /\ (8 * events) * d \in Int
        /\ counter[a] = 4 * events + (8 * events) * d - s * Ahead
    BY <1>1, <1>2, <2>1 DEF TracerInv, Balanced
  <2>10. counter'[a] = 4 * events + (8 * events) * Todo(a)' - s * Ahead'
    <3>1. CASE full
      BY <3>1, <1>1, <2>1, <2>2, <2>4, <2>6, <2>7, <2>8, <2>9
    <3>2. CASE ~full
      BY <3>2, <1>1, <2>1, <2>2, <2>4, <2>6, <2>7, <2>9
    <3> QED
      BY <3>1, <3>2
  <2>11. events' = events /\ line' = line
    BY DEF Tick
  <2> QED
    BY <2>5, <2>6, <2>10, <2>11 DEF Balanced
<1>4. TypeOK'
  <2>1. /\ counter' \in [Axes -> 0..Event'] /\ position' \in [Axes -> Int]
    <3>1. Event' = 8 * events
      BY <1>1 DEF Event, Scale, Max_AMASS_Level, Tick
    <3>2. /\ counter' = [a \in Axes |-> counter'[a]]
          /\ position' = [a \in Axes |-> position'[a]]
      BY DEF Tick
    <3> QED
      BY <1>3, <3>1, <3>2
  <2> QED
    BY <1>1, <2>1 DEF TracerInv, TypeOK, Tick
<1>5. Unused'
  BY <1>1 DEF Unused, Tick
<1> QED
  BY <1>3, <1>4, <1>5 DEF TracerInv

LEMMA TracerInvariant == Spec => []TracerInv
<1>1. TracerInv /\ [Next]_vars => TracerInv'
  <2> SUFFICES ASSUME TracerInv, [Next]_vars PROVE TracerInv'
    OBVIOUS
  <2>1. CASE UNCHANGED vars
    BY <2>1 DEF vars, TracerInv, TypeOK, Unused, Idle, Balanced, Todo, Ahead, Event
  <2> QED
    BY <2>1, NewLineInv, NewSegmentInv, TickInv DEF Next
<1> QED
  BY <1>1, InitInv, PTL DEF Spec

-------------------------------------------------------------------------------
(* At the end of every line every axis is where the line leads: smoothing  *)
(* and segments lose no step and make none up (stepper.c, "AMASS retains   *)
(* the Bresenham algorithm exactness").                                    *)
THEOREM LinesAreExact == Spec => []LineIsExact
BY TracerInvariant, Exact, PTL

(* On the way an axis is never more than half a step from the line.        *)
THEOREM AxesStayTogether == Spec => []OnTheLine
<1>1. TracerInv => OnTheLine
  <2> SUFFICES ASSUME TracerInv, NEW a \in Axes
               PROVE  Abs(8 * events * (target[a] - position[a]) - line[a] * Ahead) <= 4 * events
    BY DEF OnTheLine
  <2> DEFINE e == 8 * events
             x == target[a] - position[a]
  <2>1. /\ events \in Nat /\ counter[a] \in 0..(8 * events) /\ line[a] \in Int
        /\ position[a] \in Int /\ target[a] \in Int /\ Ahead \in Int
    BY LevelDivides DEF TracerInv, TypeOK, Event, Scale, Max_AMASS_Level, Ahead
  <2>2. counter[a] = 4 * events + (8 * events) * Todo(a) - Abs(line[a]) * Ahead
    BY DEF TracerInv, Balanced
  <2>3. CASE line[a] < 0
    <3>1. Todo(a) = -x /\ Abs(line[a]) = -line[a]
      BY <2>1, <2>3 DEF Todo, Abs
    <3>2. e * (-x) = -(e * x) /\ (-line[a]) * Ahead = -(line[a] * Ahead)
      BY <2>1
    <3>3. e * x - line[a] * Ahead = 4 * events - counter[a]
      BY <2>1, <2>2, <3>1, <3>2
    <3> QED
      BY <2>1, <3>3 DEF Abs
  <2>4. CASE ~(line[a] < 0)
    <3>1. Todo(a) = x /\ Abs(line[a]) = line[a]
      BY <2>1, <2>4 DEF Todo, Abs
    <3>2. e * x - line[a] * Ahead = counter[a] - 4 * events
      BY <2>1, <2>2, <3>1
    <3> QED
      BY <2>1, <3>2 DEF Abs
  <2> QED
    BY <2>3, <2>4
<1> QED
  BY <1>1, TracerInvariant, PTL

(* The Bresenham counters and what is left of a line stay within their     *)
(* unsigned range whatever levels the segments take: nothing is subtracted *)
(* from a counter that it does not hold (ISR(TIMER1_COMPA_vect)).          *)
THEOREM CountersStayUnsigned == Spec => []TypeOK
<1>1. TracerInv => TypeOK
  BY DEF TracerInv
<1> QED
  BY <1>1, TracerInvariant, PTL
===============================================================================
