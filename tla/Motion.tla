--------------------------------- MODULE Motion ---------------------------------
(***************************************************************************)
(* From planned blocks to steps: the planner's ring (planner.c), the       *)
(* segment generator that cuts its first block into segments, and the      *)
(* stepper interrupt that executes them (stepper.c).                       *)
(*                                                                         *)
(* The main program plans lines, starts cycles, holds, resumes, changes    *)
(* the feed override and calls st_prep_buffer whenever it polls; the       *)
(* interrupt comes between any two of its steps. Speeds are squared, see   *)
(* Planner; a segment is any number of steps, because how many fit in one  *)
(* depends on the speed. The interrupt executes one step at a time.        *)
(***************************************************************************)
EXTENDS Planner, Sequences

CONSTANTS
  SegmentBufferSize,      (* SEGMENT_BUFFER_SIZE                           *)
  Lengths,                (* lengths of lines in steps                     *)
  Rates,                  (* programmed rates, squared                     *)
  Junctions,              (* what a junction allows, squared               *)
  MaxLines,               (* bound: lines the host sends                   *)
  MaxHolds,               (* bound: feed holds                             *)
  MayStarve,              (* whether the ring may run dry during a motion  *)
  MaxOverrides            (* bound: changes of the feed override           *)

ASSUME MotionAssumption ==
  /\ SegmentBufferSize \in Nat /\ SegmentBufferSize >= 3
  /\ Lengths \subseteq Nat \ {0} /\ Rates \subseteq Nat \ {0} /\ Junctions \subseteq Nat
  /\ MaxLines \in Nat /\ MaxHolds \in Nat /\ MaxOverrides \in Nat
  /\ MayStarve \in BOOLEAN

VARIABLES
  plan,                           (* the planner                           *)
  slow,                           (* feed override at 50 percent           *)
  state, complete,                (* sys.state, SUSPEND_HOLD_COMPLETE      *)
  hold, endMotion,                (* sys.step_control                      *)
  pc, wake,                       (* main program: place, st_wake_up to    *)
                                  (* follow                                *)
  prep,                           (* st_prep_t, and whether pl_block is set *)
  stBlocks,                       (* st_block_buffer: the line in each slot *)
  segments, segHead, segTail,     (* segment ring                          *)
  st,                             (* stepper_t                             *)
  timer, cycleStop,               (* OCIE1A, EXEC_CYCLE_STOP               *)
  taken,                          (* the step taken last                   *)
  lengths,                        (* history: length of every line so far  *)
  holdsLeft, overridesLeft

motionVars  == <<prep, stBlocks, segments, segHead>>
stepperVars == <<segTail, st, timer, taken>>
sysVars     == <<state, complete, hold, endMotion>>
boundVars   == <<lengths, holdsLeft, overridesLeft>>
vars == <<plan, slow, sysVars, pc, wake, motionVars, stepperVars, cycleStop, boundVars>>

SegmentSlots == 0..(SegmentBufferSize - 1)
BlockSlots == 0..(SegmentBufferSize - 2)

NextSegmentLate(i) == IF i = SegmentBufferSize THEN 0 ELSE i + 1   \* mutant: wraps late
NextSegment(i) == IF i + 1 = SegmentBufferSize THEN 0 ELSE i + 1
st_next_block_index(i) == IF i + 1 = SegmentBufferSize - 1 THEN 0 ELSE i + 1
RingFull == NextSegment(segHead) = segTail
RingEmpty == segHead = segTail

NoPrep == [loaded |-> FALSE, index |-> 0, recalculate |-> FALSE, override |-> FALSE,
           current |-> 0, exit |-> 0, top |-> 0, end |-> 0]
NoStepper == [running |-> FALSE, index |-> 0, count |-> 0, traced |-> 0]

-------------------------------------------------------------------------------
(* Replanning                                                              *)

(* st_update_plan_block_parameters: the block in execution goes on from    *)
(* the speed reached, and its profile is to be computed again.             *)
AtPlannedSpeed(p) == p                     \* mutant: goes on from the planned speed
AtCurrentSpeed(p) ==
  IF prep.loaded THEN [p EXCEPT !.blocks[p.tail].entry = prep.current] ELSE p
StepperUpdated == IF prep.loaded THEN [prep EXCEPT !.loaded = FALSE, !.recalculate = TRUE]
                                 ELSE prep

(* planner_recalculate with its call of the stepper.                       *)
Recalculate(p) ==
  IF UpdatesStepper(p)
  THEN plan' = Recalculated(AtCurrentSpeed(p)) /\ prep' = StepperUpdated
  ELSE plan' = Recalculated(p) /\ UNCHANGED prep

(* plan_cycle_reinitialize                                                 *)
Reinitialize(p) ==
  /\ plan' = Recalculated([AtCurrentSpeed(p) EXCEPT !.planned = p.tail])
  /\ prep' = StepperUpdated

-------------------------------------------------------------------------------
(* The main program, at a poll                                             *)

(* mc_line and plan_buffer_line. A suspended machine does not plan, but it *)
(* is suspended only when a hold is complete.                              *)
PlanLine(length, rate, junction) ==
  /\ pc = "poll" /\ ~complete
  /\ Len(lengths) < MaxLines /\ ~IsFull(plan)
  /\ lengths' = Append(lengths, length)
  /\ Recalculate(Buffered(plan, Len(lengths'), length, rate, junction, slow))
  /\ UNCHANGED <<slow, sysVars, pc, wake, stBlocks, segments, segHead, stepperVars,
                 cycleStop, holdsLeft, overridesLeft>>

(* EXEC_CYCLE_START: start or resume, or go idle with nothing to execute.  *)
CycleStart ==
  /\ pc = "poll"
  /\ state = "IDLE" \/ complete
  /\ complete' = FALSE /\ hold' = FALSE /\ endMotion' = FALSE
  /\ \/ ~IsEmpty(plan) /\ state' = "CYCLE" /\ pc' = "prep" /\ wake' = TRUE
     \/ IsEmpty(plan) /\ state' = "IDLE" /\ UNCHANGED <<pc, wake>>
  /\ UNCHANGED <<plan, slow, motionVars, stepperVars, cycleStop, boundVars>>

(* EXEC_FEED_HOLD: decelerate if in motion.                                *)
FeedHold ==
  /\ pc = "poll" /\ state \in {"IDLE", "CYCLE"} /\ holdsLeft > 0
  /\ holdsLeft' = holdsLeft - 1
  /\ state' = "HOLD"
  /\ \/ /\ state = "CYCLE"
        /\ plan' = AtCurrentSpeed(plan) /\ prep' = StepperUpdated
        /\ hold' = TRUE /\ endMotion' = FALSE
        /\ UNCHANGED complete
     \/ /\ state = "IDLE"
        /\ complete' = TRUE
        /\ UNCHANGED <<plan, prep, hold, endMotion>>
  /\ UNCHANGED <<slow, pc, wake, stBlocks, segments, segHead, stepperVars, cycleStop,
                 lengths, overridesLeft>>

(* EXEC_CYCLE_STOP: the hold is complete, or the motion is.                *)
CompletesCleared == complete               \* mutant: step_control is cleared first
Completes == complete \/ hold
CycleStop ==
  /\ pc = "poll" /\ cycleStop
  /\ cycleStop' = FALSE
  /\ \/ /\ state = "HOLD"
        /\ Reinitialize(plan)
        /\ complete' = Completes /\ hold' = FALSE
        /\ UNCHANGED state
     \/ /\ state # "HOLD"
        /\ state' = "IDLE"
        /\ UNCHANGED <<plan, prep, complete, hold>>
  /\ UNCHANGED <<slow, endMotion, pc, wake, stBlocks, segments, segHead, stepperVars,
                 boundVars>>

(* A change of the feed override.                                          *)
Override ==
  /\ pc = "poll" /\ overridesLeft > 0
  /\ overridesLeft' = overridesLeft - 1
  /\ slow' = ~slow
  /\ Reinitialize(Updated(plan, slow'))
  /\ UNCHANGED <<sysVars, pc, wake, stBlocks, segments, segHead, stepperVars, cycleStop,
                 lengths, holdsLeft>>

(* A jog cancel after its hold, or a reset with its initialization, which  *)
(* takes the override back: planner and stepper are cleared.               *)
Flush ==
  /\ pc = "poll" /\ ~(state = "IDLE" /\ IsEmpty(plan) /\ RingEmpty)
  /\ plan' = plan_reset
  /\ prep' = NoPrep /\ st' = NoStepper /\ segHead' = 0 /\ segTail' = 0
  /\ timer' = FALSE /\ cycleStop' = FALSE
  /\ state' = "IDLE" /\ complete' = FALSE /\ hold' = FALSE /\ endMotion' = FALSE
  /\ slow' \in {slow, FALSE}
  /\ UNCHANGED <<pc, wake, stBlocks, segments, taken, boundVars>>

-------------------------------------------------------------------------------
(* st_prep_buffer                                                          *)

Prep ==
  /\ pc = "poll" /\ state \in {"CYCLE", "HOLD"}
  /\ ~endMotion /\ ~RingFull /\ (prep.loaded \/ ~IsEmpty(plan))
  /\ pc' = "prep"
  /\ UNCHANGED <<plan, slow, sysVars, wake, motionVars, stepperVars, cycleStop, boundVars>>

(* Back to the caller, which starts the steppers if it was a cycle start.  *)
LeaveAsleep ==                             \* mutant: the steppers are not started
  pc' = "poll" /\ wake' = FALSE /\ UNCHANGED timer
Leave ==
  /\ pc' = "poll" /\ wake' = FALSE
  /\ timer' = (timer \/ wake)

Filled ==
  /\ pc = "prep"
  /\ RingFull \/ (~prep.loaded /\ IsEmpty(plan))
  /\ Leave
  /\ UNCHANGED <<plan, slow, sysVars, motionVars, segTail, st, taken, cycleStop, boundVars>>

(* The velocity profile of a block entered at this speed: where it ends,   *)
(* counted from the end of the block, and how fast.                        *)
Profile(b) ==
  IF hold THEN [end |-> IF b.mm < b.entry THEN 0 ELSE b.mm - b.entry,
                exit |-> IF b.mm < b.entry THEN b.entry - b.mm ELSE 0,
                override |-> FALSE]
  ELSE IF b.entry - Nominal(b.rate, slow) >= b.mm
       THEN [end |-> 0, exit |-> b.entry - b.mm, override |-> TRUE]
       ELSE [end |-> 0, exit |-> ExitSpeed(plan), override |-> FALSE]

(* Load the first block, or its remainder after it was replanned.          *)
Reuses(index) == index                              \* mutant: slot not advanced
SlotAfter(index) == st_next_block_index(index)
ForcedByOverride == prep.override            \* mutant: a hold ends with its block
Forced == hold \/ prep.override
Load ==
  /\ pc = "prep" /\ ~RingFull /\ ~prep.loaded /\ ~IsEmpty(plan)
  /\ LET fresh == ~prep.recalculate
         index == IF fresh THEN SlotAfter(prep.index) ELSE prep.index
         entry == IF fresh /\ Forced THEN prep.exit ELSE Current(plan).entry
         profile == Profile([Current(plan) EXCEPT !.entry = entry])
     IN  /\ plan' = [plan EXCEPT !.blocks[plan.tail].entry = entry]
         /\ stBlocks' = [stBlocks EXCEPT ![index] = Current(plan).id]
         /\ prep' = [loaded |-> TRUE, index |-> index, recalculate |-> FALSE,
                     override |-> profile.override,
                     current |-> IF fresh THEN entry ELSE prep.current,
                     exit |-> profile.exit, top |-> Nominal(Current(plan).rate, slow),
                     end |-> profile.end]
  /\ UNCHANGED <<slow, sysVars, pc, wake, segments, segHead, stepperVars, cycleStop,
                 boundVars>>

(* Write a segment to the ring's head.                                     *)
Fill ==
  /\ pc = "prep" /\ ~RingFull /\ prep.loaded /\ Current(plan).mm > prep.end
  /\ \E n \in 1..(Current(plan).mm - prep.end) :
       segments' = [segments EXCEPT ![segHead] = [n |-> n, block |-> prep.index]]
  /\ pc' = "publish"
  /\ UNCHANGED <<plan, slow, sysVars, wake, prep, stBlocks, segHead, stepperVars, cycleStop,
                 boundVars>>

(* The end of a hold: preparation is blocked until the next cycle start.   *)
Bails == endMotion' = TRUE /\ Leave

(* Nothing left to decelerate.                                             *)
NoStep ==
  /\ pc = "prep" /\ ~RingFull /\ prep.loaded /\ Current(plan).mm = prep.end
  /\ Bails
  /\ UNCHANGED <<plan, slow, state, complete, hold, motionVars, segTail, st, taken, cycleStop,
                 boundVars>>

(* The speed after n more steps: towards the nominal speed, but never      *)
(* faster than lets it come down to the exit speed.                        *)
SpeedAfter(n) ==
  LET left == Current(plan).mm - n - prep.end
      target == Least(prep.top, prep.exit + left)
  IN  IF left = 0 THEN prep.exit
      ELSE IF prep.current > target
      THEN Greatest(prep.current - n, target) ELSE Least(prep.current + n, target)

(* Move the head, so that the interrupt may execute the segment, and       *)
(* account for it in the block.                                            *)
Publish ==
  /\ pc = "publish"
  /\ segHead' = NextSegment(segHead)
  /\ LET n == segments[segHead].n
         left == Current(plan).mm - n
         remainder == [plan EXCEPT !.blocks[plan.tail].mm = left]
     IN  \/ /\ left > prep.end
            /\ plan' = remainder /\ prep' = [prep EXCEPT !.current = SpeedAfter(n)]
            /\ pc' = "prep"
            /\ UNCHANGED <<endMotion, wake, timer>>
         \/ /\ left = prep.end /\ left > 0
            /\ plan' = remainder /\ prep' = [prep EXCEPT !.current = SpeedAfter(n)]
            /\ Bails
         \/ /\ left = prep.end /\ left = 0
            /\ plan' = plan_discard_current_block(remainder)
            /\ prep' = [prep EXCEPT !.current = SpeedAfter(n), !.loaded = FALSE]
            /\ pc' = "prep"
            /\ UNCHANGED <<endMotion, wake, timer>>
  /\ UNCHANGED <<slow, state, complete, hold, stBlocks, segments, segTail, st, taken,
                 cycleStop, boundVars>>

-------------------------------------------------------------------------------
(* The stepper interrupt                                                   *)

(* The segment it executes; a change of the block's index restarts the     *)
(* line tracer.                                                            *)
Popped ==
  IF st.running THEN st
  ELSE LET segment == segments[segTail]
       IN  [running |-> TRUE, index |-> segment.block, count |-> segment.n,
            traced |-> IF segment.block = st.index THEN st.traced ELSE 0]

Step ==
  /\ timer /\ (st.running \/ ~RingEmpty)
  /\ st' = [Popped EXCEPT !.count = @ - 1, !.traced = @ + 1, !.running = Popped.count # 1]
  /\ segTail' = IF Popped.count = 1 THEN NextSegment(segTail) ELSE segTail
  /\ taken' = <<stBlocks[Popped.index], st'.traced>>
  /\ UNCHANGED <<plan, slow, sysVars, pc, wake, motionVars, timer, cycleStop, boundVars>>

(* The main program has refilled the ring in time.                         *)
Fed == pc = "poll" /\ (endMotion \/ (IsEmpty(plan) /\ ~prep.loaded))

Shutdown ==
  /\ timer /\ ~st.running /\ RingEmpty /\ (Fed \/ MayStarve)
  /\ timer' = FALSE
  /\ cycleStop' = TRUE
  /\ UNCHANGED <<plan, slow, sysVars, pc, wake, motionVars, segTail, st, taken, boundVars>>

-------------------------------------------------------------------------------
Init ==
  /\ plan = plan_reset /\ slow = FALSE
  /\ state = "IDLE" /\ complete = FALSE /\ hold = FALSE /\ endMotion = FALSE
  /\ pc = "poll" /\ wake = FALSE
  /\ prep = NoPrep /\ stBlocks = [i \in BlockSlots |-> 0]
  /\ segments = [i \in SegmentSlots |-> [n |-> 0, block |-> 0]]
  /\ segHead = 0 /\ segTail = 0
  /\ st = NoStepper /\ timer = FALSE /\ cycleStop = FALSE /\ taken = <<>>
  /\ lengths = <<>> /\ holdsLeft = MaxHolds /\ overridesLeft = MaxOverrides

Generate == Prep \/ Filled \/ Load \/ Fill \/ NoStep \/ Publish
Interrupt == Step \/ Shutdown
Operate == CycleStart \/ FeedHold \/ Override \/ Flush
Host == \E n \in Lengths, r \in Rates, j \in Junctions : PlanLine(n, r, j)
Next == Generate \/ Interrupt \/ CycleStop \/ Operate \/ Host

Spec == Init /\ [][Next]_vars
FairSpec == Spec /\ WF_vars(Generate) /\ WF_vars(Interrupt) /\ WF_vars(CycleStop)

-------------------------------------------------------------------------------
(* Properties                                                              *)

Block == [id : 0..MaxLines, mm : Nat, rate : Nat, junction : Nat, max : Nat, entry : Nat]
TypeOK ==
  /\ plan \in [blocks : [Slots -> Block], tail : Slots, head : Slots, planned : Slots,
               nominal : Nat]
  /\ slow \in BOOLEAN
  /\ state \in {"IDLE", "CYCLE", "HOLD"}
  /\ complete \in BOOLEAN /\ hold \in BOOLEAN /\ endMotion \in BOOLEAN
  /\ pc \in {"poll", "prep", "publish"} /\ wake \in BOOLEAN
  /\ prep \in [loaded : BOOLEAN, index : BlockSlots, recalculate : BOOLEAN,
               override : BOOLEAN, current : Nat, exit : Nat, top : Nat, end : Nat]
  /\ stBlocks \in [BlockSlots -> 0..MaxLines]
  /\ segments \in [SegmentSlots -> [n : Nat, block : BlockSlots]]
  /\ segHead \in SegmentSlots /\ segTail \in SegmentSlots
  /\ st \in [running : BOOLEAN, index : BlockSlots, count : Nat, traced : Nat]
  /\ timer \in BOOLEAN /\ cycleStop \in BOOLEAN
  /\ lengths \in Seq(Nat) /\ Len(lengths) <= MaxLines
  /\ holdsLeft \in 0..MaxHolds /\ overridesLeft \in 0..MaxOverrides

(* Every line is stepped through once and in order, though its steps are   *)
(* spread over the planner's block, the segments cut from it and the       *)
(* interrupt, its data over slots that are used again, and holds and       *)
(* replanning come between.                                                *)
Total(f, n) == LET sum[k \in 0..n] == IF k = 0 THEN 0 ELSE sum[k - 1] + f[k - 1] IN sum[n]

Held == (segHead - segTail) % SegmentBufferSize
Segment(k) == segments[(segTail + k) % SegmentBufferSize]
SegmentLeft(k) == IF k = 0 /\ st.running THEN st.count ELSE Segment(k).n
BlockAt(k) == plan.blocks[(plan.tail + k) % BlockBufferSize]
Count == (plan.head - plan.tail) % BlockBufferSize
RingLeft(line) ==
  Total([k \in 0..(Held - 1) |-> IF stBlocks[Segment(k).block] = line THEN SegmentLeft(k) ELSE 0], Held)
PlanLeft(line) ==
  Total([k \in 0..(Count - 1) |-> IF BlockAt(k).id = line THEN BlockAt(k).mm ELSE 0], Count)
Left(line) == RingLeft(line) + PlanLeft(line)

P == INSTANCE Path WITH Steps <- Lengths, left <- [line \in 1..Len(lengths) |-> Left(line)]
PathFollowed == P!Spec

(* The look-ahead stops at the planned block, but the speeds it leaves are *)
(* the best there are: every block is entered as fast as its junction, the *)
(* way from the current speed and the way to a stop at the end allow.      *)
NoOverride == overridesLeft = MaxOverrides
Distance(i, j) == Total([k \in 0..(j - i - 1) |-> BlockAt(i + k).mm], j - i)
SpeedNow == IF prep.loaded THEN prep.current ELSE BlockAt(0).entry
SpeedLimits(k) == {SpeedNow + Distance(0, k), Distance(k, Count)}
                  \cup {BlockAt(j).max + Distance(j, k) : j \in 1..k}
                  \cup {BlockAt(j).max + Distance(k, j) : j \in k..(Count - 1)}
PlanIsOptimal ==
  NoOverride /\ ~hold =>
    \A k \in 1..(Count - 1) : /\ BlockAt(k).entry \in SpeedLimits(k)
                             /\ \A limit \in SpeedLimits(k) : BlockAt(k).entry <= limit

(* The machine never accelerates or brakes harder than it can: what a      *)
(* segment changes the squared speed by is bounded by its steps, and a     *)
(* change of block, a new plan, a hold or a resume changes nothing.        *)
Cleared == prep' = NoPrep
SpeedIsSmooth ==
  [][NoOverride /\ ~Cleared =>
       IF pc = "publish"
       THEN /\ prep'.current - prep.current <= segments[segHead].n
            /\ prep.current - prep'.current <= segments[segHead].n
       ELSE prep'.current = prep.current]_vars

(* A machine at rest starts from rest: after a stop or a completed hold    *)
(* nothing is left of the speed that was planned for the first block.      *)
StartsFromRest ==
  NoOverride /\ state # "CYCLE" /\ ~timer /\ RingEmpty /\ pc = "poll" /\ ~IsEmpty(plan)
    => SpeedNow = 0

(* A hold comes to its end: EXEC_CYCLE_STOP is never lost or taken for a   *)
(* motion's while the machine decelerates.                                 *)
HoldCompletes == state = "HOLD" ~> complete \/ state # "HOLD"

(* A cycle does not wait for a stop that nobody sends: its steppers run or *)
(* a stop is pending, even if the ring runs dry during a refill.           *)
MotionEnds == state = "CYCLE" ~> state # "CYCLE"

-------------------------------------------------------------------------------
(* What the comments of the code promise and the code does not keep        *)

(* planner.c:75-76: "A block entry speed cannot exceed one                 *)
(* reverse-computed from its exit speed with a maximum allowable           *)
(* deceleration over the block travel distance."                           *)
EntrySpeedsAllowBraking ==
  ~hold => \A k \in 1..(Count - 2) : BlockAt(k).entry <= BlockAt(k + 1).entry + BlockAt(k).mm
===============================================================================
