-------------------------------- MODULE Planner --------------------------------
(***************************************************************************)
(* The planner (planner.c): its ring of blocks and the look-ahead that     *)
(* gives every block the speed at which it is entered.                     *)
(*                                                                         *)
(* A plan is a record of the planner's static variables; an operator takes *)
(* a plan and returns the plan that the function of that name leaves.      *)
(* Speeds are squared and measured in what one step of acceleration adds   *)
(* to the square, so that a block of mm steps changes it by mm at most.    *)
(* The geometry of a line is what the look-ahead sees of it: its length,   *)
(* its rate and the highest speed its first junction allows.               *)
(***************************************************************************)
EXTENDS Integers

CONSTANT BlockBufferSize                    (* BLOCK_BUFFER_SIZE           *)
ASSUME PlannerAssumption == BlockBufferSize \in Nat \ {0, 1}

Slots == 0..(BlockBufferSize - 1)
Least(a, b) == IF a < b THEN a ELSE b
Greatest(a, b) == IF a > b THEN a ELSE b

NoBlock == [id |-> 0, mm |-> 0, rate |-> 1, junction |-> 0, max |-> 0, entry |-> 0]
plan_reset == [blocks |-> [i \in Slots |-> NoBlock], tail |-> 0, head |-> 0,
               planned |-> 0, nominal |-> 0]    \* nominal: of the last line

plan_next_block_index(i) == IF i + 1 = BlockBufferSize THEN 0 ELSE i + 1

IsEmpty(p) == p.head = p.tail
IsFull(p) == plan_next_block_index(p.head) = p.tail
Current(p) == p.blocks[p.tail]

ExitSpeed(p) == LET i == plan_next_block_index(p.tail)
                IN  IF i = p.head THEN 0 ELSE p.blocks[i].entry

(* The slots from the tail to the head.                                    *)
Queued(p) == {i \in Slots : (i - p.tail) % BlockBufferSize
                              < (p.head - p.tail) % BlockBufferSize}

plan_discard_current_block(p) ==
  IF IsEmpty(p) THEN p
  ELSE LET next == plan_next_block_index(p.tail)
       IN  [p EXCEPT !.tail = next, !.planned = IF @ = p.tail THEN next ELSE @]

-------------------------------------------------------------------------------
(* planner_recalculate                                                     *)

(* The passes run over the slots that follow the planned block up to the   *)
(* last one, here numbered from the planned block. With an empty buffer    *)
(* that is the whole ring.                                                 *)
At(p, k) == (p.planned + k) % BlockBufferSize
LastPosition(p) == (p.head - 1 - p.planned) % BlockBufferSize
Position(p, i) == (i - p.planned) % BlockBufferSize

(* The reverse pass comes to the tail and tells the stepper.               *)
UpdatesStepper(p) == Position(p, p.tail) < LastPosition(p)

(* A block that is entered as fast as it may be is left alone.             *)
Backward(b, next) == IF b.entry = b.max THEN b.entry ELSE Least(b.max, next + b.mm)
ReverseSpeeds(p) ==
  LET speed[k \in 1..LastPosition(p)] ==
        LET b == p.blocks[At(p, k)]
        IN  IF k = LastPosition(p) THEN Least(b.max, b.mm) ELSE Backward(b, speed[k + 1])
  IN  speed
Entered(p, speed) ==
  [p EXCEPT !.blocks = [i \in Slots |-> IF Position(p, i) \in 1..LastPosition(p)
                                        THEN [@[i] EXCEPT !.entry = speed[Position(p, i)]]
                                        ELSE @[i]]]
ReversePass(p) == Entered(p, ReverseSpeeds(p))

(* The forward pass limits a speed that cannot be reached; the last block  *)
(* that is, or that is entered at its maximum, is the planned one.         *)
SettledEarly(speed, b) == speed <= b.max        \* mutant: every block is final
Settled(speed, b) == speed < b.entry \/ speed = b.max
Forward(b, before, speed) ==
  IF speed < b.entry THEN Least(b.entry, speed + before.mm) ELSE b.entry
ForwardSpeeds(p) ==
  LET speed[k \in 0..LastPosition(p)] ==
        LET b == p.blocks[At(p, k)]
        IN  IF k = 0 THEN b.entry ELSE Forward(b, p.blocks[At(p, k - 1)], speed[k - 1])
  IN  speed
ForwardPass(p) ==
  LET speed == ForwardSpeeds(p)
      optimal == {k \in 1..LastPosition(p) : Settled(speed[k], p.blocks[At(p, k)])}
      last == CHOOSE k \in optimal : \A other \in optimal : other <= k
  IN  [Entered(p, speed) EXCEPT !.planned = IF optimal = {} THEN @ ELSE At(p, last)]

Recalculated(p) == IF LastPosition(p) = 0 THEN p ELSE ForwardPass(ReversePass(p))

-------------------------------------------------------------------------------
(* Speeds of a block under the feed override, which is either 100 or 50    *)
(* percent here, and MINIMUM_FEED_RATE is 1.                               *)
Nominal(rate, slow) == IF slow /\ rate >= 4 THEN rate \div 4 ELSE IF slow THEN 1 ELSE rate

(* plan_buffer_line: the new block at the head. The first block of an      *)
(* empty buffer is entered from rest.                                      *)
Buffered(p, id, mm, rate, junction, slow) ==
  LET nominal == Nominal(rate, slow)
      limit == IF IsEmpty(p) THEN 0 ELSE junction
      b == [id |-> id, mm |-> mm, rate |-> rate, junction |-> limit, entry |-> 0,
            max |-> Least(Least(nominal, p.nominal), limit)]
  IN  [p EXCEPT !.blocks[p.head] = b, !.nominal = nominal,
                !.head = plan_next_block_index(p.head)]

(* plan_update_velocity_profile_parameters; 0 stands for the large value   *)
(* that an empty buffer leaves behind, which no block reads.               *)
Updated(p, slow) ==
  LET nominal(i) == Nominal(p.blocks[i].rate, slow)
      previous(i) == CHOOSE j \in Slots : plan_next_block_index(j) = i
      limit(i) == IF i = p.tail THEN nominal(i) ELSE Least(nominal(i), nominal(previous(i)))
  IN  [p EXCEPT
        !.blocks = [i \in Slots |-> IF i \in Queued(p)
                                    THEN [@[i] EXCEPT !.max = Least(limit(i), p.blocks[i].junction)]
                                    ELSE @[i]],
        !.nominal = IF IsEmpty(p) THEN 0 ELSE nominal(previous(p.head))]
===============================================================================
