---------------------------------- MODULE Path ----------------------------------
(* What the motion core promises: the steps of the lines are taken one by  *)
(* one, in the order of the lines and of the steps in a line, none left    *)
(* out and none twice, until what is left of them is thrown away at once.  *)
EXTENDS Naturals, Sequences

CONSTANT Steps                  \* the lengths of lines

VARIABLES lengths, left, taken  \* of every line, what is left of it, the last step

Begin == lengths = <<>> /\ left = <<>>

Plan == /\ \E n \in Steps : lengths' = Append(lengths, n) /\ left' = Append(left, n)
        /\ UNCHANGED taken

Step == \E line \in 1..Len(left) :
          /\ left[line] > 0 /\ \A other \in 1..(line - 1) : left[other] = 0
          /\ taken' = <<line, lengths[line] - left[line] + 1>>
          /\ left' = [left EXCEPT ![line] = @ - 1]
          /\ UNCHANGED lengths

Flush == /\ left' = [line \in 1..Len(left) |-> 0]
         /\ UNCHANGED <<lengths, taken>>

Spec == Begin /\ [][Plan \/ Step \/ Flush]_<<lengths, left, taken>>
===============================================================================
