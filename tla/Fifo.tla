--------------------------------- MODULE Fifo ---------------------------------
(* What a ring buffer promises to the two sides that share it: items come  *)
(* out in the order they went in, none is lost or made up.                 *)
EXTENDS Naturals, Sequences

CONSTANTS Item, Capacity

VARIABLES content, taken    \* what is in the buffer, what was taken last

Put == /\ Len(content) < Capacity
       /\ \E x \in Item : content' = Append(content, x)
       /\ UNCHANGED taken

Take == /\ content # <<>>
        /\ taken' = Head(content)
        /\ content' = Tail(content)

(* The reader gives up what had arrived when it looked.                    *)
Discard == /\ \E n \in 1..Len(content) : content' = SubSeq(content, n + 1, Len(content))
           /\ UNCHANGED taken

Init == content = <<>>
Steady == Init /\ [][Put \/ Take]_<<content, taken>>
Spec == Init /\ [][Put \/ Take \/ Discard]_<<content, taken>>
===============================================================================
