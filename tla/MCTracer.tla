------------------------------- MODULE MCTracer -------------------------------
(* Instances of Tracer for TLC: two axes, all short lines.                 *)
EXTENDS Tracer

XY == {"x", "y"}
ShortLines == {l \in [XY -> -3..3] : \E a \in XY : l[a] # 0}
===============================================================================
