------------------------------ MODULE MCRealtime ------------------------------
(* Instances of Realtime for TLC: who sends what in each run.              *)
EXTENDS Realtime

(* The program runs: everything but probing.                               *)
ProgramLines == LineKinds \ {"probe"}

(* The probe run: a probe cycle among jogs and the lines that change the   *)
(* state it finds, under every byte that can stop it.                      *)
ProbeLines == {"probe", "jog", "sleep", "check", "spindleOn"}
ProbeBytes == RealtimeBytes \ {"reset", "start"}

(* The runs that exhibit a disagreement need little.                       *)
MotionProgram == {"motion"}
MotionThenProbe == {"motion", "probe"}
SpindleAndMotion == {"spindleOn", "motion"}
HoldOnly == {"hold"}
DoorAndHold == {"door", "hold", "start"}
ProbeOnly == {"probe"}
ResetAndStart == {"reset", "start"}
ResetOnly == {"reset"}
===============================================================================
