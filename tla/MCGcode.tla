-------------------------------- MODULE MCGcode --------------------------------
(* Instances of Gcode for TLC.                                             *)
EXTENDS Gcode

C(name) == Command(name)
X(n) == Value("X", n)
Z(n) == Value("Z", n)
F == Value("F", 2)

TwoToTwo == -2..2

SomeLines ==
  {{C("G0"), X(1)}, {C("G1"), X(2), F}, {C("G91"), X(1)}, {C("G53"), C("G0"), X(1)},
   {C("G20"), C("G55"), C("G0"), X(1)}, {C("G92"), X(1)}, {C("G92"), C("G55"), X(1)}, {C("G92.1")},
   {C("G10"), Value("L", 258), Value("P", 2), X(1)}, {C("G10"), Value("L", 20), Value("P", 256), X(1)},
   {C("G28"), X(1)}, {C("G28")}, {C("G28.1"), C("M8")}, {C("G43.1"), Z(1)}, {C("G49")},
   {C("G38.2"), Z(-1), F}, {C("M3"), Value("S", 1)}, {C("M4"), Value("S", 2), X(1)}, {Value("S", 2)},
   {C("M8")}, {C("M0")}, {C("M30")}, {C("G55"), C("M30")}, {C("G4"), Value("P", 1)},
   {C("G93"), C("G1"), X(1), F}, {C("G80")},
   {C("G2"), X(2), Value("I", 1), F}, {C("G18"), C("G3"), X(1), Z(1), Value("R", 1), F},
   {C("G10"), C("G0"), C("G43.1")}, {C("M3"), C("M5")}, {X(1), X(2)}, {C("G5"), Value("F", -1)}}
SomeJogs == {{X(2), F}, {C("G91"), X(-1), F}, {C("G53"), Z(-2), F}, {X(1)}, {F, C("M3")}}
JogAnything == {{F}, {X(1), F}}
ProgramEnds == {{C("M30")}, {C("M8")}}
None == {}
================================================================================
