------------------------------- MODULE MCMotion -------------------------------
(* Instances of Motion for TLC.                                            *)
EXTENDS Motion

OneTwo == {1, 2}
OneThree == {1, 3}
OneFour == {1, 4}
FourSixteen == {4, 16}
Two == {2}
Four == {4}
===============================================================================
