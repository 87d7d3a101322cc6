------------------------------ MODULE MCSettings ------------------------------
(* Instances of Settings for TLC.                                          *)
EXTENDS Settings

TwoLines == {<<1, 0>>, <<2, 0>>}
TwoVectors == {<<0, 0>>, <<1, 0>>}
ThreeNumbers == 0..2
(* One of each kind: 9 is 1; 2 falls on the build info, 3 and 4 on the     *)
(* settings, 5 on the coordinates of G54.                                  *)
LineNumbersSix == {0, 2, 3, 4, 5, 9}
SixNumbers == {0, 20, 22, 27, 100, 133}
FourValues == {0, 1, 3, 8}
===============================================================================
