-------------------------------- MODULE MCHoming --------------------------------
(* Instances of Homing for TLC.                                            *)
EXTENDS Homing

ZThenXY == <<{"Z"}, {"X", "Y"}>>
ZThenX == <<{"Z"}, {"X"}>>
MinusOne == -1
Everywhere == {-1, 2, 4}
================================================================================
