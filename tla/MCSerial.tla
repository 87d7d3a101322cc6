------------------------------- MODULE MCSerial -------------------------------
(* Instances of Serial for TLC: a host that counts characters and may send *)
(* comments, and one that sends what it likes.                             *)
EXTENDS Serial

Counting == [counts |-> TRUE, chars |-> CharKinds \ {"blank"}, send |-> 5, resets |-> 1]
Careless == [counts |-> FALSE, chars |-> {"blank"}, send |-> 5, resets |-> 1]
BothHosts == {Counting, Careless}
===============================================================================
