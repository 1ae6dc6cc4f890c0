---------------------------- MODULE MCChangeLock ----------------------------
(* Instances of ChangeLock for TLC: every caller in a process of its own.   *)
EXTENDS ChangeLock, TLC

CONSTANTS a, b, c, d, s1, s2

OwnProcess == [x \in {a, b, c, d} |-> x]
OwnProcess3 == [x \in {a, b, c} |-> x]
=============================================================================
