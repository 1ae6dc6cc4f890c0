---------------------------- MODULE MCChangeStore ----------------------------
(* Instances of ChangeStore for TLC. *)
EXTENDS ChangeStore

CONSTANTS p1, p2, p3, r1
=============================================================================
