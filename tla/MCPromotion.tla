------------------------------ MODULE MCPromotion ------------------------------
(* Instances of Promotion for TLC: two calls for one candidate, one for a     *)
(* candidate that only a fixture approved.                                   *)
EXTENDS Promotion

CONSTANTS p1, p2, p3, c1, c2, n1

Candidate == [p \in {p1, p2, p3} |-> IF p = p3 THEN c2 ELSE c1]
=============================================================================
