---------------------------- MODULE MCCandidateSeals ----------------------------
(***************************************************************************)
(* Lineages that share as much as two histories can share: the second      *)
(* attempt of a change, its first one run again, a rehearsal in the test   *)
(* environment, another clone with another plan, and a candidate sealed    *)
(* before digests were recorded.                                           *)
(***************************************************************************)
EXTENDS CandidateSeals

CONSTANT Others

First ==
  [change |-> "c", attempt |-> 1, input |-> "i", plan |-> "p", baseline |-> "b",
   profile |-> "f", output |-> "o", moment |-> 1, environment |-> "production",
   key |-> "own", sealed |-> TRUE]

Histories ==
  [ first |-> First,
    second |-> [First EXCEPT !.attempt = 2, !.output = "q", !.moment = 2],
    again |-> [First EXCEPT !.moment = 2],
    rehearsal |-> [First EXCEPT !.environment = "test"],
    clone |-> [First EXCEPT !.plan = "r", !.baseline = "d", !.key = "other"],
    legacy |-> [First EXCEPT !.sealed = FALSE] ]

TheLineages == {Histories[h] : h \in Others \cup {"first"}}
=============================================================================
