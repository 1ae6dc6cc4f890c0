----------------------------- MODULE ProtectedMain -----------------------------
(***************************************************************************)
(* What everybody else may rely on about refs/heads/main: it only grows,   *)
(* and a promotion adds a candidate together with its dossier, in one      *)
(* step, and only to the baseline the candidate was approved on.  A commit *)
(* is the sequence of labels that lead to it from that baseline.           *)
(***************************************************************************)
EXTENDS Sequences

CONSTANTS
  Promoters,    \* calls of promoteCandidate
  CandidateOf,  \* the candidate each of them promotes
  Authorized,   \* the candidates both gates approved in production
  Others        \* commits that are no promotion

VARIABLE main

Base == <<>>
Dossier(p) == <<CandidateOf[p], p>>

Init == main = Base

Publish ==
  \E p \in Promoters :
    /\ CandidateOf[p] \in Authorized
    /\ main = Base
    /\ main' = Dossier(p)

Commit == \E n \in Others : main' = Append(main, n)

Spec == Init /\ [][Publish \/ Commit]_main
=============================================================================
