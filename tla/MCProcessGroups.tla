---------------------------- MODULE MCProcessGroups ----------------------------
(***************************************************************************)
(* All the runners, with every combination of what their processes do.     *)
(***************************************************************************)
EXTENDS ProcessGroups

EveryKind == AllKinds
=============================================================================
