---------------------------- MODULE ChangeLifecycle ----------------------------
(***************************************************************************)
(* What the state store promises about one change, as an observer of its   *)
(* state.json sees it (docs/superpowers/plans/                             *)
(* 2026-08-21-astro-04-ingestion-publication.md, task 2): states follow    *)
(* one another in a line, a live change can be rejected or can fail, a     *)
(* retry goes back to the last checkpoint under a new attempt, and a       *)
(* published change never moves again.                                     *)
(***************************************************************************)
EXTENDS ChangeDomain

VARIABLES
  status,      \* the state of the change, or NoState
  checkpoint,  \* the last checkpoint it passed
  attempt      \* the number of the current attempt

lvars == <<status, checkpoint, attempt>>

Init == status = NoState /\ checkpoint = "received" /\ attempt = 1

Receive ==
  /\ status = NoState
  /\ status' = "received"
  /\ UNCHANGED <<checkpoint, attempt>>

Advance ==
  /\ status \in DOMAIN Forward
  /\ status' = Forward[status]
  /\ checkpoint' = IF status' \in Checkpoints THEN status' ELSE checkpoint
  /\ UNCHANGED attempt

Abandon ==
  /\ status \in ChangeStates \ TerminalStates
  /\ status' \in {"rejected", "failed"}
  /\ UNCHANGED <<checkpoint, attempt>>

Retry ==
  /\ status \in {"rejected", "failed"}
  /\ status' = checkpoint
  /\ attempt' = attempt + 1
  /\ UNCHANGED checkpoint

Next == Receive \/ Advance \/ Abandon \/ Retry

Spec == Init /\ [][Next]_lvars

=============================================================================
