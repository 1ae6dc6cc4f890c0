---------------------------- MODULE ExclusiveLock ----------------------------
(***************************************************************************)
(* What withChangeLock (src/src/ingest/state-store.ts) promises to the     *)
(* rest of the controller: one change has at most one owner, a live owner  *)
(* keeps the change until it gives it back, and what a dead owner held can *)
(* be freed.  The acquisition protocol itself is in ChangeLock.            *)
(***************************************************************************)
CONSTANTS
  Callers,   \* concurrent invocations of withChangeLock
  None       \* nobody owns the change (not a caller)

VARIABLES
  owner,     \* who owns the change
  gone       \* the callers whose process has died

avars == <<owner, gone>>

Init == owner = None /\ gone = {}

Take(c) ==
  /\ owner = None
  /\ c \notin gone
  /\ owner' = c
  /\ UNCHANGED gone

Release(c) ==
  /\ owner = c
  /\ c \notin gone
  /\ owner' = None
  /\ UNCHANGED gone

Free ==
  /\ owner \in gone
  /\ owner' = None
  /\ UNCHANGED gone

Die(S) ==
  /\ gone' = gone \cup S
  /\ UNCHANGED owner

Next ==
  \/ \E c \in Callers : Take(c) \/ Release(c)
  \/ Free
  \/ \E S \in SUBSET Callers : Die(S)

Spec == Init /\ [][Next]_avars

=============================================================================
