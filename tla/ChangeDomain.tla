----------------------------- MODULE ChangeDomain -----------------------------
(***************************************************************************)
(* The life of one change (src/src/ingest/domain.ts), the journal that     *)
(* records it (journal.ts) and the record derived from a journal           *)
(* (recordFromJournal in state-store.ts).                                  *)
(*                                                                         *)
(* A journal is a sequence of events.  Its hash chain and its sequence     *)
(* numbers are represented by the order of the sequence; the payload hash  *)
(* and the time of an event are left out.  Every event type that is not    *)
(* reserved is "step".                                                     *)
(***************************************************************************)
EXTENDS Naturals, Sequences, FiniteSets

Checkpoints == {"received", "normalized", "planned", "gate1_approved"}
TerminalStates == {"published", "rejected", "failed"}
ChangeStates ==
  Checkpoints \cup {"generated", "validated", "gate2_approved"} \cup TerminalStates

\* nextState: the one way forward from a state.
Forward ==
  [received |-> "normalized", normalized |-> "planned",
   planned |-> "gate1_approved", gate1_approved |-> "generated",
   generated |-> "validated", validated |-> "gate2_approved",
   gate2_approved |-> "published"]

AllowedTransition(from, to) ==
  \/ from \in DOMAIN Forward /\ to = Forward[from]
  \/ from \in ChangeStates \ TerminalStates /\ to \in {"rejected", "failed"}

-----------------------------------------------------------------------------
NoState == "none"   \* the `from` of the first event (null)

EventTypes == {"step", "retry", "lock-recovered"}
Events == [type : EventTypes, from : ChangeStates \cup {NoState}, to : ChangeStates]

\* assertTransitionShape, for the first event and for one that has a predecessor.
LegalFirst(e) == e.type = "step" /\ e.from = NoState /\ e.to = "received"

LegalAfter(previous, e) ==
  /\ e.from = previous.to
  /\ \/ e.type = "lock-recovered" /\ e.to = e.from
     \/ e.type = "retry" /\ e.from \in {"failed", "rejected"} /\ e.to \in Checkpoints
     \/ e.type = "step" /\ AllowedTransition(e.from, e.to)

\* verifyJournalEvents accepts the journal.
LegalJournal(j) ==
  \A i \in 1 .. Len(j) :
    IF i = 1 THEN LegalFirst(j[1]) ELSE LegalAfter(j[i - 1], j[i])

-----------------------------------------------------------------------------
Records ==
  [state : ChangeStates, revision : Nat \ {0}, attempt : Nat \ {0},
   resume : Checkpoints]

Retries(j) == {i \in 1 .. Len(j) : j[i].type = "retry"}

\* The last checkpoint the journal visits.
LastCheckpoint(j) ==
  LET visits == {i \in 1 .. Len(j) : j[i].to \in Checkpoints}
  IN  IF visits = {} THEN "received"
      ELSE j[CHOOSE i \in visits : \A k \in visits : k <= i].to

\* recordFromJournal: what state.json must say next to a (non-empty) journal.
RecordOf(j) ==
  [state    |-> j[Len(j)].to,
   revision |-> Len(j),
   attempt  |-> 1 + Cardinality(Retries(j)),
   resume   |-> LastCheckpoint(j)]

=============================================================================
