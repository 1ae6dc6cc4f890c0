------------------------------ MODULE ChangeStore ------------------------------
(***************************************************************************)
(* The durable state of one change: journal.ndjson and state.json, written *)
(* one after the other by persistTransition and retryChange, repaired by   *)
(* recordLockRecovery, and read without a lock by readChange and           *)
(* verifyJournal (src/src/ingest/state-store.ts).                          *)
(*                                                                         *)
(* The lock is the one ExclusiveLock promises, with the recovery of a      *)
(* stale lock in the steps of acquireLockUnderGuard (unlink, create,       *)
(* record), because a process may die or fail between any two of them.     *)
(* While a caller owns the lock nobody else writes, so what it reads and   *)
(* checks before a write is one step; each atomic write is another.        *)
(***************************************************************************)
EXTENDS ChangeDomain, SequencesExt

CONSTANTS
  Procs,        \* processes that call withChangeLock, one call at a time
  Mortal,       \* the processes that may die
  Readers,      \* lock-free callers of readChange
  None,         \* no state.json, no owner, nothing read
  Faults,       \* when writeAtomic may throw: "before" or "after" its rename
  MaxFaults,    \* bound: how often it throws at each of them
  MaxRevision   \* bound: transitions and retries start below this many events

FaultKinds == {"before", "after"}

ASSUME StoreConstants ==
  /\ Mortal \subseteq Procs
  /\ None \notin Procs \cup Records
  /\ Faults \subseteq FaultKinds
  /\ MaxFaults \in Nat
  /\ MaxRevision \in Nat

VARIABLES
  journal,   \* journal.ndjson: a sequence of events
  state,     \* state.json: a record, or None
  owner,     \* whom the lock file names
  pc,        \* pc[p]: what p does next
  write,     \* write[p]: the transition p is (or was, when it died) persisting
  pending,   \* pending[p]: recoveryPending of the lock p holds
  faults,    \* faults[k]: how often writeAtomic has thrown at k
  reading,   \* reading[r]: the state.json a reader has read, or None
  returned,  \* returned[r]: what the reader's last readChange returned
  acked      \* history: the journal when a caller was last told of success

fileVars == <<journal, state>>
readVars == <<reading, returned>>
vars == <<fileVars, owner, pc, write, pending, faults, readVars, acked>>

\* The calls during which a transition is persisted: the callback of a call,
\* the recovery of a stale lock, and the recovery event that had to wait.
Contexts == {"callback", "recovery", "pending"}
NoWrite == [ctx |-> "callback", event |-> None, next |-> None, before |-> <<>>]

Labels == {"idle", "dead", "unlinked", "record", "callback", "journal", "state",
           "rollback", "release"}
HoldsLock == {"record", "callback", "journal", "state", "rollback", "release"}

Init ==
  /\ journal = <<>>
  /\ state = None
  /\ owner = None
  /\ pc = [p \in Procs |-> "idle"]
  /\ write = [p \in Procs |-> NoWrite]
  /\ pending = [p \in Procs |-> FALSE]
  /\ faults = [k \in FaultKinds |-> 0]
  /\ reading = [r \in Readers |-> None]
  /\ returned = [r \in Readers |-> None]
  /\ acked = <<>>

At(p, label) == pc[p] = label
Goto(p, label) == pc' = [pc EXCEPT ![p] = label]

\* verifyJournalFor: the journal is legal and derives exactly this record.
Verified(record) ==
  /\ LegalJournal(journal)
  /\ journal # <<>>
  /\ record = RecordOf(journal)

-----------------------------------------------------------------------------
(***************************************************************************)
(* Obtaining the lock.  RecoverLock is acquireLockUnderGuard on a lock     *)
(* whose owner is dead; no second caller is between its steps because of   *)
(* the recovery guard.                                                     *)
(***************************************************************************)
Recovering == \E p \in Procs : pc[p] \in {"unlinked", "record"}

Acquire(p) ==
  /\ At(p, "idle")
  /\ ~Recovering
  /\ owner = None
  /\ owner' = p
  /\ pending' = [pending EXCEPT ![p] = FALSE]
  /\ Goto(p, "callback")
  /\ UNCHANGED <<fileVars, write, faults, readVars, acked>>

BreakStaleLock(p) ==
  /\ At(p, "idle")
  /\ ~Recovering
  /\ owner # None /\ At(owner, "dead")
  /\ owner' = None
  /\ Goto(p, "unlinked")
  /\ UNCHANGED <<fileVars, write, pending, faults, readVars, acked>>

TakeBrokenLock(p) ==
  /\ At(p, "unlinked")
  /\ owner' = p
  /\ Goto(p, "record")
  /\ UNCHANGED <<fileVars, write, pending, faults, readVars, acked>>

(***************************************************************************)
(* persistTransition up to the first write: `event` is persisted if the    *)
(* files agree and the transition is allowed, and nothing happens if not.  *)
(***************************************************************************)
\* Mutant of NextRecord: a retry stays in the attempt that failed.
SameAttempt(event) ==
  IF state = None
    THEN [state |-> "received", revision |-> 1, attempt |-> 1, resume |-> "received"]
    ELSE [state EXCEPT
            !.state = event.to,
            !.revision = @ + 1,
            !.resume = IF event.to \in Checkpoints THEN event.to ELSE @]

NextRecord(event) ==
  IF state = None
    THEN [state |-> "received", revision |-> 1, attempt |-> 1, resume |-> "received"]
    ELSE [state EXCEPT
            !.state = event.to,
            !.revision = @ + 1,
            !.attempt = IF event.type = "retry" THEN @ + 1 ELSE @,
            !.resume = IF event.type # "retry" /\ event.to \in Checkpoints
                         THEN event.to ELSE @]

Begin(p, ctx, event) ==
  /\ write' = [write EXCEPT ![p] = [ctx |-> ctx, event |-> event,
                                    next |-> NextRecord(event), before |-> journal]]
  /\ Goto(p, "journal")

From == IF state = None THEN NoState ELSE state.state
Step(to) == [type |-> "step", from |-> From, to |-> to]

\* Mutant of Persistable: an orphaned journal is overwritten.
OverOrphan(to) ==
  \/ state = None /\ to = "received"
  \/ state # None /\ Verified(state) /\ AllowedTransition(state.state, to)

\* Neither an orphaned journal nor a missing predecessor is overwritten.
Persistable(to) ==
  \/ state = None /\ journal = <<>> /\ to = "received"
  \/ state # None /\ Verified(state) /\ AllowedTransition(state.state, to)

Transition(p) ==
  /\ At(p, "callback")
  /\ Len(journal) < MaxRevision
  /\ \E to \in ChangeStates : Persistable(to) /\ Begin(p, "callback", Step(to))
  /\ UNCHANGED <<fileVars, owner, pending, faults, readVars, acked>>

\* The callback throws: a transition was refused, or an error of its own.  A
\* recovery that waits is not recorded.
FailCallback(p) ==
  /\ At(p, "callback")
  /\ Goto(p, "release")
  /\ UNCHANGED <<fileVars, owner, write, pending, faults, readVars, acked>>

Retry(p) ==
  /\ At(p, "callback")
  /\ Len(journal) < MaxRevision
  /\ state # None /\ Verified(state)
  /\ state.state \in {"failed", "rejected"}
  /\ Begin(p, "callback", [type |-> "retry", from |-> state.state, to |-> state.resume])
  /\ UNCHANGED <<fileVars, owner, pending, faults, readVars, acked>>

LockRecovered == [type |-> "lock-recovered", from |-> From, to |-> From]

\* Under the guard: nothing to record yet, a record to write, or an error that
\* gives the lock back.
RecordRecovery(p) ==
  /\ At(p, "record")
  /\ \/ /\ state = None
        /\ pending' = [pending EXCEPT ![p] = TRUE]
        /\ Goto(p, "callback")
        /\ UNCHANGED write
     \/ /\ state # None /\ Verified(state)
        /\ pending' = [pending EXCEPT ![p] = FALSE]
        /\ Begin(p, "recovery", LockRecovered)
     \/ /\ state # None /\ ~Verified(state)
        /\ Goto(p, "release")
        /\ UNCHANGED <<pending, write>>
  /\ UNCHANGED <<fileVars, owner, faults, readVars, acked>>

\* Mutant of FinishCallback: a recovery is recorded after every callback.
RecordTwice(p) ==
  /\ At(p, "callback")
  /\ IF state # None /\ Verified(state)
       THEN /\ Begin(p, "pending", LockRecovered)
            /\ pending' = [pending EXCEPT ![p] = FALSE]
       ELSE /\ Goto(p, "release")
            /\ UNCHANGED <<write, pending>>
  /\ UNCHANGED <<fileVars, owner, faults, readVars, acked>>

\* The callback returned.  A recovery that had to wait is recorded now.
FinishCallback(p) ==
  /\ At(p, "callback")
  /\ IF pending[p] /\ state # None /\ Verified(state)
       THEN /\ Begin(p, "pending", LockRecovered)
            /\ pending' = [pending EXCEPT ![p] = FALSE]
       ELSE /\ Goto(p, "release")
            /\ UNCHANGED <<write, pending>>
  /\ UNCHANGED <<fileVars, owner, faults, readVars, acked>>

-----------------------------------------------------------------------------
(***************************************************************************)
(* The two writes.  writeAtomic replaces the file with rename; it may      *)
(* throw before the rename, or after it when the directory cannot be       *)
(* synchronized.                                                           *)
(***************************************************************************)
Throws(kind) ==
  /\ kind \in Faults
  /\ faults[kind] < MaxFaults
  /\ faults' = [faults EXCEPT ![kind] = @ + 1]

WriteJournal(p) ==
  /\ At(p, "journal")
  /\ LET longer == Append(write[p].before, write[p].event) IN
       \/ journal' = longer /\ Goto(p, "state") /\ UNCHANGED faults
       \/ Throws("before") /\ UNCHANGED journal /\ Goto(p, "release")
       \/ Throws("after") /\ journal' = longer /\ Goto(p, "release")
  /\ UNCHANGED <<state, owner, write, pending, readVars, acked>>

\* The caller learns that its transition is durable.
Succeed(p) ==
  /\ Goto(p, IF write[p].ctx = "pending" THEN "release" ELSE "callback")
  /\ acked' = journal

WriteState(p) ==
  /\ At(p, "state")
  /\ \/ /\ state' = write[p].next
        /\ Succeed(p)
        /\ UNCHANGED faults
     \/ /\ Throws("before")
        /\ Goto(p, "rollback")
        /\ UNCHANGED <<state, acked>>
     \/ /\ Throws("after")
        /\ state' = write[p].next
        /\ Goto(p, "rollback")
        /\ UNCHANGED acked
  /\ UNCHANGED <<journal, owner, write, pending, readVars>>

\* Mutants of Rollback: a failed transition removes the journal as if it had been
\* the first; and it leaves the longer journal behind.
RollbackToNothing(p) ==
  /\ At(p, "rollback")
  /\ journal' = <<>>
  /\ Goto(p, "release")
  /\ UNCHANGED <<state, owner, write, pending, faults, readVars, acked>>

NoRollback(p) ==
  /\ At(p, "rollback")
  /\ Goto(p, "release")
  /\ UNCHANGED <<fileVars, owner, write, pending, faults, readVars, acked>>

\* The previous journal is written back, or the first one is removed.
Rollback(p) ==
  /\ At(p, "rollback")
  /\ \/ journal' = write[p].before /\ UNCHANGED faults
     \/ Throws("before") /\ UNCHANGED journal
     \/ Throws("after") /\ journal' = write[p].before
  /\ Goto(p, "release")
  /\ UNCHANGED <<state, owner, write, pending, readVars, acked>>

\* Also after an error: removeOwnedLock on the lock.
Release(p) ==
  /\ At(p, "release")
  /\ owner' = None
  /\ Goto(p, "idle")
  /\ write' = [write EXCEPT ![p] = NoWrite]
  /\ UNCHANGED <<fileVars, pending, faults, readVars, acked>>

Crash(p) ==
  /\ p \in Mortal
  /\ pc[p] # "dead"
  /\ Goto(p, "dead")
  /\ UNCHANGED <<fileVars, owner, write, pending, faults, readVars, acked>>

(***************************************************************************)
(* readChange outside the lock: state.json first, the journal later.       *)
(***************************************************************************)
ReadState(r) ==
  /\ reading[r] = None
  /\ state # None
  /\ reading' = [reading EXCEPT ![r] = state]
  /\ returned' = [returned EXCEPT ![r] = None]
  /\ UNCHANGED <<fileVars, owner, pc, write, pending, faults, acked>>

ReadJournal(r) ==
  /\ reading[r] # None
  /\ returned' = [returned EXCEPT
                    ![r] = IF Verified(reading[r]) THEN reading[r] ELSE None]
  /\ reading' = [reading EXCEPT ![r] = None]
  /\ UNCHANGED <<fileVars, owner, pc, write, pending, faults, acked>>

CallStep(p) ==
  \/ Acquire(p) \/ BreakStaleLock(p) \/ TakeBrokenLock(p) \/ RecordRecovery(p)
  \/ Transition(p) \/ FailCallback(p) \/ Retry(p) \/ FinishCallback(p)
  \/ WriteJournal(p) \/ WriteState(p) \/ Rollback(p) \/ Release(p)

Next ==
  \/ \E p \in Procs : CallStep(p) \/ Crash(p)
  \/ \E r \in Readers : ReadState(r) \/ ReadJournal(r)

Spec == Init /\ [][Next]_vars

-----------------------------------------------------------------------------
(***************************************************************************)
(* Properties                                                              *)
(***************************************************************************)
Writing == [ctx : Contexts, event : Events, next : Records, before : Seq(Events)]

\* Type invariant.
TypeOK ==
  /\ journal \in Seq(Events)
  /\ state \in Records \cup {None}
  /\ owner \in Procs \cup {None}
  /\ pc \in [Procs -> Labels]
  /\ write \in [Procs -> Writing \cup {NoWrite}]
  /\ pending \in [Procs -> BOOLEAN]
  /\ faults \in [FaultKinds -> 0 .. MaxFaults]
  /\ reading \in [Readers -> Records \cup {None}]
  /\ returned \in [Readers -> Records \cup {None}]
  /\ acked \in Seq(Events)

\* The two files tell the same story (or neither exists).
InSync ==
  \/ state = None /\ journal = <<>>
  \/ state # None /\ Verified(state)

\* Whatever fails and whoever dies, the journal on disk is one that
\* verifyJournalEvents accepts: recovery and retry events included.
JournalLegal == LegalJournal(journal)

\* A transition that succeeded is never lost: no rollback, retry or recovery
\* removes an event a caller was told of.
AckedDurable == IsPrefix(acked, journal)

\* Nobody is between the two writes of a transition (the dead included: a dead
\* process writes nothing any more).
Settled == \A p \in Procs : pc[p] \notin {"journal", "state", "rollback"}

\* One write at most has failed, and it wrote nothing: the failures that
\* persistTransition undoes.
Undone == faults["after"] = 0 /\ faults["before"] <= 1

\* persistTransition undoes a failed write: when nobody is writing, and nobody
\* died during a call that wrote, state.json and the journal agree.
SettledInSync ==
  Undone /\ Settled /\ (\A p \in Procs : At(p, "dead") => write[p] = NoWrite) => InSync

\* Once the files disagree and nobody is writing, they stay as they are: every
\* later call is refused instead of repairing one from the other.
FailsClosed == [][Settled /\ ~InSync => Settled' /\ UNCHANGED fileVars]_vars

\* What a lock-free reader returned stays part of the change's history: the
\* journal still derives that record from its first `revision` events.
ReadsAreDurable ==
  \A r \in Readers :
    Undone /\ returned[r] # None =>
      /\ returned[r].revision <= Len(journal)
      /\ RecordOf(SubSeq(journal, 1, returned[r].revision)) = returned[r]

\* The journal never invents a recovery: it names at most one per process that
\* died, although a recovery can be recorded at two points of a call.
NoSpuriousRecovery ==
  Cardinality({i \in 1 .. Len(journal) : journal[i].type = "lock-recovered"})
    <= Cardinality({p \in Procs : At(p, "dead")})

\* state.json of the change behaves like ChangeLifecycle.
Lifecycle == INSTANCE ChangeLifecycle WITH
  status <- From,
  checkpoint <- IF state = None THEN "received" ELSE state.resume,
  attempt <- IF state = None THEN 1 ELSE state.attempt

ImplementsLifecycle == Lifecycle!Spec

=============================================================================
