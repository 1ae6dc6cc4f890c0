--------------------------- MODULE ChangeStoreProofs ---------------------------
(***************************************************************************)
(* Theorems about the durable state of a change, for any number of         *)
(* processes, deaths, faults and journal events.                           *)
(*                                                                         *)
(* The invariant says what a transition in progress knows: that nobody     *)
(* else holds the lock, that the journal is the one it read or that one    *)
(* and its event, that both are legal and extend everything acknowledged,  *)
(* and that state.json is still the record it started from.                *)
(***************************************************************************)
EXTENDS ChangeStore, FiniteSetTheorems, SequenceTheorems, WellFoundedInduction, TLAPS

Persisting == {"journal", "state", "rollback"}

\* At most the owner of the lock is inside; a broken lock is taken by whoever
\* broke it.
Locks ==
  \A p \in Procs :
    /\ pc[p] \in HoldsLock => owner = p
    /\ pc[p] = "unlinked" =>
         owner = None /\ \A q \in Procs \ {p} : pc[q] # "unlinked"

\* The event a transition appends follows from the record it read.
Follows(w) ==
  /\ w.next = NextRecord(w.event)
  /\ \/ w.event.type = "step" /\ state = None /\ w.event.to = "received"
     \/ /\ w.event.type = "step" /\ state # None
        /\ AllowedTransition(state.state, w.event.to)
     \/ /\ w.event.type = "retry" /\ state # None
        /\ state.state \in {"failed", "rejected"} /\ w.event.to = state.resume
     \/ /\ w.event.type = "lock-recovered" /\ state # None
        /\ w.event.to = state.state

WriteInv(p) ==
  /\ write[p] \in Writing
  /\ LegalJournal(write[p].before)
  /\ LegalJournal(Append(write[p].before, write[p].event))
  /\ IsPrefix(acked, write[p].before)
  /\ journal = IF pc[p] = "journal"
                 THEN write[p].before
                 ELSE Append(write[p].before, write[p].event)
  /\ pc[p] # "rollback" => Follows(write[p])

Writes == \A p \in Procs : pc[p] \in Persisting => WriteInv(p)

\* A record at a checkpoint resumes there.
Resumes ==
  state # None /\ state.state \in Checkpoints => state.resume = state.state

IInv ==
  /\ TypeOK
  /\ Locks
  /\ Writes
  /\ JournalLegal
  /\ AckedDurable
  /\ Resumes

-----------------------------------------------------------------------------
(***************************************************************************)
(* Journals and records.                                                   *)
(***************************************************************************)

\* verifyJournalEvents accepts an accepted journal with one more legal event.
LEMMA AppendLegal ==
  ASSUME NEW j \in Seq(Events), NEW e \in Events, LegalJournal(j),
         \/ j = <<>> /\ LegalFirst(e)
         \/ j # <<>> /\ LegalAfter(j[Len(j)], e)
  PROVE  LegalJournal(Append(j, e))
<1> SUFFICES ASSUME NEW i \in 1 .. Len(Append(j, e))
             PROVE  IF i = 1 THEN LegalFirst(Append(j, e)[1])
                             ELSE LegalAfter(Append(j, e)[i - 1], Append(j, e)[i])
  BY DEF LegalJournal
<1>1. CASE i <= Len(j)
  BY <1>1 DEF LegalJournal
<1>2. CASE i = Len(j) + 1
  BY <1>2
<1>3. QED
  BY <1>1, <1>2

\* A journal is a prefix of itself and of every extension by one event.
LEMMA PrefixAppend ==
  ASSUME NEW a \in Seq(Events), NEW j \in Seq(Events), NEW e \in Events,
         IsPrefix(a, j)
  PROVE  IsPrefix(a, Append(j, e)) /\ IsPrefix(j, j)
BY DEF IsPrefix

\* The record derived for the next event is a record, and it resumes at its own
\* checkpoint if it is at one.
LEMMA NextRecordType ==
  ASSUME state \in Records \cup {None}, Resumes, NEW e \in Events,
         state = None \/ e.type # "retry" \/ e.to = state.resume
  PROVE  /\ NextRecord(e) \in Records
         /\ NextRecord(e).state \in Checkpoints =>
              NextRecord(e).resume = NextRecord(e).state
<1>1. CASE state = None
  BY <1>1 DEF NextRecord, Records, ChangeStates, Checkpoints
<1>2. CASE state # None
  <2>1. state \in Records
    BY <1>2
  <2>2. NextRecord(e) =
          [state |-> e.to,
           revision |-> state.revision + 1,
           attempt |-> IF e.type = "retry" THEN state.attempt + 1 ELSE state.attempt,
           resume |-> IF e.type # "retry" /\ e.to \in Checkpoints
                        THEN e.to ELSE state.resume]
    BY <1>2, <2>1 DEF NextRecord, Records
  <2>3. e.to \in ChangeStates
    BY DEF Events
  <2>4. NextRecord(e) \in Records
    BY <2>1, <2>2, <2>3 DEF Records
  <2>5. QED
    BY <1>2, <2>2, <2>4 DEF Resumes
<1>3. QED
  BY <1>1, <1>2

\* A verified change extends its journal legally with every event it may add.
LEMMA LegalEvent ==
  ASSUME TypeOK, NEW e \in Events,
         \/ /\ state = None /\ journal = <<>> /\ e = Step("received")
         \/ /\ state # None /\ Verified(state) /\ e.from = state.state
            /\ \/ e.type = "step" /\ AllowedTransition(state.state, e.to)
               \/ /\ e.type = "retry" /\ state.state \in {"failed", "rejected"}
                  /\ e.to = state.resume
               \/ e.type = "lock-recovered" /\ e.to = state.state
  PROVE  /\ LegalJournal(journal)
         /\ LegalJournal(Append(journal, e))
<1>1. CASE state = None /\ journal = <<>> /\ e = Step("received")
  <2>1. LegalFirst(e)
    BY <1>1 DEF LegalFirst, Step, From
  <2>2. LegalJournal(journal)
    BY <1>1 DEF LegalJournal
  <2>3. QED
    BY <1>1, <2>1, <2>2, AppendLegal DEF TypeOK
<1>2. CASE state # None /\ Verified(state)
  <2>1. LegalJournal(journal) /\ journal # <<>> /\ state.state = journal[Len(journal)].to
    BY <1>2 DEF Verified, RecordOf
  <2>2. state.resume \in Checkpoints
    BY <1>2 DEF TypeOK, Records
  <2>3. LegalAfter(journal[Len(journal)], e)
    BY <1>2, <2>1, <2>2 DEF LegalAfter
  <2>4. QED
    BY <2>1, <2>3, AppendLegal DEF TypeOK
<1>3. QED
  BY <1>1, <1>2

\* The actions by which p starts to persist a transition keep the invariant.
LEMMA BeginInv ==
  ASSUME IInv, NEW p \in Procs, pc[p] \in {"callback", "record"},
         NEW ctx \in Contexts, NEW e \in Events, Begin(p, ctx, e),
         UNCHANGED <<fileVars, owner, faults, readVars, acked>>,
         pending' \in [Procs -> BOOLEAN],
         \/ /\ state = None /\ journal = <<>> /\ e = Step("received")
         \/ /\ state # None /\ Verified(state) /\ e.from = state.state
            /\ \/ e.type = "step" /\ AllowedTransition(state.state, e.to)
               \/ /\ e.type = "retry" /\ state.state \in {"failed", "rejected"}
                  /\ e.to = state.resume
               \/ e.type = "lock-recovered" /\ e.to = state.state
  PROVE  IInv'
<1> DEFINE w == [ctx |-> ctx, event |-> e, next |-> NextRecord(e), before |-> journal]
<1>1. NextRecord(e) \in Records
  BY NextRecordType DEF IInv, TypeOK, Step, From
<1>2. w \in Writing
  BY <1>1 DEF IInv, TypeOK, Writing
<1>3. write' = [write EXCEPT ![p] = w] /\ pc' = [pc EXCEPT ![p] = "journal"]
  BY DEF Begin, Goto
<1>4. TypeOK'
  BY <1>2, <1>3 DEF IInv, TypeOK, Labels, fileVars, readVars
<1>5. Locks'
  BY <1>3 DEF IInv, TypeOK, Locks, HoldsLock
<1>6. WriteInv(p)'
  <2>1. write'[p] = w /\ pc'[p] = "journal"
    BY <1>3 DEF IInv, TypeOK
  <2>2. LegalJournal(journal) /\ LegalJournal(Append(journal, e))
    BY LegalEvent DEF IInv
  <2>3. Follows(w)' /\ NextRecord(e)' = NextRecord(e)
    BY DEF Follows, NextRecord, Step, From, fileVars
  <2>4. IsPrefix(acked', journal)
    BY DEF IInv, AckedDurable
  <2>5. QED
    BY <1>2, <2>1, <2>2, <2>3, <2>4 DEF WriteInv, fileVars, Follows
<1>7. Writes'
  <2> SUFFICES ASSUME NEW q \in Procs, pc'[q] \in Persisting PROVE WriteInv(q)'
    BY DEF Writes
  <2>1. CASE q # p
    BY <2>1, <1>3 DEF IInv, TypeOK, Locks, HoldsLock, Persisting
  <2>2. QED
    BY <1>6, <2>1
<1>8. JournalLegal' /\ AckedDurable' /\ Resumes'
  BY DEF IInv, JournalLegal, AckedDurable, Resumes, fileVars
<1>9. QED
  BY <1>4, <1>5, <1>7, <1>8 DEF IInv

\* A step of p that writes no file and does not begin to persist keeps what the
\* invariant says of the files.
LEMMA QuietInv ==
  ASSUME IInv, NEW p \in Procs, NEW l \in Labels \ Persisting,
         pc' = [pc EXCEPT ![p] = l],
         \A q \in Procs \ {p} : write'[q] = write[q],
         UNCHANGED <<fileVars, acked>>, TypeOK', Locks'
  PROVE  IInv'
<1>1. Writes'
  <2> SUFFICES ASSUME NEW q \in Procs, pc'[q] \in Persisting PROVE WriteInv(q)'
    BY DEF Writes
  <2>1. q # p /\ pc'[q] = pc[q] /\ write'[q] = write[q]
    BY DEF IInv, TypeOK, Persisting
  <2>2. WriteInv(q)
    BY <2>1 DEF IInv, Writes
  <2>3. QED
    BY <2>1, <2>2 DEF WriteInv, Follows, NextRecord, fileVars
<1>2. QED
  BY <1>1 DEF IInv, JournalLegal, AckedDurable, Resumes, fileVars

\* Obtaining, breaking and giving back the lock, and deaths, write no file.
LEMMA LockStepInv ==
  ASSUME IInv, NEW p \in Procs,
         \/ Acquire(p) \/ BreakStaleLock(p) \/ TakeBrokenLock(p)
         \/ FailCallback(p) \/ Release(p) \/ Crash(p)
  PROVE  IInv'
<1> USE DEF Goto, At, fileVars, readVars
<1>1. CASE Acquire(p)
  <2>1. TypeOK' /\ Locks'
    BY <1>1, StoreConstants
       DEF Acquire, IInv, TypeOK, Locks, HoldsLock, Recovering, Labels
  <2>2. QED
    BY <1>1, <2>1, QuietInv DEF Acquire, Labels, Persisting
<1>2. CASE BreakStaleLock(p)
  <2>1. TypeOK' /\ Locks'
    BY <1>2, StoreConstants
       DEF BreakStaleLock, IInv, TypeOK, Locks, HoldsLock, Recovering, Labels
  <2>2. QED
    BY <1>2, <2>1, QuietInv DEF BreakStaleLock, Labels, Persisting
<1>3. CASE TakeBrokenLock(p)
  <2>1. TypeOK' /\ Locks'
    BY <1>3, StoreConstants
       DEF TakeBrokenLock, IInv, TypeOK, Locks, HoldsLock, Labels
  <2>2. QED
    BY <1>3, <2>1, QuietInv DEF TakeBrokenLock, Labels, Persisting
<1>4. CASE FailCallback(p)
  <2>1. TypeOK' /\ Locks'
    BY <1>4 DEF FailCallback, IInv, TypeOK, Locks, HoldsLock, Labels
  <2>2. QED
    BY <1>4, <2>1, QuietInv DEF FailCallback, Labels, Persisting
<1>5. CASE Release(p)
  <2>1. TypeOK' /\ Locks'
    BY <1>5, StoreConstants DEF Release, IInv, TypeOK, Locks, HoldsLock, Labels
  <2>2. \A q \in Procs \ {p} : write'[q] = write[q]
    BY <1>5 DEF Release, IInv, TypeOK
  <2>3. QED
    BY <1>5, <2>1, <2>2, QuietInv DEF Release, Labels, Persisting
<1>6. CASE Crash(p)
  <2>1. TypeOK' /\ Locks'
    BY <1>6 DEF Crash, IInv, TypeOK, Locks, HoldsLock, Labels
  <2>2. \A q \in Procs \ {p} : write'[q] = write[q]
    BY <1>6 DEF Crash, IInv, TypeOK
  <2>3. QED
    BY <1>6, <2>1, <2>2, QuietInv DEF Crash, Labels, Persisting
<1>7. QED
  BY <1>1, <1>2, <1>3, <1>4, <1>5, <1>6

\* The steps that decide what to persist next.
LEMMA DecideInv ==
  ASSUME IInv, NEW p \in Procs,
         Transition(p) \/ Retry(p) \/ RecordRecovery(p) \/ FinishCallback(p)
  PROVE  IInv'
<1> USE DEF At
<1>1. CASE Transition(p)
  <2>1. PICK to \in ChangeStates : Persistable(to) /\ Begin(p, "callback", Step(to))
    BY <1>1 DEF Transition
  <2>2. Step(to) \in Events
    BY DEF Step, Events, EventTypes, From, IInv, TypeOK, Records
  <2>3. \/ state = None /\ journal = <<>> /\ Step(to) = Step("received")
        \/ /\ state # None /\ Verified(state) /\ Step(to).from = state.state
           /\ Step(to).type = "step" /\ AllowedTransition(state.state, Step(to).to)
    BY <2>1 DEF Persistable, Step, From
  <2>4. QED
    BY <1>1, <2>1, <2>2, <2>3, BeginInv DEF Transition, Contexts, IInv, TypeOK
<1>2. CASE Retry(p)
  <2> DEFINE e == [type |-> "retry", from |-> state.state, to |-> state.resume]
  <2>1. e \in Events
    BY <1>2 DEF Retry, Events, EventTypes, IInv, TypeOK, Records, ChangeStates
  <2>2. QED
    BY <1>2, <2>1, BeginInv DEF Retry, Contexts, IInv, TypeOK
<1>3. ASSUME state # None PROVE LockRecovered \in Events /\ LockRecovered.from = state.state
                                /\ LockRecovered.to = state.state
  BY <1>3 DEF LockRecovered, Events, EventTypes, From, IInv, TypeOK, Records
<1>4. CASE RecordRecovery(p)
  <2>1. CASE /\ state = None
             /\ pending' = [pending EXCEPT ![p] = TRUE]
             /\ Goto(p, "callback") /\ UNCHANGED write
    <3>1. TypeOK' /\ Locks'
      BY <1>4, <2>1 DEF RecordRecovery, Goto, IInv, TypeOK, Locks, HoldsLock, Labels,
                        fileVars, readVars
    <3>2. QED
      BY <1>4, <2>1, <3>1, QuietInv
         DEF RecordRecovery, Goto, Labels, Persisting, fileVars
  <2>2. CASE /\ state # None /\ Verified(state)
             /\ pending' = [pending EXCEPT ![p] = FALSE]
             /\ Begin(p, "recovery", LockRecovered)
    <3>1. pending' \in [Procs -> BOOLEAN]
      BY <2>2 DEF IInv, TypeOK
    <3>2. LockRecovered.type = "lock-recovered"
      BY DEF LockRecovered
    <3>3. QED
      BY <1>3, <1>4, <2>2, <3>1, <3>2, BeginInv DEF RecordRecovery, Contexts
  <2>3. CASE /\ state # None /\ ~Verified(state)
             /\ Goto(p, "release") /\ UNCHANGED <<pending, write>>
    <3>1. TypeOK' /\ Locks'
      BY <1>4, <2>3 DEF RecordRecovery, Goto, IInv, TypeOK, Locks, HoldsLock, Labels,
                        fileVars, readVars
    <3>2. QED
      BY <1>4, <2>3, <3>1, QuietInv
         DEF RecordRecovery, Goto, Labels, Persisting, fileVars
  <2>4. QED
    BY <1>4, <2>1, <2>2, <2>3 DEF RecordRecovery
<1>5. CASE FinishCallback(p)
  <2>1. CASE pending[p] /\ state # None /\ Verified(state)
    <3>1. pending' \in [Procs -> BOOLEAN]
      BY <1>5, <2>1 DEF FinishCallback, IInv, TypeOK
    <3>2. LockRecovered.type = "lock-recovered"
      BY DEF LockRecovered
    <3>3. QED
      BY <1>3, <1>5, <2>1, <3>1, <3>2, BeginInv DEF FinishCallback, Contexts
  <2>2. CASE ~(pending[p] /\ state # None /\ Verified(state))
    <3>1. Goto(p, "release") /\ UNCHANGED <<write, pending>>
      BY <1>5, <2>2 DEF FinishCallback
    <3>2. TypeOK' /\ Locks'
      BY <1>5, <3>1 DEF FinishCallback, Goto, IInv, TypeOK, Locks, HoldsLock, Labels,
                        fileVars, readVars
    <3>3. QED
      BY <1>5, <3>1, <3>2, QuietInv
         DEF FinishCallback, Goto, Labels, Persisting, fileVars
  <2>3. QED
    BY <2>1, <2>2
<1>6. QED
  BY <1>1, <1>2, <1>4, <1>5

\* A failure is counted.
LEMMA ThrowsType ==
  ASSUME TypeOK, NEW kind, Throws(kind)
  PROVE  faults' \in [FaultKinds -> 0 .. MaxFaults]
<1>1. kind \in FaultKinds /\ faults[kind] \in 0 .. MaxFaults /\ faults[kind] < MaxFaults
  BY StoreConstants DEF Throws, TypeOK
<1>2. faults[kind] + 1 \in 0 .. MaxFaults
  BY <1>1, StoreConstants
<1>3. QED
  BY <1>1, <1>2 DEF Throws, TypeOK

\* The first write, and undoing it: the journal is the one the transition read or
\* that one and its event, and both are legal.
LEMMA JournalWriteInv ==
  ASSUME IInv, NEW p \in Procs, WriteJournal(p) \/ Rollback(p)
  PROVE  IInv'
<1> DEFINE before == write[p].before
           longer == Append(write[p].before, write[p].event)
<1>1. pc[p] \in {"journal", "rollback"} /\ WriteInv(p)
  BY DEF WriteJournal, Rollback, At, IInv, Writes, Persisting
<1>2. before \in Seq(Events) /\ write[p].event \in Events
  BY <1>1 DEF WriteInv, Writing
<1>3. longer \in Seq(Events)
  BY <1>2
<1>4. /\ journal' \in {before, longer}
      /\ UNCHANGED <<state, owner, write, pending, readVars, acked>>
      /\ faults' \in [FaultKinds -> 0 .. MaxFaults]
      /\ \/ pc' = [pc EXCEPT ![p] = "state"] /\ pc[p] = "journal" /\ journal' = longer
         \/ pc' = [pc EXCEPT ![p] = "release"]
  <2>1. CASE UNCHANGED faults
    BY <1>1, <2>1 DEF WriteJournal, Rollback, At, Goto, WriteInv, IInv, TypeOK
  <2>2. CASE Throws("before") \/ Throws("after")
    <3>1. faults' \in [FaultKinds -> 0 .. MaxFaults]
      BY <2>2, ThrowsType DEF IInv
    <3>2. QED
      BY <1>1, <3>1 DEF WriteJournal, Rollback, At, Goto, WriteInv, IInv, TypeOK
  <2>3. QED
    BY <2>1, <2>2 DEF WriteJournal, Rollback
<1>5. TypeOK'
  BY <1>2, <1>3, <1>4 DEF IInv, TypeOK, Labels, readVars
<1>6. Locks'
  BY <1>1, <1>4 DEF IInv, TypeOK, Locks, HoldsLock
<1>7. Writes'
  <2> SUFFICES ASSUME NEW q \in Procs, pc'[q] \in Persisting PROVE WriteInv(q)'
    BY DEF Writes
  <2>1. q = p
    BY <1>1, <1>4 DEF IInv, TypeOK, Locks, HoldsLock, Persisting
  <2>2. pc'[p] = "state" /\ pc[p] = "journal" /\ journal' = longer
    BY <1>1, <1>4, <2>1 DEF IInv, TypeOK, Persisting
  <2>3. QED
    BY <1>1, <1>4, <2>1, <2>2 DEF WriteInv, Follows, NextRecord
<1>8. JournalLegal'
  BY <1>1, <1>4 DEF JournalLegal, WriteInv
<1>9. AckedDurable'
  <2>1. IsPrefix(acked, before)
    BY <1>1 DEF WriteInv
  <2>2. IsPrefix(acked, longer)
    BY <1>2, <2>1, PrefixAppend DEF IInv, TypeOK
  <2>3. QED
    BY <1>4, <2>1, <2>2 DEF AckedDurable
<1>10. Resumes'
  BY <1>4 DEF IInv, Resumes
<1>11. QED
  BY <1>5, <1>6, <1>7, <1>8, <1>9, <1>10 DEF IInv

\* The second write: state.json becomes the record of the journal on disk.
LEMMA StateWriteInv ==
  ASSUME IInv, NEW p \in Procs, WriteState(p)
  PROVE  IInv'
<1>1. pc[p] = "state" /\ WriteInv(p)
  BY DEF WriteState, At, IInv, Writes, Persisting
<1>2. /\ write[p] \in Writing
      /\ write[p].event \in Events
      /\ write[p].next = NextRecord(write[p].event)
  BY <1>1 DEF WriteInv, Writing, Follows
<1>3. /\ NextRecord(write[p].event) \in Records
      /\ NextRecord(write[p].event).state \in Checkpoints =>
           NextRecord(write[p].event).resume = NextRecord(write[p].event).state
  <2>1. \/ state = None \/ write[p].event.type # "retry"
        \/ write[p].event.to = state.resume
    BY <1>1 DEF WriteInv, Follows
  <2>2. QED
    BY <1>2, <2>1, NextRecordType DEF IInv, TypeOK
<1>4. /\ UNCHANGED <<journal, owner, write, pending, readVars>>
      /\ state' \in {state, write[p].next}
      /\ faults' \in [FaultKinds -> 0 .. MaxFaults]
      /\ \/ pc' = [pc EXCEPT ![p] = "rollback"] /\ acked' = acked
         \/ /\ pc' = [pc EXCEPT ![p] = "callback"] \/ pc' = [pc EXCEPT ![p] = "release"]
            /\ acked' = journal
  <2>1. CASE state' = write[p].next /\ Succeed(p) /\ UNCHANGED faults
    BY <2>1 DEF WriteState, Succeed, Goto, IInv, TypeOK
  <2>2. CASE /\ Throws("before") \/ Throws("after")
             /\ state' \in {state, write[p].next}
             /\ Goto(p, "rollback") /\ UNCHANGED acked
    BY <2>2, ThrowsType DEF WriteState, Goto, IInv
  <2>3. QED
    BY <2>1, <2>2 DEF WriteState
<1>5. TypeOK'
  BY <1>2, <1>3, <1>4 DEF IInv, TypeOK, Labels, readVars
<1>6. Locks'
  BY <1>1, <1>4 DEF IInv, TypeOK, Locks, HoldsLock
<1>7. Writes'
  <2> SUFFICES ASSUME NEW q \in Procs, pc'[q] \in Persisting PROVE WriteInv(q)'
    BY DEF Writes
  <2>1. q = p
    BY <1>1, <1>4 DEF IInv, TypeOK, Locks, HoldsLock, Persisting
  <2>2. pc'[p] = "rollback" /\ acked' = acked
    BY <1>4, <2>1 DEF IInv, TypeOK, Persisting
  <2>3. QED
    BY <1>1, <1>4, <2>1, <2>2 DEF WriteInv
<1>8. JournalLegal' /\ Resumes'
  BY <1>2, <1>3, <1>4 DEF IInv, JournalLegal, Resumes
<1>9. AckedDurable'
  <2>1. IsPrefix(journal, journal)
    BY PrefixAppend, <1>2 DEF IInv, AckedDurable, TypeOK
  <2>2. QED
    BY <1>4, <2>1 DEF IInv, AckedDurable
<1>10. QED
  BY <1>5, <1>6, <1>7, <1>8, <1>9 DEF IInv

\* Readers write no file.
LEMMA ReaderInv ==
  ASSUME IInv, NEW r \in Readers, ReadState(r) \/ ReadJournal(r)
  PROVE  IInv'
<1>1. UNCHANGED <<journal, state, owner, pc, write, pending, faults, acked>>
  BY DEF ReadState, ReadJournal, fileVars
<1>2. TypeOK'
  <2>1. /\ reading' \in [Readers -> Records \cup {None}]
        /\ returned' \in [Readers -> Records \cup {None}]
    <3>1. CASE ReadState(r)
      BY <3>1 DEF ReadState, IInv, TypeOK
    <3>2. CASE ReadJournal(r)
      BY <3>2 DEF ReadJournal, IInv, TypeOK
    <3>3. QED
      BY <3>1, <3>2
  <2>2. QED
    BY <1>1, <2>1 DEF IInv, TypeOK
<1>3. Writes'
  <2> SUFFICES ASSUME NEW p \in Procs, pc'[p] \in Persisting'
               PROVE  WriteInv(p)'
    BY DEF Writes
  <2>1. WriteInv(p)
    BY <1>1 DEF IInv, Writes, Persisting
  <2>2. QED
    BY <1>1, <2>1 DEF WriteInv, Follows, NextRecord
<1>4. QED
  BY <1>1, <1>2, <1>3 DEF IInv, Locks, JournalLegal, AckedDurable, Resumes

-----------------------------------------------------------------------------
(***************************************************************************)
(* The invariant is inductive.                                             *)
(***************************************************************************)

\* Every step of a process or of a reader keeps it.
LEMMA NextInv == IInv /\ [Next]_vars => IInv'
<1> SUFFICES ASSUME IInv, [Next]_vars PROVE IInv'
  OBVIOUS
<1>1. ASSUME NEW p \in Procs, CallStep(p) \/ Crash(p) PROVE IInv'
  BY <1>1, LockStepInv, DecideInv, JournalWriteInv, StateWriteInv DEF CallStep
<1>2. ASSUME NEW r \in Readers, ReadState(r) \/ ReadJournal(r) PROVE IInv'
  BY <1>2, ReaderInv
<1>3. CASE UNCHANGED vars
  <2>1. UNCHANGED <<journal, state, owner, pc, write, pending, faults, reading,
                    returned, acked>>
    BY <1>3 DEF vars, fileVars, readVars
  <2>2. TypeOK'
    BY <2>1 DEF IInv, TypeOK
  <2>3. Writes'
    <3> SUFFICES ASSUME NEW p \in Procs, pc'[p] \in Persisting'
                 PROVE  WriteInv(p)'
      BY DEF Writes
    <3>1. WriteInv(p)
      BY <2>1 DEF IInv, Writes, Persisting
    <3>2. QED
      BY <2>1, <3>1 DEF WriteInv, Follows, NextRecord
  <2>4. QED
    BY <2>1, <2>2, <2>3 DEF IInv, Locks, JournalLegal, AckedDurable, Resumes
<1>4. QED
  BY <1>1, <1>2, <1>3 DEF Next

\* Every reachable state of the store satisfies the invariant.
THEOREM Invariance == Spec => []IInv
<1>1. Init => IInv
  <2> SUFFICES ASSUME Init PROVE IInv
    OBVIOUS
  <2>1. TypeOK
    <3>1. journal \in Seq(Events) /\ acked \in Seq(Events)
      BY DEF Init
    <3>2. write \in [Procs -> Writing \cup {NoWrite}]
      BY DEF Init
    <3>3. pending \in [Procs -> BOOLEAN] /\ pc \in [Procs -> Labels]
      BY DEF Init, Labels
    <3>5. /\ reading \in [Readers -> Records \cup {None}]
          /\ returned \in [Readers -> Records \cup {None}]
      BY DEF Init
    <3>6. state \in Records \cup {None} /\ owner \in Procs \cup {None}
          /\ faults \in [FaultKinds -> 0 .. MaxFaults]
      BY StoreConstants DEF Init
    <3>7. QED
      BY <3>1, <3>2, <3>3, <3>5, <3>6 DEF TypeOK
  <2>2. Locks /\ Writes
    BY DEF Init, Locks, Writes, HoldsLock, Persisting
  <2>3. JournalLegal /\ AckedDurable /\ Resumes
    BY DEF Init, JournalLegal, LegalJournal, AckedDurable, IsPrefix, Resumes
  <2>4. QED
    BY <2>1, <2>2, <2>3 DEF IInv
<1>2. QED
  BY <1>1, NextInv, PTL DEF Spec

\* Type correctness of the store.
THEOREM TypeCorrect == Spec => []TypeOK
<1>1. IInv => TypeOK
  BY DEF IInv
<1>2. QED
  BY <1>1, Invariance, PTL

\* However many processes die and writes fail, the journal on disk is one that
\* verifyJournalEvents accepts.
THEOREM JournalAlwaysLegal == Spec => []JournalLegal
<1>1. IInv => JournalLegal
  BY DEF IInv
<1>2. QED
  BY <1>1, Invariance, PTL

\* No rollback, retry or recovery ever removes an event of a transition whose
\* caller was told that it succeeded.
THEOREM AckedNeverLost == Spec => []AckedDurable
<1>1. IInv => AckedDurable
  BY DEF IInv
<1>2. QED
  BY <1>1, Invariance, PTL

-----------------------------------------------------------------------------
(***************************************************************************)
(* Files that disagree.                                                    *)
(***************************************************************************)

\* A process only starts to persist when the two files agree.
LEMMA BeginNeedsSync ==
  ASSUME NEW p \in Procs,
         Transition(p) \/ Retry(p) \/ RecordRecovery(p) \/ FinishCallback(p),
         ~InSync
  PROVE  pc' = [pc EXCEPT ![p] = "callback"] \/ pc' = [pc EXCEPT ![p] = "release"]
<1>1. ~Transition(p) /\ ~Retry(p)
  BY DEF Transition, Retry, Persistable, InSync
<1>2. QED
  BY <1>1 DEF RecordRecovery, FinishCallback, Goto, InSync

\* After a crash between the two writes, or a rollback that failed, no call
\* touches the change again: it fails closed.
THEOREM DisagreementIsFinal == Spec => FailsClosed
<1>1. ASSUME TypeOK, [Next]_vars, Settled, ~InSync
      PROVE  Settled' /\ UNCHANGED fileVars
  <2>1. ASSUME NEW p \in Procs, CallStep(p) \/ Crash(p)
        PROVE  Settled' /\ UNCHANGED fileVars
    <3>1. ~WriteJournal(p) /\ ~WriteState(p) /\ ~Rollback(p)
      BY <1>1 DEF Settled, WriteJournal, WriteState, Rollback, At
    <3>2. CASE Transition(p) \/ Retry(p) \/ RecordRecovery(p) \/ FinishCallback(p)
      <4>1. UNCHANGED fileVars
        BY <3>2 DEF Transition, Retry, RecordRecovery, FinishCallback
      <4>2. QED
        BY <1>1, <3>2, <4>1, BeginNeedsSync DEF Settled, TypeOK
    <3>3. CASE \/ Acquire(p) \/ BreakStaleLock(p) \/ TakeBrokenLock(p)
               \/ FailCallback(p) \/ Release(p) \/ Crash(p)
      BY <1>1, <3>3
         DEF Settled, TypeOK, Acquire, BreakStaleLock, TakeBrokenLock,
             FailCallback, Release, Crash, Goto
    <3>4. QED
      BY <2>1, <3>1, <3>2, <3>3 DEF CallStep
  <2>2. ASSUME NEW r \in Readers, ReadState(r) \/ ReadJournal(r)
        PROVE  Settled' /\ UNCHANGED fileVars
    BY <1>1, <2>2 DEF Settled, ReadState, ReadJournal
  <2>3. CASE UNCHANGED vars
    BY <1>1, <2>3 DEF Settled, vars
  <2>4. QED
    BY <1>1, <2>1, <2>2, <2>3 DEF Next
<1>2. QED
  BY <1>1, TypeCorrect, PTL DEF Spec, FailsClosed

-----------------------------------------------------------------------------
(***************************************************************************)
(* Refinement.                                                             *)
(***************************************************************************)

\* Replacing state.json by the record of the transition is a step of the
\* lifecycle, and recording a recovery is none.
LEMMA StateWriteRefines ==
  ASSUME IInv, NEW p \in Procs, WriteInv(p), Follows(write[p]),
         state' = write[p].next
  PROVE  [Lifecycle!Next]_(Lifecycle!lvars)
<1> DEFINE e == write[p].event
<1>1. state' = NextRecord(e) /\ e \in Events /\ e.to \in ChangeStates
  BY DEF WriteInv, Writing, Follows, Events
<1>2. state \in Records \cup {None} /\ None \notin Records
  BY StoreConstants DEF IInv, TypeOK
<1> USE DEF From
<1>0. /\ Lifecycle!NoState = NoState /\ Lifecycle!Forward = Forward
      /\ Lifecycle!Checkpoints = Checkpoints /\ Lifecycle!ChangeStates = ChangeStates
      /\ Lifecycle!TerminalStates = TerminalStates
  BY DEF NoState, Forward, Checkpoints, ChangeStates, TerminalStates,
         Lifecycle!NoState, Lifecycle!Forward, Lifecycle!Checkpoints,
         Lifecycle!ChangeStates, Lifecycle!TerminalStates
<1>3. CASE state = None
  <2>1. state' = [state |-> "received", revision |-> 1, attempt |-> 1,
                  resume |-> "received"]
    BY <1>1, <1>3 DEF NextRecord
  <2>2. state' # None
    BY <1>2, <2>1 DEF Records, ChangeStates, Checkpoints
  <2>3. Lifecycle!Receive
    BY <1>0, <1>3, <2>1, <2>2 DEF Lifecycle!Receive
  <2>4. QED
    BY <2>3 DEF Lifecycle!Next
<1>4. CASE state # None
  <2>1. state \in Records /\ state.resume \in Checkpoints
    BY <1>2, <1>4 DEF Records
  <2>2. state' = [state |-> e.to,
                  revision |-> state.revision + 1,
                  attempt |-> IF e.type = "retry" THEN state.attempt + 1 ELSE state.attempt,
                  resume |-> IF e.type # "retry" /\ e.to \in Checkpoints
                               THEN e.to ELSE state.resume]
    BY <1>1, <1>4, <2>1 DEF NextRecord, Records
  <2>3. state' # None
    <3>1. state' \in Records
      BY <1>1, <2>1, <2>2 DEF Records
    <3>2. QED
      BY <1>2, <3>1
  <2>4. CASE e.type = "step" /\ AllowedTransition(state.state, e.to)
    <3>1. CASE state.state \in DOMAIN Forward /\ e.to = Forward[state.state]
      <4>1. Lifecycle!Advance
        BY <1>0, <1>4, <2>2, <2>3, <2>4, <3>1 DEF Lifecycle!Advance
      <4>2. QED
        BY <4>1 DEF Lifecycle!Next
    <3>2. CASE /\ state.state \in ChangeStates \ TerminalStates
               /\ e.to \in {"rejected", "failed"}
      <4>1. Lifecycle!Abandon
        BY <1>0, <1>4, <2>2, <2>3, <2>4, <3>2 DEF Lifecycle!Abandon, Checkpoints
      <4>2. QED
        BY <4>1 DEF Lifecycle!Next
    <3>3. QED
      BY <2>4, <3>1, <3>2 DEF AllowedTransition
  <2>5. CASE /\ e.type = "retry" /\ state.state \in {"failed", "rejected"}
             /\ e.to = state.resume
    <3>1. Lifecycle!Retry
      BY <1>0, <1>4, <2>2, <2>3, <2>5 DEF Lifecycle!Retry
    <3>2. QED
      BY <3>1 DEF Lifecycle!Next
  <2>6. CASE e.type = "lock-recovered" /\ e.to = state.state
    <3>1. state'.state = state.state /\ state'.attempt = state.attempt
          /\ state'.resume = state.resume
      BY <1>4, <2>2, <2>6 DEF IInv, Resumes
    <3>2. QED
      BY <1>4, <2>3, <3>1 DEF Lifecycle!lvars
  <2>7. QED
    BY <1>4, <2>4, <2>5, <2>6 DEF Follows
<1>5. QED
  BY <1>3, <1>4

\* As state.json shows it, the change follows ChangeLifecycle: no interleaving of
\* calls, crash or failed write makes it skip a state, repeat an attempt or leave
\* "published".
THEOREM LifecycleRefinement == Spec => ImplementsLifecycle
<1>1. Init => Lifecycle!Init
  BY DEF Init, Lifecycle!Init, From, NoState, Lifecycle!NoState
<1>2. ASSUME IInv, [Next]_vars PROVE [Lifecycle!Next]_(Lifecycle!lvars)
  <2>1. CASE state' = state
    BY <2>1 DEF Lifecycle!lvars, From
  <2>2. CASE state' # state
    <3>1. PICK p \in Procs : WriteState(p)
      BY <1>2, <2>2
         DEF Next, vars, CallStep, Crash, Acquire, BreakStaleLock, TakeBrokenLock,
             RecordRecovery, Transition, FailCallback, Retry, FinishCallback,
             WriteJournal, Rollback, Release, ReadState, ReadJournal, fileVars
    <3>2. WriteInv(p) /\ Follows(write[p]) /\ state' = write[p].next
      BY <1>2, <2>2, <3>1 DEF WriteState, At, IInv, Writes, WriteInv, Persisting
    <3>3. QED
      BY <1>2, <3>2, StateWriteRefines
  <2>3. QED
    BY <2>1, <2>2
<1>3. QED
  BY <1>1, <1>2, Invariance, PTL DEF Spec, ImplementsLifecycle, Lifecycle!Spec

-----------------------------------------------------------------------------
(***************************************************************************)
(* Records and the journals they are derived from.                         *)
(***************************************************************************)

\* The events of one type in a journal can be counted, and there is one more of
\* them after an event of that type.
OfType(j, type) == {i \in 1 .. Len(j) : j[i].type = type}

LEMMA OfTypeFinite ==
  ASSUME NEW j \in Seq(Events), NEW type
  PROVE  IsFiniteSet(OfType(j, type)) /\ Cardinality(OfType(j, type)) \in Nat
<1>1. IsFiniteSet(1 .. Len(j)) /\ OfType(j, type) \subseteq 1 .. Len(j)
  BY FS_Interval DEF OfType
<1>2. QED
  BY <1>1, FS_Subset, FS_CardinalityType

LEMMA OfTypeAppend ==
  ASSUME NEW j \in Seq(Events), NEW e \in Events, NEW type
  PROVE  Cardinality(OfType(Append(j, e), type))
           = Cardinality(OfType(j, type)) + (IF e.type = type THEN 1 ELSE 0)
<1>1. IsFiniteSet(OfType(j, type)) /\ Cardinality(OfType(j, type)) \in Nat
  BY OfTypeFinite
<1>2. /\ Len(Append(j, e)) = Len(j) + 1 /\ Len(j) \in Nat
      /\ \A i \in 1 .. Len(j) : Append(j, e)[i] = j[i]
      /\ Append(j, e)[Len(j) + 1] = e
  OBVIOUS
<1>3. CASE e.type = type
  <2>1. OfType(Append(j, e), type) = OfType(j, type) \cup {Len(j) + 1}
    BY <1>2, <1>3 DEF OfType
  <2>2. Len(j) + 1 \notin OfType(j, type)
    BY <1>2 DEF OfType
  <2>3. QED
    BY <1>1, <1>3, <2>1, <2>2, FS_AddElement
<1>4. CASE e.type # type
  <2>1. OfType(Append(j, e), type) = OfType(j, type)
    BY <1>2, <1>4 DEF OfType
  <2>2. QED
    BY <1>1, <1>4, <2>1
<1>5. QED
  BY <1>3, <1>4, <1>1

\* A set of positions of a sequence has a last one.
LEMMA LastPosition ==
  ASSUME NEW n \in Nat, NEW S \in SUBSET (1 .. n), S # {}
  PROVE  \E i \in S : \A k \in S : k <= i
<1> DEFINE T == {n - i : i \in S}
<1>1. T \subseteq Nat /\ T # {}
  <2>1. \A i \in S : n - i \in Nat /\ n - i \in T
    OBVIOUS
  <2>2. QED
    BY <2>1
<1>2. PICK x \in T : \A y \in T : ~(<<y, x>> \in OpToRel(<, Nat))
  BY <1>1, NatLessThanWellFounded, WFMin
<1>3. \A y \in T : x <= y
  <2> SUFFICES ASSUME NEW y \in T PROVE ~(y < x)
    BY <1>1
  <2>1. y \in Nat /\ x \in Nat
    BY <1>1
  <2> HIDE DEF T
  <2>2. y < x => <<y, x>> \in OpToRel(<, Nat)
    BY <2>1 DEF OpToRel
  <2>3. QED
    BY <1>2, <2>2
<1>4. PICK i \in S : x = n - i
  OBVIOUS
<1>5. \A k \in S : k <= i
  <2> SUFFICES ASSUME NEW k \in S PROVE k <= i
    OBVIOUS
  <2>1. n - i <= n - k /\ i \in Nat /\ k \in Nat
    BY <1>3, <1>4
  <2> HIDE DEF T
  <2>2. QED
    BY <2>1
<1>6. QED
  BY <1>5

\* The checkpoint to resume at changes only when the journal visits another one.
LEMMA LastCheckpointAppend ==
  ASSUME NEW j \in Seq(Events), NEW e \in Events
  PROVE  LastCheckpoint(Append(j, e))
           = IF e.to \in Checkpoints THEN e.to ELSE LastCheckpoint(j)
<1> DEFINE V(s) == {i \in 1 .. Len(s) : s[i].to \in Checkpoints}
           last == CHOOSE i \in V(j) : \A k \in V(j) : k <= i
           longer == Append(j, e)
           lastOfLonger == CHOOSE i \in V(longer) : \A k \in V(longer) : k <= i
<1>1. /\ Len(longer) = Len(j) + 1 /\ Len(j) \in Nat
      /\ \A i \in 1 .. Len(j) : longer[i] = j[i]
      /\ longer[Len(j) + 1] = e
  OBVIOUS
<1>2. /\ LastCheckpoint(longer)
           = IF V(longer) = {} THEN "received" ELSE longer[lastOfLonger].to
      /\ LastCheckpoint(j) = IF V(j) = {} THEN "received" ELSE j[last].to
  BY DEF LastCheckpoint
<1> HIDE DEF longer
<1>3. CASE e.to \in Checkpoints
  <2>1. Len(j) + 1 \in V(longer) /\ \A k \in V(longer) : k <= Len(j) + 1
    BY <1>1, <1>3
  <2>2. lastOfLonger \in V(longer) /\ \A k \in V(longer) : k <= lastOfLonger
    BY <2>1
  <2>3. lastOfLonger = Len(j) + 1
    BY <1>1, <2>1, <2>2
  <2>4. QED
    BY <1>1, <1>2, <1>3, <2>1, <2>3 DEF longer
<1>4. CASE e.to \notin Checkpoints
  <2>1. V(longer) = V(j)
    BY <1>1, <1>4
  <2>2. CASE V(j) = {}
    BY <1>2, <1>4, <2>1, <2>2 DEF longer
  <2>3. CASE V(j) # {}
    <3>1. \E i \in V(j) : \A k \in V(j) : k <= i
      BY <1>1, <2>3, LastPosition
    <3>2. last \in V(j)
      BY <3>1
    <3>3. lastOfLonger = last
      BY <2>1
    <3>4. longer[last] = j[last]
      BY <1>1, <3>2
    <3>5. LastCheckpoint(longer) = longer[last].to /\ LastCheckpoint(j) = j[last].to
      BY <1>2, <2>1, <2>3, <3>3
    <3>6. QED
      BY <1>4, <3>4, <3>5 DEF longer
  <2>4. QED
    BY <2>2, <2>3
<1>5. QED
  BY <1>3, <1>4

\* The record derived from a journal and one more event is the next record of the
\* one derived from the journal.
Tells(j) ==
  \/ state = None /\ j = <<>>
  \/ state # None /\ j # <<>> /\ state = RecordOf(j)

LEMMA RecordAppend ==
  ASSUME NEW j \in Seq(Events), NEW e \in Events, Tells(j),
         state = None => e.to = "received" /\ e.type = "step",
         state # None /\ e.type = "retry" => e.to = state.resume
  PROVE  NextRecord(e) = RecordOf(Append(j, e))
<1> DEFINE longer == Append(j, e)
<1>1. /\ RecordOf(longer).state = e.to
      /\ RecordOf(longer).revision = Len(j) + 1
      /\ RecordOf(longer).attempt =
           1 + Cardinality(Retries(j)) + (IF e.type = "retry" THEN 1 ELSE 0)
      /\ RecordOf(longer).resume =
           IF e.to \in Checkpoints THEN e.to ELSE LastCheckpoint(j)
      /\ Cardinality(Retries(j)) \in Nat
  <2>1. Retries(j) = OfType(j, "retry") /\ Retries(longer) = OfType(longer, "retry")
    BY DEF Retries, OfType
  <2>2. /\ Cardinality(OfType(j, "retry")) \in Nat
        /\ Cardinality(OfType(longer, "retry"))
             = Cardinality(OfType(j, "retry")) + (IF e.type = "retry" THEN 1 ELSE 0)
    BY OfTypeAppend, OfTypeFinite
  <2>3. Len(longer) = Len(j) + 1 /\ longer[Len(j) + 1] = e
    OBVIOUS
  <2>4. LastCheckpoint(longer) = IF e.to \in Checkpoints THEN e.to ELSE LastCheckpoint(j)
    BY LastCheckpointAppend
  <2> HIDE DEF longer
  <2>5. QED
    BY <2>1, <2>2, <2>3, <2>4 DEF RecordOf
<1>2. RecordOf(longer) = [state |-> RecordOf(longer).state,
                          revision |-> RecordOf(longer).revision,
                          attempt |-> RecordOf(longer).attempt,
                          resume |-> RecordOf(longer).resume]
  BY DEF RecordOf
<1>3. CASE state = None
  <2>1. Len(j) = 0 /\ Retries(j) = {}
    BY <1>3 DEF Tells, Retries
  <2>2. Cardinality(Retries(j)) = 0
    BY <2>1, FS_EmptySet
  <2>3. RecordOf(longer) = [state |-> "received", revision |-> 1, attempt |-> 1,
                            resume |-> "received"]
    BY <1>1, <1>2, <1>3, <2>1, <2>2 DEF Checkpoints
  <2>4. QED
    BY <1>3, <2>3 DEF NextRecord
<1>4. CASE state # None
  <2>1. state = [state |-> j[Len(j)].to, revision |-> Len(j),
                 attempt |-> 1 + Cardinality(Retries(j)), resume |-> LastCheckpoint(j)]
    BY <1>4 DEF Tells, RecordOf
  <2>2. NextRecord(e) =
          [state |-> e.to,
           revision |-> state.revision + 1,
           attempt |-> IF e.type = "retry" THEN state.attempt + 1 ELSE state.attempt,
           resume |-> IF e.type # "retry" /\ e.to \in Checkpoints
                        THEN e.to ELSE state.resume]
    BY <1>4, <2>1 DEF NextRecord
  <2>3. /\ state.revision = Len(j) /\ state.attempt = 1 + Cardinality(Retries(j))
        /\ state.resume = LastCheckpoint(j)
    BY <2>1
  <2>4. NextRecord(e).attempt = RecordOf(longer).attempt
    BY <1>1, <2>2, <2>3
  <2>5. NextRecord(e).resume = RecordOf(longer).resume
    BY <1>1, <1>4, <2>2, <2>3
  <2>6. NextRecord(e).state = RecordOf(longer).state
        /\ NextRecord(e).revision = RecordOf(longer).revision
    BY <1>1, <2>2, <2>3
  <2>7. NextRecord(e) = [state |-> NextRecord(e).state,
                         revision |-> NextRecord(e).revision,
                         attempt |-> NextRecord(e).attempt,
                         resume |-> NextRecord(e).resume]
    BY <2>2
  <2>8. QED
    BY <1>2, <2>4, <2>5, <2>6, <2>7
<1>5. QED
  BY <1>3, <1>4

-----------------------------------------------------------------------------
(***************************************************************************)
(* Files that agree.  While at most one write has failed, and wrote        *)
(* nothing, every record anybody has read is derived from a part of the    *)
(* journal that no rollback removes.                                       *)
(***************************************************************************)

\* The record is derived from the first events of the journal.
Derives(j, record) ==
  record # None =>
    /\ record.revision <= Len(j)
    /\ RecordOf(SubSeq(j, 1, record.revision)) = record

AllDerive(j) ==
  /\ Derives(j, state)
  /\ \A r \in Readers : Derives(j, reading[r]) /\ Derives(j, returned[r])

\* What a transition in progress knows about state.json.
WriteSync(p) ==
  /\ pc[p] = "journal" => Tells(journal)
  /\ pc[p] \in {"state", "rollback"} =>
       Tells(write[p].before) /\ AllDerive(write[p].before)
  /\ pc[p] \in {"journal", "state"} =>
       write[p].next = RecordOf(Append(write[p].before, write[p].event))
  /\ pc[p] = "rollback" => faults["before"] = 1

NoLoss == \A p \in Procs : At(p, "dead") => write[p] = NoWrite

SyncInv ==
  Undone =>
    /\ AllDerive(journal)
    /\ \A p \in Procs : WriteSync(p)
    /\ Settled /\ NoLoss => Tells(journal)

\* A longer journal still derives what a shorter one did, and every journal
\* derives its own record.
LEMMA DerivesAppend ==
  ASSUME NEW j \in Seq(Events), NEW e \in Events,
         NEW record \in Records \cup {None}, Derives(j, record)
  PROVE  Derives(Append(j, e), record)
<1> SUFFICES ASSUME record # None
             PROVE  /\ record.revision <= Len(Append(j, e))
                    /\ RecordOf(SubSeq(Append(j, e), 1, record.revision)) = record
  BY DEF Derives
<1> DEFINE n == record.revision
<1>1. n \in 1 .. Len(j) /\ Len(j) \in Nat
  BY DEF Derives, Records
<1>2. Len(Append(j, e)) = Len(j) + 1 /\ \A i \in 1 .. n : Append(j, e)[i] = j[i]
  BY <1>1
<1>3. \A i \in 1 .. n : j[i] \in Events /\ Append(j, e)[i] \in Events
  BY <1>1, <1>2
<1> HIDE DEF n
<1>4. /\ SubSeq(j, 1, n) \in Seq(Events) /\ Len(SubSeq(j, 1, n)) = n
      /\ \A i \in 1 .. n : SubSeq(j, 1, n)[i] = j[i]
  BY <1>1, <1>3, SubSeqProperties
<1>5. /\ SubSeq(Append(j, e), 1, n) \in Seq(Events)
      /\ Len(SubSeq(Append(j, e), 1, n)) = n
      /\ \A i \in 1 .. n : SubSeq(Append(j, e), 1, n)[i] = Append(j, e)[i]
  BY <1>1, <1>3, SubSeqProperties
<1>6. SubSeq(Append(j, e), 1, n) = SubSeq(j, 1, n)
  BY <1>2, <1>4, <1>5, SeqEqual
<1>7. RecordOf(SubSeq(j, 1, n)) = record
  BY DEF Derives, n
<1>8. RecordOf(SubSeq(Append(j, e), 1, n)) = record
  BY <1>6, <1>7
<1>9. n <= Len(Append(j, e))
  BY <1>1, <1>2
<1>10. QED
  BY <1>8, <1>9 DEF n

LEMMA DerivesOwn ==
  ASSUME NEW j \in Seq(Events)
  PROVE  Derives(j, RecordOf(j))
<1>1. RecordOf(j).revision = Len(j) /\ Len(j) \in Nat
  BY DEF RecordOf
<1>2. SubSeq(j, 1, Len(j)) = j
  BY SubSeqFull
<1>3. RecordOf(SubSeq(j, 1, RecordOf(j).revision)) = RecordOf(j)
  BY <1>1, <1>2, Zenon
<1>4. QED
  BY <1>1, <1>3 DEF Derives

\* A failure of either kind is remembered.
LEMMA ThrowsCounts ==
  ASSUME TypeOK, NEW kind, Throws(kind), Undone'
  PROVE  kind = "before" /\ Undone /\ faults["before"] = 0 /\ faults'["before"] = 1
<1>1. kind \in {"before", "after"}
  BY StoreConstants DEF Throws, FaultKinds
<1>2. faults["before"] \in Nat /\ faults["after"] \in Nat
  BY StoreConstants DEF TypeOK, FaultKinds
<1>3. faults' = [faults EXCEPT ![kind] = faults[kind] + 1]
  BY DEF Throws
<1>4. CASE kind = "after"
  <2>1. faults'["after"] = faults["after"] + 1
    BY <1>3, <1>4 DEF TypeOK, FaultKinds
  <2>2. QED
    BY <1>2, <2>1 DEF Undone
<1>5. CASE kind = "before"
  <2>1. faults'["before"] = faults["before"] + 1 /\ faults'["after"] = faults["after"]
    BY <1>3, <1>5 DEF TypeOK, FaultKinds
  <2>2. QED
    BY <1>2, <1>5, <2>1 DEF Undone
<1>6. QED
  BY <1>1, <1>4, <1>5

\* A process that starts to persist found the two files telling the same story,
\* and prepared the record of the longer journal.
LEMMA SyncBegin ==
  ASSUME IInv, SyncInv, NEW p \in Procs, pc[p] \in {"callback", "record"},
         NEW ctx \in Contexts, NEW e \in Events, Begin(p, ctx, e),
         UNCHANGED <<fileVars, owner, faults, readVars, acked>>,
         \/ /\ state = None /\ journal = <<>> /\ e = Step("received")
         \/ /\ state # None /\ Verified(state) /\ e.from = state.state
            /\ \/ e.type = "step" /\ AllowedTransition(state.state, e.to)
               \/ /\ e.type = "retry" /\ state.state \in {"failed", "rejected"}
                  /\ e.to = state.resume
               \/ e.type = "lock-recovered" /\ e.to = state.state
  PROVE  SyncInv'
<1> SUFFICES ASSUME Undone' PROVE AllDerive(journal)' /\ (\A q \in Procs : WriteSync(q)')
                                  /\ (Settled' /\ NoLoss' => Tells(journal)')
  BY DEF SyncInv
<1>1. AllDerive(journal) /\ \A q \in Procs : WriteSync(q)
  BY DEF SyncInv, Undone
<1>2. /\ write'[p] = [ctx |-> ctx, event |-> e, next |-> NextRecord(e), before |-> journal]
      /\ pc'[p] = "journal"
      /\ \A q \in Procs \ {p} : pc'[q] = pc[q] /\ write'[q] = write[q]
  BY DEF Begin, Goto, IInv, TypeOK
<1>3. Tells(journal)
  BY DEF Tells, Verified
<1>4. NextRecord(e) = RecordOf(Append(journal, e))
  <2>1. state = None => e.to = "received" /\ e.type = "step"
    BY DEF Step
  <2>2. state # None /\ e.type = "retry" => e.to = state.resume
    OBVIOUS
  <2>3. QED
    BY <1>3, <2>1, <2>2, RecordAppend DEF IInv, TypeOK
<1>5. AllDerive(journal)' /\ Tells(journal)'
  BY <1>1, <1>3 DEF AllDerive, Derives, Tells, fileVars, readVars
<1>6. ASSUME NEW q \in Procs PROVE WriteSync(q)'
  <2>1. CASE q = p
    BY <1>2, <1>4, <1>5, <2>1 DEF WriteSync
  <2>2. CASE q # p
    BY <1>1, <1>2, <2>2
       DEF IInv, Locks, HoldsLock, WriteSync
  <2>3. QED
    BY <2>1, <2>2
<1>7. QED
  BY <1>5, <1>6

\* A step that touches no file, of a process that is not persisting, changes
\* nothing of it.
LEMMA SyncQuiet ==
  ASSUME IInv, SyncInv, NEW p \in Procs, NEW l \in Labels \ Persisting,
         pc[p] \notin Persisting \cup {"dead"},
         pc' = [pc EXCEPT ![p] = l],
         \A q \in Procs \ {p} : write'[q] = write[q],
         UNCHANGED <<fileVars, faults, readVars>>
  PROVE  SyncInv'
<1> SUFFICES ASSUME Undone' PROVE AllDerive(journal)' /\ (\A q \in Procs : WriteSync(q)')
                                  /\ (Settled' /\ NoLoss' => Tells(journal)')
  BY DEF SyncInv
<1>1. /\ AllDerive(journal) /\ \A q \in Procs : WriteSync(q)
      /\ Settled /\ NoLoss => Tells(journal)
  BY DEF SyncInv, Undone
<1>2. pc'[p] = l /\ \A q \in Procs \ {p} : pc'[q] = pc[q]
  BY DEF IInv, TypeOK
<1>3. AllDerive(journal)'
  BY <1>1 DEF AllDerive, Derives, fileVars, readVars
<1>4. ASSUME NEW q \in Procs PROVE WriteSync(q)'
  <2>1. CASE q = p
    BY <1>2, <2>1 DEF WriteSync, Persisting
  <2>2. CASE q # p
    BY <1>1, <1>2, <2>2
       DEF WriteSync, AllDerive, Derives, Tells, fileVars, readVars
  <2>3. QED
    BY <2>1, <2>2
<1>5. ASSUME Settled', NoLoss' PROVE Tells(journal)'
  <2>1. Settled
    BY <1>2, <1>5 DEF Settled, Persisting
  <2>2. NoLoss
    BY <1>2, <1>5 DEF NoLoss, At
  <2>3. QED
    BY <1>1, <2>1, <2>2 DEF Tells, fileVars
<1>6. QED
  BY <1>3, <1>4, <1>5

\* A process that dies in the middle of a write leaves its write behind.
LEMMA SyncCrash ==
  ASSUME IInv, SyncInv, NEW p \in Procs, Crash(p)
  PROVE  SyncInv'
<1>1. /\ pc' = [pc EXCEPT ![p] = "dead"] /\ pc[p] # "dead"
      /\ UNCHANGED <<fileVars, write, faults, readVars>>
  BY DEF Crash, Goto
<1>2. CASE pc[p] \notin Persisting
  BY <1>1, <1>2, SyncQuiet DEF Labels, Persisting
<1>3. CASE pc[p] \in Persisting
  <2> SUFFICES ASSUME Undone' PROVE AllDerive(journal)' /\ (\A q \in Procs : WriteSync(q)')
                                    /\ ~NoLoss'
    BY DEF SyncInv
  <2>1. AllDerive(journal) /\ \A q \in Procs : WriteSync(q)
    BY <1>1 DEF SyncInv, Undone
  <2>2. pc'[p] = "dead" /\ \A q \in Procs \ {p} : pc'[q] = pc[q]
    BY <1>1 DEF IInv, TypeOK
  <2>3. write[p] # NoWrite
    <3>1. write[p].next \in Records
      BY <1>3 DEF IInv, Writes, WriteInv, Writing
    <3>2. QED
      BY <3>1, StoreConstants DEF NoWrite
  <2>4. ~NoLoss'
    BY <1>1, <2>2, <2>3 DEF NoLoss, At
  <2>5. AllDerive(journal)'
    BY <1>1, <2>1 DEF AllDerive, Derives, fileVars, readVars
  <2>6. ASSUME NEW q \in Procs PROVE WriteSync(q)'
    <3>1. CASE q = p
      BY <2>2, <3>1 DEF WriteSync
    <3>2. CASE q # p
      BY <1>1, <2>1, <2>2, <3>2
         DEF WriteSync, AllDerive, Derives, Tells, fileVars, readVars
    <3>3. QED
      BY <3>1, <3>2
  <2>7. QED
    BY <2>4, <2>5, <2>6
<1>4. QED
  BY <1>2, <1>3

\* The two writes and the rollback: until state.json is replaced, the journal that
\* a rollback would leave derives everything that was read.
LEMMA SyncWrite ==
  ASSUME IInv, SyncInv, NEW p \in Procs, WriteJournal(p) \/ WriteState(p) \/ Rollback(p)
  PROVE  SyncInv'
<1> SUFFICES ASSUME Undone'
             PROVE  AllDerive(journal)' /\ (\A q \in Procs : WriteSync(q)')
                    /\ (Settled' /\ NoLoss' => Tells(journal)')
  BY DEF SyncInv
<1> DEFINE w == write[p]
           longer == Append(w.before, w.event)
<1>1. pc[p] \in Persisting /\ WriteInv(p)
  BY DEF WriteJournal, WriteState, Rollback, At, IInv, Writes, Persisting
<1>2. /\ w.before \in Seq(Events) /\ w.event \in Events /\ w.next \in Records
      /\ journal = IF pc[p] = "journal" THEN w.before ELSE longer
  BY <1>1 DEF WriteInv, Writing
<1>3. UNCHANGED <<write, readVars>>
  BY DEF WriteJournal, WriteState, Rollback
<1>4. Undone /\ TypeOK
  BY ThrowsCounts DEF WriteJournal, WriteState, Rollback, Undone, IInv
<1>5. AllDerive(journal) /\ WriteSync(p)
  BY <1>4 DEF SyncInv
<1>6. /\ state \in Records \cup {None}
      /\ \A r \in Readers : /\ reading[r] \in Records \cup {None}
                            /\ returned[r] \in Records \cup {None}
  BY <1>4 DEF TypeOK
<1>7. ASSUME NEW q \in Procs \ {p}, pc'[q] = pc[q] PROVE WriteSync(q)'
  BY <1>1, <1>7 DEF IInv, Locks, HoldsLock, Persisting, WriteSync
<1>8. CASE WriteJournal(p)
  <2>1. /\ At(p, "journal") /\ UNCHANGED state
        /\ \/ journal' = longer /\ Goto(p, "state")
           \/ journal' = journal /\ Goto(p, "release")
    BY <1>8, <1>4, ThrowsCounts DEF WriteJournal
  <2>2. journal = w.before /\ Tells(journal) /\ w.next = RecordOf(longer)
    BY <1>2, <1>5, <2>1 DEF At, WriteSync
  <2>3. \A q \in Procs \ {p} : pc'[q] = pc[q]
    BY <1>4, <2>1 DEF TypeOK, Goto
  <2>4. AllDerive(journal)
    BY <1>5
  <2>5. CASE journal' = longer /\ Goto(p, "state")
    <3>1. pc'[p] = "state"
      BY <1>4, <2>5 DEF TypeOK, Goto
    <3>2. AllDerive(longer)
      BY <1>2, <1>6, <2>2, <2>4, DerivesAppend DEF AllDerive
    <3>3. AllDerive(journal)'
      BY <1>3, <2>1, <2>5, <3>2 DEF AllDerive, Derives, readVars
    <3>4. WriteSync(p)'
      BY <1>3, <2>1, <2>2, <2>4, <3>1 DEF WriteSync, AllDerive, Derives, Tells, readVars
    <3>5. ~Settled'
      BY <3>1 DEF Settled
    <3>6. QED
      BY <1>7, <2>3, <3>3, <3>4, <3>5
  <2>6. CASE journal' = journal /\ Goto(p, "release")
    <3>1. pc'[p] = "release"
      BY <1>4, <2>6 DEF TypeOK, Goto
    <3>2. AllDerive(journal)' /\ Tells(journal)'
      BY <1>3, <2>1, <2>2, <2>4, <2>6 DEF AllDerive, Derives, Tells, readVars
    <3>3. WriteSync(p)'
      BY <3>1 DEF WriteSync
    <3>4. QED
      BY <1>7, <2>3, <3>2, <3>3
  <2>7. QED
    BY <2>1, <2>5, <2>6
<1>9. CASE WriteState(p)
  <2>1. /\ At(p, "state") /\ UNCHANGED journal
        /\ \/ /\ state' = w.next
              /\ Goto(p, "release") \/ Goto(p, "callback")
           \/ state' = state /\ Goto(p, "rollback") /\ faults'["before"] = 1
    BY <1>9, <1>4, ThrowsCounts DEF WriteState, Succeed
  <2>2. /\ journal = longer /\ w.next = RecordOf(longer)
        /\ Tells(w.before) /\ AllDerive(w.before)
    BY <1>2, <1>5, <2>1 DEF At, WriteSync
  <2>3. \A q \in Procs \ {p} : pc'[q] = pc[q]
    BY <1>4, <2>1 DEF TypeOK, Goto
  <2>4. CASE state' = w.next /\ (Goto(p, "release") \/ Goto(p, "callback"))
    <3>1. pc'[p] \in {"release", "callback"}
      BY <1>4, <2>4 DEF TypeOK, Goto
    <3>2. Derives(longer, w.next)
      <4>1. longer \in Seq(Events)
        BY <1>2
      <4>2. Derives(longer, RecordOf(longer))
        BY <4>1, DerivesOwn
      <4>3. QED
        BY <2>2, <4>2
    <3>3. AllDerive(journal)'
      BY <1>3, <1>5, <2>1, <2>2, <2>4, <3>2 DEF AllDerive, Derives, readVars
    <3>4. Tells(journal)'
      BY <1>2, <2>1, <2>2, <2>4, StoreConstants DEF Tells
    <3>5. WriteSync(p)'
      BY <3>1 DEF WriteSync
    <3>6. QED
      BY <1>7, <2>3, <3>3, <3>4, <3>5
  <2>5. CASE state' = state /\ Goto(p, "rollback") /\ faults'["before"] = 1
    <3>1. pc'[p] = "rollback"
      BY <1>4, <2>5 DEF TypeOK, Goto
    <3>2. AllDerive(journal)'
      BY <1>3, <1>5, <2>1, <2>5 DEF AllDerive, Derives, readVars
    <3>3. WriteSync(p)'
      BY <1>3, <2>2, <2>5, <3>1 DEF WriteSync, AllDerive, Derives, Tells, readVars
    <3>4. ~Settled'
      BY <3>1 DEF Settled
    <3>5. QED
      BY <1>7, <2>3, <3>2, <3>3, <3>4
  <2>6. QED
    BY <2>1, <2>4, <2>5
<1>10. CASE Rollback(p)
  <2>1. At(p, "rollback") /\ UNCHANGED state /\ Goto(p, "release")
    BY <1>10 DEF Rollback
  <2>2. Tells(w.before) /\ AllDerive(w.before) /\ faults["before"] = 1
    BY <1>5, <2>1 DEF At, WriteSync
  <2>3. journal' = w.before
    BY <1>4, <1>10, <2>2, ThrowsCounts DEF Rollback
  <2>4. pc'[p] = "release" /\ \A q \in Procs \ {p} : pc'[q] = pc[q]
    BY <1>4, <2>1 DEF TypeOK, Goto
  <2>5. AllDerive(journal)' /\ Tells(journal)'
    BY <1>3, <2>1, <2>2, <2>3 DEF AllDerive, Derives, Tells, readVars
  <2>6. WriteSync(p)'
    BY <2>4 DEF WriteSync
  <2>7. QED
    BY <1>7, <2>4, <2>5, <2>6
<1>11. QED
  BY <1>8, <1>9, <1>10

\* A reader takes what state.json says, and returns what it took.
LEMMA SyncReader ==
  ASSUME IInv, SyncInv, NEW r \in Readers, ReadState(r) \/ ReadJournal(r)
  PROVE  SyncInv'
<1>1. UNCHANGED <<journal, state, pc, write, faults>>
  BY DEF ReadState, ReadJournal, fileVars
<1>2. ASSUME NEW j, AllDerive(j)
      PROVE  /\ Derives(j, state')
             /\ \A s \in Readers : Derives(j, reading'[s]) /\ Derives(j, returned'[s])
  <2>1. Derives(j, None)
    BY DEF Derives
  <2>2. \A s \in Readers : reading'[s] \in {reading[s], state, None}
    BY DEF ReadState, ReadJournal, IInv, TypeOK
  <2>3. \A s \in Readers : returned'[s] \in {returned[s], reading[s], None}
    BY DEF ReadState, ReadJournal, IInv, TypeOK
  <2>4. QED
    BY <1>1, <1>2, <2>1, <2>2, <2>3 DEF AllDerive, Derives
<1>3. SUFFICES ASSUME Undone'
               PROVE  AllDerive(journal)' /\ (\A q \in Procs : WriteSync(q)')
                      /\ (Settled' /\ NoLoss' => Tells(journal)')
  BY DEF SyncInv
<1>4. /\ AllDerive(journal) /\ \A q \in Procs : WriteSync(q)
      /\ Settled /\ NoLoss => Tells(journal)
  BY <1>1, <1>3 DEF SyncInv, Undone
<1>5. AllDerive(journal)'
  BY <1>1, <1>2, <1>4 DEF AllDerive, Derives
<1>6. ASSUME NEW q \in Procs PROVE WriteSync(q)'
  <2>1. AllDerive(write[q].before) => AllDerive(write[q].before)'
    BY <1>1, <1>2 DEF AllDerive, Derives
  <2>2. QED
    BY <1>1, <1>4, <2>1 DEF WriteSync, Tells
<1>7. Settled' /\ NoLoss' => Tells(journal)'
  BY <1>1, <1>4 DEF Settled, NoLoss, At, Tells
<1>8. QED
  BY <1>5, <1>6, <1>7

\* The steps of a call that write no file.
LEMMA SyncCall ==
  ASSUME IInv, SyncInv, NEW p \in Procs, CallStep(p),
         ~WriteJournal(p), ~WriteState(p), ~Rollback(p)
  PROVE  SyncInv'
<1>1. CASE \/ Acquire(p) \/ BreakStaleLock(p) \/ TakeBrokenLock(p)
           \/ FailCallback(p) \/ Release(p)
  <2>1. /\ UNCHANGED <<fileVars, faults, readVars>>
        /\ pc[p] \notin Persisting \cup {"dead"}
        /\ \E l \in Labels \ Persisting : pc' = [pc EXCEPT ![p] = l]
        /\ \A q \in Procs \ {p} : write'[q] = write[q]
    BY <1>1 DEF Acquire, BreakStaleLock, TakeBrokenLock, FailCallback, Release,
                At, Goto, Labels, Persisting, IInv, TypeOK
  <2>2. QED
    BY <2>1, SyncQuiet
<1>2. CASE Transition(p)
  <2>1. PICK to \in ChangeStates : Persistable(to) /\ Begin(p, "callback", Step(to))
    BY <1>2 DEF Transition
  <2>2. Step(to) \in Events
    BY DEF Step, Events, EventTypes, From, IInv, TypeOK, Records
  <2>3. \/ state = None /\ journal = <<>> /\ Step(to) = Step("received")
        \/ /\ state # None /\ Verified(state) /\ Step(to).from = state.state
           /\ Step(to).type = "step" /\ AllowedTransition(state.state, Step(to).to)
    BY <2>1 DEF Persistable, Step, From
  <2>4. QED
    BY <1>2, <2>1, <2>2, <2>3, SyncBegin DEF Transition, Contexts, At
<1>3. CASE Retry(p)
  <2> DEFINE e == [type |-> "retry", from |-> state.state, to |-> state.resume]
  <2>1. e \in Events
    BY <1>3 DEF Retry, Events, EventTypes, IInv, TypeOK, Records, ChangeStates
  <2>2. QED
    BY <1>3, <2>1, SyncBegin DEF Retry, Contexts, At
<1>4. CASE RecordRecovery(p) \/ FinishCallback(p)
  <2>1. /\ UNCHANGED <<fileVars, owner, faults, readVars, acked>>
        /\ pc[p] \in {"record", "callback"}
    BY <1>4 DEF RecordRecovery, FinishCallback, At
  <2>2. \/ /\ state # None /\ Verified(state)
           /\ \E ctx \in Contexts : Begin(p, ctx, LockRecovered)
        \/ /\ Goto(p, "callback") \/ Goto(p, "release")
           /\ UNCHANGED write
    BY <1>4 DEF RecordRecovery, FinishCallback, Contexts
  <2>3. CASE /\ state # None /\ Verified(state)
             /\ \E ctx \in Contexts : Begin(p, ctx, LockRecovered)
    <3>1. LockRecovered \in Events /\ LockRecovered.from = state.state
          /\ LockRecovered.to = state.state /\ LockRecovered.type = "lock-recovered"
      BY <2>3 DEF LockRecovered, Events, EventTypes, From, IInv, TypeOK, Records
    <3>2. QED
      BY <2>1, <2>3, <3>1, SyncBegin
  <2>4. CASE (Goto(p, "callback") \/ Goto(p, "release")) /\ UNCHANGED write
    BY <2>1, <2>4, SyncQuiet DEF Goto, Labels, Persisting
  <2>5. QED
    BY <2>2, <2>3, <2>4
<1>5. QED
  BY <1>1, <1>2, <1>3, <1>4 DEF CallStep

\* While at most one write failed, the files agree as far as anybody relies on it.
THEOREM Synchrony == Spec => []SyncInv
<1>1. Init => SyncInv
  BY DEF Init, SyncInv, AllDerive, Derives, WriteSync, Tells
<1>2. IInv /\ SyncInv /\ [Next]_vars => SyncInv'
  <2> SUFFICES ASSUME IInv, SyncInv, [Next]_vars PROVE SyncInv'
    OBVIOUS
  <2>1. ASSUME NEW p \in Procs, CallStep(p) \/ Crash(p) PROVE SyncInv'
    BY <2>1, SyncCall, SyncWrite, SyncCrash
  <2>2. ASSUME NEW r \in Readers, ReadState(r) \/ ReadJournal(r) PROVE SyncInv'
    BY <2>2, SyncReader
  <2>3. CASE UNCHANGED vars
    <3>1. UNCHANGED <<journal, state, pc, write, faults, reading, returned>>
      BY <2>3 DEF vars, fileVars, readVars
    <3>2. Undone' = Undone /\ Settled' = Settled /\ NoLoss' = NoLoss
      BY <3>1 DEF Undone, Settled, NoLoss, At
    <3>3. \A j : AllDerive(j)' = AllDerive(j) /\ Tells(j)' = Tells(j)
      BY <3>1 DEF AllDerive, Derives, Tells
    <3>4. \A p \in Procs : WriteSync(p)' = WriteSync(p)
      BY <3>1, <3>3 DEF WriteSync
    <3>5. QED
      BY <3>1, <3>2, <3>3, <3>4 DEF SyncInv
  <2>4. QED
    BY <2>1, <2>2, <2>3 DEF Next
<1>3. QED
  BY <1>1, <1>2, Invariance, PTL DEF Spec

\* A failed write is undone: when nobody is writing and no writer has died, the two
\* files tell the same story, after any sequence of transitions, retries and
\* recoveries of which one write failed.
THEOREM SyncWhenSettled == Spec => []SettledInSync
<1>1. IInv /\ SyncInv => SettledInSync
  BY DEF IInv, JournalLegal, SyncInv, SettledInSync, InSync, Tells, Verified, NoLoss
<1>2. QED
  BY <1>1, Invariance, Synchrony, PTL

\* A record that readChange returned without a lock is never taken back: deaths and
\* rollbacks leave a journal whose first `revision` events still derive it.
THEOREM ReadsNeverUndone == Spec => []ReadsAreDurable
<1>1. SyncInv => ReadsAreDurable
  BY DEF SyncInv, ReadsAreDurable, AllDerive, Derives
<1>2. QED
  BY <1>1, Synchrony, PTL

-----------------------------------------------------------------------------
(***************************************************************************)
(* Recovery events.  A death entitles to one, which is due from the moment *)
(* the owner of the lock is dead until the event is in the journal.        *)
(***************************************************************************)
Dead == {p \in Procs : At(p, "dead")}

\* p is about to write a recovery event.
RecoveryInHand(p) == pc[p] = "journal" /\ write[p].event.type = "lock-recovered"

Due ==
  \/ \E p \in Procs : pc[p] = "unlinked"
  \/ /\ owner # None
     /\ pc[owner] \in {"dead", "record"} \/ pending[owner] \/ RecoveryInHand(owner)

CountInv ==
  /\ IsFiniteSet(Dead)
  /\ Cardinality(OfType(journal, "lock-recovered")) + (IF Due THEN 1 ELSE 0)
       <= Cardinality(Dead)
  /\ \A p \in Procs : RecoveryInHand(p) => ~pending[p]

\* Fewer recovery events, or none due any more, keep the account.
LEMMA CountStays ==
  ASSUME TypeOK, TypeOK', CountInv, Dead' = Dead,
         Cardinality(OfType(journal, "lock-recovered"))'
           <= Cardinality(OfType(journal, "lock-recovered")),
         Due' => Due,
         \A p \in Procs : RecoveryInHand(p)' => ~pending'[p]
  PROVE  CountInv'
<1>1. /\ Cardinality(Dead) \in Nat
      /\ Cardinality(OfType(journal, "lock-recovered")) \in Nat
      /\ Cardinality(OfType(journal, "lock-recovered"))' \in Nat
  <2>1. Cardinality(Dead) \in Nat
    BY FS_CardinalityType DEF CountInv
  <2>2. \A j \in Seq(Events) : Cardinality(OfType(j, "lock-recovered")) \in Nat
    BY OfTypeFinite
  <2>3. journal \in Seq(Events) /\ journal' \in Seq(Events)
    BY DEF TypeOK
  <2>4. QED
    BY <2>1, <2>2, <2>3 DEF OfType
<1> DEFINE n == Cardinality(OfType(journal, "lock-recovered"))
           m == Cardinality(OfType(journal, "lock-recovered"))'
<1>2. n + (IF Due THEN 1 ELSE 0) <= Cardinality(Dead) /\ m <= n
  BY DEF CountInv
<1>3. n \in Nat /\ m \in Nat /\ Cardinality(Dead) \in Nat
  BY <1>1
<1>4. m + (IF Due' THEN 1 ELSE 0) <= Cardinality(Dead)
  <2> HIDE DEF n, m
  <2>1. QED
    BY <1>2, <1>3
<1>5. QED
  BY <1>4 DEF CountInv

\* A death makes at most one more recovery due.
LEMMA CountCrash ==
  ASSUME IInv, CountInv, NEW p \in Procs, Crash(p)
  PROVE  CountInv'
<1>1. /\ pc' = [pc EXCEPT ![p] = "dead"] /\ pc[p] # "dead"
      /\ UNCHANGED <<journal, owner, write, pending>>
  BY DEF Crash, Goto, fileVars
<1>2. Dead' = Dead \cup {p} /\ p \notin Dead
  BY <1>1 DEF Dead, At, IInv, TypeOK
<1>3. /\ IsFiniteSet(Dead') /\ Cardinality(Dead') = Cardinality(Dead) + 1
      /\ Cardinality(Dead) \in Nat
  BY <1>2, FS_AddElement, FS_CardinalityType DEF CountInv
<1> DEFINE n == Cardinality(OfType(journal, "lock-recovered"))
<1>4. n \in Nat
  BY OfTypeFinite DEF IInv, TypeOK
<1>5. n + (IF Due THEN 1 ELSE 0) <= Cardinality(Dead)
  BY DEF CountInv
<1>6. n + (IF Due' THEN 1 ELSE 0) <= Cardinality(Dead')
  <2> HIDE DEF n
  <2>1. QED
    BY <1>3, <1>4, <1>5
<1>7. OfType(journal, "lock-recovered")' = OfType(journal, "lock-recovered")
  BY <1>1 DEF OfType
<1>8. \A q \in Procs : RecoveryInHand(q)' => ~pending'[q]
  BY <1>1 DEF CountInv, RecoveryInHand, IInv, TypeOK
<1>9. QED
  BY <1>3, <1>6, <1>7, <1>8 DEF CountInv

\* The steps of a call keep the account: what is due passes from the broken lock
\* to its new owner, to the callback and to the journal.
LEMMA CountCall ==
  ASSUME IInv, IInv', CountInv, NEW p \in Procs, CallStep(p), ~WriteJournal(p)
  PROVE  CountInv'
<1>1. TypeOK /\ TypeOK' /\ Locks
  BY DEF IInv
<1>2. \A q \in Procs : RecoveryInHand(q) => ~pending[q]
  BY DEF CountInv
<1>3. pc[p] # "dead" /\ \E l \in Labels \ {"dead"} : pc' = [pc EXCEPT ![p] = l]
  BY DEF CallStep, Acquire, BreakStaleLock, TakeBrokenLock, RecordRecovery, Begin,
         Transition, FailCallback, Retry, FinishCallback, WriteState, Succeed, WriteJournal,
         Rollback, Release, At, Goto, Labels
<1>4. \A q \in Procs \ {p} : pc'[q] = pc[q]
  BY <1>1, <1>3 DEF TypeOK
<1>5. Dead' = Dead
  BY <1>1, <1>3 DEF Dead, At, TypeOK
<1>6. Cardinality(OfType(journal, "lock-recovered"))'
        <= Cardinality(OfType(journal, "lock-recovered"))
  <2>1. Cardinality(OfType(journal, "lock-recovered")) \in Nat
    BY <1>1, OfTypeFinite DEF TypeOK
  <2>2. CASE journal' = journal
    <3>1. OfType(journal, "lock-recovered")' = OfType(journal, "lock-recovered")
      BY <2>2 DEF OfType
    <3>2. QED
      BY <2>1, <3>1
  <2>3. CASE journal' # journal
    <3>1. Rollback(p) /\ journal' = write[p].before
      BY <2>3 DEF CallStep, Acquire, BreakStaleLock, TakeBrokenLock, RecordRecovery, Begin,
         Transition, FailCallback, Retry, FinishCallback, WriteState, WriteJournal,
         Rollback, Release, fileVars
    <3>2. /\ journal = Append(write[p].before, write[p].event)
          /\ write[p].before \in Seq(Events) /\ write[p].event \in Events
      BY <3>1 DEF IInv, Writes, WriteInv, Writing, Rollback, At, Persisting
    <3>3. Cardinality(OfType(journal, "lock-recovered"))
            = Cardinality(OfType(write[p].before, "lock-recovered"))
                + (IF write[p].event.type = "lock-recovered" THEN 1 ELSE 0)
      BY <3>2, OfTypeAppend
    <3>4. OfType(journal, "lock-recovered")' = OfType(write[p].before, "lock-recovered")
      BY <3>1 DEF OfType
    <3>5. Cardinality(OfType(write[p].before, "lock-recovered")) \in Nat
      BY <3>2, OfTypeFinite
    <3>6. QED
      BY <3>3, <3>4, <3>5
  <2>4. QED
    BY <2>2, <2>3
<1>7. (Due' => Due) /\ \A q \in Procs : RecoveryInHand(q)' => ~pending'[q]
  <2>1. CASE Acquire(p)
    BY <1>1, <1>2, <2>1, StoreConstants
       DEF Acquire, Due, RecoveryInHand, Recovering, Goto, TypeOK
  <2>2. CASE BreakStaleLock(p)
    BY <1>1, <1>2, <2>2 DEF BreakStaleLock, Due, RecoveryInHand, At, Goto, TypeOK
  <2>3. CASE TakeBrokenLock(p)
    BY <1>1, <1>2, <2>3 DEF TakeBrokenLock, Due, RecoveryInHand, At, Goto, TypeOK
  <2>4. ASSUME pc[p] \in HoldsLock
        PROVE  owner = p /\ owner # None /\ \A q \in Procs : pc[q] # "unlinked"
    BY <1>1, <2>4, StoreConstants DEF Locks, TypeOK
  <2>5. CASE RecordRecovery(p) \/ FinishCallback(p)
    <3>1. owner' = owner /\ (pc[p] = "record" \/ pc[p] = "callback")
      BY <2>5 DEF RecordRecovery, FinishCallback, At
    <3>2. /\ \A q \in Procs \ {p} : pending'[q] = pending[q] /\ write'[q] = write[q]
          /\ \/ pc'[p] = "journal" /\ ~pending'[p] /\ (pc[p] = "record" \/ pending[p])
             \/ /\ pc'[p] \in {"callback", "release"}
                /\ pc[p] = "record" \/ pending'[p] = pending[p]
      <4>1. CASE RecordRecovery(p)
        BY <1>1, <4>1 DEF RecordRecovery, Begin, At, Goto, TypeOK
      <4>2. CASE FinishCallback(p)
        <5>1. CASE pending[p] /\ state # None /\ Verified(state)
          BY <1>1, <4>2, <5>1 DEF FinishCallback, Begin, At, Goto, TypeOK
        <5>2. CASE ~(pending[p] /\ state # None /\ Verified(state))
          BY <1>1, <4>2, <5>2 DEF FinishCallback, At, Goto, TypeOK
        <5>3. QED
          BY <5>1, <5>2
      <4>3. QED
        BY <2>5, <4>1, <4>2
    <3>3. owner = p /\ owner # None /\ \A q \in Procs : pc[q] # "unlinked"
      BY <2>4, <3>1 DEF HoldsLock
    <3>4. \A q \in Procs : pc'[q] # "unlinked"
      BY <1>4, <3>2, <3>3
    <3>5. Due' => Due
      BY <3>1, <3>2, <3>3, <3>4 DEF Due, RecoveryInHand
    <3>6. ASSUME NEW q \in Procs PROVE RecoveryInHand(q)' => ~pending'[q]
      BY <1>2, <1>4, <3>2 DEF RecoveryInHand
    <3>7. QED
      BY <3>5, <3>6
  <2>6. CASE Transition(p) \/ Retry(p)
    <3>1. UNCHANGED <<owner, pending>> /\ pc[p] = "callback"
      BY <2>6 DEF Transition, Retry, At
    <3>2. /\ write'[p].event.type # "lock-recovered"
          /\ \A q \in Procs \ {p} : write'[q] = write[q]
      <4>1. CASE Transition(p)
        BY <1>1, <4>1 DEF Transition, Begin, Step, TypeOK
      <4>2. CASE Retry(p)
        BY <1>1, <4>2 DEF Retry, Begin, TypeOK
      <4>3. QED
        BY <2>6, <4>1, <4>2
    <3>3. pc'[p] = "journal"
      BY <1>1, <2>6 DEF Transition, Retry, Begin, Goto, TypeOK
    <3>4. owner = p /\ owner # None /\ \A q \in Procs : pc[q] # "unlinked"
      BY <2>4, <3>1 DEF HoldsLock
    <3>5. \A q \in Procs : pc'[q] # "unlinked"
      BY <1>4, <3>3, <3>4
    <3>6. QED
      BY <1>2, <1>4, <3>1, <3>2, <3>3, <3>4, <3>5 DEF Due, RecoveryInHand
  <2>7. CASE FailCallback(p) \/ WriteState(p) \/ Rollback(p)
    <3>1. /\ UNCHANGED <<owner, pending, write>>
          /\ \E l \in {"release", "callback", "rollback"} : pc' = [pc EXCEPT ![p] = l]
      BY <2>7 DEF FailCallback, WriteState, Succeed, Rollback, Goto
    <3>2. QED
      BY <1>1, <1>2, <3>1 DEF Due, RecoveryInHand, TypeOK
  <2>8. CASE Release(p)
    BY <1>1, <1>2, <2>8, StoreConstants
       DEF Release, Due, RecoveryInHand, At, Goto, TypeOK, Locks, HoldsLock
  <2>9. QED
    BY <2>1, <2>2, <2>3, <2>5, <2>6, <2>7, <2>8 DEF CallStep
<1>8. QED
  BY <1>1, <1>5, <1>6, <1>7, CountStays

\* Appending the recovery event is what was due.
LEMMA CountWrite ==
  ASSUME IInv, IInv', CountInv, NEW p \in Procs, WriteJournal(p)
  PROVE  CountInv'
<1>1. /\ TypeOK /\ TypeOK' /\ pc[p] = "journal" /\ owner = p /\ owner # None
      /\ UNCHANGED <<owner, write, pending>>
  BY StoreConstants DEF WriteJournal, At, IInv, Locks, HoldsLock, TypeOK
<1>2. /\ journal = write[p].before
      /\ write[p].before \in Seq(Events) /\ write[p].event \in Events
  BY <1>1 DEF IInv, Writes, WriteInv, Writing, Persisting
<1>3. /\ \E l \in {"state", "release"} : pc' = [pc EXCEPT ![p] = l]
      /\ journal' \in {journal, Append(journal, write[p].event)}
  BY <1>1, <1>2 DEF WriteJournal, Goto
<1>4. pc'[p] \in {"state", "release"} /\ \A q \in Procs \ {p} : pc'[q] = pc[q]
  BY <1>1, <1>3 DEF TypeOK
<1>5. Dead' = Dead /\ \A q \in Procs : RecoveryInHand(q)' => ~pending'[q]
  BY <1>1, <1>4 DEF Dead, At, CountInv, RecoveryInHand
<1>6. (\E q \in Procs : pc'[q] = "unlinked") <=> (\E q \in Procs : pc[q] = "unlinked")
  BY <1>1, <1>4
<1>7. Due' => Due
  BY <1>1, <1>4, <1>6 DEF Due, RecoveryInHand
<1>8. CASE journal' = journal \/ write[p].event.type # "lock-recovered"
  <2>1. Cardinality(OfType(journal', "lock-recovered"))
          <= Cardinality(OfType(journal, "lock-recovered"))
    <3>1. Cardinality(OfType(journal, "lock-recovered")) \in Nat
      BY <1>2, OfTypeFinite
    <3>2. CASE journal' = journal
      BY <3>1, <3>2
    <3>3. CASE /\ journal' = Append(journal, write[p].event)
               /\ write[p].event.type # "lock-recovered"
      BY <1>2, <3>1, <3>3, OfTypeAppend
    <3>4. QED
      BY <1>3, <1>8, <3>2, <3>3
  <2>2. Cardinality(OfType(journal, "lock-recovered"))'
          = Cardinality(OfType(journal', "lock-recovered"))
    BY DEF OfType
  <2>3. QED
    BY <1>1, <1>5, <1>7, <2>1, <2>2, CountStays
<1>9. CASE /\ journal' = Append(journal, write[p].event)
           /\ write[p].event.type = "lock-recovered"
  <2>1. Due /\ ~pending[p]
    BY <1>1, <1>9 DEF Due, RecoveryInHand, CountInv
  <2>2. ~Due'
    <3>1. \A q \in Procs : pc[q] # "unlinked"
      BY <1>1 DEF IInv, Locks
    <3>2. QED
      BY <1>1, <1>4, <1>6, <2>1, <3>1 DEF Due, RecoveryInHand
  <2>3. Cardinality(OfType(journal', "lock-recovered"))
          = Cardinality(OfType(journal, "lock-recovered")) + 1
    BY <1>2, <1>9, OfTypeAppend
  <2>4. OfType(journal, "lock-recovered")' = OfType(journal', "lock-recovered")
    BY DEF OfType
  <2>5. Cardinality(OfType(journal, "lock-recovered")) + 1 <= Cardinality(Dead)
    BY <2>1 DEF CountInv
  <2>6. Cardinality(Dead) \in Nat /\ IsFiniteSet(Dead)
    BY FS_CardinalityType DEF CountInv
  <2>7. Cardinality(OfType(journal, "lock-recovered")') + 0 <= Cardinality(Dead)
    BY <2>3, <2>5, <1>2, OfTypeFinite
  <2>8. QED
    BY <1>5, <2>2, <2>4, <2>6, <2>7 DEF CountInv
<1>10. QED
  BY <1>3, <1>8, <1>9

\* Recovery is never invented: the journal names at most one per process that died,
\* whichever of the two points of a call records it, and however often the recovery
\* itself dies or fails half way.
THEOREM RecoveriesAreEarned == Spec => []NoSpuriousRecovery
<1>1. Init => CountInv
  <2> SUFFICES ASSUME Init PROVE CountInv
    OBVIOUS
  <2>1. Dead = {} /\ OfType(journal, "lock-recovered") = {}
    BY DEF Init, Dead, At, OfType
  <2>2. ~Due /\ \A p \in Procs : ~RecoveryInHand(p)
    BY DEF Init, Due, RecoveryInHand
  <2>3. QED
    BY <2>1, <2>2, FS_EmptySet DEF CountInv
<1>2. IInv /\ IInv' /\ CountInv /\ [Next]_vars => CountInv'
  <2> SUFFICES ASSUME IInv, IInv', CountInv, [Next]_vars PROVE CountInv'
    OBVIOUS
  <2>1. ASSUME NEW p \in Procs, CallStep(p) \/ Crash(p) PROVE CountInv'
    BY <2>1, CountCall, CountWrite, CountCrash
  <2>2. CASE (\E r \in Readers : ReadState(r) \/ ReadJournal(r)) \/ UNCHANGED vars
    <3>1. UNCHANGED <<journal, owner, pc, write, pending>>
      BY <2>2 DEF ReadState, ReadJournal, vars, fileVars
    <3>2. QED
      BY <3>1 DEF CountInv, Dead, At, OfType, Due, RecoveryInHand
  <2>3. QED
    BY <2>1, <2>2 DEF Next
<1>3. IInv /\ CountInv => NoSpuriousRecovery
  <2> SUFFICES ASSUME IInv, CountInv PROVE NoSpuriousRecovery
    OBVIOUS
  <2>1. Cardinality(OfType(journal, "lock-recovered")) \in Nat /\ Cardinality(Dead) \in Nat
    BY OfTypeFinite, FS_CardinalityType DEF CountInv, IInv, TypeOK
  <2>2. Cardinality(OfType(journal, "lock-recovered")) <= Cardinality(Dead)
    <3>1. Cardinality(OfType(journal, "lock-recovered")) + (IF Due THEN 1 ELSE 0)
            <= Cardinality(Dead)
      BY DEF CountInv
    <3>2. QED
      BY <2>1, <3>1
  <2>3. QED
    BY <2>2 DEF NoSpuriousRecovery, OfType, Dead
<1>4. QED
  BY <1>1, <1>2, <1>3, Invariance, PTL DEF Spec

=============================================================================
