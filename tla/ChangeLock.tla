------------------------------ MODULE ChangeLock ------------------------------
(***************************************************************************)
(* The per-change lock of the ingestion state store                        *)
(* (src/src/ingest/state-store.ts): withChangeLock and everything it calls *)
(* to obtain and to give back the lock file of one change.                 *)
(*                                                                         *)
(* Two files of the change directory matter.  `lock` names the process     *)
(* that may touch the change.  `guard` (recovery-guard) is held for the    *)
(* duration of one acquisition and serializes the recovery of a lock that  *)
(* a dead process left behind.  Both are published with link(2), which is  *)
(* exclusive, and removed by path: readRegularFile, compare, unlink.  A    *)
(* guard whose owner is dead is itself reclaimed by renaming it to a       *)
(* private quarantine file, comparing it there, and restoring it when      *)
(* somebody had replaced it in between.                                    *)
(*                                                                         *)
(* A caller is one pending withChangeLock; several callers may live in     *)
(* one process.  Every file-system call of the code is one action, so that *)
(* callers interleave between any two of them.                             *)
(***************************************************************************)
CONSTANTS
  Callers,      \* concurrent invocations of withChangeLock
  Pids,         \* operating-system processes, all on one host
  PidOf,        \* the process a caller runs in
  Mortal,       \* the processes that may die (bounds the crashes)
  Stamps,       \* tells the owner files of one caller apart (randomUUID)
  None,         \* no such file, or nothing read
  CrashPhases,  \* the phases of a call in which its process may die
  IoFaults,     \* may link/unlink of temporary files fail?
  PromptJudge   \* is an owner file judged before its age can cross the limit?

Phases == {"outside", "guarded", "both", "locked"}

ASSUME LockConstants ==
  /\ PidOf \in [Callers -> Pids]
  /\ Mortal \subseteq Pids
  /\ Stamps # {}
  /\ None \notin Callers \cup (Callers \X Stamps)
  /\ CrashPhases \subseteq Phases
  /\ IoFaults \in BOOLEAN
  /\ PromptJudge \in BOOLEAN

VARIABLES
  guard,        \* contents of recovery-guard: an owner, or None
  lock,         \* contents of lock: an owner, or None
  quarantine,   \* quarantine[c]: the private file c renamed a guard to
  pc,           \* pc[c]: the next file-system call of c
  stamp,        \* stamp[c]: the token of the call c is making
  seen,         \* seen[c]: the owner c read and has not finished with
  acquired,     \* acquired[c]: c got the lock while it held the guard
  expired       \* dead processes whose stamp in a file is over 30 minutes old

vars == <<guard, lock, quarantine, pc, stamp, seen, acquired, expired>>

(***************************************************************************)
(* An owner file holds pid, hostname, createdAt and a random token.  The   *)
(* pid is PidOf of the caller; the caller and the stamp stand for the      *)
(* token.                                                                  *)
(***************************************************************************)
Owner == Callers \X Stamps
Pid(o) == PidOf[o[1]]

Me(c) == <<c, stamp[c]>>
Files == {"guard", "lock"}

BeforeGuard == {"tryGuard", "readGuard", "judgeGuard", "moveGuard",
                "checkMoved", "restoreGuard", "retryGuard"}
UnderGuard == {"tryLock", "readLock", "retryLock", "judgeLock", "recheckLock",
               "unlinkStale", "takeLock", "record", "abortLock", "abortUnlink",
               "checkGuard", "unlinkGuard"}
AfterGuard == {"critical", "checkLock", "unlinkLock"}
Labels == {"idle", "dead"} \cup BeforeGuard \cup UnderGuard \cup AfterGuard

Alive(c) == pc[c] # "dead"

\* c published the lock file and has not yet given it back.
Owning(c) ==
  \/ pc[c] \in {"record", "abortLock", "abortUnlink"} \cup AfterGuard
  \/ pc[c] \in {"checkGuard", "unlinkGuard"} /\ acquired[c]

Phase(c) ==
  CASE pc[c] \in UnderGuard /\ ~Owning(c) -> "guarded"
    [] pc[c] \in UnderGuard /\ Owning(c)  -> "both"
    [] pc[c] \in AfterGuard               -> "locked"
    [] OTHER                              -> "outside"

\* Mutants of Stale: age alone makes a file stale; and nothing ever is.
StaleByAge(file, o) == o # None
NeverStale(file, o) == FALSE

\* isRecoveryEligible and isPidAlive: old enough, same host and a dead process.
Stale(file, o) == <<file, Pid(o)>> \in expired

-----------------------------------------------------------------------------
Init ==
  /\ guard = None
  /\ lock = None
  /\ quarantine = [c \in Callers |-> None]
  /\ pc = [c \in Callers |-> "idle"]
  /\ stamp \in [Callers -> Stamps]
  /\ seen = [c \in Callers |-> None]
  /\ acquired = [c \in Callers |-> FALSE]
  /\ expired = {}

At(c, label) == pc[c] = label
Goto(c, label) == pc' = [pc EXCEPT ![c] = label]
fileVars == <<guard, lock, quarantine>>

\* withChangeLock begins: a token nobody can still hold a copy of.
StartCall(c) ==
  /\ At(c, "idle")
  /\ \E s \in Stamps :
       /\ \A d \in Callers : quarantine[d] # <<c, s>> /\ seen[d] # <<c, s>>
       /\ guard # <<c, s>> /\ lock # <<c, s>>
       /\ stamp' = [stamp EXCEPT ![c] = s]
  /\ Goto(c, "tryGuard")
  /\ UNCHANGED <<fileVars, seen, acquired, expired>>

(***************************************************************************)
(* createExclusiveOwnerFile on recovery-guard.  link(2) either publishes   *)
(* the complete owner or fails with EEXIST.  After a fault the file is     *)
(* either not there (the call fails) or it is removed again the way an     *)
(* owned guard is.                                                         *)
(***************************************************************************)
CreateGuard(c, onExist) ==
  \/ /\ guard = None
     /\ guard' = Me(c)
     /\ Goto(c, "tryLock") \/ (IoFaults /\ Goto(c, "checkGuard"))
     /\ UNCHANGED <<lock, quarantine, stamp, seen, acquired, expired>>
  \/ /\ guard # None
     /\ Goto(c, onExist)
     /\ UNCHANGED <<fileVars, stamp, seen, acquired, expired>>
  \/ /\ IoFaults
     /\ Goto(c, "idle")
     /\ UNCHANGED <<fileVars, stamp, seen, acquired, expired>>

TryGuard(c) == At(c, "tryGuard") /\ CreateGuard(c, "readGuard")

\* reclaimStaleRecoveryGuard reads the guard that is in the way ...
ReadGuard(c) ==
  /\ At(c, "readGuard")
  /\ IF guard = None
       THEN Goto(c, "idle") /\ UNCHANGED seen
       ELSE Goto(c, "judgeGuard") /\ seen' = [seen EXCEPT ![c] = guard]
  /\ UNCHANGED <<fileVars, stamp, acquired, expired>>

\* ... decides from what it read whether the owner is gone ...
JudgeGuard(c) ==
  /\ At(c, "judgeGuard")
  /\ IF Stale("guard", seen[c])
       THEN Goto(c, "moveGuard") /\ UNCHANGED seen
       ELSE Goto(c, "idle") /\ seen' = [seen EXCEPT ![c] = None]
  /\ UNCHANGED <<fileVars, stamp, acquired, expired>>

\* ... renames whatever is there by now to its quarantine file ...
MoveGuard(c) ==
  /\ At(c, "moveGuard")
  /\ IF guard = None
       THEN /\ Goto(c, "idle")
            /\ seen' = [seen EXCEPT ![c] = None]
            /\ UNCHANGED <<guard, quarantine>>
       ELSE /\ Goto(c, "checkMoved")
            /\ quarantine' = [quarantine EXCEPT ![c] = guard]
            /\ guard' = None
            /\ UNCHANGED seen
  /\ UNCHANGED <<lock, stamp, acquired, expired>>

\* ... and compares: the judged guard is deleted, another one goes back.
CheckMoved(c) ==
  /\ At(c, "checkMoved")
  /\ IF quarantine[c] = seen[c]
       THEN /\ Goto(c, "retryGuard")
            /\ quarantine' = [quarantine EXCEPT ![c] = None]
       ELSE /\ Goto(c, "restoreGuard")
            /\ UNCHANGED quarantine
  /\ seen' = [seen EXCEPT ![c] = None]
  /\ UNCHANGED <<guard, lock, stamp, acquired, expired>>

\* restoreQuarantinedGuard: link back unless a guard exists; the call fails.
RestoreGuard(c) ==
  /\ At(c, "restoreGuard")
  /\ guard' = IF guard = None THEN quarantine[c] ELSE guard
  /\ quarantine' = [quarantine EXCEPT ![c] = None]
  /\ Goto(c, "idle")
  /\ UNCHANGED <<lock, stamp, seen, acquired, expired>>

RetryGuard(c) == At(c, "retryGuard") /\ CreateGuard(c, "idle")

\* Mutant of CreateLock: an existing lock is replaced.
ReplaceLock(c, next, got, onExist) ==
  /\ lock' = Me(c)
  /\ Goto(c, next)
  /\ acquired' = [acquired EXCEPT ![c] = got]
  /\ UNCHANGED <<guard, quarantine, stamp, seen, expired>>

(***************************************************************************)
(* acquireLockUnderGuard.  `next` is where a published lock leads,         *)
(* `onExist` where an existing one does.  A fault after link(2) removes    *)
(* the lock again.                                                         *)
(***************************************************************************)
CreateLock(c, next, got, onExist) ==
  \/ /\ lock = None
     /\ lock' = Me(c)
     /\ \/ Goto(c, next) /\ acquired' = [acquired EXCEPT ![c] = got]
        \/ IoFaults /\ Goto(c, "abortLock") /\ UNCHANGED acquired
     /\ UNCHANGED <<guard, quarantine, stamp, seen, expired>>
  \/ /\ lock # None
     /\ Goto(c, onExist)
     /\ UNCHANGED <<fileVars, stamp, seen, acquired, expired>>
  \/ /\ IoFaults
     /\ Goto(c, "checkGuard")
     /\ UNCHANGED <<fileVars, stamp, seen, acquired, expired>>

TryLock(c) == At(c, "tryLock") /\ CreateLock(c, "checkGuard", TRUE, "readLock")

ReadLock(c) ==
  /\ At(c, "readLock")
  /\ IF lock = None
       THEN Goto(c, "retryLock") /\ UNCHANGED seen
       ELSE Goto(c, "judgeLock") /\ seen' = [seen EXCEPT ![c] = lock]
  /\ UNCHANGED <<fileVars, stamp, acquired, expired>>

RetryLock(c) ==
  At(c, "retryLock") /\ CreateLock(c, "checkGuard", TRUE, "checkGuard")

JudgeLock(c) ==
  /\ At(c, "judgeLock")
  /\ IF Stale("lock", seen[c])
       THEN Goto(c, "recheckLock") /\ UNCHANGED seen
       ELSE Goto(c, "checkGuard") /\ seen' = [seen EXCEPT ![c] = None]
  /\ UNCHANGED <<fileVars, stamp, acquired, expired>>

\* The file is read again and must still hold the bytes that were judged.
RecheckLock(c) ==
  /\ At(c, "recheckLock")
  /\ IF lock = seen[c]
       THEN Goto(c, "unlinkStale") /\ UNCHANGED seen
       ELSE Goto(c, "checkGuard") /\ seen' = [seen EXCEPT ![c] = None]
  /\ UNCHANGED <<fileVars, stamp, acquired, expired>>

\* unlink is by path: it removes whatever the lock file holds now.
UnlinkStale(c) ==
  /\ At(c, "unlinkStale")
  /\ IF lock = None
       THEN Goto(c, "checkGuard") /\ UNCHANGED lock
       ELSE Goto(c, "takeLock") /\ lock' = None
  /\ seen' = [seen EXCEPT ![c] = None]
  /\ UNCHANGED <<guard, quarantine, stamp, acquired, expired>>

TakeLock(c) == At(c, "takeLock") /\ CreateLock(c, "record", FALSE, "checkGuard")

\* recordLockRecovery succeeds, or has nothing to record yet; or it throws and
\* the lock is removed again.
Record(c) ==
  /\ At(c, "record")
  /\ \/ Goto(c, "checkGuard") /\ acquired' = [acquired EXCEPT ![c] = TRUE]
     \/ Goto(c, "abortLock") /\ UNCHANGED acquired
  /\ UNCHANGED <<fileVars, stamp, seen, expired>>

\* Mutant of AbortLock: the lock of a failed acquisition stays.
KeepFailedLock(c) ==
  /\ At(c, "abortLock")
  /\ Goto(c, "checkGuard")
  /\ UNCHANGED <<fileVars, stamp, seen, acquired, expired>>

AbortLock(c) ==
  /\ At(c, "abortLock")
  /\ Goto(c, IF lock = Me(c) THEN "abortUnlink" ELSE "checkGuard")
  /\ UNCHANGED <<fileVars, stamp, seen, acquired, expired>>

AbortUnlink(c) ==
  /\ At(c, "abortUnlink")
  /\ lock' = None
  /\ Goto(c, "checkGuard")
  /\ UNCHANGED <<guard, quarantine, stamp, seen, acquired, expired>>

(***************************************************************************)
(* acquireLock always gives the guard back with removeOwnedLock.  When     *)
(* that fails an acquired lock is given back too and the call fails.       *)
(***************************************************************************)
GuardLost(c) ==
  /\ Goto(c, IF acquired[c] THEN "checkLock" ELSE "idle")
  /\ acquired' = [acquired EXCEPT ![c] = FALSE]
  /\ UNCHANGED guard

CheckGuard(c) ==
  /\ At(c, "checkGuard")
  /\ \/ guard = Me(c) /\ Goto(c, "unlinkGuard") /\ UNCHANGED <<guard, acquired>>
     \/ guard # Me(c) /\ GuardLost(c)
  /\ UNCHANGED <<lock, quarantine, stamp, seen, expired>>

UnlinkGuard(c) ==
  /\ At(c, "unlinkGuard")
  /\ \/ /\ guard # None
        /\ guard' = None
        /\ Goto(c, IF acquired[c] THEN "critical" ELSE "idle")
        /\ acquired' = [acquired EXCEPT ![c] = FALSE]
     \/ guard = None /\ GuardLost(c)
  /\ UNCHANGED <<lock, quarantine, stamp, seen, expired>>

\* The callback of withChangeLock returns or throws; the lock is given back.
LeaveCritical(c) ==
  /\ At(c, "critical")
  /\ Goto(c, "checkLock")
  /\ UNCHANGED <<fileVars, stamp, seen, acquired, expired>>

CheckLock(c) ==
  /\ At(c, "checkLock")
  /\ Goto(c, IF lock = Me(c) THEN "unlinkLock" ELSE "idle")
  /\ UNCHANGED <<fileVars, stamp, seen, acquired, expired>>

UnlinkLock(c) ==
  /\ At(c, "unlinkLock")
  /\ lock' = None
  /\ Goto(c, "idle")
  /\ UNCHANGED <<guard, quarantine, stamp, seen, acquired, expired>>

-----------------------------------------------------------------------------
(***************************************************************************)
(* The environment: a process dies with all its callers, leaving its files *)
(* where they are; 30 minutes pass over a file it stamped.  Expiry is told *)
(* only of dead processes because the code asks for both.                  *)
(***************************************************************************)
Crash(p) ==
  /\ p \in Mortal
  /\ \A c \in Callers : PidOf[c] = p => Alive(c) /\ Phase(c) \in CrashPhases
  /\ pc' = [c \in Callers |-> IF PidOf[c] = p THEN "dead" ELSE pc[c]]
  /\ seen' = [c \in Callers |-> IF PidOf[c] = p THEN None ELSE seen[c]]
  /\ UNCHANGED <<fileVars, stamp, acquired, expired>>

Expire(file, p) ==
  /\ <<file, p>> \notin expired
  /\ \A c \in Callers : PidOf[c] = p => ~Alive(c)
  /\ \E c \in Callers : PidOf[c] = p
  /\ PromptJudge => \A c \in Callers :
       pc[c] \in {"judgeGuard", "judgeLock"} => Pid(seen[c]) # p
  /\ expired' = expired \cup {<<file, p>>}
  /\ UNCHANGED <<fileVars, pc, stamp, seen, acquired>>

Acquire(c) ==
  \/ TryGuard(c) \/ ReadGuard(c) \/ JudgeGuard(c) \/ MoveGuard(c)
  \/ CheckMoved(c) \/ RestoreGuard(c) \/ RetryGuard(c)
  \/ TryLock(c) \/ ReadLock(c) \/ RetryLock(c) \/ JudgeLock(c)
  \/ RecheckLock(c) \/ UnlinkStale(c) \/ TakeLock(c) \/ Record(c)
  \/ AbortLock(c) \/ AbortUnlink(c) \/ CheckGuard(c) \/ UnlinkGuard(c)

Release(c) == LeaveCritical(c) \/ CheckLock(c) \/ UnlinkLock(c)

Next ==
  \/ \E c \in Callers : StartCall(c) \/ Acquire(c) \/ Release(c)
  \/ \E p \in Pids : Crash(p)
  \/ \E f \in Files, p \in Pids : Expire(f, p)

Spec == Init /\ [][Next]_vars

(***************************************************************************)
(* A live process keeps executing, its callback returns, operators call    *)
(* again, and the clock advances.  Nothing makes a process die.            *)
(***************************************************************************)
Fairness ==
  /\ \A c \in Callers : WF_vars(StartCall(c)) /\ WF_vars(Acquire(c) \/ Release(c))
  /\ \A f \in Files, p \in Pids : SF_vars(Expire(f, p))

FairSpec == Spec /\ Fairness


-----------------------------------------------------------------------------
(***************************************************************************)
(* Properties                                                              *)
(***************************************************************************)

\* Type invariant.
TypeOK ==
  /\ guard \in Owner \cup {None}
  /\ lock \in Owner \cup {None}
  /\ quarantine \in [Callers -> Owner \cup {None}]
  /\ pc \in [Callers -> Labels]
  /\ stamp \in [Callers -> Stamps]
  /\ seen \in [Callers -> Owner \cup {None}]
  /\ acquired \in [Callers -> BOOLEAN]
  /\ expired \subseteq Files \X Pids

\* One writer per change: two callers are never both inside the protected
\* region (the callback of withChangeLock, or the recovery record written while
\* a stale lock is taken over).
Writing(c) == pc[c] \in {"record", "critical"}
MutualExclusion == \A c, d \in Callers : Writing(c) /\ Writing(d) => c = d

\* acquireLock serializes acquisitions: at most one caller believes it holds the
\* recovery guard, so the read-compare-unlink of a stale lock is not raced.
GuardSerializes ==
  \A c, d \in Callers :
    pc[c] \in UnderGuard /\ pc[d] \in UnderGuard => c = d

\* The lock file of a caller that is alive and has not returned is removed by
\* nobody but that caller, however many others try to recover the change.
LiveLockNeverBroken ==
  [][\A c \in Callers :
       Owning(c) /\ Alive(c)' /\ lock = Me(c) /\ lock' # lock
         => pc[c] \in {"unlinkLock", "abortUnlink"} /\ pc'[c] # pc[c]]_vars

\* A call that returned in a living process leaves no lock file behind: it would
\* keep the change locked for as long as that process lives.
NoOrphanedLock ==
  \A c \in Callers, s \in Stamps :
    Alive(c) /\ lock = <<c, s>> => s = stamp[c] /\ Owning(c)

\* Neither does it leave its guard behind.  Only true while no guard ever becomes
\* stale: a guard that was taken for another one is linked back to its path
\* after its owner has already looked for it there.
NoOrphans ==
  /\ NoOrphanedLock
  /\ \A c \in Callers, s \in Stamps :
       Alive(c) /\ guard = <<c, s>> => s = stamp[c] /\ pc[c] \in UnderGuard

\* The change stays usable: however the processes that may die do, some caller
\* enters the protected region again and again.
EventuallyServed == []<>(\E c \in Callers : pc[c] = "critical")

(***************************************************************************)
(* Refinement: the contents of the lock file are the owner ExclusiveLock   *)
(* speaks of.  Publishing the file is Take, removing one's own is Release, *)
(* breaking a stale one is Free.                                           *)
(***************************************************************************)
Abstract == INSTANCE ExclusiveLock WITH
  owner <- IF lock = None THEN None ELSE lock[1],
  gone <- {c \in Callers : ~Alive(c)}

ImplementsExclusiveLock == Abstract!Spec

=============================================================================
