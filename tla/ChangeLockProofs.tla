--------------------------- MODULE ChangeLockProofs ---------------------------
(***************************************************************************)
(* Theorems about ChangeLock for any number of callers, processes and      *)
(* tokens.  The exclusion theorems assume GuardNeverStale: no process dies *)
(* inside the short window in which it holds the recovery guard, and an    *)
(* owner file is judged before its age can cross the 30 minutes.  The run  *)
(* stale_guard_race shows that the first assumption cannot be dropped.     *)
(***************************************************************************)
EXTENDS ChangeLock, TLAPS

GuardNeverStale ==
  /\ CrashPhases \cap {"guarded", "both"} = {}
  /\ PromptJudge

-----------------------------------------------------------------------------
(***************************************************************************)
(* The inductive invariant: who holds which file, and what a caller that   *)
(* has judged an owner may still rely on.                                  *)
(***************************************************************************)

\* Whoever acts under the guard has its own token in the guard file.
GuardHeld == \A c \in Callers : pc[c] \in UnderGuard => guard = Me(c)

\* The guard file never outlives the acquisition that created it.
GuardLive ==
  guard # None => guard[2] = stamp[guard[1]] /\ pc[guard[1]] \in UnderGuard

\* No guard is ever found stale, so the quarantine path is never entered.
NoReclaim ==
  \A c \in Callers :
    pc[c] \notin {"moveGuard", "checkMoved", "restoreGuard", "retryGuard"}

\* The guard owner a caller is about to judge has not expired.
GuardJudged ==
  \A c \in Callers :
    pc[c] = "judgeGuard" => seen[c] \in Owner /\ ~Stale("guard", seen[c])

\* Only processes that are dead are ever taken for stale.
ExpiredDead ==
  \A f \in Files, p \in Pids :
    <<f, p>> \in expired => \A c \in Callers : PidOf[c] = p => ~Alive(c)

\* Whoever has published the lock and not given it back has its token there.
LockHeld == \A c \in Callers : Owning(c) => lock = Me(c)

\* A lock file whose owner is alive is owned by that owner's current call.
LockLive ==
  lock # None /\ Alive(lock[1]) =>
    lock[2] = stamp[lock[1]] /\ Owning(lock[1])

\* What the recovering caller read stays stale, and stays in the lock file
\* between the second read and the unlink.
LockJudged ==
  \A c \in Callers :
    /\ pc[c] \in {"judgeLock", "recheckLock", "unlinkStale"} => seen[c] \in Owner
    /\ pc[c] \in {"recheckLock", "unlinkStale"} => Stale("lock", seen[c])
    /\ pc[c] = "unlinkStale" => lock = seen[c]

\* `acquired` is only meaningful while the guard is being given back.
AcquiredScope ==
  \A c \in Callers :
    acquired[c] /\ Alive(c) => pc[c] \in {"checkGuard", "unlinkGuard"}

IInv ==
  /\ TypeOK
  /\ GuardHeld /\ GuardLive /\ NoReclaim /\ GuardJudged
  /\ ExpiredDead
  /\ LockHeld /\ LockLive /\ LockJudged
  /\ AcquiredScope

-----------------------------------------------------------------------------
(***************************************************************************)
(* Type correctness.                                                       *)
(***************************************************************************)

\* A caller's own token is an owner, and the labels are what they are listed to be.
LEMMA OwnToken ==
  ASSUME TypeOK, NEW c \in Callers
  PROVE  Me(c) \in Owner
BY DEF TypeOK, Me, Owner

\* Init establishes the types of the variables of state-store's lock protocol.
LEMMA InitType == Init => TypeOK
BY LockConstants DEF Init, TypeOK, Labels

\* Every step of an acquisition keeps the types.
LEMMA AcquireType ==
  ASSUME TypeOK, NEW c \in Callers, Acquire(c)
  PROVE  TypeOK'
<1> USE OwnToken DEF TypeOK, At, Goto, fileVars, Labels, BeforeGuard, UnderGuard, AfterGuard
<1>1. CASE TryGuard(c)
  BY <1>1 DEF TryGuard, CreateGuard
<1>2. CASE ReadGuard(c)
  BY <1>2 DEF ReadGuard
<1>3. CASE JudgeGuard(c)
  BY <1>3 DEF JudgeGuard
<1>4. CASE MoveGuard(c)
  BY <1>4 DEF MoveGuard
<1>5. CASE CheckMoved(c)
  BY <1>5 DEF CheckMoved
<1>6. CASE RestoreGuard(c)
  BY <1>6 DEF RestoreGuard
<1>7. CASE RetryGuard(c)
  BY <1>7 DEF RetryGuard, CreateGuard
<1>8. CASE TryLock(c)
  BY <1>8 DEF TryLock, CreateLock
<1>9. CASE ReadLock(c)
  BY <1>9 DEF ReadLock
<1>10. CASE RetryLock(c)
  BY <1>10 DEF RetryLock, CreateLock
<1>11. CASE JudgeLock(c)
  BY <1>11 DEF JudgeLock
<1>12. CASE RecheckLock(c)
  BY <1>12 DEF RecheckLock
<1>13. CASE UnlinkStale(c)
  BY <1>13 DEF UnlinkStale
<1>14. CASE TakeLock(c)
  BY <1>14 DEF TakeLock, CreateLock
<1>15. CASE Record(c)
  BY <1>15 DEF Record
<1>16. CASE AbortLock(c) \/ AbortUnlink(c)
  BY <1>16 DEF AbortLock, AbortUnlink
<1>17. CASE CheckGuard(c) \/ UnlinkGuard(c)
  BY <1>17 DEF CheckGuard, UnlinkGuard, GuardLost
<1>18. QED
  BY <1>1, <1>2, <1>3, <1>4, <1>5, <1>6, <1>7, <1>8, <1>9, <1>10, <1>11,
     <1>12, <1>13, <1>14, <1>15, <1>16, <1>17 DEF Acquire

\* So does every other step: calls, releases, deaths and the clock.
LEMMA NextType == TypeOK /\ [Next]_vars => TypeOK'
<1> SUFFICES ASSUME TypeOK, [Next]_vars PROVE TypeOK'
  OBVIOUS
<1> USE DEF TypeOK, At, Goto, fileVars, Labels, BeforeGuard, AfterGuard
<1>1. ASSUME NEW c \in Callers, StartCall(c) PROVE TypeOK'
  BY <1>1 DEF StartCall
<1>2. ASSUME NEW c \in Callers, Acquire(c) PROVE TypeOK'
  BY <1>2, AcquireType
<1>3. ASSUME NEW c \in Callers, Release(c) PROVE TypeOK'
  BY <1>3 DEF Release, LeaveCritical, CheckLock, UnlinkLock
<1>4. ASSUME NEW p \in Pids, Crash(p) PROVE TypeOK'
  BY <1>4 DEF Crash
<1>5. ASSUME NEW f \in Files, NEW p \in Pids, Expire(f, p) PROVE TypeOK'
  BY <1>5 DEF Expire
<1>6. CASE UNCHANGED vars
  BY <1>6 DEF vars
<1>7. QED
  BY <1>1, <1>2, <1>3, <1>4, <1>5, <1>6 DEF Next

\* The lock, the guard and every caller always hold what the code can put there,
\* whatever the number of callers and crashes.
THEOREM TypeCorrect == Spec => []TypeOK
BY InitType, NextType, PTL DEF Spec

-----------------------------------------------------------------------------
(***************************************************************************)
(* The invariant is inductive when no guard goes stale.                    *)
(***************************************************************************)

\* The strengthened invariant holds initially.
LEMMA InitInv == Init => IInv
BY InitType DEF Init, IInv, GuardHeld, GuardLive, NoReclaim, GuardJudged,
   ExpiredDead, LockHeld, LockLive, LockJudged, AcquiredScope, Owning, UnderGuard,
   AfterGuard

\* A process in a phase where it may die does not hold the guard.
LEMMA DiesOutsideGuard ==
  ASSUME GuardNeverStale, NEW c \in Callers, Phase(c) \in CrashPhases
  PROVE  pc[c] \notin UnderGuard
<1> SUFFICES ASSUME pc[c] \in UnderGuard PROVE FALSE
  OBVIOUS
<1>1. pc[c] \notin AfterGuard
  BY DEF UnderGuard, AfterGuard
<1>2. Phase(c) \in {"guarded", "both"}
  BY <1>1, Zenon DEF Phase
<1>3. QED
  BY <1>2 DEF GuardNeverStale

\* Each step of an acquisition preserves the invariant.
LEMMA AcquireInv ==
  ASSUME IInv, NEW c \in Callers, Acquire(c)
  PROVE  IInv'
<1> USE DEF At, Goto, fileVars, UnderGuard, AfterGuard
<1>t. TypeOK /\ TypeOK'
  BY AcquireType DEF IInv
<1>r. ~MoveGuard(c) /\ ~CheckMoved(c) /\ ~RestoreGuard(c) /\ ~RetryGuard(c)
  BY DEF IInv, NoReclaim, MoveGuard, CheckMoved, RestoreGuard, RetryGuard
<1>o. Me(c) \in Owner /\ None \notin Owner
  BY <1>t, OwnToken, LockConstants DEF Owner
<1>1. CASE TryGuard(c)
  BY <1>1, <1>t, <1>o DEF IInv, TypeOK, TryGuard, CreateGuard, Me, Owning, Alive, Pid, Owner, Stale,
     GuardHeld, GuardLive, NoReclaim, GuardJudged, ExpiredDead, LockHeld, LockLive, LockJudged, AcquiredScope
<1>2. CASE ReadGuard(c)
  BY <1>2, <1>t, <1>o DEF IInv, TypeOK, ReadGuard, Me, Owning, Alive, Pid, Owner, Stale,
     GuardHeld, GuardLive, NoReclaim, GuardJudged, ExpiredDead, LockHeld, LockLive, LockJudged, AcquiredScope
<1>3. CASE JudgeGuard(c)
  BY <1>3, <1>t, <1>o DEF IInv, TypeOK, JudgeGuard, Me, Owning, Alive, Pid, Owner, Stale,
     GuardHeld, GuardLive, NoReclaim, GuardJudged, ExpiredDead, LockHeld, LockLive, LockJudged, AcquiredScope
<1>4. CASE TryLock(c)
  BY <1>4, <1>t, <1>o DEF IInv, TypeOK, TryLock, CreateLock, Me, Owning, Alive, Pid, Owner, Stale,
     GuardHeld, GuardLive, NoReclaim, GuardJudged, ExpiredDead, LockHeld, LockLive, LockJudged, AcquiredScope
<1>5. CASE ReadLock(c)
  BY <1>5, <1>t, <1>o DEF IInv, TypeOK, ReadLock, Me, Owning, Alive, Pid, Owner, Stale,
     GuardHeld, GuardLive, NoReclaim, GuardJudged, ExpiredDead, LockHeld, LockLive, LockJudged, AcquiredScope
<1>6. CASE RetryLock(c)
  BY <1>6, <1>t, <1>o DEF IInv, TypeOK, RetryLock, CreateLock, Me, Owning, Alive, Pid, Owner, Stale,
     GuardHeld, GuardLive, NoReclaim, GuardJudged, ExpiredDead, LockHeld, LockLive, LockJudged, AcquiredScope
<1>7. CASE JudgeLock(c)
  BY <1>7, <1>t, <1>o DEF IInv, TypeOK, JudgeLock, Me, Owning, Alive, Pid, Owner, Stale,
     GuardHeld, GuardLive, NoReclaim, GuardJudged, ExpiredDead, LockHeld, LockLive, LockJudged, AcquiredScope
<1>8. CASE RecheckLock(c)
  BY <1>8, <1>t, <1>o DEF IInv, TypeOK, RecheckLock, Me, Owning, Alive, Pid, Owner, Stale,
     GuardHeld, GuardLive, NoReclaim, GuardJudged, ExpiredDead, LockHeld, LockLive, LockJudged, AcquiredScope
<1>9. CASE UnlinkStale(c)
  <2>a. pc[c] = "unlinkStale"
    BY <1>9 DEF UnlinkStale, Me
  <2>b. /\ lock = seen[c] /\ lock \in Owner
        /\ Stale("lock", lock)
    BY <2>a DEF IInv, LockJudged
  <2>c. <<"lock", PidOf[lock[1]]>> \in expired
    BY <2>b DEF Stale, Pid
  <2> USE <1>9, <1>t, <1>o DEF IInv, TypeOK, UnlinkStale, Me, Owning, Alive, Pid, Owner
  <2>1. GuardHeld'
    BY DEF GuardHeld
  <2>2. GuardLive'
    BY DEF GuardLive
  <2>3. NoReclaim'
    BY DEF NoReclaim
  <2>4. GuardJudged'
    BY DEF GuardJudged, Stale, ExpiredDead
  <2>5. ExpiredDead'
    BY DEF ExpiredDead
  <2>6. LockHeld'
    <3> SUFFICES ASSUME NEW d \in Callers, Owning(d)' PROVE FALSE
      BY DEF LockHeld
    <3>1. /\ lock = seen[c] /\ lock \in Owner
          /\ <<"lock", PidOf[lock[1]]>> \in expired
      BY <2>b, <2>c
    <3>2. pc'[c] = "takeLock" /\ acquired' = acquired
      BY <3>1
    <3>3. d # c
      BY <3>2 DEF UnderGuard, AfterGuard
    <3>4. pc'[d] = pc[d]
      BY <3>3
    <3>5. Owning(d)
      BY <3>2, <3>4
    <3>6. lock = <<d, stamp[d]>>
      BY <3>5 DEF LockHeld
    <3>7. ~Alive(d)
      BY <3>1, <3>6, LockConstants DEF ExpiredDead, Files
    <3>8. QED
      BY <3>5, <3>7
  <2>7. LockLive'
    BY DEF LockLive, LockHeld, LockJudged
  <2>8. LockJudged'
    BY DEF LockJudged, Stale, LockHeld, GuardHeld, ExpiredDead
  <2>9. AcquiredScope'
    BY DEF AcquiredScope
  <2>10. QED
    BY <2>1, <2>2, <2>3, <2>4, <2>5, <2>6, <2>7, <2>8, <2>9
<1>10. CASE TakeLock(c)
  BY <1>10, <1>t, <1>o DEF IInv, TypeOK, TakeLock, CreateLock, Me, Owning, Alive, Pid, Owner, Stale,
     GuardHeld, GuardLive, NoReclaim, GuardJudged, ExpiredDead, LockHeld, LockLive, LockJudged, AcquiredScope
<1>11. CASE Record(c)
  BY <1>11, <1>t, <1>o DEF IInv, TypeOK, Record, Me, Owning, Alive, Pid, Owner, Stale,
     GuardHeld, GuardLive, NoReclaim, GuardJudged, ExpiredDead, LockHeld, LockLive, LockJudged, AcquiredScope
<1>12. CASE AbortLock(c)
  BY <1>12, <1>t, <1>o DEF IInv, TypeOK, AbortLock, Me, Owning, Alive, Pid, Owner, Stale,
     GuardHeld, GuardLive, NoReclaim, GuardJudged, ExpiredDead, LockHeld, LockLive, LockJudged, AcquiredScope
<1>13. CASE AbortUnlink(c)
  BY <1>13, <1>t, <1>o DEF IInv, TypeOK, AbortUnlink, Me, Owning, Alive, Pid, Owner, Stale,
     GuardHeld, GuardLive, NoReclaim, GuardJudged, ExpiredDead, LockHeld, LockLive, LockJudged, AcquiredScope
<1>14. CASE CheckGuard(c)
  BY <1>14, <1>t, <1>o DEF IInv, TypeOK, CheckGuard, GuardLost, Me, Owning, Alive, Pid, Owner, Stale,
     GuardHeld, GuardLive, NoReclaim, GuardJudged, ExpiredDead, LockHeld, LockLive, LockJudged, AcquiredScope
<1>15. CASE UnlinkGuard(c)
  BY <1>15, <1>t, <1>o DEF IInv, TypeOK, UnlinkGuard, GuardLost, Me, Owning, Alive, Pid, Owner, Stale,
     GuardHeld, GuardLive, NoReclaim, GuardJudged, ExpiredDead, LockHeld, LockLive, LockJudged, AcquiredScope
<1>20. QED
  BY <1>r, <1>1, <1>2, <1>3, <1>4, <1>5, <1>6, <1>7, <1>8, <1>9, <1>10, <1>11, <1>12, <1>13, <1>14, <1>15 DEF Acquire

\* A new call, the way out of the callback, a death and the clock preserve it
\* too; only the last two need the assumption.
LEMMA NextInv == GuardNeverStale /\ IInv /\ [Next]_vars => IInv'
<1> SUFFICES ASSUME GuardNeverStale, IInv, [Next]_vars PROVE IInv'
  OBVIOUS
<1>t. TypeOK /\ TypeOK'
  BY NextType DEF IInv
<1>n. \A c \in Callers : Me(c) \in Owner /\ None \notin Owner
  BY <1>t, OwnToken, LockConstants DEF Owner
<1> USE <1>t, <1>n, LockConstants
<1> USE DEF IInv, TypeOK, At, Goto, fileVars, UnderGuard, AfterGuard, Me, Owner,
            Owning, Alive, Pid, Stale, GuardHeld, GuardLive, NoReclaim, GuardJudged,
            ExpiredDead, LockHeld, LockLive, LockJudged, AcquiredScope
<1>1. ASSUME NEW c \in Callers, StartCall(c) PROVE IInv'
  BY <1>1 DEF StartCall
<1>2. ASSUME NEW c \in Callers, Acquire(c) PROVE IInv'
  BY <1>2, AcquireInv
<1>3. ASSUME NEW c \in Callers, Release(c) PROVE IInv'
  BY <1>3 DEF Release, LeaveCritical, CheckLock, UnlinkLock
<1>4. ASSUME NEW p \in Pids, Crash(p) PROVE IInv'
  BY <1>4, DiesOutsideGuard DEF Crash
<1>5. ASSUME NEW f \in Files, NEW p \in Pids, Expire(f, p) PROVE IInv'
  BY <1>5 DEF Expire, Files, GuardNeverStale
<1>6. CASE UNCHANGED vars
  BY <1>6 DEF vars
<1>7. QED
  BY <1>1, <1>2, <1>3, <1>4, <1>5, <1>6 DEF Next

\* The inductive invariant holds in every reachable state.
THEOREM Invariance == ASSUME GuardNeverStale PROVE Spec => []IInv
BY InitInv, NextInv, PTL DEF Spec

-----------------------------------------------------------------------------
(***************************************************************************)
(* The properties the runs check, for every value of the constants.        *)
(***************************************************************************)

\* One writer per change (withChangeLock): the callback, and the recovery record
\* that is written outside of it, exclude each other.
THEOREM Exclusion == ASSUME GuardNeverStale PROVE Spec => []MutualExclusion
<1>1. IInv => MutualExclusion
  BY DEF IInv, LockHeld, MutualExclusion, Writing, Owning, AfterGuard, Me
<1>2. QED
  BY <1>1, Invariance, PTL

\* At most one caller acts between the acquisition and the release of the guard.
THEOREM GuardExclusion == ASSUME GuardNeverStale PROVE Spec => []GuardSerializes
<1>1. IInv => GuardSerializes
  BY DEF IInv, GuardHeld, GuardSerializes, Me
<1>2. QED
  BY <1>1, Invariance, PTL

\* A call that returned in a living process left neither a guard nor a lock.
THEOREM NothingLeftBehind == ASSUME GuardNeverStale PROVE Spec => []NoOrphans
<1>1. IInv => NoOrphans
  BY LockConstants DEF IInv, TypeOK, Owner, GuardLive, LockLive, NoOrphans,
                       NoOrphanedLock, Alive
<1>2. QED
  BY <1>1, Invariance, PTL

\* The steps that touch the lock file, or leave the part of a call that owns it,
\* keep its contents the token of a call in progress.
LEMMA LockLiveStep ==
  ASSUME TypeOK, LockLive, [Next]_vars
  PROVE  LockLive'
<1>t. TypeOK /\ TypeOK'
  BY NextType
<1>n. None \notin Owner
  BY LockConstants DEF Owner
<1> USE <1>t, <1>n DEF At, Goto, fileVars, UnderGuard, AfterGuard
<1>1. ASSUME NEW c \in Callers,
             \/ TryGuard(c) \/ ReadGuard(c) \/ JudgeGuard(c) \/ MoveGuard(c)
             \/ CheckMoved(c) \/ RestoreGuard(c) \/ RetryGuard(c)
      PROVE  LockLive'
  BY <1>1 DEF TypeOK, LockLive, Owning, Alive, Owner, TryGuard, CreateGuard, ReadGuard,
     JudgeGuard, MoveGuard, CheckMoved, RestoreGuard, RetryGuard
<1>2. ASSUME NEW c \in Callers, TryLock(c) \/ RetryLock(c) \/ TakeLock(c)
      PROVE  LockLive'
  BY <1>2 DEF TypeOK, LockLive, Owning, Alive, Owner, Me, TryLock, RetryLock, TakeLock,
     CreateLock
<1>3. ASSUME NEW c \in Callers,
             ReadLock(c) \/ JudgeLock(c) \/ RecheckLock(c) \/ UnlinkStale(c)
      PROVE  LockLive'
  BY <1>3 DEF TypeOK, LockLive, Owning, Alive, Owner, ReadLock, JudgeLock, RecheckLock,
     UnlinkStale
<1>4. ASSUME NEW c \in Callers,
             Record(c) \/ AbortLock(c) \/ AbortUnlink(c) \/ CheckGuard(c) \/ UnlinkGuard(c)
      PROVE  LockLive'
  BY <1>4 DEF TypeOK, LockLive, Owning, Alive, Owner, Me, Record, AbortLock, AbortUnlink,
     CheckGuard, UnlinkGuard, GuardLost
<1>5. ASSUME NEW c \in Callers, StartCall(c) \/ Release(c)
      PROVE  LockLive'
  BY <1>5 DEF TypeOK, LockLive, Owning, Alive, Owner, Me, StartCall, Release,
     LeaveCritical, CheckLock, UnlinkLock
<1>6. ASSUME NEW p \in Pids, Crash(p) \/ (\E f \in Files : Expire(f, p))
      PROVE  LockLive'
  <2>1. /\ UNCHANGED <<lock, stamp, acquired>>
        /\ \A c \in Callers : pc'[c] \in {pc[c], "dead"}
    BY <1>6 DEF Crash, Expire
  <2>2. CASE lock # None /\ Alive(lock[1])'
    <3>1. lock[1] \in Callers /\ pc'[lock[1]] = pc[lock[1]]
      BY <2>1, <2>2 DEF TypeOK, Owner, Alive
    <3>2. QED
      BY <2>1, <2>2, <3>1 DEF LockLive, Owning, Alive
  <2>3. QED
    BY <2>1, <2>2 DEF LockLive
<1>7. CASE UNCHANGED vars
  BY <1>7 DEF LockLive, Owning, Alive, vars
<1>8. QED
  BY <1>1, <1>2, <1>3, <1>4, <1>5, <1>6, <1>7 DEF Next, Acquire

\* Whatever dies, goes stale or fails, a call that returned in a living process has
\* taken its lock file with it.  This needs no assumption on the guard.
THEOREM NoLockLeftBehind == Spec => []NoOrphanedLock
<1>1. Init => LockLive
  BY DEF Init, LockLive
<1>2. TypeOK /\ LockLive /\ [Next]_vars => LockLive'
  BY LockLiveStep
<1>3. TypeOK /\ LockLive => NoOrphanedLock
  BY LockConstants DEF TypeOK, Owner, LockLive, NoOrphanedLock, Alive
<1>4. QED
  BY <1>1, <1>2, <1>3, TypeCorrect, PTL DEF Spec

\* How a step can change the lock file: publish one's own token where there was
\* none, take back one's own, or unlink that of a dead process.
LEMMA LockSteps ==
  ASSUME GuardNeverStale, IInv, [Next]_vars, lock' # lock
  PROVE  \E c \in Callers :
           \/ lock = None /\ lock' = Me(c) /\ Alive(c) /\ Alive(c)'
           \/ /\ lock = Me(c) /\ lock' = None /\ Alive(c)
              /\ pc[c] \in {"unlinkLock", "abortUnlink"} /\ pc'[c] # pc[c]
           \/ lock = seen[c] /\ lock' = None /\ ~Alive(lock[1])
<1>t. TypeOK /\ TypeOK'
  BY NextType DEF IInv
<1> USE <1>t, LockConstants DEF IInv, TypeOK, At, Goto, fileVars, Me, Owner, Alive, Pid,
                 LockHeld, Owning, AfterGuard
<1>1. ASSUME NEW c \in Callers, CreateLock(c, "checkGuard", TRUE, "readLock") \/
             CreateLock(c, "checkGuard", TRUE, "checkGuard") \/
             CreateLock(c, "record", FALSE, "checkGuard"), Alive(c)
      PROVE  lock = None /\ lock' = Me(c) /\ Alive(c) /\ Alive(c)'
  BY <1>1 DEF CreateLock
<1>2. ASSUME NEW c \in Callers, AbortUnlink(c) \/ UnlinkLock(c)
      PROVE  /\ lock = Me(c) /\ lock' = None /\ Alive(c)
             /\ pc[c] \in {"unlinkLock", "abortUnlink"} /\ pc'[c] # pc[c]
  BY <1>2 DEF AbortUnlink, UnlinkLock
<1>3. ASSUME NEW c \in Callers, UnlinkStale(c)
      PROVE  lock = seen[c] /\ lock' = None /\ ~Alive(lock[1])
  BY <1>3 DEF UnlinkStale, LockJudged, Stale, ExpiredDead, Files
<1>4. ASSUME NEW c \in Callers, TryLock(c) \/ RetryLock(c) \/ TakeLock(c)
      PROVE  lock = None /\ lock' = Me(c) /\ Alive(c) /\ Alive(c)'
  BY <1>1, <1>4 DEF TryLock, RetryLock, TakeLock
<1>5. \E c \in Callers :
        \/ TryLock(c) \/ RetryLock(c) \/ TakeLock(c)
        \/ AbortUnlink(c) \/ UnlinkLock(c) \/ UnlinkStale(c)
  BY DEF Next, vars, Acquire, Release, StartCall, Crash, Expire, TryGuard, RetryGuard,
         CreateGuard, ReadGuard, JudgeGuard, MoveGuard, CheckMoved, RestoreGuard,
         ReadLock, JudgeLock, RecheckLock, Record, AbortLock, CheckGuard, UnlinkGuard,
         GuardLost, LeaveCritical, CheckLock
<1>6. QED
  BY <1>2, <1>3, <1>4, <1>5

\* The dead stay dead, and no process dies in a step that changes the lock file.
LEMMA DeathSteps ==
  ASSUME TypeOK, [Next]_vars, NEW d \in Callers
  PROVE  /\ ~Alive(d) => ~Alive(d)'
         /\ lock' # lock => (Alive(d) <=> Alive(d)')
<1> USE DEF TypeOK, At, Goto, fileVars, Alive
<1>1. ASSUME NEW c \in Callers, StartCall(c) \/ Acquire(c) \/ Release(c)
      PROVE  Alive(d) <=> Alive(d)'
  BY <1>1 DEF Acquire, Release, StartCall, TryGuard, RetryGuard, CreateGuard, ReadGuard,
     JudgeGuard, MoveGuard, CheckMoved, RestoreGuard, TryLock, RetryLock, TakeLock,
     CreateLock, ReadLock, JudgeLock, RecheckLock, UnlinkStale, Record, AbortLock,
     AbortUnlink, CheckGuard, UnlinkGuard, GuardLost, LeaveCritical, CheckLock, UnlinkLock
<1>2. ASSUME NEW p \in Pids, Crash(p)
      PROVE  lock' = lock /\ (~Alive(d) => ~Alive(d)')
  BY <1>2 DEF Crash
<1>3. ASSUME NEW f \in Files, NEW p \in Pids, Expire(f, p)
      PROVE  Alive(d) <=> Alive(d)'
  BY <1>3 DEF Expire
<1>4. QED
  BY <1>1, <1>2, <1>3 DEF Next, vars

\* Nobody but a live owner removes its lock file.
THEOREM LiveLockKept == ASSUME GuardNeverStale PROVE Spec => LiveLockNeverBroken
<1>1. GuardNeverStale /\ IInv /\ [Next]_vars =>
        [\A c \in Callers :
           Owning(c) /\ Alive(c)' /\ lock = Me(c) /\ lock' # lock
             => pc[c] \in {"unlinkLock", "abortUnlink"} /\ pc'[c] # pc[c]]_vars
  <2> SUFFICES ASSUME GuardNeverStale, IInv, [Next]_vars, NEW c \in Callers,
                      Owning(c), lock = Me(c), lock' # lock
               PROVE  pc[c] \in {"unlinkLock", "abortUnlink"} /\ pc'[c] # pc[c]
    OBVIOUS
  <2>1. lock # None /\ Alive(c)
    BY LockConstants DEF IInv, TypeOK, Me, Owning, Alive, AfterGuard
  <2>2. QED
    BY <2>1, LockSteps DEF Me
<1>2. QED
  BY <1>1, Invariance, PTL DEF Spec, LiveLockNeverBroken

\* The acquisition protocol implements ExclusiveLock.
THEOREM LockRefinement ==
  ASSUME GuardNeverStale PROVE Spec => ImplementsExclusiveLock
<1> DEFINE own == IF lock = None THEN None ELSE lock[1]
           dead == {c \in Callers : ~Alive(c)}
<1>1. Init => Abstract!Init
  BY DEF Init, Abstract!Init, Alive
<1>2. IInv /\ GuardNeverStale /\ [Next]_vars => [Abstract!Next]_<<own, dead>>
  <2> SUFFICES ASSUME IInv, GuardNeverStale, [Next]_vars
               PROVE  [Abstract!Next]_<<own, dead>>
    OBVIOUS
  <2>t. TypeOK /\ TypeOK'
    BY NextType DEF IInv
  <2>1. CASE lock' # lock
    <3>1. dead' = dead
      BY <2>1, <2>t, DeathSteps
    <3>2. PICK c \in Callers :
            \/ lock = None /\ lock' = Me(c) /\ Alive(c) /\ Alive(c)'
            \/ /\ lock = Me(c) /\ lock' = None /\ Alive(c)
               /\ pc[c] \in {"unlinkLock", "abortUnlink"} /\ pc'[c] # pc[c]
            \/ lock = seen[c] /\ lock' = None /\ ~Alive(lock[1])
      BY <2>1, LockSteps
    <3>3. CASE lock = None
      <4>1. Abstract!Take(c)
        BY <3>1, <3>2, <3>3, <2>1, LockConstants DEF Abstract!Take, Me
      <4>2. QED
        BY <4>1 DEF Abstract!Next
    <3>4. CASE lock # None /\ lock = Me(c) /\ Alive(c)
      <4>1. Abstract!Release(c)
        BY <3>1, <3>2, <3>4, LockConstants DEF Abstract!Release, Me
      <4>2. QED
        BY <4>1 DEF Abstract!Next
    <3>5. CASE lock # None /\ ~Alive(lock[1])
      <4>1. Abstract!Free
        BY <3>1, <3>2, <3>5, <2>t, LockConstants DEF Abstract!Free, TypeOK, Owner, Me
      <4>2. QED
        BY <4>1 DEF Abstract!Next
    <3>6. QED
      BY <3>2, <3>3, <3>4, <3>5
  <2>2. CASE lock' = lock
    <3>1. dead' = dead \cup dead'
      BY <2>t, DeathSteps
    <3>2. Abstract!Die(dead')
      BY <2>2, <3>1 DEF Abstract!Die
    <3>3. QED
      BY <3>2 DEF Abstract!Next
  <2>3. QED
    BY <2>1, <2>2
<1>3. QED
  BY <1>1, <1>2, Invariance, PTL DEF Spec, ImplementsExclusiveLock, Abstract!Spec, Abstract!avars

=============================================================================
