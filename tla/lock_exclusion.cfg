SPECIFICATION Spec
CONSTANTS
  a = a
  b = b
  c = c
  d = d
  s1 = s1
  s2 = s2
  None = None
  Callers = {a, b, c}
  Pids = {a, b, c}
  PidOf <- OwnProcess3
  Mortal = {a, b}
  Stamps = {s1, s2}
  CrashPhases = {"outside", "guarded", "both", "locked"}
  IoFaults = TRUE
  PromptJudge = TRUE
INVARIANTS NoOrphanedLock
PROPERTIES LiveLockNeverBroken ImplementsExclusiveLock
