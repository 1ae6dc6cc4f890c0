SPECIFICATION Spec
CONSTANTS
  a = a
  b = b
  c = c
  d = d
  s1 = s1
  s2 = s2
  None = None
  Callers = {a, b, c, d}
  Pids = {a, b, c, d}
  PidOf <- OwnProcess
  Mortal = {d}
  Stamps = {s1}
  CrashPhases = {"both"}
  IoFaults = FALSE
  PromptJudge = TRUE
PROPERTIES LiveLockNeverBroken
