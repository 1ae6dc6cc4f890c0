SPECIFICATION Spec
CONSTANTS
  p1 = p1
  p2 = p2
  p3 = p3
  c1 = c1
  c2 = c2
  n1 = n1
  None = None
  Promoters = {p1, p2, p3}
  CandidateOf <- Candidate
  Authorized = {c1}
  Others = {n1}
  Edits = {"shared", "apart"}
  Mortal = {p2}
  Faults = {"git", "write", "log"}
INVARIANTS OutcomeIsHonest
PROPERTIES EditsSurvive ProtectsMain
CHECK_DEADLOCK FALSE
