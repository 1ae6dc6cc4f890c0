CONSTANTS
  None = None
  OwnKey = "own"
  Recorded = TRUE
  MaxDisturbed = 0
  Others = {"rehearsal"}
  Lineages <- TheLineages
SPECIFICATION Spec
INVARIANTS RecordedIsAudited
CHECK_DEADLOCK FALSE
