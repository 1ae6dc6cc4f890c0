CONSTANTS
  None = None
  OwnKey = "own"
  Recorded = TRUE
  MaxDisturbed = 2
  Others = {"second", "again", "rehearsal", "clone", "legacy"}
  Lineages <- TheLineages
SPECIFICATION Spec
INVARIANTS LoadedIsOne PublishedIsOne AuditedIsOne HonestIsAccepted
CHECK_DEADLOCK FALSE
