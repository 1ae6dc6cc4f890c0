CONSTANTS
  Kinds <- EveryKind
SPECIFICATION FairSpec
INVARIANTS SettledMeansGone
PROPERTIES GroupEnds Settles
CHECK_DEADLOCK FALSE
