CONSTANTS
  None = None
  Empty = Empty
  Paths <- ThePaths
  Tracked <- InBaseline
  Allowed <- Planned
  Versions = {v, w}
  Commands = 2
  RoughRuns = {1}
  MaxWrites = 2
  MaxStrays = 2
  MaxRuns = 2
  Faults = {"agent", "verdict", "git", "cleanup", "crash"}
  Requests <- ChangeRequests
  Profiles <- PublicationProfiles
  Manifests <- RouteManifests
  Roots <- CopyRoots
  Variants <- OtherOutputs
  Depth = 3
SYMMETRY Alike
SPECIFICATION Spec
INVARIANTS AcceptedWasReal LoadableIsAccepted OutputIsPlanned
PROPERTIES DeliveredStays
CHECK_DEADLOCK FALSE
