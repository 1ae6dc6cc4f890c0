SPECIFICATION Spec
CONSTANTS
  p1 = p1
  p2 = p2
  p3 = p3
  r1 = r1
  None = None
  Procs = {p1, p2, p3}
  Mortal = {p1, p2}
  Readers = {r1}
  Faults = {"before", "after"}
  MaxFaults = 1
  MaxRevision = 4
INVARIANTS AckedDurable NoSpuriousRecovery ReadsAreDurable SettledInSync
PROPERTIES FailsClosed ImplementsLifecycle
