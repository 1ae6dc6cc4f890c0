SPECIFICATION FairSpec
CONSTANTS
  p1 = p1
  p2 = p2
  p3 = p3
  None = None
  Procs = {p1, p3}
  Mortal = {p1}
  EnvOf <- Mixed
  Faults = {"agent", "write", "directories"}
  MaxMain = 2
  MaxAttempts = 2
  Packages <- Supplied
  Beside <- Given
  Requests <- Asked
  Nfc <- Composed
  Key <- Caseless
  ExtOf <- ExtensionOf
  Hidden = {".h.tsx", ".Git"}
  MaxEntries = 6
  MaxRequest = 2
  MaxFile = 3
  MaxImage = 4
  MaxTotal = 10
  MaxArchive = 4
  MaxContent = 1
INVARIANTS StateIsProved PublishedWasConfirmed RestIsAuditable GenerateNotBlocked RequestIsSupplied
PROPERTIES PromisedStays NoLimbo
CHECK_DEADLOCK FALSE
