SPECIFICATION FairSpec
CONSTANTS
  a = a
  b = b
  Apps = {a, b}
  NoApp = NoApp
  Jobs <- EveryKind
  Attempts = 2
  UndoAttempts = 2
  RecordAttempts = 2
  MaxFaults = 4
INVARIANTS
  AtlasTypeOK
  CompletedIsEffective
  EveryUndoTried
  FaultsAreRetried
PROPERTIES
  ImplementsLifecycle
  RunEnds
CHECK_DEADLOCK FALSE
