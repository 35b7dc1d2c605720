SPECIFICATION Spec
CONSTANTS
  a = a
  b = b
  Apps = {a, b}
  NoApp = NoApp
  Jobs <- EveryKind
  Attempts = 1
  UndoAttempts = 1
  RecordAttempts = 1
  MaxFaults = 1
INVARIANTS
  RollbackReverses
CHECK_DEADLOCK FALSE
