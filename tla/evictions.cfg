SPECIFICATION Spec
CONSTANTS
  NSteps = 2
  NComps = 1
  Parallel = {1, 2}
  Conditional = {}
  Delay <- NoDelay
  Timeout <- OneTick
  MaxRetries <- NoRetry
  Backoff = 1
  GlobalTimeout = 2
  ForeignKeys = TRUE
  Executors = {w1, w2}
  MaxFailures = 0
  MaxRedeliveries = 1
  MaxLosses = 0
  MaxEvictions = 1
  MayCancel = FALSE
SYMMETRY ExecutorSymmetry
INVARIANTS
  TypeOK
  NeverUndoCompleted
  RowIsBacked
PROPERTIES
  ImplementsLifecycle
