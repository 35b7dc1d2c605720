SPECIFICATION EngineSpec
CONSTANTS
  NSteps = 2
  NComps = 2
  Parallel = {}
  Conditional = {1, 2}
  Delay <- NoDelay
  Timeout <- OneTick
  MaxRetries <- NoRetry
  Backoff = 1
  GlobalTimeout = 2
  ForeignKeys = TRUE
  Executors = {w1, w2}
  MaxFailures = 1
  MaxRedeliveries = 0
  MaxLosses = 1
  MaxEvictions = 0
  MayCancel = FALSE
INVARIANTS
  InOrder
  NoForwardWhileUndoing
  NeverStranded
  CompletedMeansDone
PROPERTIES
  EndedStartsNothing
  RunEnds
