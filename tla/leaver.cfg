SPECIFICATION Spec
CONSTANTS
  NSteps = 4
  NComps = 0
  Parallel = {}
  Conditional = {1, 3}
  Delay <- GraceOnSecond
  Timeout <- TwoTicks
  MaxRetries <- OneRetry
  Backoff = 1
  GlobalTimeout = 3
  ForeignKeys = TRUE
  Executors = {w1, w2}
  MaxFailures = 1
  MaxRedeliveries = 0
  MaxLosses = 1
  MaxEvictions = 0
  MayCancel = TRUE
SYMMETRY ExecutorSymmetry
INVARIANTS
  GraceHasAlarm
