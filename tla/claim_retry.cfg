SPECIFICATION FairSpec
CONSTANTS
  NSteps = 1
  NComps = 1
  Parallel = {}
  Conditional = {}
  Delay <- NoDelay
  Timeout <- TwoTicks
  MaxRetries <- OneRetry
  Backoff = 1
  GlobalTimeout = 3
  ForeignKeys = TRUE
  Executors = {w1, w2}
  MaxFailures = 1
  MaxRedeliveries = 0
  MaxLosses = 0
  MaxEvictions = 0
  MayCancel = FALSE
PROPERTIES
  RetryIsDispatched
