SPECIFICATION Spec
CONSTANTS
  Slots = {r1, r2}
  Quotas = {2}
  Threshold = 2
  Window = 1
  Cooldown = 1
  DayLength = 2
  Horizon = 4
  MaxRequests = 4
  MaxKeys = 1
SYMMETRY SlotSymmetry
INVARIANTS
  DispatchTypeOK
  QuotaBounded
  OpensForCause
CHECK_DEADLOCK FALSE
