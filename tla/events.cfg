SPECIFICATION Spec
CONSTANTS
  t1 = t1
  t2 = t2
  foreigner = c3
  Clients = {c1, c2, c3}
  Admins = {a1}
  Agents = {g1}
  Keys = {k}
  NoKey = NoKey
  KeyOf <- SameKey
  Tenants <- TwoTenants
  TenantOf <- Owner
  MaxAttempts = 1
  MaxCrashes = 1
  MaxDbErrors = 1
  MaxStale = 1
SYMMETRY EventSymmetry
INVARIANTS
  EventTypeOK
  AtMostOncePerKey
  DuplicateExists
  SettledMatchesRows
  DeadLetterExists
  ReplayPublished
CHECK_DEADLOCK FALSE
