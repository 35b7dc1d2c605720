SPECIFICATION Spec
CONSTANTS
  Evaluators = {e1, e2}
  Rules = {r1}
  NoRule = NoRule
  Events = {x1, x2}
  NoEvent = NoEvent
  NoState = NoState
  Settings <- TwoSettings
  Defaults <- Usual
  Window = 2
  DedupTtl = 3
  Ceiling = 1
  Horizon = 6
  MaxEvents = 4
  MaxEvictions = 1
  MaxOrders = 1
SYMMETRY GateSymmetry
INVARIANTS
  GateTypeOK
  WindowBounded
  CountedIsRecorded
PROPERTIES
  CooldownKept
  DedupKept
CHECK_DEADLOCK FALSE
