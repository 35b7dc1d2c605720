SPECIFICATION Spec
CONSTANTS
  None = None
  Calls = {c1, c2, c3}
  Isolates = {i1, i2}
  Tenants = {t1, t2}
  Keys = {k1}
  StepCount = 2
  MaxCrashes = 1
SYMMETRY ExecSymmetry
INVARIANTS
  ExecTypeOK
  OneAnswerPerKey
  StepsExplained
CHECK_DEADLOCK FALSE
