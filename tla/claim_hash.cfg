SPECIFICATION Spec
CONSTANTS
  i1 = i1
  i2 = i2
  i3 = i3
  ctrlA = ctrlA
  ctrlB = ctrlB
  Calls = {c1, c2, c3}
  Evidence = {i1, i2, i3}
  NoEvidence = NoEvidence
  About <- SameEvent
  Controls <- TwoAndOne
  Payload <- TwoPayload
  Shown <- NothingShown
  Months = {may, june}
  NoMonth = NoMonth
INVARIANTS
  FoundIsTheSame
CHECK_DEADLOCK FALSE
