SPECIFICATION Spec
CONSTANTS
  Member = {a, b, c}
  Quorum = 2
  EarlyAbort = TRUE
  Hasty = TRUE
  MaxLoss = 0
  MaxFresh = 0
SYMMETRY Symmetric
PROPERTY ReturnedNeverCounts
CHECK_DEADLOCK FALSE
