SPECIFICATION Spec
CONSTANTS
  Member = {a, b}
  Quorum = 1
  EarlyAbort = TRUE
  Hasty = FALSE
  MaxLoss = 1
  MaxFresh = 0
SYMMETRY Symmetric
INVARIANT TypeOK
PROPERTY OneOutcome
CHECK_DEADLOCK FALSE
