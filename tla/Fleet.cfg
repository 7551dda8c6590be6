SPECIFICATION Spec
CONSTANTS
  Member = {a, b, c}
  Quorum = 2
  EarlyAbort = TRUE
  Hasty = FALSE
  MaxLoss = 0
  MaxFresh = 1
SYMMETRY Symmetric
INVARIANTS NoUncountedSplit NoGateAfterProof
PROPERTY ReturnedNeverCounts
CHECK_DEADLOCK FALSE
