SPECIFICATION Spec
CONSTANTS
  MaxRecords = 4
  MaxCrash = 2
  PartialWrites = TRUE
INVARIANTS TypeOK KeepsAcknowledged OpensAgain
PROPERTIES ImplementsStack OwnershipIsEarned
CHECK_DEADLOCK FALSE
