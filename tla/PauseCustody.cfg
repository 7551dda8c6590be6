SPECIFICATION Spec
CONSTANTS
  MaxExternal = 4
  MaxDepth = 4
  MaxCrash = 2
INVARIANTS TypeOK NoForeignResume NoBuriedOwnership OwnPauseIsRecorded ReplayLosesOnlyReleases
