SPECIFICATION FairSpec
CONSTANTS
  Scheduled = FALSE
  Coordinated = TRUE
  AutoRollback = TRUE
  FreezeHook = TRUE
  AbortHook = TRUE
  AdmissionLock = FALSE
  Forced = FALSE
  MaxExternal = 2
  MaxDepth = 2
  MaxCrash = 1
INVARIANTS NoOwnPauseLeft DoneMeansOpen
PROPERTIES EveryCommandEnds
