SPECIFICATION Spec
CONSTANTS
  Scheduled = TRUE
  Coordinated = FALSE
  AutoRollback = FALSE
  FreezeHook = FALSE
  AbortHook = FALSE
  AdmissionLock = FALSE
  Forced = FALSE
  MaxExternal = 0
  MaxDepth = 3
  MaxCrash = 1
INVARIANTS NoOwnPauseLeft
