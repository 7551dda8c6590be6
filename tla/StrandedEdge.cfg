SPECIFICATION Spec
CONSTANTS
  Scheduled = TRUE
  Coordinated = FALSE
  AutoRollback = TRUE
  FreezeHook = TRUE
  AbortHook = TRUE
  AdmissionLock = TRUE
  Forced = FALSE
  MaxExternal = 1
  MaxDepth = 3
  MaxCrash = 0
PROPERTIES StrandedIsFrozen
