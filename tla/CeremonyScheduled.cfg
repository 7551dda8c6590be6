SPECIFICATION Spec
CONSTANTS
  Scheduled = TRUE
  Coordinated = TRUE
  AutoRollback = TRUE
  FreezeHook = TRUE
  AbortHook = FALSE
  AdmissionLock = TRUE
  Forced = TRUE
  MaxExternal = 1
  MaxDepth = 2
  MaxCrash = 1
INVARIANTS TypeOK NoOwnPauseLeft DoneMeansUnlocked
PROPERTIES Custody ReopensOnlyIntoProducing NoResumePastNoReturn NeverRunsOn
