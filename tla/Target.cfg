SPECIFICATION Spec
CONSTANTS
  cut = cut
  other = other
  Snapshot = {cut, other}
  Cut = cut
  Nothing = Nothing
  MaxCrash = 3
INVARIANTS VerifiedIsTheCut BootsWhatVerified OneTarget CommittedIsFrozen DoneMeansUndone
