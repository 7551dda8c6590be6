SPECIFICATION Spec
CONSTANTS
  p1 = p1
  p2 = p2
  p3 = p3
  a = a
  b = b
  Payloads = {p1, p2, p3}
  Valid = {p1, p2, p3}
  Armed = {p2, p3}
  NoPayload = NoPayload
  EventOf <- MCEventOf
  HeightOf <- MCHeightOf
  MaxCrash = 2
INVARIANTS TypeOK StartedOnce OnlyWhatWasArmed DrivesItsOwn
PROPERTIES AbortIsFinal
CHECK_DEADLOCK FALSE
