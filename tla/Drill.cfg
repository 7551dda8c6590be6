SPECIFICATION Spec
CONSTANTS
  a = a
  shared = shared
  b = b
  dirA = dirA
  dirB = dirB
  Nobody = Nobody
  Drill = {d1, d2}
  Agent = {k}
  Operator = {o}
  Config = {a, shared, b}
  Dir = {dirA, dirB}
  DirOf <- MCDirOf
  Uses <- MCUses
SYMMETRY Symmetric
INVARIANTS TypeOK WorkIsNamed OneDrill CutAlone SealedStaysAlone
CHECK_DEADLOCK FALSE
