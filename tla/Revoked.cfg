SPECIFICATION Spec
CONSTANTS
  a = a
  b = b
  Client = {a, b}
  Nobody = Nobody
  MaxDials = 2
  MaxRevokes = 1
  MaxCrashes = 0
INVARIANT
  RevokedStaysOut
CHECK_DEADLOCK FALSE
SYMMETRY Symmetry
