SPECIFICATION Spec
CONSTANTS
  c1 = c1
  c2 = c2
  NoUnit = NoUnit
  Conn = {c1, c2}
  StubbornUnits = {}
  UnkillableUnits = {}
  PanickyConns = {}
  MaxBoots = 1
INVARIANT
  GracefulExitLeavesNoSession
CHECK_DEADLOCK FALSE
