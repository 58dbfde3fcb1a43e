SPECIFICATION FairSpec
CONSTANTS
  c1 = c1
  c2 = c2
  NoUnit = NoUnit
  Conn = {c1, c2}
  StubbornUnits = {c1, c2}
  UnkillableUnits = {c1}
  PanickyConns = {c2}
  MaxBoots = 2
INVARIANTS
  IInv
  MutualExclusion
  BusyIffHeld
  NamedUnitIsServed
  SignalReapsNamedUnit
  SessionReaped
PROPERTIES
  ImplementsOneSession
  LostClientFreesSlot
  StartReturns
CHECK_DEADLOCK FALSE
