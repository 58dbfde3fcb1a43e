SPECIFICATION FairSpec
CONSTANTS
  a = a
  b = b
  Client = {a, b}
  Nobody = Nobody
  MaxDials = 2
  MaxRevokes = 1
  MaxCrashes = 1
INVARIANTS
  IInv
  PairedByCode
  SessionIsMutual
  NoStandoff
  MisreadMeansDisagreement
PROPERTIES
  HandshakeEnds
CHECK_DEADLOCK FALSE
