SPECIFICATION FairSpec
CONSTANTS
  Move = Move
  Sizes <- Plain
  MinSize = 4
  MaxSize = 8
  FixedMode = FALSE
  ChanCap = 1
  WireCap = 1
  Delay = 0
  MaxMsgs = 2
PROPERTY
  LastSizeApplies
CHECK_DEADLOCK FALSE
