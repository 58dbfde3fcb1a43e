SPECIFICATION FairSpec
CONSTANTS
  Move = Move
  Sizes <- OddAndLarge
  MinSize = 4
  MaxSize = 8
  FixedMode = FALSE
  ChanCap = 1
  WireCap = 1
  Delay = 1
  MaxMsgs = 2
INVARIANTS
  IInv
  EncoderMatchesFrame
  Decodable
  AcceptedSizeTravels
PROPERTIES
  AcceptedSizeApplies
  PictureFollowsOutput
  InputResumes
CHECK_DEADLOCK FALSE
