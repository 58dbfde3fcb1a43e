SPECIFICATION FairSpec
CONSTANTS
  Sizes <- MinimisedOrNot
  OpeningSize = 8
  OpeningScale = 1
  Scales <- TwoScales
  MaxChanges = 0
  MaxFrames = 1
  MaxInputs = 0
PROPERTY
  InterruptEnds
CHECK_DEADLOCK FALSE
