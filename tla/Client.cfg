SPECIFICATION FairSpec
CONSTANTS
  Sizes <- MinimisedOrNot
  OpeningSize = 8
  OpeningScale = 1
  Scales <- TwoScales
  MaxChanges = 2
  MaxFrames = 2
  MaxInputs = 1
INVARIANTS
  IInv
  IdleIsCurrent
PROPERTIES
  NeverBackwards
  LastViewportTold
  NewestFrameShown
  NetworkEndShown
CHECK_DEADLOCK FALSE
