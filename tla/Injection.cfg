SPECIFICATION FairSpec
CONSTANTS
  shift = shift
  a = a
  left = left
  Keys <- TwoKeys
  Modifiers = {shift}
  Buttons = {left}
  Motion = Motion
  MaxReports = 3
INVARIANTS
  IInv
  HeldModifiersTold
  ExactUnlessMissed
  KeysFollowReports
PROPERTY
  KeysSettle
