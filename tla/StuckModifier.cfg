SPECIFICATION Spec
CONSTANTS
  shift = shift
  a = a
  left = left
  Keys <- TwoKeys
  Modifiers = {shift}
  Buttons = {left}
  Motion = Motion
  MaxReports = 3
INVARIANT
  ModifiersExact
