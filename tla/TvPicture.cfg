SPECIFICATION Spec
CONSTANTS
  Pressed = {2, 16, 17, 20}
  MaxPresses = 2
  MaxLosses = 2
  Gaps = {0, 1, 12}
INVARIANTS CanvasIsCurrent DarkWhenOff AtRest OneBeamOneButton
PROPERTIES Settles
CHECK_DEADLOCK FALSE
