SPECIFICATION Spec
CONSTANTS
  Pages = {p1}
  p1 = p1
  Volumes = {50, 71, 73}
  Pressed = {2, 4, 16, 17, 19}
  MaxPresses = 2
  MaxLags = 1
  MaxLosses = 1
INVARIANTS NotStuck PageShowsServer
PROPERTIES LimitHolds Settles
