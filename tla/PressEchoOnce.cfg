SPECIFICATION Spec
CONSTANTS
  c1 = c1
  c2 = c2
  s1 = s1
  s2 = s2
  NoButton = NoButton
  Browsers = {c1}
  Buttons = {16}
  States = {s1}
  InitTv = s1
  Hardware = {TRUE}
  MaxPresses = 1
  MaxWrites = 0
  MaxDisconnects = 0
INVARIANTS
  AppliedOnce
CHECK_DEADLOCK FALSE
