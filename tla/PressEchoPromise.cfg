SPECIFICATION Spec
CONSTANTS
  c1 = c1
  c2 = c2
  s1 = s1
  s2 = s2
  NoButton = NoButton
  Browsers = {c1}
  Buttons = {16, 21}
  States = {s1}
  InitTv = s1
  Hardware = {TRUE, FALSE}
  MaxPresses = 2
  MaxWrites = 1
  MaxDisconnects = 1
PROPERTIES
  KeepsPressPromise
CHECK_DEADLOCK FALSE
