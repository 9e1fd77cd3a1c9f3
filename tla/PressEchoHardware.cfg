SPECIFICATION Spec
CONSTANTS
  c1 = c1
  c2 = c2
  s1 = s1
  s2 = s2
  NoButton = NoButton
  Browsers = {c1, c2}
  Buttons = {16}
  States = {s1, s2}
  InitTv = s1
  Hardware = {TRUE, FALSE}
  MaxPresses = 1
  MaxWrites = 0
  MaxDisconnects = 1
INVARIANTS
  EchoesEnd
  EveryEchoIsApplied
  PagesInStep
PROPERTIES
  PagesConverge
CHECK_DEADLOCK FALSE
