SPECIFICATION Spec
CONSTANTS
  t1 = t1
  t2 = t2
  Threads = {t1, t2}
  StartsOn = TRUE
  Pressed = {16, 18, 20, 32, 33, 81, 114, 226, 227, 243, 255}
  Volumes = {0}
  MaxPresses = 2
  MaxVolumeUpdates = 1
  MaxPauses = 0
INVARIANTS
  TypeInv
  OneOverlay
  SingleTimer
  ShownIsCurrent
CHECK_DEADLOCK FALSE
PROPERTIES NotificationClears
