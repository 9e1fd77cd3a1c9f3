SPECIFICATION Spec
CONSTANTS
  t1 = t1
  t2 = t2
  t3 = t3
  Threads = {t1, t2, t3}
  StartsOn = TRUE
  Pressed = {81}
  Volumes = {}
  MaxPresses = 5
  MaxVolumeUpdates = 0
  MaxPauses = 2
SYMMETRY ThreadSymmetry
INVARIANTS
  EntryIsConsumed
  NoStaleDigits
CHECK_DEADLOCK FALSE
VIEW NumberPadView
