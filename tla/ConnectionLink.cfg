SPECIFICATION Spec
CONSTANTS
  tv = tv
  dvd = dvd
  none = none
  Devices = {tv, dvd}
  NoDevice = none
  MaxRetries = 2
  MaxTransmissions = 6
SYMMETRY DeviceSymmetry
INVARIANTS
  StatusFitsDevice
  StatsAddUp
  PressReachesItsDevice
  PressRecovers

