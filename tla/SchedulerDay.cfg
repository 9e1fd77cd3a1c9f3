SPECIFICATION Spec
CONSTANTS
  Rules <- DayRules
  PresetLength <- Lengths
  Targets = {"simulator", "samsung"}
  Untimed = {"samsung"}
  TicksPerMinute = 6
  CheckInterval = 3
  MaxSendTicks = 2
  MaxClock = 20
INVARIANTS
  OncePerMinute
  MissedOnlyIfSlow
PROPERTIES
  StopsWhenAsked
CHECK_DEADLOCK FALSE
