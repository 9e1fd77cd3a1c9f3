SPECIFICATION Spec
CONSTANTS
  MaxTicks = 4
INVARIANTS
  TickIsKept
  StoppedIsQuiet
  RunsFollowTicks
