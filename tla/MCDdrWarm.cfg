\* Which settings does a warm boot restore?
CONSTANTS
  PhaseEnd = 3
  MaxVref = 4
  Cycles = 2
  Taps = 2
  Machines <- SmallMachines
  TimVref = 1
  MaxBoots = 3
SPECIFICATION Spec
INVARIANT WarmBootRestoresGates
CHECK_DEADLOCK FALSE
