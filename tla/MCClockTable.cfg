\* Does the clock tree give every line the frequency of its table?
CONSTANTS
  PhaseEnd = 3
  MaxVref = 4
  Cycles = 2
  Taps = 2
  Machines <- SmallMachines
  TimVref = 1
  MaxBoots = 3
SPECIFICATION Spec
INVARIANT ClockTableKept
CHECK_DEADLOCK FALSE
