\* Two boots, a crash of the second and a third; "no chip" stops for ever.
CONSTANTS
  PhaseEnd = 3
  MaxVref = 4
  Cycles = 2
  Taps = 2
  Machines <- SmallMachines
  TimVref = 1
  MaxBoots = 3
SPECIFICATION Spec
INVARIANTS
  
  MemorySurvives
  ResumeAsTrained
  TrainedWorks
  TestsOwnChip
PROPERTY ClockChangesQuiet
CHECK_DEADLOCK FALSE
