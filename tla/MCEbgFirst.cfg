\* What does the first strong digest depend on?
CONSTANTS
  EBG_SIZE = 6
  PARANOID_SIZE = 7
  COLLECT = 4
  DGST = 3
  RawSizes = {2, 4}
  StrongSizes = {1, 5, 7}
  MaxSamples = 14
  MaxCalls = 6
SPECIFICATION Spec
INVARIANT FirstCallAppendsZeros
CHECK_DEADLOCK FALSE
