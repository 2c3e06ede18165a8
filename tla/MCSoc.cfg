\* Every boot state; words of 32 with seconds of 12 ticks.  The run ends with a
\* new start of the firmware or of the SoC, hence no deadlock check.
CONSTANTS
  TIMH = TIMH
  TIMN = TIMN
  IMAP = IMAP
  OBMI = OBMI
  WTMI = WTMI
  OtpKey = "owner"
  Flashes <- MCFlashes
  Row1 <- MCRow1
  Polls = 3
  OddPoll = 1
  Timeout = 2
  Counters <- MCCounters
  Drift = 2
  Prescalers = {2, 3}
  Word = 32
  LoLimit = 8
  Limit = 12
SPECIFICATION SocSpec
CHECK_DEADLOCK FALSE
INVARIANTS
  HandOverClean
  RunsOwnersFirmware
PROPERTIES
  WatchdogExact
  ResetEnds
