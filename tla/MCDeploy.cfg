\* Both operations, in any order, with faults and a power loss.
CONSTANTS
  Rows <- MCRows
  EccRow <- MCEccRow
  DataBits = {1, 2}
  Column <- MCColumn
  MaskedRows = {}
  SecureBoot = FALSE
  Calls = {}
  MaxTries = 2
  MaxFaults = 2
  MaxPowerLosses = 2
  Ops = {1, 2}
  InfoRows <- MCInfo
  KeyRows <- MCKey
  HashRows <- MCHash
  FlagRows <- MCFlag
  Value <- MCValue
  RamBits = {2}
  Keys <- MCKeys
  MaxAttempts = 3
SPECIFICATION DSpec
INVARIANTS
  FirstDeployComplete
  DeployedInfoFinal
  HashBeforeFlags
CHECK_DEADLOCK FALSE
