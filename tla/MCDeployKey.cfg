\* mbd.op = 1: is the key of a deployed board the generated one?
CONSTANTS
  Rows <- MCRows
  EccRow <- MCEccRow
  DataBits = {1, 2}
  Column <- MCColumn
  MaskedRows = {}
  SecureBoot = FALSE
  Calls = {}
  MaxTries = 2
  MaxFaults = 2
  MaxPowerLosses = 1
  Ops = {1}
  InfoRows <- MCInfo
  KeyRows <- MCKey
  HashRows <- MCHash
  FlagRows <- MCFlag
  Value <- MCValue
  RamBits = {2}
  Keys <- MCKeys
  MaxAttempts = 2
SPECIFICATION DSpec
INVARIANT DeployedKeyGenerated
CHECK_DEADLOCK FALSE
