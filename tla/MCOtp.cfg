\* Three commands in a row, one fault and one power loss anywhere.
CONSTANTS
  Rows = {2, 3, 4, 5}
  EccRow <- MCEccRow
  DataBits = {0, 1, 2, 3, 4, 5, 6, 7}
  Column <- MCColumn
  MaskedRows = {}
  SecureBoot = FALSE
  Calls = {}
  MaxTries = 2
  MaxFaults = 1
  MaxPowerLosses = 1
  WordBits = 8
  LastMajority = 2
  ArgRows = {2, 3}
  Offsets = {0, 4, 6, 8}
  Widths = {4}
  Values <- MCValues
  Quads <- MCQuads
  MaxCommands = 3
SPECIFICATION OSpec
CHECK_DEADLOCK FALSE
INVARIANTS
  WritesWhatWasAsked
  ReadsBack
