\* Fuses: booted securely, row 42 masked; timeouts, weak pulses, power losses.
\* Signatures: a curve of seven points.  AP memory: words of 6 bits, windows of
\* 16 bytes, messages of 6 bytes in units of 2.
CONSTANTS
  Rows <- MCRows
  EccRow <- MCEccRow
  DataBits = {1, 2}
  Column <- MCColumn
  MaskedRows = {42}
  SecureBoot = TRUE
  Calls <- MCCalls
  MaxTries = 2
  MaxFaults = 2
  MaxPowerLosses = 1
  EBG_SIZE = 6
  PARANOID_SIZE = 7
  COLLECT = 4
  DGST = 3
  RawSizes = {2, 4}
  StrongSizes = {1, 5, 7}
  MaxSamples = 14
  MaxCalls = 6
  Words = 2
  WordBits = 3
  Prime = 11
  A = 8
  B = 10
  GX = 2
  GY = 1
  Order = 7
  Bits = 4
  Messages = {0, 1, 6, 7, 12, 16}
  Foreign <- MCForeign
  MaxAsked = 3
  Word = 64
  Window = 16
  RamSizes <- MCRamSizes
  Align = 2
  Block = 6
  RandomAddrs <- MCRandomAddrs
  RandomLens <- MCRandomLens
  SignAddrs <- MCSignAddrs
  Wired <- MCWired
  Deployments <- MCDeployments
  LowBits = 4
  HighBits = 2
  VersionBits = 2
  OuiAt = 3
  Oui = 5
SPECIFICATION SvcSpec
INVARIANTS
  WriteVerified
  EveryByteOnce
  NothingLeftBehind
  SignedVerifies
  NothingSecretLeft
  ServedRequestsTiled
  WindowRestored
  NothingWrittenOnFailure
  KnowsItsBoard
PROPERTIES
  ProgrammingClosed
  FinishedRowsStayReadable
  ImplementsSigner
