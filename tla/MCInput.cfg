\* Lines of up to two bytes, sequences of up to two, a history of five bytes.
CONSTANTS
  Size = 8
  Buffer = 3
  Contents <- MCContents
  CmdSize = 3
  EscSize = 4
  HistorySize = 5
  Bytes <- MCBytes
  Typed = {"A", "3"}
SPECIFICATION InSpec
INVARIANTS
  UsablePassed
  InBounds
  ScreenShowsLine
PROPERTY PieceAdvances
