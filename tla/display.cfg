SPECIFICATION FairSpec
CONSTANTS
  Width = 3
  Height = 2
  Outputs <- MCOutputs
  Preferred = "DSI"
  RawMin = 0
  RawMax = 4
  Readings = {0, 5}
  QueueLen = 2
  Draws <- MCDraws
CONSTRAINT OneHalf
INVARIANTS
  TypeOK
  NothingLeft
  InputFaithful
  DirtyCovers
  HelpersRight
PROPERTIES
  NeverDark
  CloseReturns
