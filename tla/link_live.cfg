SPECIFICATION FairSpec
CONSTANTS
  Rows = 1
  RowsPerTile = 1
  MaxId = 1
  Cap = 1
  Replies = {TRUE, FALSE}
  MaxFrames = 1
  MaxPings = 1
  MaxInputs = 1
  MaxSessions = 2
PROPERTIES
  QuietAfterClose
  PresentReturns
  CloseReturns
CHECK_DEADLOCK FALSE
