SPECIFICATION Spec
CONSTANTS
  Rows = 2
  RowsPerTile = 1
  MaxId = 1
  Cap = 2
  Replies = {TRUE, FALSE}
  MaxFrames = 1
  MaxPings = 1
  MaxInputs = 0
  MaxSessions = 1
INVARIANTS
  OkMeansShown
CHECK_DEADLOCK FALSE
