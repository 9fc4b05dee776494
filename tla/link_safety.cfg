SPECIFICATION Spec
CONSTANTS
  Rows = 3
  RowsPerTile = 2
  MaxId = 2
  Cap = 2
  Replies = {TRUE}
  MaxFrames = 2
  MaxPings = 0
  MaxInputs = 1
  MaxSessions = 1
INVARIANTS
  TypeOK
  OkMeansShown
  NoProtocolError
PROPERTIES
  SinkSpec
CHECK_DEADLOCK FALSE
