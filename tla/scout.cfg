SPECIFICATION ScoutSpec
CONSTANTS
  Procs = {"kiosk"}
  MaxId = 2
  MaxCaptures = 2
  MaxFaults = 1
  MinBlobArea = 3
  MinSubject = 100000
  MinSide = 8
  SampleStep = 2
  Terms = 3
  PaperLevel = 8
  LeastSquares <- MCPlane
  Setups <- MCSetups
  CardWidth = 320
  Pictures <- MCPictures
  Grays <- MCGrays
  Phrases <- MCPhrases
INVARIANTS
  AlgorithmsRight
  SubjectSound
  RecordSound
  CardIsNewest
