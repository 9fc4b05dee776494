SPECIFICATION FairSpec
CONSTANTS
  Webcams <- TwoWebcams
  Displays <- AllDisplays
  Ring = 2
  MaxPlugs = 2
  MaxFaults = 2
  MissLimit = 2
  MaxTaps = 3
INVARIANTS
  TypeOK
  FreshTaps
  PreviewMatches
  JoinedBeforeReturn
  LayoutFits
PROPERTIES
  Recovers
  Stops
CHECK_DEADLOCK FALSE
