SPECIFICATION FairSpec
CONSTANTS
  Capacity = 1
  Modulus = 2
  MaxDrops = 0
PROPERTIES
  ExitGoesHome
CHECK_DEADLOCK FALSE
