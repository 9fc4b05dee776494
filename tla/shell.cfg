SPECIFICATION FairSpec
CONSTANTS
  Capacity = 2
  Modulus = 4
  MaxDrops = 1
INVARIANTS
  TypeOK
  InOrder
PROPERTIES
  FramesGoOn
  Delivered
CHECK_DEADLOCK FALSE
