SPECIFICATION Spec
CONSTANTS
  Procs = {kiosk, tool}
  MaxId = 2
  MaxCaptures = 4
  MaxFaults = 1
INVARIANTS
  TypeOK
  RecordHasImage
  SuccessIsOwn
  CleanWithoutFaults
PROPERTIES
  NeverOverwritten
CHECK_DEADLOCK FALSE
