SPECIFICATION Spec
CONSTANTS
  Procs = {kiosk}
  MaxId = 1
  MaxCaptures = 1
  MaxFaults = 1
INVARIANTS
  AllOrNothing
CHECK_DEADLOCK FALSE
