SPECIFICATION Spec
CONSTANTS
  Callers = {a}
  ReplyTopics = {"gpio"}
  Cap = 2
  MaxCalls = 2
  MaxEvents = 0
  MaxOpens = 1
INVARIANTS
  Paired
CHECK_DEADLOCK FALSE
