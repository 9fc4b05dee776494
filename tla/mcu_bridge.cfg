SPECIFICATION FairSpec
CONSTANTS
  Callers = {a, b}
  ReplyTopics = {"gpio"}
  Cap = 2
  MaxCalls = 2
  MaxEvents = 1
  MaxOpens = 2
INVARIANTS
  TypeOK
  Fresh
  ReplyOnce
  FramesWhole
PROPERTIES
  QuietAfterClose
  CallsReturn
CHECK_DEADLOCK FALSE
