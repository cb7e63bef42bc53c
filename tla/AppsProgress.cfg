CONSTANTS
  Workers = {w1, w2}
  Ops = {o1, o2}
  Apps = {a1}
  Keys = {}
  Lease = 1
  None = None
  Last = w2
  Results = {"succeeded"}
  Callers = {"assert"}
  LateWrites = FALSE
SPECIFICATION WLiveSpec
CHECK_DEADLOCK FALSE
PROPERTIES
  
  InterruptedIsFailed
ACTION_CONSTRAINT Successive
