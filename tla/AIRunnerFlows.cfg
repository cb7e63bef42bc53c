SPECIFICATION FlowFairSpec
CONSTANTS
  Jobs = {1, 2}
  Workers = {w1}
  Supervisors = {s1}
  Blocking = {1, 2}
  MaxAttempts = 2
  MaxConcurrent = 2
  MaxCrashes = 0
  MaxKills = 0
  Length = 2
  None = None
INVARIANTS
  FlowTypeOK
  StepsInOrder
  
  
PROPERTIES
  FlowEnds
