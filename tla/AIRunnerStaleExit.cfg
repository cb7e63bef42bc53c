SPECIFICATION Spec
CONSTANTS
  Jobs = {j1}
  Workers = {w1, w2}
  Supervisors = {s1}
  Blocking = {}
  MaxAttempts = 2
  MaxConcurrent = 1
  MaxCrashes = 0
  MaxKills = 0
  None = None
INVARIANTS
  FinishedMeansExited
