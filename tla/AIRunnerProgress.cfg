SPECIFICATION FairSpec
CONSTANTS
  Jobs = {j1}
  Workers = {w1, w2}
  Supervisors = {s1}
  Blocking = {}
  MaxAttempts = 2
  MaxConcurrent = 1
  MaxCrashes = 2
  MaxKills = 1
  None = None
INVARIANTS
  TypeOK
  AttemptsBounded
  
  
PROPERTIES
  
  NeverKilledForSilence
  EveryJobEnds
