SPECIFICATION FairSpec
CONSTANTS
  Configs = {c1, c2}
  Flows = {f1, f2}
  Children = {p1, p2, p3}
  MaxEdits = 2
  MaxFaults = 2
  None = None
INVARIANTS
  TypeOK
  

  
ACTION_CONSTRAINT FileInOrder
CHECK_DEADLOCK FALSE
