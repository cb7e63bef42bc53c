CONSTANTS
  Workers = {w1, w2}
  Ops = {o1}
  Apps = {a1}
  Keys = {}
  Lease = 2
  None = None
  Results = {"succeeded"}
  Callers = {"timer"}
  LateWrites = TRUE
SPECIFICATION WSpec
CHECK_DEADLOCK FALSE
SYMMETRY Symmetry
INVARIANTS
  StoppedMeansDrained
  
PROPERTIES
  StoppedIsFinal
