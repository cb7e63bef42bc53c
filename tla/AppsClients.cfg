CONSTANTS
  Workers = {w1}
  Ops = {o1, o2}
  Apps = {a1}
  Keys = {k1}
  Clients = {c1, c2}
  Lease = 1
  None = None
  Results = {"succeeded"}
  Callers = {"timer", "assert"}
  LateWrites = FALSE
SPECIFICATION Spec
SYMMETRY Symmetry
CHECK_DEADLOCK FALSE
INVARIANTS
  TypeOK
  OneOperationPerKey
