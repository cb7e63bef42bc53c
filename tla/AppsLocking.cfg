CONSTANTS
  Workers = {w1, w2}
  Ops = {o1, o2}
  Apps = {a1}
  Keys = {}
  Lease = 1
  None = None
  Results = {"succeeded"}
  Callers = {}
  LateWrites = FALSE
SPECIFICATION WSpec
CHECK_DEADLOCK FALSE
SYMMETRY Symmetry
INVARIANTS
  WTypeOK
  HostExclusive
  NeverReplayed
PROPERTIES
  TerminalIsImmutable
  ImplementsLock
