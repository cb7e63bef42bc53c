SPECIFICATION Spec
CONSTANTS
  Ops = {o1, o2}
  Apps = {a1}
  Workers = {w1, w2}
  Lease = 1
  None = None
  Schedulers = {s1, s2}
  Interval = 1
  Backoff <- BackoffMC
  MaxTime = 1
  MaxConfig = 2
  ManualTypes = {"update", "rollback"}
  MaxManual = 1
ACTION_CONSTRAINT OneThingAtATime
SYMMETRY Symmetric
INVARIANTS
  TypeOK
  NoDeadSlot
  ProjectedInOrder
  FailuresCounted
CHECK_DEADLOCK FALSE
