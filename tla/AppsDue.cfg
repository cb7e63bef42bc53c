SPECIFICATION FairSpec
CONSTANTS
  Ops = {o1, o2, o3}
  Apps = {a1}
  Workers = {w1}
  Lease = 1
  None = None
  Schedulers = {s1}
  Interval = 1
  Backoff <- BackoffMC
  MaxTime = 1
  MaxConfig = 2
  ManualTypes = {"update"}
  MaxManual = 0
PROPERTIES
  DueIsHandled
CHECK_DEADLOCK FALSE
