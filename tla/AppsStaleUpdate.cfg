CONSTANTS
  MaxReleases = 2
  MaxCommits = 1
  MaxFaults = 1
  None = None
SPECIFICATION DFairSpec
CHECK_DEADLOCK FALSE
PROPERTIES
  InterruptedUpdateIsClosed
