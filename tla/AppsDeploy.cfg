CONSTANTS
  MaxReleases = 3
  MaxCommits = 2
  MaxFaults = 2
  None = None
SPECIFICATION DSpec
CHECK_DEADLOCK FALSE
INVARIANTS
  DTypeOK
  FailureKeepsRelease
  RecordedPassed
  OneActive
  UnchangedIsTrue
