SPECIFICATION MergeSpec
CONSTANTS
  Specs = {1, 2}
  MaxCommits = 2
  MaxRequests = 3
INVARIANTS StagedIsStaged
CHECK_DEADLOCK FALSE
