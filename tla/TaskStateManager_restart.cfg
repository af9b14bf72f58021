SPECIFICATION Spec
CONSTANTS
  MaxRuns = 2
  MaxUser = 3
  MaxReload = 0
  MaxSeq = 3
  MaxPipe = 3
  ReviewModes = {FALSE}
  SwapModes = {FALSE}
INVARIANTS
  NewProcessHeard
CHECK_DEADLOCK FALSE
