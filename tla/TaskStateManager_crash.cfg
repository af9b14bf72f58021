SPECIFICATION Spec
CONSTANTS
  MaxRuns = 1
  MaxUser = 1
  MaxReload = 0
  MaxSeq = 3
  MaxPipe = 3
  ReviewModes = {FALSE}
  SwapModes = {FALSE}
PROPERTIES
  CodingCrashIsError
CHECK_DEADLOCK FALSE
