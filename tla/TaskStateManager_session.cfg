SPECIFICATION Spec
CONSTANTS
  MaxRuns = 2
  MaxUser = 2
  MaxReload = 1
  MaxSeq = 3
  MaxPipe = 3
  ReviewModes = {TRUE, FALSE}
  SwapModes = {TRUE, FALSE}
INVARIANTS
  TypeOK
  XStateOnDisk
  SettledSurvives
  TrackedLive
PROPERTIES
  ReviewGate
  DoneIsFinal
CHECK_DEADLOCK FALSE
