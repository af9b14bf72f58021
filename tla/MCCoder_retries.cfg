SPECIFICATION Spec
CONSTANTS
  Last = 1
  PhaseOf <- OnePhase
  DependsOn <- OneIndependent
  MAX_SUBTASK_RETRIES = 5
  MAX_CONCURRENCY_RETRIES = 0
  MaxPlanningFailures = 3
  MaxRuns = 1
  MaxResets = 5
  MaxPauses = 0
  MaxAgings = 0
INVARIANT StuckInTime
CHECK_DEADLOCK FALSE
