SPECIFICATION PartsSpec
CONSTANTS
  Last = 2
  PhaseOf <- TwoPhases
  DependsOn <- SecondDepends
  MAX_SUBTASK_RETRIES = 3
  MAX_CONCURRENCY_RETRIES = 1
  MaxPlanningFailures = 2
  MaxRuns = 2
  MaxResets = 1
  MaxPauses = 1
  MaxAgings = 1
  Creators = {1, 2, 3}
  Mixes <- SomeMixes
  MaxWaits = 1
  OldSpecs = {1}
  OldWorktrees = {2}
  Tasks = {1, 2, 3}
  maxParallelTasks = 2
  MAX_CONSECUTIVE_FAILURES = 2
  MaxAsked = 2
  MaxRefused = 2
  Specs = {1, 2}
  MaxCommits = 2
  MaxRequests = 3
INVARIANTS TypeOK InOrder AttemptsBounded OneSessionBehind
INVARIANTS NumbersTypeOK OneHolder NumbersUnique
INVARIANTS MergeTypeOK WorkKept MergedIsCommitted
INVARIANTS QueueTypeOK CapacityKept NoneForgotten
PROPERTIES StuckIsFinal CompletedKept LoopEnds RequestEnds
CHECK_DEADLOCK FALSE
