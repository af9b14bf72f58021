SPECIFICATION AgentsSpec
CONSTANTS
  Tasks = {t1}
  MaxSpawns = 2
  MaxProactive = 1
  Stubborn = {FALSE}
  Profiles = {"p", "q"}
  Calls = {1, 2}
  MAX_REFRESH_RETRIES = 1
  MaxEvents = 2
INVARIANTS TypeOK TrackedNotKilled KilledPending NoOrphan
INVARIANTS TokensTypeOK TokenKept MarkIsTrue
PROPERTIES KilledEnds SwapLeavesActive DeadIsReported
CHECK_DEADLOCK FALSE
