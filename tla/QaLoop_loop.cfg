SPECIFICATION FairSpec
CONSTANTS
  Issues = {i1, i2}
  MAX_QA_ITERATIONS = 3
  MAX_CONSECUTIVE_ERRORS = 2
  RECURRING_ISSUE_THRESHOLD = 2
  MaxRuns = 3
INVARIANTS
  TypeOK
  CompletedIsSigned
  RecurringIsEscalated
PROPERTIES
  FeedbackKept
  LoopSettles
  ProcessEnds
  ImplementsContract
CHECK_DEADLOCK FALSE
