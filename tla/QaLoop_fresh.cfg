SPECIFICATION Spec
CONSTANTS
  Issues = {i1}
  MAX_QA_ITERATIONS = 4
  MAX_CONSECUTIVE_ERRORS = 2
  RECURRING_ISSUE_THRESHOLD = 3
  MaxRuns = 3
PROPERTIES
  ApprovalIsFresh
CHECK_DEADLOCK FALSE
