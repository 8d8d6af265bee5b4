CONSTANTS
  a1 = a1
  a2 = a2
  b1 = b1
  Rows = {a1, a2, b1}
  CaseOf <- MCCaseOf
  Workers = {v, w}
  Requests = {p}
  None = None
  MaxRetries = 2
  StreakLimit = 3
SPECIFICATION FairSpec
INVARIANTS OneHolder StopIsFinal AutoStopEarned
PROPERTIES StopIsHeard BatchEnds
CHECK_DEADLOCK FALSE
