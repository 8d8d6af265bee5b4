CONSTANTS
  Commits = {a, b}
  Requests = {p}
  Threads = {t1}
  Reconciler = reconciler
  NotifyAttempts = 1
  MaxFaults = 1
  None = None
SPECIFICATION FairSpec
CHECK_DEADLOCK FALSE
PROPERTIES NamedFollowsProduction
