CONSTANTS
  Commits = {a, b}
  Requests = {p}
  Threads = {t1, t2}
  Reconciler = reconciler
  NotifyAttempts = 1
  MaxFaults = 0
  None = None
SPECIFICATION FairSpec
CHECK_DEADLOCK FALSE
PROPERTIES PackageFollowsProduction
