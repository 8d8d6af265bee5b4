CONSTANTS
  Commits = {a, b}
  Requests = {p, q}
  Threads = {t1}
  Reconciler = reconciler
  NotifyAttempts = 2
  MaxFaults = 1
  None = None
SYMMETRY Symmetry
SPECIFICATION Spec
INVARIANTS OnlyReleased
PROPERTIES ActivatedIsProduction ImplementsRegister
CHECK_DEADLOCK FALSE
