CONSTANTS
  u1 = u1
  chat = chat
  target = target
  other = other
  None = None
  Users = {u1}
  Existing = {u1}
  Legacy <- MCLegacy
  Operations = {chat, target, other}
  Owner <- MCOwner
  Calls = {c1}
  Costs = {2}
  Scale = 2
  Budgets = {1}
  Requests = {}
  Changes = {}
  Codes = {}
  Grants = {}
  Targets = {target}
  Thread <- MCThread
  d1 = d1
  d2 = d2
  Copies = {d1, d2}
  KeepFinished = 1
  Unreadable = FALSE
  MaxFaults = 1
  MaxCrashes = 1
SPECIFICATION Spec
INVARIANTS StatusIsEarned SavedResultIsCharged StartedOnce LiveRunsStayOpen StopWins
PROPERTIES ReceiptDecides ImplementsLedger
SYMMETRY Symmetry
CONSTRAINTS OtherEvicts SentAgainAtOnce
