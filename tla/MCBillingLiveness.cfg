CONSTANTS
  u1 = u1
  chat = chat
  target = target
  other = other
  None = None
  Users = {u1}
  Existing = {u1}
  Legacy <- MCLegacy
  Operations = {chat, target}
  Owner <- MCOwner
  Calls = {}
  Costs = {2}
  Scale = 2
  Budgets = {1}
  Requests = {r1}
  Changes <- MCChanges
  Codes = {}
  Grants = {}
  Targets = {target}
  Thread <- MCThread
  d1 = d1
  d2 = d2
  Copies = {d1}
  KeepFinished = 1
  Unreadable = TRUE
  MaxFaults = 1
  MaxCrashes = 1
SPECIFICATION FairSpec
PROPERTIES SettledEventually StopEnds
CONSTRAINT AdjustedUndisturbed
