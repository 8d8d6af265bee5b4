CONSTANTS
  u1 = u1
  chat = chat
  target = target
  other = other
  None = None
  Users = {u1}
  Existing = {u1}
  Legacy <- MCLegacy
  Operations = {chat, target}
  Owner <- MCOwner
  Calls = {c1}
  Costs = {1, 2}
  Scale = 2
  Budgets = {1}
  Requests = {}
  Changes = {}
  Codes = {}
  Grants = {}
  Targets = {target}
  Thread <- MCThread
  d1 = d1
  d2 = d2
  Copies = {d1}
  KeepFinished = 1
  Unreadable = TRUE
  MaxFaults = 1
  MaxCrashes = 1
SPECIFICATION Spec
PROPERTIES ReceiptDecides
