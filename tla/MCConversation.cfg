CONSTANTS
  Requests = {r1, r2}
  Messages = {m1, m2}
  None = None
  MaxStops = 1
  MaxCrashes = 1
SPECIFICATION FairSpec
INVARIANTS LockIsAccountedFor RunningIsWritten DroppedIsOver
PROPERTIES EndStays WaiterLeaves
CHECK_DEADLOCK FALSE
