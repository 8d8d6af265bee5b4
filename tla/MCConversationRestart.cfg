CONSTANTS
  Requests = {r1}
  Messages = {m1}
  None = None
  MaxStops = 0
  MaxCrashes = 1
SPECIFICATION FairSpec
PROPERTIES AwaitingEnds
CHECK_DEADLOCK FALSE
