CONSTANTS
  Packages = {p1, p2}
  MaxRounds = 2
  MaxVersions = 3
  MaxOrders = 2
  MaxFaults = 1
  MaxCrashes = 1
SPECIFICATION FairSpec
INVARIANTS TypeOK NoTaskLeft AtMostOnePromotion RestoreIsOwn OutcomeIsTrue
PROPERTIES EndStays ComesToRest
CONSTRAINTS ReleasesAfterReview FirstRoundPublished
CHECK_DEADLOCK FALSE
