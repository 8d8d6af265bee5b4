CONSTANTS
  Isolated = {i1}
  Owned = {w1,w2}
  None = None
  MaxRestarts = 2
SPECIFICATION FairSpec
INVARIANTS OneWriter OneExecutor VerdictIsSound
PROPERTIES VerdictStays StopEnds
CHECK_DEADLOCK FALSE
CONSTRAINT KindsApart
