SPECIFICATION FairSpec
CONSTANTS
  Sweeps = {w1, w2}
  MaxKept = 1
  MaxRuns = 2
  MaxEvents = 2
INVARIANTS
  OneTurnAtATime
PROPERTIES
  NoRunIsForgotten
  EndsOnce
  EveryRunEnds
CHECK_DEADLOCK FALSE
