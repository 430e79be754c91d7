SPECIFICATION FairSpec
CONSTANTS
  Sweeps = {w1, w2}
  MaxKept = 1
  MaxRuns = 2
  MaxEvents = 1
PROPERTIES
  SettlesAnyway
CHECK_DEADLOCK FALSE
