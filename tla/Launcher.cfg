SPECIFICATION FairSpec
CONSTANTS
  Movers = {m1, m2}
  MaxSpawns = 2
INVARIANTS
  NoOrphan
  QuietWhileMoved
  OneRuntimeButStrays
  QuietAtFinalSync
PROPERTIES
  NobodyWaitsForEver
CHECK_DEADLOCK FALSE
