SPECIFICATION Spec
CONSTANTS
  Movers = {m1}
  MaxSpawns = 2
INVARIANT
  OneRuntimePerDirectory
CHECK_DEADLOCK FALSE
