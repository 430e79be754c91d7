SPECIFICATION Spec
CONSTANTS
  Null = Null
  Replicas = {r1, r2}
  Convs = {c1}
  MaxTurns = 2
  MaxCrashes = 1
INVARIANTS
  PumpTerminatesItsTurn
CHECK_DEADLOCK FALSE
