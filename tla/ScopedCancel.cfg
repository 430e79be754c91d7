SPECIFICATION Spec
CONSTANTS
  Null = Null
  Replicas = {r1, r2}
  Convs = {c1, c2}
  MaxTurns = 2
  MaxCrashes = 0
INVARIANTS
  ScopedCancelHitsItsConversation
CHECK_DEADLOCK FALSE
