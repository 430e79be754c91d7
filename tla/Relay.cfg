SPECIFICATION FairSpec
CONSTANTS
  Null = Null
  Replicas = {r1, r2}
  Convs = {c1}
  MaxTurns = 2
  MaxCrashes = 1
INVARIANTS
  OneTurnPerAgent
  OnlyDeadTurnsAreHealed
PROPERTIES
  NoTurnRunsForEver
CHECK_DEADLOCK FALSE
