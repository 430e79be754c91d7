SPECIFICATION Spec
CONSTANTS
  Null = Null
  Turns = {t1, t2}
  Convs = {c1}
  Kinds = {"message"}
  MaxStops = 0
  MaxCrashes = 1
INVARIANTS
  DrainSeesTurns
CHECK_DEADLOCK FALSE
