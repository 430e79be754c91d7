SPECIFICATION Spec
CONSTANTS
  Null = Null
  Turns = {t1, t2}
  Convs = {c1}
  Kinds = {"message"}
  MaxStops = 1
  MaxCrashes = 0
INVARIANTS
  IdleIsNotRunning
CHECK_DEADLOCK FALSE
