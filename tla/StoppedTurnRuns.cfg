SPECIFICATION Spec
CONSTANTS
  Null = Null
  Turns = {t1, t2}
  Convs = {c1, c2}
  Kinds = {"message"}
  MaxStops = 1
  MaxCrashes = 0
PROPERTIES
  StoppedTurnIsNotPrompted
CHECK_DEADLOCK FALSE
