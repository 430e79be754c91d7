SPECIFICATION FairSpec
CONSTANTS
  Null = Null
  Turns = {t1, t2}
  Convs = {c1, c2}
  Kinds = {"message", "clear"}
  MaxStops = 1
  MaxCrashes = 1
PROPERTIES
  EveryTurnEnds
  EveryTurnIsAnswered
CHECK_DEADLOCK FALSE
