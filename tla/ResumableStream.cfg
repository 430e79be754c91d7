SPECIFICATION FairSpec
CONSTANTS
  Null = Null
  Capacity = 2
  Turns = {t1}
  EventTypes = {"user", "text", "done"}
  MaxFrames = 5
  MaxDrops = 2
  MaxResets = 0
INVARIANTS
  ViewIsServerState
PROPERTIES
  ImplementsReliableStream
  EventuallyCurrent
CHECK_DEADLOCK FALSE
