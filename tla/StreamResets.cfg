SPECIFICATION FairSpec
CONSTANTS
  Null = Null
  Capacity = 3
  Turns = {t1}
  EventTypes = {"text", "done"}
  MaxFrames = 4
  MaxDrops = 0
  MaxResets = 1
INVARIANTS
  TypeOK
  WindowIsSuffix
  SearchIsExact
PROPERTIES
  LiveSubscriberOutlivesReset
CHECK_DEADLOCK FALSE
