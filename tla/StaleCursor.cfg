SPECIFICATION Spec
CONSTANTS
  Null = Null
  Capacity = 2
  Turns = {t1}
  EventTypes = {"user", "text", "done"}
  MaxFrames = 3
  MaxDrops = 1
  MaxResets = 1
INVARIANTS
  StaleCursorResyncs
CHECK_DEADLOCK FALSE
