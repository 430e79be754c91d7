SPECIFICATION Spec
CONSTANTS
  Null = Null
  Turns = {t1, t2, t3}
  Convs = {c1, c2}
  Kinds = {"message", "compact", "clear"}
  MaxStops = 1
  MaxCrashes = 2
SYMMETRY Symmetry
INVARIANTS
  TypeOK
  OneWriter
  TurnsAndCommandsExclude
  EndsWithOneVerdict
  StopIsDurable
  InterruptedOnce
CHECK_DEADLOCK FALSE
