SPECIFICATION FairSpec
CONSTANTS
  Null = Null
  Files = {f1}
  Docs = {f1}
  MaxEdits = 2
  MaxForeign = 0
  MaxFaults = 1
  BadEdits = {}
PROPERTIES
  PeriodicPassGuaranteesSync
CHECK_DEADLOCK FALSE
