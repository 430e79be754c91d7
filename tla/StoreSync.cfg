SPECIFICATION FairSpec
CONSTANTS
  Null = Null
  Files = {f1, f2}
  Docs = {f1}
  MaxEdits = 2
  MaxForeign = 1
  MaxFaults = 1
  BadEdits = {2}
INVARIANTS
  LandedMeansStored
PROPERTIES
  ForeignEntriesSurvive
  EveryEditIsStored
CHECK_DEADLOCK FALSE
