SPECIFICATION FairSpec
CONSTANTS
  Serves = {s1, s2}
  MaxLogins = 2
  MaxFlights = 3
INVARIANTS
  OneExchange
  RefreshingNeverSpoils
PROPERTIES
  SignsOutOnlyTheDead
  EveryServeIsAnswered
CHECK_DEADLOCK FALSE
