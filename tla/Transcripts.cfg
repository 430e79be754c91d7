SPECIFICATION FairSpec
CONSTANTS
  Conversations = {c1, c2}
  MAX_PENDING_OPERATIONS = 1
  MAX_DIRTY_CONVERSATIONS = 1
  MaxMutations = 3
  MaxFailures = 2
  MaxExits = 1
INVARIANTS
  QuietMeansCurrent
  NothingIsReplayed
PROPERTIES
  ImplementsTranscriptMirror
  EventuallyMirrored
CHECK_DEADLOCK FALSE
