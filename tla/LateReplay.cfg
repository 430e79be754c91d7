SPECIFICATION Spec
CONSTANTS
  Conversations = {c1}
  MAX_PENDING_OPERATIONS = 2
  MAX_DIRTY_CONVERSATIONS = 1
  MaxMutations = 3
  MaxFailures = 1
  MaxExits = 0
PROPERTY
  NoOpReplayedOverSnapshot
CHECK_DEADLOCK FALSE
