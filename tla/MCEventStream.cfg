SPECIFICATION FairSpec
CONSTANTS
  Clients = {c1}
  MaxEvents = 3
  OfContract = {1, 2, 3}
  Matching = {1, 3}
  SSE_BROADCAST_CAPACITY = 1
  CATCH_UP_BATCH = 2
  LIMIT = 1
  None = None
  MaxFailures = 1
  MaxOpens = 2
INVARIANTS SentInOrder Gapless
PROPERTIES EventuallySent
CHECK_DEADLOCK FALSE
