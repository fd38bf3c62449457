\* Two rows, one client, no failures: the only disturbance is commit order.
SPECIFICATION FairSpec
CONSTANTS
  Clients = {c1}
  MaxEvents = 2
  OfContract = {1, 2}
  Matching = {1, 2}
  SSE_BROADCAST_CAPACITY = 2
  CATCH_UP_BATCH = 2
  LIMIT = 2
  None = None
  MaxFailures = 0
  MaxOpens = 1
PROPERTY WokenForEveryEvent
CHECK_DEADLOCK FALSE
