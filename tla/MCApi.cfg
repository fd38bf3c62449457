\* Two requests, one key, two clients; a minute of three ticks; three rows in
\* pages of up to two; three secrets.
SPECIFICATION ApiSpec
CONSTANTS
  None = None
  Requests = {r1, r2}
  k1 = k1
  Keys = {k1}
  NoKey = NoKey
  i1 = i1
  i2 = i2
  Ips = {i1, i2}
  Arrivals <- MCArrivals
  scopes <- MCScopes
  expires_at <- MCExpires
  require_auth = TRUE
  rpc_require_auth = FALSE
  ttl = 2
  neg_ttl = 1
  Capacity = 1
  max_concurrent_per_ip = 1
  MAX_TRACKED_IPS = 2
  StaleAfter = 1
  AUDIT_QUEUE_CAPACITY = 1
  AUDIT_BATCH_ROWS = 2
  MaxTime = 3
  MaxArrivals = 3
  Identities = {id1, id2}
  RedisIdentities = {id1}
  Tasks = {p1, p2}
  limit_per_min = 2
  MINUTE = 3
  PerShard = 1
  fail_mode = "Open"
  MaxMinutes = 5
  Hashes = {h1, h2}
  Sources = {s1}
  MAX_ENTRIES = 1
  MaxWrites = 2
  Ids = {1, 2, 3}
  Ranks = {1, 2}
  Limits = {0, 1, 9}
  max_limit = 2
  MaxChanges = 2
  Addrs = {a, b}
  junk = junk
  balancer = lb
  front = fr
  Depths = {0, 1, 2}
  SiblingHops = {0, 1}
  MaxLines = 2
  MaxEntries = 2
  MAX_BODY_BYTES = 1
  max_response_bytes = 2
  MaxBytes = 3
  MAX_GRACE_SECONDS = 2
  MaxGrace = 3
  tolerance = 1
  MaxSkew = 1
  MaxSecrets = 3
  MaxNow = 4
  History <- MCHistory
  Queries <- MCQueries
  Lower <- MCLower
  Seconds <- MCSeconds
  Span <- MCSpan
  statsNow = 9
  LEDGER_SPAN = 4
  MAX_BUCKETS = 2
INVARIANTS
  AdmissionSafe
  LimitsHonest
  ReadsCurrent
  QueriesExact
  ProxyHonest
  SignaturesHonest
PROPERTIES
  LagBounded
CHECK_DEADLOCK FALSE
