SPECIFICATION PollerSpec
CHECK_DEADLOCK FALSE
CONSTANTS
    \* Ingestion: one poller that may crash once, and a window of one ledger.
    NumEvents = 3
    LedgerOf <- ThreeEvents
    BadTs = {}
    MaxTip = 3
    PageSize = 2
    RpcWindow = 1
    MaxLag = 0
    Pollers = {p1}
    NoPoller = NoPoller
    StartLedger = 1
    MaxCatchup = 1
    MaxLookback = 3
    ReorgOverlap = 1
    MaxCrashes = 1
    \* Retention: keeps one ledger; one row per DELETE, two per pass.
    Keys = {k}
    retention_ledgers = 1
    spec_version_retention = 1
    BATCH = 1
    MAX_BATCHES = 2
    MaxPolled = 4
    MaxEnqueued = 2
    MaxRedrives = 1
INVARIANTS
    TypeOK
    CursorCovers
    RecoveredRangesComplete
    IngestedNeverOvercounts
PROPERTIES
    CatchesUp
    CursorNeverMovesBack
    PendingKept
    CurrentKept
    WindowHolds
