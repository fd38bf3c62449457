SPECIFICATION UpkeepSpec
CHECK_DEADLOCK FALSE
CONSTANTS
    \* Backfill: two events share a ledger, so that a page can end inside it,
    \* and one of them has no usable timestamp.
    NumEvents = 3
    LedgerOf <- ThreeEvents
    BadTs = {2}
    MaxTip = 2
    PageSize = 2
    RpcWindow = 2
    MaxLag = 0
    Pollers = {p1}
    NoPoller = NoPoller
    StartLedger = 0
    MaxCatchup = 3
    MaxLookback = 3
    ReorgOverlap = 0
    MaxCrashes = 0
    BackfillFrom = {0, 1}
    \* SpecHistory: the poller and the API; one change of the contract.
    Procs = {poller}
    Apis = {api}
    Hashes = {h1, h2, h3}
    Partial = {h2}
    Unparsable = {h3}
    None = None
    MaxLedger = 2
    MaxFaults = 1
    MaxRestarts = 1
    \* WebhookEnqueue: an event and an upgrade subscription.
    Writers = {w1}
    Dispatchers = {d1}
    Subs = {"hook", "watch"}
    Kind <- TwoKinds
    Matches <- MatchAll
    Baseline <- FirstVersion
    Batch = 1
    MaxId = 2
INVARIANTS
    BackfillDoneMeansStored
    LinkedHistory
    EnqueueTypeOK
    NothingSkipped
PROPERTIES
    HistoryHeals
    SnapshotsHeal
    WatermarkOnlyForward
    EventuallyEnqueued
