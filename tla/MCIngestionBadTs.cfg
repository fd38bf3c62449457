SPECIFICATION Spec
CONSTANTS
    NumEvents = 4
    LedgerOf <- FourInThree
    BadTs = {2}
    MaxTip = 3
    PageSize = 2
    RpcWindow = 2
    MaxLag = 0
    Pollers = {p1}
    NoPoller = NoPoller
    StartLedger = 1
    MaxCatchup = 3
    MaxLookback = 3
    ReorgOverlap = 1
    MaxCrashes = 1
INVARIANTS
    CursorCovers
