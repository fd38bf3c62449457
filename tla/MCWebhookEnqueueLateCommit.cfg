SPECIFICATION EnqueueSpec
CONSTANTS
    Writers = {w1, w2}
    Dispatchers = {d1}
    Subs = {"hook"}
    Kind <- EventKind
    Matches <- MatchAll
    Baseline <- FirstVersion
    Batch = 2
    MaxId = 2
INVARIANTS
    NothingSkipped
