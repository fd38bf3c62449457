\* Two concurrent calls over three endpoints; two attempts per endpoint.
CONSTANTS
    Callers = {poller, snapshot}
    Poller = poller
    N = 3
    MAX_ATTEMPTS_PER_URL = 2
    max_consecutive_errors = 1
    Base = 1
    Degraded = 5
    MaxBackoff = 2
    ErrorCap = 1
SPECIFICATION LoopSpec
CHECK_DEADLOCK FALSE
INVARIANTS
    ExhaustedMeansTried
    CanFailBack
PROPERTIES
    Recovers
    CallsReturn
