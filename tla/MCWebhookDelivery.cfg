SPECIFICATION FairSpec
CONSTANTS
    Deliveries = {"d1"}
    Upgrades = {"d1"}
    Tasks = {"t1", "t2"}
    Workers = {"w1", "w2"}
    WorkerOf <- OneEach
    MaxAttempts = 2
    FailureThreshold = 1
    MaxFaults = 1
INVARIANTS
    TypeOK
    ClaimsExclusive
    AttemptsBounded
PROPERTIES
    QueueSpec
    DeliveryResolves
CHECK_DEADLOCK FALSE
