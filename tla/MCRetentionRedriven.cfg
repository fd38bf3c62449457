\* A window of one ledger, one row per DELETE, two DELETEs per pass.
CONSTANTS
    Keys = {k}
    retention_ledgers = 1
    spec_version_retention = 1
    BATCH = 1
    MAX_BATCHES = 2
    MaxPolled = 4
    MaxEnqueued = 2
    MaxRedrives = 1
SPECIFICATION RetentionSpec
CHECK_DEADLOCK FALSE
PROPERTY PendingUntouched
