SPECIFICATION FairSpec
CONSTANTS
    MaxResults = 4
    ChanCap = 1
    BatchSize = 2
    BufferCap = 3
    MaxFlushRetries = 3
    INGEST_MAX_BATCH = 2
    Replicas = {"blue", "green"}
    BootTtl = "boot"
    PlanTtls = {"plan"}
    Doubtful = {2}
    MaxFaults = 1
    MaxChanges = 1
INVARIANTS
    TypeOK
    AckedIsStored
    StoredBounded
PROPERTIES
    EveryResultSettles
CHECK_DEADLOCK FALSE
