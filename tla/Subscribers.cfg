SPECIFICATION FairSpec
CONSTANTS
    Subs = {"ann", "bob"}
    Updates = {"resolved"}
    Final = "resolved"
    Replicas = {"blue", "green"}
    MaxAttempts = 2
    MaxEdits = 1
    MaxFaults = 1
INVARIANTS
    TypeOK
    DuplicatesExplained
PROPERTIES
    EveryUpdateSettles
CHECK_DEADLOCK FALSE
