SPECIFICATION FairSpec
CONSTANTS
    MaxAttempts = 3
    MaxRows = 1
    MaxOps = 2
    MaxEdits = 2
    MaxFaults = 2
INVARIANTS
    TypeOK
    SendsBounded
    GivesUpLate
    StaleSendsBounded
PROPERTIES
    EverySettled
CHECK_DEADLOCK FALSE
