SPECIFICATION FairSpec
CONSTANTS
    NumTargets = 2
    DiffBound = 1
    Agent = TRUE
    MaxChanges = 3
    MaxFaults = 1
INVARIANTS
    TypeOK
    OneLiveEntry
PROPERTIES
    KeepsTime
    Converges
    Stops
CHECK_DEADLOCK FALSE
