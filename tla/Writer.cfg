SPECIFICATION FairSpec
CONSTANTS
    r1 = r1
    r2 = r2
    r3 = r3
    Regions <- TwoRegions
    Policies <- AnyOrCount
    Confirmations = 2
    MinLookback = 1
    MaxTime = 4
    MaxSilent = 1
    MaxLate = 1
    MaxOps = 2
    MaxFaults = 1
INVARIANTS
    TypeOK
    OneOpenPerOrigin
    EvidenceBacked
PROPERTIES
    ResolvedStaysResolved
    OutageOpens
    RecoveryCloses
CHECK_DEADLOCK FALSE
