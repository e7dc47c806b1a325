SPECIFICATION FairSpec
CONSTANTS
    t1 = t1
    t2 = t2
    t3 = t3
    t4 = t4
    k1 = k1
    k2 = k2
    Targets <- FourTargets
    Keys <- TwoKeys
    KeyOf <- Tenants
    MaxConcurrent = 2
    PerHostMax = 1
    FailureThreshold = 2
    SuccessThreshold = 3
    HalfOpenMax = 2
    CounterRange = 6
    MaxFlips = 3
INVARIANTS
    TypeOK
    HostCapHeld
    OneProbePerTarget
PROPERTIES
    RecoversOrWedges
CHECK_DEADLOCK FALSE
