SPECIFICATION Spec
CONSTANTS
    r1 = r1
    r2 = r2
    r3 = r3
    Regions <- ThreeRegions
    Policies <- Majority
    Confirmations = 1
    MinLookback = 2
    MaxTime = 3
    MaxSilent = 2
    MaxLate = 0
    MaxOps = 0
    MaxFaults = 0
PROPERTIES
    SilenceClosesNothing
CHECK_DEADLOCK FALSE
