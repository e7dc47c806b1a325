SPECIFICATION FairSpec
CONSTANTS
    Agents = {"remote", "inproc"}
    Local = {"inproc"}
    Tests = {"test"}
    CheckNows = {"now"}
    Firsts = {"first"}
    MaxQueue = 2
    Limit = 2
    MaxFaults = 1
INVARIANTS
    TypeOK
    NoSleepOverWork
PROPERTIES
    CheckNowLands
CHECK_DEADLOCK FALSE
