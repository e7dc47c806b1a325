SPECIFICATION FairSpec
CONSTANTS
    c1 = c1
    c2 = c2
    h1 = h1
    h2 = h2
    Channels <- OneChannel
    Bound <- OneChannel
    Ladder <- NoLadder
    HasPolicy = FALSE
    RepeatCount = 0
    NotifyRecovery = FALSE
    Manual = FALSE
    PagingEnabled = TRUE
    Flapping = FALSE
    Handlers <- OneHandler
    InOrder = TRUE
    SignalCap = 2
    Lossy = FALSE
    EnvEvents = {}
    MaxEnv = 0
    MaxReopens = 1
    MaxFaults = 0
    MaxRepeats = 0
    MaxReminders = 0
PROPERTIES
    ReopenIsPaged
CHECK_DEADLOCK FALSE
