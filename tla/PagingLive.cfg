SPECIFICATION FairSpec
CONSTANTS
    c1 = c1
    c2 = c2
    h1 = h1
    h2 = h2
    Channels <- TwoChannels
    Bound <- OneChannel
    Ladder <- TwoRungs
    HasPolicy = TRUE
    RepeatCount = 1
    NotifyRecovery = TRUE
    Manual = FALSE
    PagingEnabled = TRUE
    Flapping = TRUE
    Handlers <- OneHandler
    InOrder = FALSE
    SignalCap = 2
    Lossy = TRUE
    EnvEvents = {"window"}
    MaxEnv = 2
    MaxReopens = 0
    MaxFaults = 1
    MaxRepeats = 0
    MaxReminders = 1
PROPERTIES
    LadderWalked
    LostOpenRecovered
    HeldIsPaged
    ResolvedSignalClears
CHECK_DEADLOCK FALSE
