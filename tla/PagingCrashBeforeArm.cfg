SPECIFICATION FairSpec
CONSTANTS
    c1 = c1
    c2 = c2
    h1 = h1
    h2 = h2
    Channels <- TwoChannels
    Bound <- OneChannel
    Ladder <- TwoRungs
    HasPolicy = TRUE
    RepeatCount = 0
    NotifyRecovery = TRUE
    Manual = FALSE
    PagingEnabled = TRUE
    Flapping = FALSE
    Handlers <- OneHandler
    InOrder = FALSE
    SignalCap = 2
    Lossy = FALSE
    EnvEvents = {}
    MaxEnv = 0
    MaxReopens = 0
    MaxFaults = 1
    MaxRepeats = 0
    MaxReminders = 0
PROPERTIES
    LadderSurvivesFault
CHECK_DEADLOCK FALSE
