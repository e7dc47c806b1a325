SPECIFICATION Spec
CONSTANTS
    c1 = c1
    c2 = c2
    h1 = h1
    h2 = h2
    Channels <- TwoChannels
    Bound <- OneChannel
    Ladder <- TwoRungs
    HasPolicy = TRUE
    RepeatCount = 0
    NotifyRecovery = TRUE
    Manual = FALSE
    PagingEnabled = TRUE
    Flapping = TRUE
    Handlers <- OneHandler
    InOrder = FALSE
    SignalCap = 1
    Lossy = TRUE
    EnvEvents = {"policy", "channel"}
    MaxEnv = 1
    MaxReopens = 1
    MaxFaults = 1
    MaxRepeats = 0
    MaxReminders = 0
INVARIANTS
    TypeOK
    OnePagePerEpisode
    AllClearAnswersAPage
    TimerOnlyTriggered
    RungsInOrder
    HoldReleasedOnce
CHECK_DEADLOCK FALSE
