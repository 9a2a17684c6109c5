SPECIFICATION PortalFairSpec
CONSTANTS
    Figures = {"traffic", "versions", "provider", "history", "speeds"}
    MaxTime = 7
    MaxTroubles = 2
    TrafficTtl = 2
    RunningInterval = 1
    CheckInterval = 3
    UsageTtl = 1
    Accounts = {"a", "b"}
    MonthLength = 5
    ResetDays = {2, 3, 4}
    MaxGap = 2
    MaxSamples = 4
    MaxUsed = 1
    Sessions = {"s1", "s2"}
    Viewers = {"v1", "v2"}
    MaxSessions = 1
    MaxViewers = 2
    Lease = 1
    Cooldown = 2
    Pause = 1
    MaxPending = 1
CHECK_DEADLOCK FALSE
INVARIANTS
    AnswersAreRecent
    ChecksAreDaily
    UsageIsOfTheAccount
    SpeedsAreLive
    PasswordIsSentOnce
PROPERTIES
    CycleIsCorrectedOnce
    DesertedMeansClosed
