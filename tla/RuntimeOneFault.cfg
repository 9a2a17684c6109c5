SPECIFICATION FairSpec
CONSTANTS
    state = state
    routes = routes
    marker = marker
    a = a
    b = b
    bad = bad
    Stopped = Stopped
    Absent = Absent
    State = state
    Routes = routes
    PrivateRoot = "private"
    Path <- MCPath
    Dir <- MCDir
    Rank <- MCRank
    Content = {a, b, bad}
    ValidRoutes = {a, b}
    MayBeMissing = {marker}
    Updates <- MCUpdates
    MaxFaults = 1
    MaxCrashes = 1
    RecoverByHand = FALSE
INVARIANTS
    LoadedMatchesRoutes
PROPERTIES
    FailureKeepsRuntime
    JournalIsResolved
