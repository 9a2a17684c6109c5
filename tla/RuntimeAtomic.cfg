SPECIFICATION Spec
CONSTANTS
    state = state
    routes = routes
    marker = marker
    a = a
    b = b
    bad = bad
    Stopped = Stopped
    Absent = Absent
    State = state
    Routes = routes
    PrivateRoot = "private"
    Path <- MCPath
    Dir <- MCDir
    Rank <- MCRank
    Content = {a, b, bad}
    ValidRoutes = {a, b}
    MayBeMissing = {}
    Updates <- MCUpdates
    MaxFaults = 2
    MaxCrashes = 2
    RecoverByHand = TRUE
INVARIANTS
    RecoveryTargetIsValid
PROPERTIES
    AllOrNothing
    PublishedIsDurable
