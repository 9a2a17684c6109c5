SPECIFICATION Spec
SYMMETRY Symmetry
CHECK_DEADLOCK FALSE
CONSTANTS
    c1 = c1
    c2 = c2
    boss = boss
    amy = amy
    bob = bob
    n1 = n1
    n2 = n2
    None = None
    Client = {c1, c2}
    Email = {boss, amy, bob}
    OwnerEmail = boss
    Nodes = {n1, n2}
    Keep = 1
    OwnerChanges = {"rename", "disable"}
    Returning = TRUE
    MaxOperations = 3
    MaxChanges = 1
    MaxFaults = 2
    MaxKills = 1
INVARIANTS
    PublishedProvidersAreServed
    SyncPublishesEveryone
    RevokedStaysRevoked
PROPERTIES
    AirportAddressSurvives
    FailedUserKeepsLinks
