SPECIFICATION Spec
CONSTANTS
    MaxReleases = 3
    Keep = 1
    MaxTroubles = 3
CHECK_DEADLOCK FALSE
INVARIANTS
    CurrentIsIntact
    FailureLeavesNothing
