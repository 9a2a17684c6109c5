SPECIFICATION FairSpec
CHECK_DEADLOCK FALSE
CONSTANTS
    Request = {"r1", "r2"}
    MaxRows = 2
    MaxTasks = 2
    MaxOthers = 1
    MaxStops = 2
INVARIANTS
    AppliedOnce
PROPERTIES
    OnlyAuthorizedEffects
    TasksAreResolved
