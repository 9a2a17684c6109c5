SPECIFICATION Spec
CONSTANTS
    MaxOps = 3
    MaxRotations = 1
    MaxFaults = 2
    MaxKills = 1
    LateFaults = FALSE
CHECK_DEADLOCK FALSE
INVARIANTS
    SuccessIsInForce
    FailureRestores
    ClosedStaysClosed
PROPERTIES
    PageSurvivesRotation
