SPECIFICATION Spec
CONSTANTS
    MayPreexist = {"site", "link", "socket", "timer"}
    MaxRuns = 3
    MaxFaults = 2
    MaxKills = 1
CHECK_DEADLOCK FALSE
INVARIANTS
    JournalCoversChanges
    RollbackRestores
    InstalledIsComplete
