SPECIFICATION FairSpec
CONSTANTS
    MaxTransactions = 2
    MaxFaults = 2
    MaxKills = 2
    MaxPowerLosses = 2
    Mixed = FALSE
    LateFaults = FALSE
INVARIANTS
    NeverHalfSwitched
    RollbackPossible
PROPERTIES
    JournalIsResolved
