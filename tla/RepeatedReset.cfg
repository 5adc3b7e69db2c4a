SPECIFICATION FairSpec
CONSTANTS
    None = None
    Groups <- OneGroup
    Subs <- OneSub
    InitialGroups <- OneGroup
    InitialLimit = 2
    ShareCount = 2
    Nets <- NoNets
    CostPerUse = 1
    Full = 1
    MinimumChange = 1
    Tolerance = 0
    UsageDrop = 0
    Jitter <- NoJitter
    CycleLength = 1
    Moves <- NoMoves
    StaleForms = FALSE
    MaxNow = 1
    MaxCycle = 1
    MaxEdits = 0
    MaxAborts = 1
PROPERTIES
    ResetOnlyOnce
