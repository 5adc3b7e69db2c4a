SPECIFICATION Spec
CONSTANTS
    None = None
    Groups <- OneGroup
    Subs <- OneSub
    InitialGroups <- OneGroup
    InitialLimit = 2
    ShareCount = 2
    Nets <- NoNets
    CostPerUse = 1
    Full = 1
    MinimumChange = 1
    Tolerance = 0
    UsageDrop = 0
    Jitter <- NoJitter
    CycleLength = 2
    Moves <- AllMoves
    StaleForms = FALSE
    MaxNow = 3
    MaxCycle = 1
    MaxEdits = 1
    MaxAborts = 1
INVARIANTS
    RedistributionTurnedOff
CHECK_DEADLOCK FALSE
