SPECIFICATION Spec
CONSTANTS
    None = None
    Groups <- OneGroup
    Subs <- NoSubs
    InitialGroups <- OneGroup
    InitialLimit = 2
    ShareCount = 2
    Nets <- NoNets
    CostPerUse = 1
    Full = 1
    MinimumChange = 1
    Tolerance = 0
    UsageDrop = 0
    Jitter <- NoJitter
    CycleLength = 1
    Moves <- NoMoves
    StaleForms = TRUE
    MaxNow = 1
    MaxCycle = 1
    MaxEdits = 1
    MaxAborts = 0
INVARIANTS
    RedistributionTurnedOff
CHECK_DEADLOCK FALSE
