SPECIFICATION Spec
CONSTANTS
    None = None
    Groups <- OneGroup
    Subs <- TwoSubs
    InitialGroups <- OneGroup
    InitialLimit = 2
    ShareCount = 2
    Nets <- NoNets
    CostPerUse = 1
    Full = 1
    MinimumChange = 1
    Tolerance = 1
    UsageDrop = 0
    Jitter <- SmallJitter
    CycleLength = 3
    Moves <- NoMoves
    StaleForms = FALSE
    MaxNow = 6
    MaxCycle = 2
    MaxEdits = 0
    MaxAborts = 1
INVARIANTS
    ProgressIsReal
    OneEventPerWindow
PROPERTIES
    EventClosesComplete
