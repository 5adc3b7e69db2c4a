SPECIFICATION Spec
CONSTANTS
    None = None
    Groups <- OneGroup
    Subs <- NoSubs
    InitialGroups <- OneGroup
    InitialLimit = 2
    ShareCount = 2
    Nets <- OneNet
    CostPerUse = 1
    Full = 2
    MinimumChange = 1
    Tolerance = 0
    UsageDrop = 0
    Jitter <- NoJitter
    CycleLength = 1
    Moves <- Shifts
    StaleForms = FALSE
    MaxNow = 0
    MaxCycle = 0
    MaxEdits = 0
    MaxAborts = 1
INVARIANTS
    CarriedWithinCapacity
