SPECIFICATION Spec
CONSTANTS
    None = None
    Groups <- TwoGroups
    Subs <- NoSubs
    InitialGroups <- TwoGroups
    InitialLimit = 2
    ShareCount = 2
    Nets <- SmallNets
    CostPerUse = 1
    Full = 2
    MinimumChange = 1
    Tolerance = 0
    UsageDrop = 0
    Jitter <- NoJitter
    CycleLength = 1
    Moves <- NoMoves
    StaleForms = FALSE
    MaxNow = 0
    MaxCycle = 0
    MaxEdits = 2
    MaxAborts = 1
INVARIANTS
    RaisesAreInLedger
    GrantsWithinCapacity
    IssuedLimitsKept
CHECK_DEADLOCK FALSE
