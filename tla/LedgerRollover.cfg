SPECIFICATION Spec
CONSTANTS
    None = None
    Groups <- TwoGroups
    Subs <- OneSub
    InitialGroups <- TwoGroups
    InitialLimit = 3
    ShareCount = 2
    Nets <- OneNet
    CostPerUse = 1
    Full = 2
    MinimumChange = 1
    Tolerance = 0
    UsageDrop = 0
    Jitter <- NoJitter
    CycleLength = 1
    Moves <- NoMoves
    StaleForms = FALSE
    MaxNow = 1
    MaxCycle = 1
    MaxEdits = 1
    MaxAborts = 1
INVARIANTS
    TypeOK
    MembersResetAtBaseLimit
CHECK_DEADLOCK FALSE
