\* What must happen in the end, one component after the other; the constants
\* from Requests on are the session's.
SPECIFICATION Progress
CONSTANTS
    None = None
    Root = Root
    Body = Body
    Nobody = Nobody
    Requests <- Request
    Offers <- SomeOffers
    MaxPairs = 3
    MaxFaults = 1
INVARIANTS
    TypesOK
PROPERTIES
    SessionSafe
    DialogsHold
    ServersProgress
    BrowserProgress
CHECK_DEADLOCK FALSE
