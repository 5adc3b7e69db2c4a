\* The services beside Sub2API, one after the other; the constants are the gate's.
SPECIFICATION Services
CONSTANTS
    None = None
    Requests <- Arriving
    Sockets <- Socket
    User <- UserOf
    Body <- BodyOf
    Declared <- Declaring
    Streams <- Streaming
    Policies <- SomePolicies
    MaxPolicies = 2
    MaxFailures = 1
    MaxCrashes = 0
INVARIANTS
    TypesOK
    RecordsComplete
    PurgedStaysHidden
    ListFaithful
    CaptureWithinRules
    GateAccounted
PROPERTIES
    NoLostUpdate
    OneResponse
CHECK_DEADLOCK FALSE
