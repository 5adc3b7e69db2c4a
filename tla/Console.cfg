\* The components of the console's server and two of its pages, one after the other;
\* the constants from Connections on are the runtime manager's.
SPECIFICATION Console
CONSTANTS
    None = None
    Nothing = Nothing
    Nobody = Nobody
    Connections <- TwoValues
    Memory <- TwoValues
    Old = "old"
    New = "new"
    MaxJobs = 2
    MaxEdits = 1
    MaxFailures = 2
    MaxSaveFailures = 0
    MaxCrashes = 1
INVARIANTS
    TypesOK
    StoreHonest
    SettingsSound
    ReportsShared
    TasksHonest
PROPERTIES
    EngineSound
    ResetsHold
    ListShowsAsked
CHECK_DEADLOCK FALSE
