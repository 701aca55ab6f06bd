\* Each mode; all faults of the connection.
CONSTANTS
    Server = "bsc"
    Clients = {"bsc"}
    Var = "location-state"
    Vars = {"location-state"}
    Known <- MCKnown
    Words <- MCWords
    EmptyWord <- MCEmptyWord
    Values <- MCValues
    NoHandle = NoHandle
    NoValue = NoValue
    MaxId = 1
    MaxWire = 2
    MaxTraps = 3
SPECIFICATION FairSpec
INVARIANTS
    TypeOK
    ExitZeroIsTrue
    FailureHasReason
    MonitorPrintsAll
PROPERTY ToolEnds
CHECK_DEADLOCK FALSE
