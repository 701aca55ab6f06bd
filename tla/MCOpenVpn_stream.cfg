\* Reads that end anywhere, also within a field; lost connections; restarts.
CONSTANTS
    Null = Null
    Hosts = {"h1"}
    Chars <- MCChars
    Digits <- MCDigits
    States <- MCStates
    TmpSize = 13
    MaxQueries = 1
    MaxStream = 2
SPECIFICATION FairSpec
INVARIANTS
    TypeOK
    OnlyFromThisConnection
    ConnectedIffUp
PROPERTY
    StatusConverges
