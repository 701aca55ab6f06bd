\* A frame may stay incomplete while its connection stays up.
CONSTANTS
    c1 = c1
    c2 = c2
    v1 = v1
    v2 = v2
    NoHandle = NoHandle
    NoValue = NoValue
    Nobody = Nobody
    Clients = {c1}
    Vars = {v1, v2}
    ClientSeq <- MCClientSeq1
    GetVars <- MCGetVars1
    Known <- MCKnownAll
    Words <- MCWords
    EmptyWord <- MCEmptyWord
    Values <- MCOneValue
    MaxId = 1
    MaxWire = 1
SPECIFICATION StallingSpec
PROPERTY PollsRecur
