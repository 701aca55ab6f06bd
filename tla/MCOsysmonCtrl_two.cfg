\* Two ctrl-clients whose values change, the first with two variables of which its
\* server knows one; no bound on faults.
CONSTANTS
    c1 = c1
    c2 = c2
    v1 = v1
    v2 = v2
    NoHandle = NoHandle
    NoValue = NoValue
    Nobody = Nobody
    Clients = {c1, c2}
    Vars = {v1, v2}
    ClientSeq <- MCClientSeq2
    GetVars <- MCGetVars2
    Known <- MCKnownSome
    Words <- MCWords
    EmptyWord <- MCEmptyWord
    Values <- MCTwoValues
    MaxId = 1
    MaxWire = 1
SPECIFICATION FairSpec
INVARIANTS
    TypeOK
    Lockstep
    RepliesMatch
    FramesAligned
    DescriptorsOwned
    SectionsHonest
PROPERTIES
    ReportsCurrentValues
    PollsRecur
    RecoversAlone
