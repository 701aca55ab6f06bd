\* Every command, in any order.  The file ends at the latest with MaxObjects, or
\* where the behaviour is undefined.
CONSTANTS
    Nobody = Nobody
    Names = {n1, n2}
    Addrs = {a1, a2}
    Vars = {v1, v2}
    MaxObjects = 5
SPECIFICATION Spec
INVARIANTS
    TypeOK
    NamesUnique
    IndexMatchesNode
    AliveAreLinked
PROPERTY ImplementsMap
CHECK_DEADLOCK FALSE
