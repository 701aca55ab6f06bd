\* Every command: a walk over a list meets a freed object.
CONSTANTS
    Nobody = Nobody
    Names = {n1, n2}
    Addrs = {a1, a2}
    Vars = {v1, v2}
    MaxObjects = 5
SPECIFICATION Spec
INVARIANT ReadsOnlyLive
CHECK_DEADLOCK FALSE
