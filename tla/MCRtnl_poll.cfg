\* Links and addresses change during the polls.  The process may exit.
CONSTANTS
    Index = {1, 2, 3, 4}
    NameOf <- MCNameOf
    Configured = {"eth0", "eth1"}
    Addrs = {"p"}
    HalfBuffer = 1
    MaxChanges = 3
SPECIFICATION FairSpec
INVARIANTS
    TypeOK
    RecvNeverHangs
    ShownCoexisted
    ShownHeld
    CompleteOrFailed
PROPERTY PollsEnd
CHECK_DEADLOCK FALSE
