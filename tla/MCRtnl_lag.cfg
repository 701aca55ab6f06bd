\* One change in the middle of a dump, then peace.  The process may exit.
CONSTANTS
    Index = {1, 2, 3, 4}
    NameOf <- MCNameOf
    Configured = {"eth0", "eth1"}
    Addrs = {"p"}
    HalfBuffer = 2
    MaxChanges = 1
SPECIFICATION FairSpec
PROPERTY ShownAgain
CHECK_DEADLOCK FALSE
