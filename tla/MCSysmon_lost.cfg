\* What reports leave behind.  The process may exit or crash.
CONSTANTS
    ClientNames = {"bsc"}
    ClientVars <- MCClientVars
    Items = {"a"}
    MaxLost = 3
SPECIFICATION Spec
INVARIANT NoNodeLeft
CHECK_DEADLOCK FALSE
