\* ctrl-clients may have the names of sections.  The process may exit or crash.
CONSTANTS
    ClientNames = {"file", "netdev"}
    ClientVars <- MCClientVars
    Items = {"a"}
    MaxLost = 3
SPECIFICATION FairSpec
INVARIANTS
    TypeOK
    SiblingsDiffer
    SectionsUnmixed
    ConfiguredIsPrinted
PROPERTY ReportsRecurUnlessEnded
CHECK_DEADLOCK FALSE
