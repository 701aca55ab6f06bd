\* The tunnel goes down: its last address stays.
CONSTANTS
    Null = Null
    Hosts = {"h1"}
    Chars <- MCChars
    Digits <- MCDigits
    States <- MCStates
    TmpSize = 13
    MaxQueries = 1
    MaxStream = 2
SPECIFICATION Spec
INVARIANT
    SectionMatchesLine
