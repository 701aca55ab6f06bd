\* Two hosts, with or without long names, a file, and two commands that may write
\* more than the buffer takes.
CONSTANTS
    Commands <- MCCommands
    Newline = "nl"
    Letter = "x"
    BufSize = 2
    PipeSize = 2
    MaxOutput = 3
    Empty = "<EMPTY>"
    Failed = "<popen failed>"
    Lines = {"a", "b"}
    NoFile = "<NOTFOUND>"
    NoLine = "<EMPTY>"
    Hosts <- MCHosts
    MaxSeq = 2
SPECIFICATION FairSpec
INVARIANTS
    TypeOK
    CommandShown
    NoChildLeft
    FileShownWasThere
    RoundBefore
PROPERTY ReportsRecur
