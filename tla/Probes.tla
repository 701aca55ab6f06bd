------------------------------- MODULE Probes -------------------------------
(***************************************************************************)
(* The last three parts of a report, as print_nodes of osysmon_main.c      *)
(* calls them: Ping, FileWatch, Shellcmd.  Each of them may keep the one   *)
(* thread of the process waiting.                                          *)
(***************************************************************************)
EXTENDS Ping, FileWatch, Shellcmd

VARIABLES
    stage,      \* "wait" (for the print timer), "ping", "file", "shellcmd", "print"
    reports     \* history: how many reports have been printed, modulo MaxSeq + 1

vars == <<pingVars, fileVars, cmdVars, stage, reports>>

TypeOK ==
    /\ PingTypeOK
    /\ FileTypeOK
    /\ ShellcmdTypeOK
    /\ stage \in {"wait", "ping", "file", "shellcmd", "print"}
    /\ reports \in 0 .. MaxSeq

Init ==
    /\ PingInit
    /\ FileInit
    /\ ShellcmdInit
    /\ stage = "wait"
    /\ reports = 0

PrintNodes ==
    /\ stage = "wait"
    /\ stage' = "ping"
    /\ PingPoll
    /\ UNCHANGED <<fileVars, cmdVars, reports>>

PingReturns ==
    /\ stage = "ping" /\ ping_pc = "off"
    /\ stage' = "file"
    /\ FilePoll
    /\ UNCHANGED <<pingVars, cmdVars, reports>>

FileReturns ==
    /\ stage = "file" /\ file_pc = "off"
    /\ stage' = "shellcmd"
    /\ ShellcmdPoll
    /\ FileForgets
    /\ UNCHANGED <<pingVars, reports>>

ShellcmdReturns ==
    /\ stage = "shellcmd" /\ cmd_pc = "off"
    /\ stage' = "print"
    /\ UNCHANGED <<pingVars, fileVars, cmdVars, reports>>

\* The tree of the report is freed.
DisplayUpdate ==
    /\ stage = "print"
    /\ stage' = "wait"
    /\ reports' = Following(reports)
    /\ ShellcmdForgets
    /\ UNCHANGED <<pingVars, fileVars>>

Process ==
    \/ PrintNodes \/ PingReturns \/ FileReturns \/ ShellcmdReturns \/ DisplayUpdate
    \/ PingSend     /\ UNCHANGED <<fileVars, cmdVars, stage, reports>>
    \/ FileStep     /\ UNCHANGED <<pingVars, cmdVars, stage, reports>>
    \/ ShellcmdStep /\ UNCHANGED <<pingVars, fileVars, stage, reports>>

\* What happens to the file matters only before it is read, and while it is.
Next ==
    \/ Process
    \/ stage \in {"wait", "file"} /\ FileChanges /\ UNCHANGED <<pingVars, cmdVars, stage, reports>>
    \/ CommandStep /\ UNCHANGED <<pingVars, fileVars, stage, reports>>

Spec == Init /\ [][Next]_vars

\* liboping has a timeout; files are read at once; commands end.
FairSpec == Spec /\ WF_vars(Process) /\ CommandFair

-----------------------------------------------------------------------------
(* Properties.                                                             *)

\* What is shown for a command is what this very run of it wrote, in whatever
\* pieces it came, cut off where the buffer ends (osysmon_shellcmd.c:89-105).
CommandShown ==
    \A n \in DOMAIN cmd_shown :
        \/ n \notin DOMAIN outputs /\ cmd_shown[n] = Failed
        \/ n \in DOMAIN outputs /\ cmd_shown[n] = ValueOf(AtMost(BufSize, outputs[n]))

\* Commands run one at a time, and none is left behind as a zombie when its value
\* has been taken, however it and what it left in the background end.
NoChildLeft == cmd_pc \notin {"fread", "pclose"} => child = "none"

\* What is shown for a file was the first line at its path at some moment of this
\* poll, also when the file is replaced or rewritten between fopen and fgets
\* (osysmon_file.c:77-82).
FileShownWasThere == stage = "file" /\ file_pc = "off" => file_shown \in window

\* A report shows of each host the round before: as many pings as there were reports
\* (osysmon_ping.c:259).  With a name that cannot be had, no host is pinged at all.
RoundBefore ==
    stage = "print" =>
        \A h \in DOMAIN ping_shown :
            ping_shown[h].seq = IF Nameable = HostNames THEN reports ELSE 0

\* "Prints on screen once per second" (debian/control:27): no command, however much it
\* writes and whatever it leaves in the background, keeps reports from going on, as
\* long as commands end.
ReportsRecur == []<>(stage = "print")
=============================================================================
