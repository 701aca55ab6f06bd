------------------------------ MODULE Shellcmd ------------------------------
(***************************************************************************)
(* osysmon_shellcmd.c: each poll runs the configured commands one after    *)
(* the other with popen() and reads what they write into a buffer.         *)
(*                                                                         *)
(* External: stdio, the pipe and the command.  The command may leave a     *)
(* process in the background that holds the pipe after the command itself  *)
(* has ended; and it inherits that SIGPIPE is ignored (osysmon_main.c:253),*)
(* so it notices a closed pipe by an error only.                           *)
(***************************************************************************)
EXTENDS Naturals, Sequences

CONSTANTS
    Commands,   \* g_oss->shellcmds
    Newline,    \* the byte at the end of a line
    Letter,     \* any other byte
    BufSize,    \* bytes the buffer takes: sizeof(buf) - 1
    PipeSize,   \* bytes the pipe takes
    MaxOutput,  \* bound on what a command writes
    Empty,      \* "<EMPTY>"
    Failed      \* "<popen failed>"

ASSUME ShellcmdAssumption ==
    /\ Commands \in Seq(STRING)
    /\ \A i, j \in 1 .. Len(Commands) : Commands[i] = Commands[j] => i = j
    /\ BufSize \in Nat \ {0} /\ PipeSize \in Nat \ {0}
    /\ MaxOutput \in Nat

VARIABLES
    cmd_pc,     \* "off", "popen", "fread", "pclose"
    cmd_at,     \* position in Commands
    buf,        \* what has been read, up to p
    pipe,       \* written, not yet read
    child,      \* the command: "none", "running", "ended" (not waited for)
    writer,     \* who holds the pipe: "none", "busy", "writing" (in write()), "closed"
    cmd_shown,  \* cmd_shown[n]: the value of command n in the section of the report
    wrote,      \* history: all this command has written until its reader went away
    outputs     \* history: outputs[n]: the same for the commands of this poll

cmdVars == <<cmd_pc, cmd_at, buf, pipe, child, writer, cmd_shown, wrote, outputs>>

Byte == {Newline, Letter}
CmdNames == {Commands[i] : i \in 1 .. Len(Commands)}
NoCommands == [n \in {} |-> <<>>]

ShellcmdTypeOK ==
    /\ cmd_pc \in {"off", "popen", "fread", "pclose"}
    /\ cmd_at \in 1 .. Len(Commands) + 1
    /\ buf \in Seq(Byte) /\ Len(buf) <= BufSize
    /\ pipe \in Seq(Byte) /\ Len(pipe) <= PipeSize
    /\ child \in {"none", "running", "ended"}
    /\ writer \in {"none", "busy", "writing", "closed"}
    /\ DOMAIN cmd_shown \subseteq CmdNames
    /\ wrote \in Seq(Byte) /\ Len(wrote) <= MaxOutput

ShellcmdInit ==
    /\ cmd_pc = "off"
    /\ cmd_at = 1
    /\ buf = <<>> /\ pipe = <<>> /\ wrote = <<>>
    /\ child = "none" /\ writer = "none"
    /\ cmd_shown = NoCommands /\ outputs = NoCommands

-----------------------------------------------------------------------------
(* The command.                                                            *)

CommandVars == <<cmd_pc, cmd_at, buf, cmd_shown, outputs>>

\* write() waits for room in the pipe, or fails as nobody will read it.
StartWriting ==
    /\ writer = "busy"
    /\ Len(wrote) < MaxOutput
    /\ writer' = "writing"
    /\ UNCHANGED <<CommandVars, pipe, child, wrote>>

Write(b) ==
    /\ writer = "writing"
    /\ cmd_pc = "fread"
    /\ Len(pipe) < PipeSize
    /\ pipe' = Append(pipe, b)
    /\ wrote' = Append(wrote, b)
    /\ writer' = "busy"
    /\ UNCHANGED <<CommandVars, child>>

WriteFails ==
    /\ writer = "writing"
    /\ cmd_pc # "fread"
    /\ writer' = "closed"
    /\ UNCHANGED <<CommandVars, pipe, child, wrote>>

\* The command exits, with its output or leaving that to a process in the background.
CommandEnds ==
    /\ child = "running"
    /\ writer # "writing"
    /\ child' = "ended"
    /\ writer' \in {writer, "closed"}
    /\ UNCHANGED <<CommandVars, pipe, wrote>>

OutputEnds ==
    /\ writer = "busy"
    /\ writer' = "closed"
    /\ UNCHANGED <<CommandVars, pipe, child, wrote>>

-----------------------------------------------------------------------------
(* The process.                                                            *)

ShellcmdPoll ==
    /\ cmd_pc = "off"
    /\ cmd_pc' = "popen"
    /\ cmd_at' = 1
    /\ cmd_shown' = NoCommands
    /\ outputs' = NoCommands
    /\ UNCHANGED <<buf, pipe, child, writer, wrote>>

ShellcmdShows(n, text) ==
    cmd_shown' = [m \in DOMAIN cmd_shown \cup {n} |-> IF m = n THEN text ELSE cmd_shown[m]]

Popen ==
    /\ cmd_pc = "popen"
    /\ cmd_at <= Len(Commands)
    /\ \/ /\ cmd_pc' = "fread"
          /\ buf' = <<>> /\ pipe' = <<>> /\ wrote' = <<>>
          /\ child' = "running" /\ writer' = "busy"
          /\ UNCHANGED <<cmd_at, cmd_shown, outputs>>
       \/ /\ ShellcmdShows(Commands[cmd_at], Failed)
          /\ cmd_at' = cmd_at + 1
          /\ UNCHANGED <<cmd_pc, buf, pipe, child, writer, wrote, outputs>>

AtMost(n, s) == SubSeq(s, 1, IF Len(s) < n THEN Len(s) ELSE n)

FreadTooMuch ==                     \* mutant: sizeof(buf) - 1 for every fread
    /\ cmd_pc = "fread"
    /\ pipe # <<>>
    /\ Len(buf) < BufSize
    /\ buf' = buf \o AtMost(BufSize, pipe)
    /\ pipe' = <<>>
    /\ UNCHANGED <<cmd_pc, cmd_at, child, writer, cmd_shown, wrote, outputs>>
\* What is there is read; what the buffer does not take stays with stdio.
Fread ==
    /\ cmd_pc = "fread"
    /\ pipe # <<>>
    /\ Len(buf) < BufSize
    /\ buf' = AtMost(BufSize, buf \o pipe)
    /\ pipe' = <<>>
    /\ UNCHANGED <<cmd_pc, cmd_at, child, writer, cmd_shown, wrote, outputs>>

FreadEndsEarly ==                   \* mutant: a short read ends the loop
    /\ cmd_pc = "fread"
    /\ buf # <<>> \/ (pipe = <<>> /\ writer = "closed")
    /\ cmd_pc' = "pclose"
    /\ UNCHANGED <<cmd_at, buf, pipe, child, writer, cmd_shown, wrote, outputs>>
\* fread() returns 0 at the end of the output, or because no byte is asked for.
FreadEnds ==
    /\ cmd_pc = "fread"
    /\ \/ pipe = <<>> /\ writer = "closed"
       \/ Len(buf) = BufSize
    /\ cmd_pc' = "pclose"
    /\ UNCHANGED <<cmd_at, buf, pipe, child, writer, cmd_shown, wrote, outputs>>

\* Remove final new line if exists.
Chomped(s) == IF s[Len(s)] = Newline THEN SubSeq(s, 1, Len(s) - 1) ELSE s
ValueOf(s) == IF s = <<>> THEN Empty ELSE Chomped(s)

PcloseNotWaiting ==                 \* mutant: fclose
    /\ cmd_pc = "pclose"
    /\ ShellcmdShows(Commands[cmd_at], ValueOf(buf))
    /\ outputs' = [n \in DOMAIN outputs \cup {Commands[cmd_at]} |->
                        IF n = Commands[cmd_at] THEN wrote ELSE outputs[n]]
    /\ cmd_at' = cmd_at + 1
    /\ cmd_pc' = "popen"
    /\ buf' = <<>> /\ pipe' = <<>> /\ wrote' = <<>>
    /\ writer' = "none"
    /\ UNCHANGED child
PcloseAgain ==                      \* mutant: the same command once more
    /\ cmd_pc = "pclose"
    /\ child = "ended"
    /\ cmd_pc' = "popen"
    /\ buf' = <<>> /\ pipe' = <<>> /\ wrote' = <<>>
    /\ child' = "none" /\ writer' = "none"
    /\ UNCHANGED <<cmd_at, cmd_shown, outputs>>
\* pclose() has closed the pipe, and waits for the command.
Pclose ==
    /\ cmd_pc = "pclose"
    /\ child = "ended"
    /\ ShellcmdShows(Commands[cmd_at], ValueOf(buf))
    /\ outputs' = [n \in DOMAIN outputs \cup {Commands[cmd_at]} |->
                        IF n = Commands[cmd_at] THEN wrote ELSE outputs[n]]
    /\ cmd_at' = cmd_at + 1
    /\ cmd_pc' = "popen"
    /\ buf' = <<>> /\ pipe' = <<>> /\ wrote' = <<>>
    /\ child' = "none" /\ writer' = "none"

ShellcmdPollEnds ==
    /\ cmd_pc = "popen"
    /\ cmd_at > Len(Commands)
    /\ cmd_pc' = "off"
    /\ UNCHANGED <<cmd_at, buf, pipe, child, writer, cmd_shown, wrote, outputs>>

ShellcmdForgets ==
    /\ cmd_shown' = NoCommands
    /\ outputs' = NoCommands
    /\ UNCHANGED <<cmd_pc, cmd_at, buf, pipe, child, writer, wrote>>

ShellcmdStep == Popen \/ Fread \/ FreadEnds \/ Pclose \/ ShellcmdPollEnds
CommandStep ==
    \/ StartWriting \/ WriteFails \/ CommandEnds \/ OutputEnds
    \/ \E b \in Byte : Write(b)

\* The command gets on, ends, and leaves nothing that holds the pipe for ever.
CommandFair ==
    /\ WF_cmdVars(WriteFails)
    /\ WF_cmdVars(\E b \in Byte : Write(b))
    /\ SF_cmdVars(CommandEnds)
    /\ SF_cmdVars(OutputEnds)
=============================================================================
