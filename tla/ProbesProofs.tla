---------------------------- MODULE ProbesProofs ----------------------------
(***************************************************************************)
(* What is proved of Probes for any hosts, commands, lines of a file, and  *)
(* any sizes of the buffer and of the pipe.                                *)
(***************************************************************************)
EXTENDS Probes, SequenceTheorems, TLAPS

\* Which component has the thread.
StageInv ==
    /\ ping_pc # "off" => stage = "ping" /\ Nameable = HostNames
    /\ file_pc # "off" => stage = "file"
    /\ cmd_pc # "off" => stage = "shellcmd"

\* What liboping has of a host is one round ahead once this report has pinged.
RoundInv ==
    /\ \A h \in HostNames :
        known[h].seq =
            IF Nameable # HostNames THEN 0
            ELSE IF stage = "wait" \/ ping_pc = "ping_send" THEN reports
            ELSE Following(reports)
    /\ stage # "wait" => \A h \in DOMAIN ping_shown :
        ping_shown[h].seq = IF Nameable = HostNames THEN reports ELSE 0

\* What may still be read of the file was there during this poll.
FileInv ==
    /\ file_pc # "off" => path \in window
    /\ file_pc = "fgets" <=> behind # "closed"
    /\ behind = "path" => path # NoFile
    /\ behind = "replaced" => held \in window
    /\ FileShownWasThere

\* There is a command exactly while its pipe is open.
ChildInv ==
    /\ cmd_pc \notin {"fread", "pclose"} => child = "none" /\ writer = "none"
    /\ cmd_pc \in {"fread", "pclose"} => cmd_at <= Len(Commands)
    /\ writer = "writing" => Len(wrote) < MaxOutput

\* The buffer holds what was written, up to its end.
BufferInv ==
    /\ cmd_pc = "fread" =>
        IF Len(buf) < BufSize THEN wrote = buf \o pipe
                              ELSE BufSize <= Len(wrote) /\ buf = SubSeq(wrote, 1, BufSize)
    /\ cmd_pc = "pclose" => buf = AtMost(BufSize, wrote)

\* Each command is shown once.
ShownInv ==
    /\ DOMAIN outputs \subseteq {Commands[i] : i \in 1 .. cmd_at - 1}
    /\ DOMAIN cmd_shown \subseteq {Commands[i] : i \in 1 .. cmd_at - 1}
    /\ CommandShown

TypeInv == TypeOK /\ StageInv /\ ChildInv /\ (behind = "path" => path # NoFile)
Inv == TypeInv /\ RoundInv /\ FileInv /\ BufferInv /\ ShownInv

-----------------------------------------------------------------------------
(* Sequences.                                                              *)

\* AtMost is a beginning that is not too long.
LEMMA AtMostType ==
    ASSUME NEW S, NEW s \in Seq(S), NEW n \in Nat
    PROVE  /\ AtMost(n, s) \in Seq(S)
           /\ Len(AtMost(n, s)) = IF Len(s) < n THEN Len(s) ELSE n
           /\ Len(s) <= n => AtMost(n, s) = s
<1> DEFINE k == IF Len(s) < n THEN Len(s) ELSE n
<1>1. k \in Nat /\ k <= Len(s) /\ Len(s) \in Nat
  BY LenProperties
<1>2. \A i \in 1 .. k : s[i] \in S
  BY <1>1, ElementOfSeq
<1>3. /\ SubSeq(s, 1, k) \in Seq(S)
      /\ Len(SubSeq(s, 1, k)) = k
  <2> HIDE DEF k
  <2> QED
    BY <1>1, <1>2, SubSeqProperties
<1>4. Len(s) <= n => SubSeq(s, 1, k) = s
  BY <1>1, SubSeqFull
<1> QED
  BY <1>3, <1>4 DEF AtMost

\* Another element at the end does not change a beginning.
LEMMA BeginningOfAppend ==
    ASSUME NEW S, NEW s \in Seq(S), NEW e \in S, NEW n \in Nat \ {0}, n <= Len(s)
    PROVE  SubSeq(Append(s, e), 1, n) = SubSeq(s, 1, n)
<1>1. Append(s, e) = s \o <<e>> /\ <<e>> \in Seq(S)
  BY AppendIsConcat
<1>2. Len(s) \in Nat
  BY LenProperties
<1> QED
  BY <1>1, <1>2, SubSeqOfConcat1

-----------------------------------------------------------------------------
(* Types.                                                                  *)

LEMMA FollowingType == \A n \in 0 .. MaxSeq : Following(n) \in 0 .. MaxSeq
BY PingAssumption DEF PingAssumption, Following

LEMMA NameableType == Nameable \subseteq HostNames
BY DEF Nameable, HostNames

LEMMA TypeInit == Init => TypeInv
BY PingAssumption, ShellcmdAssumption, FileAssumption
   DEF Init, PingInit, FileInit, ShellcmdInit, TypeInv, TypeOK, PingTypeOK, FileTypeOK,
       ShellcmdTypeOK, StageInv, ChildInv, PingAssumption, ShellcmdAssumption, FileAssumption,
       Counters, FileContents, NoCommands

LEMMA PingNext ==
    ASSUME TypeInv, Next
    PROVE  PingTypeOK' /\ (ping_pc' # "off" => stage' = "ping" /\ (Nameable = HostNames)')
<1>0. /\ long \subseteq HostNames
      /\ ping_pc \in {"off", "ping_send"}
      /\ known \in [HostNames -> Counters]
      /\ DOMAIN ping_shown \subseteq HostNames
      /\ \A h \in DOMAIN ping_shown : ping_shown[h] \in Counters
      /\ ping_pc # "off" => stage = "ping" /\ Nameable = HostNames
  BY DEF TypeInv, TypeOK, PingTypeOK, StageInv
<1>1. CASE PrintNodes
  BY <1>0, <1>1, NameableType DEF PrintNodes, PingPoll, PingTypeOK, Nameable
<1>2. CASE PingReturns
  BY <1>0, <1>2 DEF PingReturns, pingVars, PingTypeOK, Nameable
<1>3. CASE PingSend
  <2>1. \A h \in HostNames : [seq |-> Following(known[h].seq)] \in Counters
    BY <1>0, FollowingType DEF Counters
  <2> QED
    BY <1>0, <1>3, <2>1 DEF PingSend, PingTypeOK
<1>4. CASE UNCHANGED pingVars /\ (stage' = stage \/ ping_pc = "off")
  BY <1>0, <1>4 DEF pingVars, PingTypeOK, Nameable
<1> QED
  BY <1>0, <1>1, <1>2, <1>3, <1>4
     DEF Next, Process, FileReturns, ShellcmdReturns, DisplayUpdate, pingVars

LEMMA FileNext ==
    ASSUME TypeInv, Next
    PROVE  FileTypeOK' /\ (file_pc' # "off" => stage' = "file") /\ (behind' = "path" => path' # NoFile)
<1>0. FileTypeOK /\ (file_pc # "off" => stage = "file") /\ (behind = "path" => path # NoFile)
  BY DEF TypeInv, TypeOK, StageInv
<1>1. CASE FilePoll /\ stage' = "file"
  BY <1>0, <1>1 DEF FilePoll, FileTypeOK
<1>2. CASE FileReturns
  BY <1>0, <1>2 DEF FileReturns, FileForgets, FileTypeOK
<1>3. CASE FileStep /\ stage' = stage
  <2>1. CASE Fopen
    BY <1>0, <1>3, <2>1 DEF Fopen, FileTypeOK
  <2>2. CASE Fgets
    BY <1>0, <1>3, <2>2 DEF Fgets, FileTypeOK, FileContents
  <2> QED
    BY <1>3, <2>1, <2>2 DEF FileStep
<1>4. CASE FileChanges /\ stage' = stage
  <2>0. NoFile \notin FileContents
    BY FileAssumption DEF FileAssumption, FileContents
  <2>1. ASSUME NEW c \in FileContents \cup {NoFile}, Replaced(c)
        PROVE  FileTypeOK' /\ (behind' = "path" => path' # NoFile) /\ file_pc' = file_pc
    BY <1>0, <2>1 DEF Replaced, Noted, FileTypeOK
  <2>2. ASSUME NEW c \in FileContents, Rewritten(c)
        PROVE  FileTypeOK' /\ (behind' = "path" => path' # NoFile) /\ file_pc' = file_pc
    BY <1>0, <2>0, <2>2 DEF Rewritten, Noted, FileTypeOK
  <2> QED
    BY <1>0, <1>4, <2>1, <2>2 DEF FileChanges
<1>5. CASE UNCHANGED fileVars /\ (stage' = stage \/ file_pc = "off")
  BY <1>0, <1>5 DEF fileVars, FileTypeOK
<1> QED
  BY <1>0, <1>1, <1>2, <1>3, <1>4, <1>5
     DEF Next, Process, PrintNodes, PingReturns, ShellcmdReturns, DisplayUpdate

LEMMA CommandNext ==
    ASSUME TypeInv, Next
    PROVE  ShellcmdTypeOK' /\ ChildInv'
<1>0. ShellcmdTypeOK /\ ChildInv
  BY DEF TypeInv, TypeOK
<1>a. Len(Commands) \in Nat /\ \A i \in 1 .. Len(Commands) : Commands[i] \in CmdNames
  BY ShellcmdAssumption, LenProperties DEF ShellcmdAssumption, CmdNames
<1>b. BufSize \in Nat \ {0} /\ PipeSize \in Nat \ {0} /\ MaxOutput \in Nat
  BY ShellcmdAssumption DEF ShellcmdAssumption
<1>c. /\ <<>> \in Seq(Byte)
      /\ Len(<<>>) = 0
      /\ \A s \in Seq(Byte) : Len(s) \in Nat
  BY EmptySeq, LenProperties
<1>1. CASE ShellcmdPoll /\ stage' = "shellcmd"
  BY <1>0, <1>1, <1>a DEF ShellcmdPoll, ShellcmdTypeOK, ChildInv, NoCommands
<1>2. CASE Popen
  <2>1. CASE cmd_pc' = "fread"
    BY <1>0, <1>2, <2>1, <1>a, <1>b, <1>c DEF Popen, ShellcmdTypeOK, ChildInv
  <2>2. CASE cmd_pc' = cmd_pc
    <3>1. DOMAIN cmd_shown' \subseteq CmdNames /\ cmd_at' \in 1 .. Len(Commands) + 1
      BY <1>0, <1>2, <2>2, <1>a DEF Popen, ShellcmdShows, ShellcmdTypeOK
    <3> QED
      BY <1>0, <1>2, <2>2, <3>1 DEF Popen, ShellcmdTypeOK, ChildInv
  <2> QED
    BY <1>2, <2>1, <2>2 DEF Popen
<1>3. CASE Fread
  <2>1. buf \o pipe \in Seq(Byte)
    BY <1>0, ConcatProperties DEF ShellcmdTypeOK
  <2>2. AtMost(BufSize, buf \o pipe) \in Seq(Byte) /\ Len(AtMost(BufSize, buf \o pipe)) <= BufSize
    <3>1. BufSize \in Nat /\ Len(buf \o pipe) \in Nat
      BY <1>b, <1>c, <2>1
    <3>2. /\ AtMost(BufSize, buf \o pipe) \in Seq(Byte)
          /\ Len(AtMost(BufSize, buf \o pipe)) =
                IF Len(buf \o pipe) < BufSize THEN Len(buf \o pipe) ELSE BufSize
      BY <2>1, <3>1, AtMostType
    <3> QED
      BY <3>1, <3>2
  <2> QED
    BY <1>0, <1>3, <1>b, <1>c, <2>2 DEF Fread, ShellcmdTypeOK, ChildInv
<1>4. CASE FreadEnds
  BY <1>0, <1>4 DEF FreadEnds, ShellcmdTypeOK, ChildInv
<1>5. CASE Pclose
  BY <1>0, <1>5, <1>a, <1>b, <1>c DEF Pclose, ShellcmdShows, ShellcmdTypeOK, ChildInv
<1>6. CASE ShellcmdPollEnds
  BY <1>0, <1>6 DEF ShellcmdPollEnds, ShellcmdTypeOK, ChildInv
<1>7. CASE ShellcmdForgets
  BY <1>0, <1>7 DEF ShellcmdForgets, ShellcmdTypeOK, ChildInv, NoCommands
<1>8. CASE StartWriting \/ WriteFails \/ CommandEnds \/ OutputEnds
  <2> USE DEF CommandVars, ShellcmdTypeOK, ChildInv
  <2>1. CASE StartWriting
    BY <1>0, <2>1 DEF StartWriting
  <2>2. CASE WriteFails
    BY <1>0, <2>2 DEF WriteFails
  <2>3. CASE CommandEnds
    BY <1>0, <2>3 DEF CommandEnds
  <2>4. CASE OutputEnds
    BY <1>0, <2>4 DEF OutputEnds
  <2> QED
    BY <1>8, <2>1, <2>2, <2>3, <2>4
<1>9. ASSUME NEW b \in Byte, Write(b)
      PROVE  ShellcmdTypeOK' /\ ChildInv'
  <2>1. /\ Append(pipe, b) \in Seq(Byte) /\ Len(Append(pipe, b)) = Len(pipe) + 1
        /\ Append(wrote, b) \in Seq(Byte) /\ Len(Append(wrote, b)) = Len(wrote) + 1
    BY <1>0, AppendProperties DEF ShellcmdTypeOK
  <2>2. Len(wrote) < MaxOutput /\ Len(pipe) < PipeSize /\ Len(wrote) \in Nat /\ Len(pipe) \in Nat
    BY <1>0, <1>9, <1>c DEF Write, ChildInv, ShellcmdTypeOK
  <2> QED
    BY <1>0, <1>9, <1>b, <2>1, <2>2 DEF Write, CommandVars, ShellcmdTypeOK, ChildInv
<1>10. CASE UNCHANGED cmdVars
  BY <1>0, <1>10 DEF cmdVars, ShellcmdTypeOK, ChildInv
<1> QED
  BY <1>1, <1>2, <1>3, <1>4, <1>5, <1>6, <1>7, <1>8, <1>9, <1>10
     DEF Next, Process, PrintNodes, PingReturns, FileReturns, ShellcmdReturns, DisplayUpdate,
         ShellcmdStep, CommandStep

LEMMA CommandStage ==
    ASSUME TypeInv, Next
    PROVE  cmd_pc' # "off" => stage' = "shellcmd"
<1>1. cmd_pc # "off" => stage = "shellcmd"
  BY DEF TypeInv, StageInv
<1>2. CASE CommandStep /\ stage' = stage
  <2>1. cmd_pc' = cmd_pc
    BY <1>2 DEF CommandStep, StartWriting, WriteFails, CommandEnds, OutputEnds, Write, CommandVars
  <2> QED
    BY <1>1, <1>2, <2>1
<1>3. CASE ShellcmdStep /\ stage' = stage
  <2>1. cmd_pc # "off"
    BY <1>3 DEF ShellcmdStep, Popen, Fread, FreadEnds, Pclose, ShellcmdPollEnds
  <2> QED
    BY <1>1, <1>3, <2>1
<1> QED
  BY <1>1, <1>2, <1>3
     DEF Next, Process, PrintNodes, PingReturns, FileReturns, ShellcmdReturns, DisplayUpdate,
         ShellcmdPoll, ShellcmdForgets, cmdVars

LEMMA TypeNext == TypeInv /\ [Next]_vars => TypeInv'
<1>1. ASSUME TypeInv, Next
      PROVE  TypeInv'
  <2>1. stage' \in {"wait", "ping", "file", "shellcmd", "print"} /\ reports' \in 0 .. MaxSeq
    BY <1>1, FollowingType
       DEF TypeInv, TypeOK, Next, Process, PrintNodes, PingReturns, FileReturns, ShellcmdReturns,
           DisplayUpdate
  <2> QED
    BY <1>1, <2>1, PingNext, FileNext, CommandNext, CommandStage DEF TypeInv, TypeOK, StageInv
<1>2. ASSUME TypeInv, UNCHANGED vars
      PROVE  TypeInv'
  BY <1>2 DEF TypeInv, TypeOK, PingTypeOK, FileTypeOK, ShellcmdTypeOK, StageInv, ChildInv, Nameable,
              vars, pingVars, fileVars, cmdVars
<1> QED
  BY <1>1, <1>2

-----------------------------------------------------------------------------
(* Hosts.                                                                  *)

LEMMA RoundNext ==
    ASSUME TypeInv, RoundInv, Next
    PROVE  RoundInv'
<1>0. /\ known \in [HostNames -> Counters]
      /\ ping_pc \in {"off", "ping_send"}
      /\ ping_pc # "off" => stage = "ping" /\ Nameable = HostNames
  BY DEF TypeInv, TypeOK, PingTypeOK, StageInv
<1>1. CASE PrintNodes
  <2>1. UNCHANGED <<long, known, reports>> /\ stage = "wait" /\ stage' = "ping"
        /\ ping_pc' = (IF Hosts # <<>> /\ Nameable = HostNames THEN "ping_send" ELSE "off")
        /\ ping_shown' = [h \in Nameable |-> known[h]]
    BY <1>1 DEF PrintNodes, PingPoll
  <2>2. UNCHANGED Nameable
    BY <2>1 DEF Nameable
  <2>3. ASSUME Hosts = <<>>
        PROVE  HostNames = {}
    BY <2>3 DEF HostNames
  <2>4. \A h \in Nameable : ping_shown'[h].seq = IF Nameable = HostNames THEN reports ELSE 0
    BY <2>1, NameableType DEF RoundInv
  <2>5. \A h \in HostNames : known[h].seq = IF Nameable # HostNames THEN 0 ELSE reports
    BY <2>1 DEF RoundInv
  <2> QED
    BY <2>1, <2>2, <2>3, <2>4, <2>5 DEF RoundInv
<1>2. CASE PingSend /\ UNCHANGED <<stage, reports>>
  <2>1. /\ UNCHANGED <<long, ping_shown, stage, reports>>
        /\ ping_pc = "ping_send" /\ ping_pc' = "off" /\ stage = "ping" /\ Nameable = HostNames
        /\ known' = [h \in HostNames |-> [seq |-> Following(known[h].seq)]]
    BY <1>0, <1>2 DEF PingSend
  <2>2. UNCHANGED Nameable
    BY <2>1 DEF Nameable
  <2>3. \A h \in HostNames : known[h].seq = reports
    BY <2>1 DEF RoundInv
  <2> QED
    BY <2>1, <2>2, <2>3 DEF RoundInv
<1>3. CASE DisplayUpdate
  <2>1. /\ UNCHANGED <<long, ping_pc, known, ping_shown>>
        /\ stage = "print" /\ stage' = "wait" /\ ping_pc = "off"
        /\ reports' = Following(reports)
    BY <1>0, <1>3 DEF DisplayUpdate, pingVars
  <2>2. UNCHANGED Nameable
    BY <2>1 DEF Nameable
  <2> QED
    BY <2>1, <2>2 DEF RoundInv
<1>4. CASE /\ UNCHANGED <<pingVars, reports>>
           /\ stage' = stage \/ (stage # "wait" /\ stage' # "wait")
  <2>1. UNCHANGED Nameable
    BY <1>4 DEF pingVars, Nameable
  <2> QED
    BY <1>4, <2>1 DEF RoundInv, pingVars
<1> QED
  BY <1>0, <1>1, <1>2, <1>3, <1>4
     DEF Next, Process, PingReturns, FileReturns, ShellcmdReturns

-----------------------------------------------------------------------------
(* The file.                                                               *)

LEMMA FileInvNext ==
    ASSUME TypeInv, FileInv, Next
    PROVE  FileInv'
<1> USE DEF FileInv, FileShownWasThere
<1>0. /\ file_pc \in {"off", "fopen", "fgets"}
      /\ behind \in {"closed", "path", "replaced"}
      /\ file_pc # "off" => stage = "file"
  BY DEF TypeInv, TypeOK, FileTypeOK, StageInv
<1>1. CASE FilePoll /\ stage # "file" /\ stage' = "file"
  BY <1>0, <1>1 DEF FilePoll
<1>2. CASE FileReturns
  BY <1>0, <1>2 DEF FileReturns, FileForgets
<1>3. CASE FileStep /\ stage' = stage
  BY <1>0, <1>3 DEF FileStep, Fopen, Fgets
<1>4. CASE FileChanges /\ stage' = stage
  <2>0. NoFile \notin FileContents
    BY FileAssumption DEF FileAssumption, FileContents
  <2>1. ASSUME NEW c, Replaced(c)
        PROVE  FileInv'
    BY <1>0, <1>4, <2>1 DEF Replaced, Noted
  <2>2. ASSUME NEW c \in FileContents, Rewritten(c)
        PROVE  FileInv'
    BY <1>0, <1>4, <2>0, <2>2 DEF Rewritten, Noted
  <2> QED
    BY <1>4, <2>1, <2>2 DEF FileChanges
<1>5. CASE UNCHANGED fileVars /\ (stage' = stage \/ (file_pc = "off" /\ stage' # "file"))
  BY <1>0, <1>5 DEF fileVars
<1> QED
  BY <1>0, <1>1, <1>2, <1>3, <1>4, <1>5
     DEF Next, Process, PrintNodes, PingReturns, ShellcmdReturns, DisplayUpdate

-----------------------------------------------------------------------------
(* The commands.                                                           *)

LEMMA BufferNext ==
    ASSUME TypeInv, BufferInv, Next
    PROVE  BufferInv'
<1>0. /\ buf \in Seq(Byte) /\ Len(buf) \in Nat /\ Len(buf) <= BufSize
      /\ pipe \in Seq(Byte) /\ wrote \in Seq(Byte) /\ Len(wrote) \in Nat
      /\ BufSize \in Nat \ {0}
  BY ShellcmdAssumption, LenProperties DEF TypeInv, TypeOK, ShellcmdTypeOK, ShellcmdAssumption
<1>1. CASE ShellcmdPoll
  BY <1>1 DEF ShellcmdPoll, BufferInv
<1>2. CASE Popen
  <2>1. CASE cmd_pc' = "fread" /\ buf' = <<>> /\ pipe' = <<>> /\ wrote' = <<>>
    <3>1. <<>> \o <<>> = <<>> /\ Len(<<>>) = 0
      BY EmptySeq, ConcatEmptySeq
    <3> QED
      BY <1>0, <2>1, <3>1 DEF BufferInv
  <2>2. CASE cmd_pc = "popen" /\ cmd_pc' = cmd_pc
    BY <2>2 DEF BufferInv
  <2> QED
    BY <1>2, <2>1, <2>2 DEF Popen
<1>3. CASE Fread
  <2>1. /\ cmd_pc = "fread" /\ cmd_pc' = "fread"
        /\ wrote = buf \o pipe /\ wrote' = wrote
        /\ buf' = AtMost(BufSize, wrote) /\ pipe' = <<>>
    BY <1>3 DEF Fread, BufferInv
  <2>2. /\ buf' \in Seq(Byte)
        /\ Len(buf') = IF Len(wrote) < BufSize THEN Len(wrote) ELSE BufSize
        /\ Len(wrote) <= BufSize => buf' = wrote
    <3>1. BufSize \in Nat
      BY <1>0
    <3> QED
      BY <1>0, <2>1, <3>1, AtMostType
  <2>3. CASE Len(wrote) < BufSize
    <3>1. wrote \o <<>> = wrote
      BY <1>0, ConcatEmptySeq
    <3> QED
      BY <1>0, <2>1, <2>2, <2>3, <3>1 DEF BufferInv
  <2>4. CASE ~(Len(wrote) < BufSize)
    <3>1. buf' = SubSeq(wrote, 1, BufSize)
      BY <2>1, <2>4 DEF AtMost
    <3> QED
      BY <1>0, <2>1, <2>2, <2>4, <3>1 DEF BufferInv
  <2> QED
    BY <2>3, <2>4
<1>4. CASE FreadEnds
  <2>1. UNCHANGED <<buf, wrote>> /\ cmd_pc = "fread" /\ cmd_pc' = "pclose"
    BY <1>4 DEF FreadEnds
  <2>2. CASE Len(buf) < BufSize
    <3>1. wrote = buf \o <<>>
      BY <1>0, <1>4, <2>1, <2>2 DEF FreadEnds, BufferInv
    <3>2. wrote = buf
      BY <1>0, <3>1, ConcatEmptySeq
    <3>3. AtMost(BufSize, wrote) = wrote
      <4>1. BufSize \in Nat
        BY <1>0
      <4> QED
        BY <1>0, <3>2, <4>1, AtMostType
    <3> QED
      BY <2>1, <3>2, <3>3 DEF BufferInv
  <2>3. CASE ~(Len(buf) < BufSize)
    <3>1. BufSize <= Len(wrote) /\ buf = SubSeq(wrote, 1, BufSize)
      BY <2>1, <2>3 DEF BufferInv
    <3>2. AtMost(BufSize, wrote) = SubSeq(wrote, 1, BufSize)
      BY <1>0, <3>1 DEF AtMost
    <3> QED
      BY <2>1, <3>1, <3>2 DEF BufferInv
  <2> QED
    BY <2>2, <2>3
<1>5. CASE Pclose \/ ShellcmdPollEnds \/ ShellcmdForgets
  BY <1>5 DEF Pclose, ShellcmdPollEnds, ShellcmdForgets, BufferInv
<1>6. CASE StartWriting \/ WriteFails \/ CommandEnds \/ OutputEnds
  BY <1>6 DEF StartWriting, WriteFails, CommandEnds, OutputEnds, CommandVars, BufferInv
<1>7. ASSUME NEW b \in Byte, Write(b)
      PROVE  BufferInv'
  <2>1. /\ cmd_pc = "fread" /\ UNCHANGED <<cmd_pc, buf>>
        /\ pipe' = Append(pipe, b) /\ wrote' = Append(wrote, b)
    BY <1>7 DEF Write, CommandVars
  <2>2. CASE Len(buf) < BufSize
    <3>1. wrote = buf \o pipe
      BY <2>1, <2>2 DEF BufferInv
    <3>2. wrote' = buf \o pipe'
      <4>1. <<b>> \in Seq(Byte) /\ wrote \in Seq(Byte) /\ buf \in Seq(Byte) /\ pipe \in Seq(Byte)
        BY <1>0
      <4>2. wrote' = wrote \o <<b>> /\ pipe' = pipe \o <<b>>
        BY <2>1, <4>1, AppendIsConcat
      <4>3. (buf \o pipe) \o <<b>> = buf \o (pipe \o <<b>>)
        BY <4>1, ConcatAssociative
      <4> QED
        BY <3>1, <4>2, <4>3
    <3> QED
      BY <2>1, <2>2, <3>2 DEF BufferInv
  <2>3. CASE ~(Len(buf) < BufSize)
    <3>1. BufSize <= Len(wrote) /\ buf = SubSeq(wrote, 1, BufSize)
      BY <2>1, <2>3 DEF BufferInv
    <3>2. Len(wrote') = Len(wrote) + 1
      BY <1>0, <2>1, AppendProperties
    <3>3. SubSeq(wrote', 1, BufSize) = buf
      BY <1>0, <2>1, <3>1, BeginningOfAppend
    <3> QED
      BY <1>0, <2>1, <2>3, <3>1, <3>2, <3>3 DEF BufferInv
  <2> QED
    BY <2>2, <2>3
<1>8. CASE UNCHANGED cmdVars
  BY <1>8 DEF cmdVars, BufferInv
<1> QED
  BY <1>1, <1>2, <1>3, <1>4, <1>5, <1>6, <1>7, <1>8
     DEF Next, Process, PrintNodes, PingReturns, FileReturns, ShellcmdReturns, DisplayUpdate,
         ShellcmdStep, CommandStep

LEMMA ShownNext ==
    ASSUME TypeInv, BufferInv, ShownInv, Next
    PROVE  ShownInv'
<1> USE DEF ShownInv, CommandShown
<1>0. /\ cmd_at \in 1 .. Len(Commands) + 1
      /\ cmd_pc \in {"fread", "pclose"} => cmd_at <= Len(Commands)
      /\ Len(Commands) \in Nat
      /\ \A i, j \in 1 .. Len(Commands) : Commands[i] = Commands[j] => i = j
  BY ShellcmdAssumption, LenProperties
     DEF TypeInv, TypeOK, ShellcmdTypeOK, ChildInv, ShellcmdAssumption
<1> DEFINE Before(k) == {Commands[i] : i \in 1 .. k - 1}
<1>1. CASE cmd_shown' = NoCommands /\ outputs' = NoCommands
  BY <1>1 DEF NoCommands
<1>2. CASE UNCHANGED <<cmd_at, cmd_shown, outputs>>
  BY <1>2
<1>3. ASSUME cmd_at <= Len(Commands)
      PROVE  /\ Commands[cmd_at] \notin Before(cmd_at)
             /\ Before(cmd_at) \cup {Commands[cmd_at]} \subseteq Before(cmd_at + 1)
  BY <1>0, <1>3
<1>4. CASE Popen
  <2>1. CASE UNCHANGED <<cmd_at, cmd_shown, outputs>>
    BY <1>2, <2>1
  <2>2. CASE ShellcmdShows(Commands[cmd_at], Failed) /\ cmd_at' = cmd_at + 1 /\ UNCHANGED outputs
    <3>1. cmd_at <= Len(Commands)
      BY <1>4 DEF Popen
    <3>2. Commands[cmd_at] \notin DOMAIN outputs
      BY <1>3, <3>1
    <3>3. /\ DOMAIN cmd_shown' = DOMAIN cmd_shown \cup {Commands[cmd_at]}
          /\ cmd_shown'[Commands[cmd_at]] = Failed
          /\ \A n \in DOMAIN cmd_shown \ {Commands[cmd_at]} : cmd_shown'[n] = cmd_shown[n]
      BY <2>2 DEF ShellcmdShows
    <3>4. CommandShown'
      BY <2>2, <3>2, <3>3
    <3>5. DOMAIN outputs' \subseteq Before(cmd_at + 1) /\ DOMAIN cmd_shown' \subseteq Before(cmd_at + 1)
      BY <1>3, <2>2, <3>1, <3>3
    <3> QED
      BY <2>2, <3>4, <3>5
  <2> QED
    BY <1>4, <2>1, <2>2 DEF Popen
<1>5. CASE Pclose
  <2>1. cmd_at <= Len(Commands) /\ buf = AtMost(BufSize, wrote)
    BY <1>0, <1>5 DEF Pclose, BufferInv
  <2>2. /\ ShellcmdShows(Commands[cmd_at], ValueOf(AtMost(BufSize, wrote)))
        /\ outputs' = [n \in DOMAIN outputs \cup {Commands[cmd_at]} |->
                            IF n = Commands[cmd_at] THEN wrote ELSE outputs[n]]
        /\ cmd_at' = cmd_at + 1
    BY <1>5, <2>1 DEF Pclose
  <2> QED
    BY <1>3, <2>1, <2>2 DEF ShellcmdShows
<1>6. CASE CommandStep
  BY <1>2, <1>6 DEF CommandStep, StartWriting, WriteFails, CommandEnds, OutputEnds, Write, CommandVars
<1> QED
  BY <1>1, <1>2, <1>4, <1>5, <1>6
     DEF Next, Process, PrintNodes, PingReturns, FileReturns, ShellcmdReturns, DisplayUpdate,
         ShellcmdStep, ShellcmdPoll, ShellcmdForgets, Fread, FreadEnds, ShellcmdPollEnds, cmdVars

-----------------------------------------------------------------------------
(* All of it.                                                              *)

LEMMA InvInit == Init => Inv
<1> SUFFICES ASSUME Init PROVE Inv
  OBVIOUS
<1>1. RoundInv
  BY DEF Init, PingInit, RoundInv
<1>2. FileInv
  BY DEF Init, FileInit, FileInv, FileShownWasThere
<1>3. BufferInv /\ ShownInv
  BY DEF Init, ShellcmdInit, BufferInv, ShownInv, CommandShown, NoCommands
<1> QED
  BY <1>1, <1>2, <1>3, TypeInit DEF Inv

LEMMA InvNext == Inv /\ [Next]_vars => Inv'
<1>1. ASSUME Inv, Next
      PROVE  Inv'
  BY <1>1, TypeNext, RoundNext, FileInvNext, BufferNext, ShownNext DEF Inv
<1>2. ASSUME Inv, UNCHANGED vars
      PROVE  Inv'
  <2>1. TypeInv'
    BY <1>2, TypeNext DEF Inv
  <2>2. UNCHANGED <<pingVars, fileVars, cmdVars, stage, reports>>
    BY <1>2 DEF vars
  <2>3. RoundInv'
    BY <1>2, <2>2 DEF Inv, RoundInv, Nameable, pingVars
  <2>4. FileInv'
    BY <1>2, <2>2 DEF Inv, FileInv, FileShownWasThere, fileVars
  <2>5. BufferInv' /\ ShownInv'
    BY <1>2, <2>2 DEF Inv, BufferInv, ShownInv, CommandShown, cmdVars
  <2> QED
    BY <2>1, <2>3, <2>4, <2>5 DEF Inv
<1> QED
  BY <1>1, <1>2

\* Inv is an inductive invariant of the poll functions of osysmon_ping.c, osysmon_file.c
\* and osysmon_shellcmd.c, called one after the other by print_nodes.
THEOREM InvCorrect == Spec => []Inv
BY InvInit, InvNext, PTL DEF Spec

\* Types: the buffer of a command is never written beyond its end
\* (osysmon_shellcmd.c:89-94), for every size of it and of the pipe.
THEOREM TypeCorrect == Spec => []TypeOK
<1>1. Inv => TypeOK
  BY DEF Inv, TypeInv
<1> QED
  BY <1>1, InvCorrect, PTL

\* What is shown for a command is what this run of it wrote, cut off where the
\* buffer ends (osysmon_shellcmd.c:89-105), in whatever pieces it was written and read.
THEOREM CommandShownCorrect == Spec => []CommandShown
<1>1. Inv => CommandShown
  BY DEF Inv, ShownInv
<1> QED
  BY <1>1, InvCorrect, PTL

\* No command outlives the poll that has run it (osysmon_shellcmd.c:94).
THEOREM NoChildLeftCorrect == Spec => []NoChildLeft
<1>1. Inv => NoChildLeft
  BY DEF Inv, TypeInv, ChildInv, NoChildLeft
<1> QED
  BY <1>1, InvCorrect, PTL

\* What is shown for a file was at its path during this poll
\* (osysmon_file.c:77-82), whatever happens to the file in between.
THEOREM FileShownWasThereCorrect == Spec => []FileShownWasThere
<1>1. Inv => FileShownWasThere
  BY DEF Inv, FileInv
<1> QED
  BY <1>1, InvCorrect, PTL

\* Every report shows the round of pings before it, or none was ever sent
\* (osysmon_ping.c:232-260).
THEOREM RoundBeforeCorrect == Spec => []RoundBefore
<1>1. Inv => RoundBefore
  BY DEF Inv, RoundInv, RoundBefore
<1> QED
  BY <1>1, InvCorrect, PTL
=============================================================================
