---------------------------- MODULE OsysmonCtrl -----------------------------
(***************************************************************************)
(* osysmon_ctrl.c, runtime part: the periodic poll of all ctrl-clients.    *)
(* For each client in turn it connects if it has no handle, GETs the       *)
(* configured variables in order and puts the values in the value tree; on *)
(* the first failure it closes the connection and goes on to the next      *)
(* client.  The configuration does not change at run time (CtrlConfig).    *)
(***************************************************************************)
EXTENDS SimpleCtrl, FiniteSets

CONSTANTS
    ClientSeq,  \* g_oss->ctrl_clients
    GetVars,    \* GetVars[c]: the get_vars list of client c
    Nobody      \* for the properties: no <<client, variable>> at all

\* Names are unique: ctrl_client_find and ctrl_client_get_var_find_or_create.
ASSUME ConfigAssumption ==
    /\ ClientSeq \in Seq(Clients)
    /\ \A i, j \in 1 .. Len(ClientSeq) : ClientSeq[i] = ClientSeq[j] => i = j
    /\ GetVars \in [Clients -> Seq(Vars)]
    /\ \A c \in Clients : \A i, j \in 1 .. Len(GetVars[c]) :
            GetVars[c][i] = GetVars[c][j] => i = j
    /\ Nobody \notin Clients \X Vars

VARIABLES
    cur,        \* position of the poll in ClientSeq
    vi,         \* position of the poll in GetVars of the current client
    sections,   \* clients with a node in the value tree of this poll
    shown,      \* shown[c]: the values below that node
    window      \* history: the values the variable being read has had since asked for

pollVars == <<cur, vi, sections, shown, window>>
vars == <<serverVars, ctrlVars, pollVars>>

Cc == ClientSeq[cur]
CurVar == GetVars[Cc][vi]

\* "idle": outside osysmon_ctrl_poll.  "client": head of the loop over clients.
\* "loop": head of the loop over variables.
PollStates == {"idle", "client", "loop"} \cup CallStates

Entry == [var : Vars, val : Words]

TypeOK ==
    /\ ServerTypeOK
    /\ sch \in [Clients -> Handle \cup {NoHandle}]
    /\ cut \in [Clients -> BOOLEAN]
    /\ pc \in PollStates
    /\ ret \in Words \cup {NoValue}
    /\ cur \in 1 .. Len(ClientSeq) + 1
    /\ vi \in Nat \ {0}
    /\ sections \subseteq Clients
    /\ shown \in [Clients -> SUBSET Entry]
    /\ window \subseteq Values

Init ==
    /\ ServerInit
    /\ CtrlInit
    /\ pc = "idle"
    /\ cur = Len(ClientSeq) + 1
    /\ vi = 1
    /\ sections = {}
    /\ shown = [c \in Clients |-> {}]
    /\ window = {}

-----------------------------------------------------------------------------
PollBeginOldRoot ==         \* mutant: the tree of the last poll is used again
    /\ pc = "idle"
    /\ pc' = "client"
    /\ cur' = 1
    /\ UNCHANGED <<serverVars, sch, cut, ret, vi, sections, shown, window>>
\* The print timer calls osysmon_ctrl_poll with a new root.
PollBegin ==
    /\ pc = "idle"
    /\ pc' = "client"
    /\ cur' = 1
    /\ sections' = {}
    /\ shown' = [c \in Clients |-> {}]
    /\ UNCHANGED <<serverVars, sch, cut, ret, vi, window>>

\* The poll has been through the list; what it added is printed.
PollEnd ==
    /\ pc = "client"
    /\ cur > Len(ClientSeq)
    /\ pc' = "idle"
    /\ UNCHANGED <<serverVars, sch, cut, ret, pollVars>>

ClientPoll ==
    /\ pc = "client"
    /\ cur <= Len(ClientSeq)
    /\ sections' = sections \cup {Cc}
    /\ IF sch[Cc] = NoHandle
       THEN Open(Cc)
       ELSE pc' = "opened" /\ UNCHANGED <<serverVars, sch, cut, ret>>
    /\ UNCHANGED <<cur, vi, shown, window>>

NextClient == pc' = "client" /\ cur' = cur + 1

Opened ==
    /\ pc = "opened"
    /\ IF sch[Cc] = NoHandle
       THEN NextClient /\ UNCHANGED vi
       ELSE pc' = "loop" /\ vi' = 1 /\ UNCHANGED cur
    /\ UNCHANGED <<serverVars, sch, cut, ret, sections, shown, window>>

AskNext ==
    /\ pc = "loop"
    /\ vi <= Len(GetVars[Cc])
    /\ Get(Cc)
    /\ window' = {sval[Cc][CurVar]}
    /\ UNCHANGED <<cur, vi, sections, shown>>

AllAsked ==
    /\ pc = "loop"
    /\ vi > Len(GetVars[Cc])
    /\ NextClient
    /\ UNCHANGED <<serverVars, sch, cut, ret, vi, sections, shown, window>>

\* value_node_add: a name that is there already is not added again.
AddEntry(s, v, x) ==
    IF \E e \in s : e.var = v THEN s ELSE s \cup {[var |-> v, val |-> x]}

GotValue ==
    /\ pc = "got"
    /\ ret # NoValue
    /\ shown' = [shown EXCEPT ![Cc] = AddEntry(@, CurVar, ret)]
    /\ vi' = vi + 1
    /\ pc' = "loop"
    /\ UNCHANGED <<serverVars, sch, cut, ret, cur, sections, window>>

\* Mutants of GotNothing.
GotNothingNotClosing ==                 \* the connection is kept
    /\ pc = "got"
    /\ ret = NoValue
    /\ NextClient
    /\ UNCHANGED <<serverVars, sch, cut, ret, vi, sections, shown, window>>
GotNothingGoingOn ==                    \* ... and the next variable is asked for
    /\ pc = "got"
    /\ ret = NoValue
    /\ pc' = "loop"
    /\ vi' = vi + 1
    /\ UNCHANGED <<serverVars, sch, cut, ret, cur, sections, shown, window>>
GotNothingRetrying ==                   \* connect again at once
    /\ pc = "got"
    /\ ret = NoValue
    /\ Close(Cc)
    /\ pc' = "client"
    /\ UNCHANGED <<sval, ret, cur, vi, sections, shown, window>>
GotNothingGivingUp ==                   \* the poll ends with the first failure
    /\ pc = "got"
    /\ ret = NoValue
    /\ Close(Cc)
    /\ pc' = "client" /\ cur' = Len(ClientSeq) + 1
    /\ UNCHANGED <<sval, ret, vi, sections, shown, window>>

\* Close connection on error; the variables left are not asked for.
GotNothing ==
    /\ pc = "got"
    /\ ret = NoValue
    /\ Close(Cc)
    /\ NextClient
    /\ UNCHANGED <<sval, ret, vi, sections, shown, window>>

-----------------------------------------------------------------------------
CtrlCall ==
    /\ \/ ConnectReady(Cc)
       \/ ConnectFails(Cc)
       \/ SendOk(Cc, CurVar)
       \/ SendFails
       \/ ReadHeader(Cc)
       \/ HeaderShort(Cc)
       \/ HeaderTimeout
       \/ ReadBody(Cc, CurVar)
       \/ BodyShort(Cc)
    /\ UNCHANGED pollVars

Process ==
    \/ PollBegin
    \/ PollEnd
    \/ ClientPoll
    \/ Opened
    \/ AskNext
    \/ AllAsked
    \/ GotValue
    \/ GotNothing
    \/ CtrlCall

Asking == pc \in {"send", "header", "body", "got"}

ServerStep(c) ==
    /\ \/ Accept(c)
       \/ Refuse(c)
       \/ Drop(c)
       \/ Serve(c)
       \/ Trap(c)
       \/ Foreign(c)
    /\ UNCHANGED <<ctrlVars, pollVars>>

ChangeStep(c, v, x) ==
    /\ Change(c, v, x)
    /\ window' = IF Asking /\ c = Cc /\ v = CurVar THEN window \cup {x} ELSE window
    /\ UNCHANGED <<ctrlVars, cur, vi, sections, shown>>

Next ==
    \/ Process
    \/ \E c \in Clients : ServerStep(c)
    \/ \E c \in Clients, v \in Vars, x \in Values : ChangeStep(c, v, x)

Spec == Init /\ [][Next]_vars

-----------------------------------------------------------------------------
(* Safety.                                                                 *)

IsAnswer(f) == f.kind \in {"reply", "error"}

\* f answers the question with this id, about v, with one of these values.
Answers(f, id, v, vals) ==
    \/ f.kind = "error" /\ f.id = id
    \/ f.kind = "reply" /\ f.id = id /\ f.var = v /\ f.val \in vals

Unanswered(s) == \A i \in 1 .. Len(s) : ~IsAnswer(s[i])

OneAnswer(s, id, v, vals) ==
    \E k \in 1 .. Len(s) :
        /\ Answers(s[k], id, v, vals)
        /\ \A i \in 1 .. Len(s) : i # k => ~IsAnswer(s[i])

\* No question of c is open: none is on its way, no answer is on the way back.
Quiet(c) == reqs[c] = <<>> /\ Unanswered(wire[c])

\* The question just asked of c, about v, is the only open one; it has not
\* been answered yet.
Asked(c, v) ==
    /\ reqs[c] = <<[id |-> RequestId(c), var |-> v]>>
    /\ Unanswered(wire[c])

\* The question just asked is answered, and the answer is on its way.
Answered(c, v) ==
    /\ reqs[c] = <<>>
    /\ OneAnswer(wire[c], RequestId(c), v, window)

LockstepOf(c) ==
    /\ sch[c] # NoHandle /\ ~(c = Cc /\ pc \in {"header", "body", "got"})
            => Quiet(c)
    /\ c = Cc /\ pc \in {"header", "body"}
            => \/ Asked(c, CurVar)
               \/ Answered(c, CurVar)
               \/ Quiet(c) /\ link[c] = "dead"
    /\ c = Cc /\ pc = "got" /\ ret # NoValue
            => Quiet(c)

Polling == cur <= Len(ClientSeq)

\* The process never has two questions open on a connection, and
\* never goes on using one on which an old question is still open, although a
\* timeout, a TRAP or a short read can end any wait early.  While it waits, the
\* only answer that can arrive is the one to the question it asked.  It is
\* "Close connection on error" (osysmon_ctrl.c:277) that ensures this.
Lockstep ==
    \A i \in 1 .. Len(ClientSeq) :
        LET c == ClientSeq[i]
        IN  IF Polling THEN LockstepOf(c) ELSE sch[c] # NoHandle => Quiet(c)

\* A GET_REPLY that the process reads always has the id and the name it wants:
\* with a server that answers what it is asked, simple_ctrl_get never takes the
\* branch that drops a well-formed reply (simple_ctrl.c:291-292).
RepliesMatch ==
    pc = "body" /\ wire[Cc] # <<>> /\ Head(wire[Cc]).kind = "reply"
        => Accepted(Cc, CurVar, Head(wire[Cc]))

\* A request is never written to, nor a header read from, a connection on which
\* an earlier read stopped in the middle of a frame: after a short read
\* (simple_ctrl.c:175, 189) the stream is not used again.
FramesAligned ==
    \A i \in 1 .. Len(ClientSeq) :
        LET c == ClientSeq[i]
        IN  cut[c] => Polling /\ c = Cc /\ pc = "got" /\ ret = NoValue

\* Every open descriptor is held by exactly the handle that will close it, or is
\* the one simple_ctrl_open is still connecting: no path out of a poll loses a
\* descriptor, or keeps a handle whose descriptor is closed.
DescriptorsOwned ==
    \A i \in 1 .. Len(ClientSeq) :
        LET c == ClientSeq[i]
        IN  link[c] # "none"
                <=> sch[c] # NoHandle \/ (Polling /\ c = Cc /\ pc = "connect")

VarsShown(c) == {e.var : e \in shown[c]}
PrefixShown(c, n) == VarsShown(c) = {GetVars[c][j] : j \in 1 .. n}

\* What is shown for a client is a prefix of what is configured.  When the poll
\* is over, a client with an incomplete section has lost its handle (and will be
\* reconnected); one that kept it has been reported in full.
SectionsHonest ==
    \A i \in 1 .. Len(ClientSeq) :
        LET c == ClientSeq[i]
        IN  /\ \E n \in 0 .. Len(GetVars[c]) : PrefixShown(c, n)
            /\ pc = "idle" /\ c \in sections /\ sch[c] # NoHandle
                    => PrefixShown(c, Len(GetVars[c]))

\* The report is about what the servers hold: the CTRL part refines CtrlReport.
Report == INSTANCE CtrlReport WITH
            asked <- IF Asking THEN <<Cc, CurVar>> ELSE Nobody
ReportsCurrentValues == Report!Spec

-----------------------------------------------------------------------------
(* Liveness.                                                               *)

\* What the code ensures: select() returns within the second, so the process
\* sleeps without end only in the read() of a payload.
ProcessFair == WF_vars(Process /\ pc # "body")

\* What the network must ensure: a started frame is completed or its connection
\* ends; connect() ends; a server answers.
PayloadFair == WF_vars(Process /\ pc = "body")
ServerFair ==
    \A c \in Clients :
        /\ WF_vars((Accept(c) \/ Refuse(c)) /\ UNCHANGED <<ctrlVars, pollVars>>)
        /\ WF_vars(Serve(c) /\ UNCHANGED <<ctrlVars, pollVars>>)

FairSpec == Spec /\ ProcessFair /\ PayloadFair /\ ServerFair

\* The network may also stop in the middle of a frame.
StallingSpec == Spec /\ ProcessFair /\ ServerFair

\* Reports never stop: whatever connections do, every poll comes to its end
\* (debian/control:27, "prints on screen once per second").
PollsRecur == []<>(pc = "idle")

\* What goes wrong at c that is not the late consequence of a connection already
\* refused or lost.
Fault(c) ==
    \/ Refuse(c)
    \/ Drop(c)
    \/ Trap(c)
    \/ /\ Polling /\ Cc = c
       /\ link[c] # "dead"
       /\ \/ ClientPoll /\ sch[c] = NoHandle /\ pc' = "opened"
          \/ ConnectFails(c)
          \/ SendFails
          \/ HeaderShort(c)
          \/ HeaderTimeout
          \/ BodyShort(c)

\* The variables before the first one that its server answers with ERROR.
ReportedUpToUnknown(c) ==
    /\ pc = "idle" /\ c \in sections
    /\ \E n \in 0 .. Len(GetVars[c]) :
        /\ \A j \in 1 .. n : GetVars[c][j] \in Known[c]
        /\ n < Len(GetVars[c]) => GetVars[c][n + 1] \notin Known[c]
        /\ PrefixShown(c, n)

\* A failure heals and stays where it is: a client is reported again and again
\* unless its own connection fails again and again, whatever happens to the other
\* clients.  In particular a handle made for a connection that was refused, or
\* whose server has gone, is always got rid of.  An ERROR reply counts as a failure
\* (osysmon_ctrl.c:278), so what is configured after a variable that the server does
\* not know is never shown.
RecoversAlone ==
    \A i \in 1 .. Len(ClientSeq) :
        LET c == ClientSeq[i]
        IN  []<>ReportedUpToUnknown(c) \/ []<><<Fault(c)>>_vars
=============================================================================
