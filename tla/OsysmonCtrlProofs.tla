------------------------- MODULE OsysmonCtrlProofs --------------------------
(***************************************************************************)
(* What is proved of OsysmonCtrl for every number of clients and variables *)
(* and every history of faults.                                            *)
(***************************************************************************)
EXTENDS OsysmonCtrl, TLAPS

\* Where the process can be in the configuration: TypeOK is inductive with it.
Positions ==
    /\ pc \notin {"idle", "client"} => Polling
    /\ Asking => vi <= Len(GetVars[Cc])
    /\ Asking \/ pc = "loop" => sch[Cc] # NoHandle
    /\ pc = "connect" => sch[Cc] = NoHandle

TypeInv == TypeOK /\ Positions

LEMMA CurrentClient ==
    ASSUME TypeInv, Polling
    PROVE  Cc \in Clients
BY ConfigAssumption DEF ConfigAssumption, TypeInv, TypeOK, Polling, Cc

LEMMA CurrentVar ==
    ASSUME TypeInv, Polling, vi <= Len(GetVars[Cc])
    PROVE  CurVar \in Vars
<1>1. GetVars[Cc] \in Seq(Vars)
  BY CurrentClient, ConfigAssumption DEF ConfigAssumption
<1>2. vi \in 1 .. Len(GetVars[Cc])
  BY <1>1 DEF TypeInv, TypeOK
<1> QED
  BY <1>1, <1>2 DEF CurVar

LEMMA IdTypes ==
    ASSUME NEW n \in Ids
    PROVE  Incremented(n) \in Ids /\ Decremented(n) \in Ids
BY ServerAssumption DEF ServerAssumption, Ids, Incremented, Decremented

LEMMA FirstWordType ==
    ASSUME NEW val \in Values
    PROVE  FirstWord(val) \in Words
BY ServerAssumption DEF ServerAssumption, FirstWord

LEMMA TypeInit == Init => TypeInv
<1> SUFFICES ASSUME Init PROVE TypeInv
  OBVIOUS
<1> USE DEF Init, ServerInit, CtrlInit
<1>1. TypeOK
  BY ConfigAssumption DEF ConfigAssumption, TypeOK, ServerTypeOK, LinkStates, PollStates, CallStates
<1>2. Positions
  BY DEF Positions, Asking
<1> QED
  BY <1>1, <1>2 DEF TypeInv

LEMMA TypeServer ==
    ASSUME TypeInv, NEW c \in Clients, ServerStep(c)
    PROVE  TypeInv'
<1> USE ServerAssumption DEF ServerAssumption, TypeInv, TypeOK, ServerTypeOK
<1>0. UNCHANGED <<ctrlVars, pollVars>> /\ UNCHANGED sval
  BY DEF ServerStep, Accept, Refuse, Drop, Serve, Trap, Foreign, SendFrame
<1>1. link' \in [Clients -> LinkStates]
  BY DEF ServerStep, Accept, Refuse, Drop, Serve, Trap, Foreign, SendFrame, LinkStates
<1>2. reqs' \in [Clients -> Seq(Request)]
  <2>1. CASE Drop(c)
    BY <2>1 DEF Drop
  <2>2. CASE Serve(c)
    BY <2>2 DEF Serve
  <2>3. CASE UNCHANGED reqs
    BY <2>3
  <2> QED
    BY <2>1, <2>2, <2>3 DEF ServerStep, Accept, Refuse, Trap, Foreign, SendFrame
<1>3. wire' \in [Clients -> Seq(Frame)]
  <2>1. CASE Drop(c)
    <3>1. PICK n \in 0 .. Len(wire[c]) : wire' = [wire EXCEPT ![c] = SubSeq(@, 1, n)]
      BY <2>1 DEF Drop
    <3>2. SubSeq(wire[c], 1, n) \in Seq(Frame)
      BY <3>1
    <3> QED
      BY <3>1, <3>2
  <2>2. CASE Serve(c)
    <3>1. Head(reqs[c]) \in Request
      BY <2>2 DEF Serve
    <3>2. AnswerTo(c, Head(reqs[c])) \in Frame
      BY <3>1 DEF AnswerTo, Request, Frame
    <3> QED
      BY <2>2, <3>2 DEF Serve
  <2>3. ASSUME NEW f \in Frame, SendFrame(c, f)
        PROVE  wire' \in [Clients -> Seq(Frame)]
    BY <2>3 DEF SendFrame
  <2>4. CASE Trap(c) \/ Foreign(c)
    BY <2>3, <2>4 DEF Trap, Foreign, Frame
  <2> QED
    BY <2>1, <2>2, <2>4 DEF ServerStep, Accept, Refuse
<1>4. TypeOK'
  BY <1>0, <1>1, <1>2, <1>3 DEF ctrlVars, pollVars
<1>5. Positions'
  BY <1>0 DEF Positions, ctrlVars, pollVars, Polling, Asking, Cc
<1> QED
  BY <1>4, <1>5

LEMMA TypeChange ==
    ASSUME TypeInv, NEW c \in Clients, NEW v \in Vars, NEW x \in Values, ChangeStep(c, v, x)
    PROVE  TypeInv'
<1> USE DEF TypeInv, TypeOK, ServerTypeOK, ChangeStep, Change
<1>1. sval' \in [Clients -> [Vars -> Values]]
  OBVIOUS
<1>2. window' \subseteq Values
  OBVIOUS
<1>3. TypeOK'
  BY <1>1, <1>2 DEF ctrlVars
<1>4. Positions'
  BY DEF Positions, ctrlVars, Polling, Asking, Cc
<1> QED
  BY <1>3, <1>4

\* close(fd) leaves the variables of the connection well typed.
LEMMA CloseFdType ==
    ASSUME TypeInv, NEW c \in Clients, CloseFd(c)
    PROVE  /\ link' \in [Clients -> LinkStates]
           /\ reqs' \in [Clients -> Seq(Request)]
           /\ wire' \in [Clients -> Seq(Frame)]
           /\ cut' \in [Clients -> BOOLEAN]
<1>1. link' \in [Clients -> LinkStates] /\ cut' \in [Clients -> BOOLEAN]
  BY DEF TypeInv, TypeOK, ServerTypeOK, CloseFd, LinkStates
<1>2. reqs' \in [Clients -> Seq(Request)]
  BY DEF TypeInv, TypeOK, ServerTypeOK, CloseFd
<1>3. wire' \in [Clients -> Seq(Frame)]
  BY DEF TypeInv, TypeOK, ServerTypeOK, CloseFd
<1> QED
  BY <1>1, <1>2, <1>3

LEMMA TypeCtrlCall ==
    ASSUME TypeInv, CtrlCall
    PROVE  TypeInv'
<1> USE DEF TypeInv, TypeOK, PollStates, CallStates
<1>1. Cc \in Clients
  BY CurrentClient
     DEF Positions, CtrlCall, ConnectReady, ConnectFails, SendOk, SendFails, ReadHeader,
         HeaderShort, HeaderTimeout, ReadBody, BodyShort
<1>2. Asking => CurVar \in Vars
  BY CurrentVar DEF Positions, Asking
<1>0. UNCHANGED <<pollVars, Cc, CurVar>> /\ sval' = sval /\ (Polling' <=> Polling)
  BY DEF CtrlCall, ConnectReady, ConnectFails, SendOk, SendFails, ReadHeader, Returns,
         HeaderShort, HeaderTimeout, ReadBody, BodyShort, pollVars, Cc, CurVar, serverVars,
         Polling
<1>3. CASE ConnectReady(Cc)
  <2>1. [next_id |-> 0] \in Handle /\ [next_id |-> 0] # NoHandle
    BY ServerAssumption, SimpleCtrlAssumption DEF Handle, Ids
  <2> QED
    BY <1>0, <1>1, <1>3, <2>1 DEF ConnectReady, ServerTypeOK, Positions, Asking, pollVars
<1>4. CASE ConnectFails(Cc)
  BY <1>0, <1>1, <1>4, CloseFdType DEF ConnectFails, ServerTypeOK, Positions, Asking, pollVars
<1>5. CASE SendOk(Cc, CurVar)
  <2>1. RequestId(Cc) \in Ids
    BY <1>1, <1>5, IdTypes DEF SendOk, Positions, Asking, RequestId, Handle
  <2>2. [id |-> RequestId(Cc), var |-> CurVar] \in Request
    BY <1>2, <1>5, <2>1 DEF SendOk, Asking, Request
  <2>3. reqs' \in [Clients -> Seq(Request)]
    BY <1>1, <1>5, <2>2 DEF SendOk, ServerTypeOK
  <2> QED
    BY <1>0, <1>5, <2>3 DEF SendOk, ServerTypeOK, Positions, Asking, pollVars
<1>6. CASE SendFails
  BY <1>0, <1>6 DEF SendFails, Returns, serverVars, ServerTypeOK, Positions, Asking, pollVars
<1>7. CASE ReadHeader(Cc)
  BY <1>0, <1>7 DEF ReadHeader, serverVars, ServerTypeOK, Positions, Asking, pollVars
<1>8. CASE HeaderShort(Cc)
  BY <1>0, <1>1, <1>8
     DEF HeaderShort, Returns, serverVars, ServerTypeOK, Positions, Asking, pollVars
<1>9. CASE HeaderTimeout
  BY <1>0, <1>9 DEF HeaderTimeout, Returns, serverVars, ServerTypeOK, Positions, Asking, pollVars
<1>10. CASE ReadBody(Cc, CurVar)
  <2>1. Head(wire[Cc]) \in Frame /\ Tail(wire[Cc]) \in Seq(Frame)
    BY <1>1, <1>10 DEF ReadBody, ServerTypeOK
  <2>2. wire' \in [Clients -> Seq(Frame)]
    BY <1>1, <1>10, <2>1 DEF ReadBody, ServerTypeOK
  <2>3. ret' \in Words \cup {NoValue}
    BY <1>10, <2>1, FirstWordType DEF ReadBody, Returns, Accepted, Frame
  <2>4. pc' \in {"header", "got"}
    BY <1>10 DEF ReadBody, Returns
  <2> QED
    BY <1>0, <1>10, <2>2, <2>3, <2>4
       DEF ReadBody, ServerTypeOK, Positions, Asking, pollVars
<1>11. CASE BodyShort(Cc)
  BY <1>0, <1>1, <1>11
     DEF BodyShort, Returns, serverVars, ServerTypeOK, Positions, Asking, pollVars
<1> QED
  BY <1>3, <1>4, <1>5, <1>6, <1>7, <1>8, <1>9, <1>10, <1>11 DEF CtrlCall

\* The steps of the poll itself.
LEMMA TypePoll ==
    ASSUME TypeInv,
           \/ PollBegin \/ PollEnd \/ ClientPoll \/ Opened
           \/ AskNext \/ AllAsked \/ GotValue \/ GotNothing
    PROVE  TypeInv'
<1> USE ConfigAssumption
    DEF ConfigAssumption, TypeInv, TypeOK, PollStates, CallStates, ServerTypeOK, Positions,
        serverVars, NextClient
<1>1. CASE PollBegin
  BY <1>1 DEF PollBegin, Asking, Polling, Cc
<1>2. CASE PollEnd
  BY <1>2 DEF PollEnd, Asking, Polling, Cc, pollVars
<1>3. CASE ClientPoll
  <2>1. Polling /\ Cc \in Clients /\ Polling' /\ Cc' = Cc
    BY <1>3, CurrentClient DEF ClientPoll, Polling, Cc
  <2>2. CASE sch[Cc] = NoHandle
    BY <1>3, <2>1, <2>2 DEF ClientPoll, Open, LinkStates, Asking
  <2>3. CASE sch[Cc] # NoHandle
    BY <1>3, <2>1, <2>3 DEF ClientPoll, Asking
  <2> QED
    BY <2>2, <2>3
<1>4. CASE Opened
  <2>1. Polling
    BY <1>4 DEF Opened
  <2>2. CASE sch[Cc] = NoHandle
    BY <1>4, <2>1, <2>2 DEF Opened, Asking, Polling
  <2>3. CASE sch[Cc] # NoHandle
    BY <1>4, <2>1, <2>3 DEF Opened, Asking, Polling, Cc
  <2> QED
    BY <2>2, <2>3
<1>5. CASE AskNext
  <2>1. Polling /\ Cc \in Clients /\ CurVar \in Vars
    BY <1>5, CurrentClient, CurrentVar DEF AskNext
  <2>2. sch[Cc] \in Handle
    BY <1>5, <2>1 DEF AskNext, Asking
  <2>3. [sch[Cc] EXCEPT !.next_id = Incremented(@)] \in Handle
    BY <2>2, IdTypes DEF Handle
  <2>4. /\ sch' = [sch EXCEPT ![Cc] = [sch[Cc] EXCEPT !.next_id = Incremented(@)]]
        /\ sch' \in [Clients -> Handle \cup {NoHandle}]
        /\ sch'[Cc] # NoHandle
    BY <1>5, <2>1, <2>3, SimpleCtrlAssumption DEF AskNext, Get, Handle, SimpleCtrlAssumption
  <2>5. window' \subseteq Values
    BY <1>5, <2>1 DEF AskNext
  <2> QED
    BY <1>5, <2>1, <2>4, <2>5 DEF AskNext, Get, Asking, Polling, Cc
<1>6. CASE AllAsked
  BY <1>6 DEF AllAsked, Asking, Polling, Cc
<1>7. CASE GotValue
  <2>1. Polling /\ Cc \in Clients /\ CurVar \in Vars
    BY <1>7, CurrentClient, CurrentVar DEF GotValue, Asking
  <2>2. AddEntry(shown[Cc], CurVar, ret) \subseteq Entry
    BY <1>7, <2>1 DEF GotValue, AddEntry, Entry
  <2>3. shown' \in [Clients -> SUBSET Entry]
    BY <1>7, <2>1, <2>2 DEF GotValue
  <2> QED
    BY <1>7, <2>1, <2>3 DEF GotValue, Asking, Polling, Cc
<1>8. CASE GotNothing
  <2>1. Polling /\ Cc \in Clients
    BY <1>8, CurrentClient DEF GotNothing
  <2>2. CloseFd(Cc)
    BY <1>8 DEF GotNothing, Close
  <2>3. sch' \in [Clients -> Handle \cup {NoHandle}]
    BY <1>8, <2>1 DEF GotNothing, Close
  <2>4. cur' \in 1 .. Len(ClientSeq) + 1
    BY <1>8, <2>1 DEF GotNothing, Polling
  <2>5. Positions'
    BY <1>8 DEF GotNothing, Asking
  <2> QED
    BY <1>8, <2>1, <2>2, <2>3, <2>4, <2>5, CloseFdType DEF GotNothing
<1> QED
  BY <1>1, <1>2, <1>3, <1>4, <1>5, <1>6, <1>7, <1>8

LEMMA TypeStep ==
    ASSUME TypeInv, [Next]_vars
    PROVE  TypeInv'
<1>1. CASE UNCHANGED vars
  BY <1>1 DEF vars, serverVars, ctrlVars, pollVars, TypeInv, TypeOK, ServerTypeOK, Positions,
              Polling, Asking, Cc
<1>2. CASE Process
  BY <1>2, TypePoll, TypeCtrlCall DEF Process
<1>3. CASE \E c \in Clients : ServerStep(c)
  BY <1>3, TypeServer
<1>4. CASE \E c \in Clients, v \in Vars, x \in Values : ChangeStep(c, v, x)
  BY <1>4, TypeChange
<1> QED
  BY <1>1, <1>2, <1>3, <1>4 DEF Next

\* Every variable always has its type: in particular request ids wrap around, no
\* value is shown that is not a word, and the poll never leaves its lists.
THEOREM TypeCorrect == Spec => []TypeOK
<1>1. TypeInv => TypeOK
  BY DEF TypeInv
<1> QED
  BY TypeInit, TypeStep, <1>1, PTL DEF Spec

-----------------------------------------------------------------------------
(* The inductive invariant behind the safety properties.                   *)

\* The poll is at client c.
At(c) == Polling /\ Cc = c

\* A descriptor belongs to a handle or to simple_ctrl_open, a handle's
\* connection is made, and nothing is in flight before that.
LinkInv(c) ==
    /\ link[c] # "none" <=> sch[c] # NoHandle \/ (At(c) /\ pc = "connect")
    /\ sch[c] # NoHandle => link[c] # "syn"
    /\ link[c] \in {"none", "syn"} => reqs[c] = <<>> /\ wire[c] = <<>>

CutInv(c) == cut[c] => At(c) /\ pc = "got" /\ ret = NoValue

\* Lockstep, also of clients without a handle, and of a client being connected.
LockInv(c) ==
    /\ ~(At(c) /\ pc \in {"header", "body", "got"}) => Quiet(c)
    /\ At(c) /\ pc \in {"header", "body"}
            => \/ Asked(c, CurVar)
               \/ Answered(c, CurVar)
               \/ Quiet(c) /\ link[c] = "dead"
    /\ At(c) /\ pc = "got" /\ ret # NoValue => Quiet(c)

\* The window has the current value from the question on.
WindowInv == pc \in {"send", "header", "body"} => sval[Cc][CurVar] \in window

IInv ==
    /\ TypeInv
    /\ WindowInv
    /\ \A c \in Clients : LinkInv(c) /\ CutInv(c) /\ LockInv(c)

\* What the steps have in common.
LEMMA AtCurrent ==
    ASSUME TypeInv, CtrlCall
    PROVE  /\ Polling /\ Cc \in Clients
           /\ UNCHANGED <<cur, vi, window, sval>> /\ Cc' = Cc
           /\ \A c : At(c)' <=> At(c)
<1>1. Polling
  BY DEF TypeInv, Positions, CtrlCall, ConnectReady, ConnectFails, SendOk, SendFails,
         ReadHeader, HeaderShort, HeaderTimeout, ReadBody, BodyShort
<1>2. UNCHANGED <<pollVars, sval>>
  BY DEF CtrlCall, ConnectReady, ConnectFails, SendOk, SendFails, ReadHeader, Returns,
         HeaderShort, HeaderTimeout, ReadBody, BodyShort, serverVars
<1> QED
  BY <1>1, <1>2, CurrentClient DEF pollVars, Cc, At, Polling

LEMMA LinkServer ==
    ASSUME TypeInv, NEW c \in Clients, LinkInv(c), CutInv(c),
           NEW d \in Clients, ServerStep(d)
    PROVE  LinkInv(c)' /\ CutInv(c)'
<1>1. UNCHANGED <<sch, cut, pc, ret, cur, At(c)>>
  BY DEF ServerStep, ctrlVars, pollVars, At, Polling, Cc
<1>2. CutInv(c)'
  BY <1>1 DEF CutInv
<1>3. CASE c # d
  <2>1. UNCHANGED <<link[c], reqs[c], wire[c]>>
    BY <1>3 DEF ServerStep, Accept, Refuse, Drop, Serve, Trap, Foreign, SendFrame,
                TypeInv, TypeOK, ServerTypeOK
  <2> QED
    BY <1>1, <1>2, <2>1 DEF LinkInv
<1>4. CASE c = d
  <2>1. /\ link[c] \in {"syn", "open"}
        /\ link'[c] \in {"open", "dead"}
    BY <1>4 DEF ServerStep, Accept, Refuse, Drop, Serve, Trap, Foreign, SendFrame,
                TypeInv, TypeOK, ServerTypeOK
  <2> QED
    BY <1>1, <1>2, <2>1 DEF LinkInv
<1> QED
  BY <1>3, <1>4

LEMMA LinkCtrlCall ==
    ASSUME TypeInv, NEW c \in Clients, LinkInv(c), CutInv(c), CtrlCall
    PROVE  LinkInv(c)' /\ CutInv(c)'
<1> USE AtCurrent
    DEF TypeInv, TypeOK, ServerTypeOK, LinkInv, CutInv, serverVars, Positions, Asking
<1>1. CASE ConnectReady(Cc)
  <2>1. [next_id |-> 0] # NoHandle
    BY ServerAssumption, SimpleCtrlAssumption DEF ServerAssumption, SimpleCtrlAssumption, Ids
  <2> QED
    BY <1>1, <2>1 DEF ConnectReady, At, LinkStates
<1>2. CASE ConnectFails(Cc)
  BY <1>2 DEF ConnectFails, CloseFd, At
<1>3. CASE SendOk(Cc, CurVar)
  BY <1>3 DEF SendOk, At
<1>4. CASE SendFails
  BY <1>4 DEF SendFails, Returns
<1>5. CASE ReadHeader(Cc)
  BY <1>5 DEF ReadHeader
<1>6. CASE HeaderShort(Cc)
  BY <1>6 DEF HeaderShort, Returns, At
<1>7. CASE HeaderTimeout
  BY <1>7 DEF HeaderTimeout, Returns
<1>8. CASE ReadBody(Cc, CurVar)
  BY <1>8 DEF ReadBody, Returns, At
<1>9. CASE BodyShort(Cc)
  BY <1>9 DEF BodyShort, Returns, At
<1> QED
  BY <1>1, <1>2, <1>3, <1>4, <1>5, <1>6, <1>7, <1>8, <1>9 DEF CtrlCall

LEMMA LinkPoll ==
    ASSUME TypeInv, NEW c \in Clients, LinkInv(c), CutInv(c),
           \/ PollBegin \/ PollEnd \/ ClientPoll \/ Opened
           \/ AskNext \/ AllAsked \/ GotValue \/ GotNothing
    PROVE  LinkInv(c)' /\ CutInv(c)'
<1> USE DEF TypeInv, TypeOK, ServerTypeOK, LinkInv, CutInv, serverVars, Positions, Asking, At
<1>1. CASE PollBegin
  BY <1>1 DEF PollBegin
<1>2. CASE PollEnd
  BY <1>2 DEF PollEnd
<1>3. CASE ClientPoll
  <2>1. Cc \in Clients /\ Polling /\ Polling' /\ Cc' = Cc
    BY <1>3, CurrentClient DEF ClientPoll, Polling, Cc
  <2> QED
    BY <1>3, <2>1 DEF ClientPoll, Open
<1>4. CASE Opened
  BY <1>4 DEF Opened, NextClient
<1>5. CASE AskNext
  <2>1. Polling /\ Cc \in Clients /\ sch[Cc] \in Handle /\ Polling' /\ Cc' = Cc
    BY <1>5, CurrentClient DEF AskNext, Get, Polling, Cc
  <2>2. sch'[Cc] # NoHandle
    BY <1>5, <2>1, TypePoll
       DEF AskNext, Get
  <2> QED
    BY <1>5, <2>1, <2>2 DEF AskNext, Get
<1>6. CASE AllAsked
  BY <1>6 DEF AllAsked, NextClient
<1>7. CASE GotValue
  BY <1>7 DEF GotValue
<1>8. CASE GotNothing
  <2>1. Polling /\ Cc \in Clients
    BY <1>8, CurrentClient DEF GotNothing
  <2> QED
    BY <1>8, <2>1 DEF GotNothing, Close, CloseFd, NextClient
<1> QED
  BY <1>1, <1>2, <1>3, <1>4, <1>5, <1>6, <1>7, <1>8

-----------------------------------------------------------------------------
(* Lockstep.  First, what happens to the frames on their way.              *)

LEMMA AppendFrame ==
    ASSUME NEW s \in Seq(Frame), NEW f \in Frame
    PROVE  /\ Len(Append(s, f)) = Len(s) + 1
           /\ Append(s, f)[Len(s) + 1] = f
           /\ \A i \in 1 .. Len(s) : Append(s, f)[i] = s[i]
OBVIOUS

LEMMA TailFrame ==
    ASSUME NEW s \in Seq(Frame), s # <<>>
    PROVE  /\ Len(Tail(s)) = Len(s) - 1
           /\ Len(s) >= 1 /\ Head(s) = s[1]
           /\ \A i \in 1 .. Len(s) - 1 : Tail(s)[i] = s[i + 1]
OBVIOUS

LEMMA PrefixFrames ==
    ASSUME NEW s \in Seq(Frame), NEW n \in 0 .. Len(s)
    PROVE  /\ Len(SubSeq(s, 1, n)) = n
           /\ \A i \in 1 .. n : SubSeq(s, 1, n)[i] = s[i]
OBVIOUS

\* A frame that is no answer changes nothing.
LEMMA AppendOther ==
    ASSUME NEW s \in Seq(Frame), NEW f \in Frame, ~IsAnswer(f), NEW id, NEW v, NEW vals
    PROVE  /\ Unanswered(s) => Unanswered(Append(s, f))
           /\ OneAnswer(s, id, v, vals) => OneAnswer(Append(s, f), id, v, vals)
BY AppendFrame DEF Unanswered, OneAnswer

LEMMA AppendAnswer ==
    ASSUME NEW s \in Seq(Frame), NEW f \in Frame, NEW id, NEW v, NEW vals,
           Unanswered(s), Answers(f, id, v, vals)
    PROVE  OneAnswer(Append(s, f), id, v, vals)
<1>1. Len(s) + 1 \in 1 .. Len(Append(s, f)) /\ Append(s, f)[Len(s) + 1] = f
  BY AppendFrame
<1>2. \A i \in 1 .. Len(Append(s, f)) : i # Len(s) + 1 => ~IsAnswer(Append(s, f)[i])
  BY AppendFrame DEF Unanswered
<1> QED
  BY <1>1, <1>2 DEF OneAnswer

LEMMA PrefixAnswers ==
    ASSUME NEW s \in Seq(Frame), NEW n \in 0 .. Len(s), NEW id, NEW v, NEW vals
    PROVE  /\ Unanswered(s) => Unanswered(SubSeq(s, 1, n))
           /\ OneAnswer(s, id, v, vals)
                => Unanswered(SubSeq(s, 1, n)) \/ OneAnswer(SubSeq(s, 1, n), id, v, vals)
BY PrefixFrames DEF Unanswered, OneAnswer

LEMMA TailAnswers ==
    ASSUME NEW s \in Seq(Frame), s # <<>>, NEW id, NEW v, NEW vals
    PROVE  /\ Unanswered(s) => ~IsAnswer(Head(s)) /\ Unanswered(Tail(s))
           /\ OneAnswer(s, id, v, vals) /\ IsAnswer(Head(s))
                => Answers(Head(s), id, v, vals) /\ Unanswered(Tail(s))
           /\ OneAnswer(s, id, v, vals) /\ ~IsAnswer(Head(s))
                => OneAnswer(Tail(s), id, v, vals)
<1>1. Unanswered(s) => ~IsAnswer(Head(s)) /\ Unanswered(Tail(s))
  BY TailFrame DEF Unanswered
<1>2. ASSUME OneAnswer(s, id, v, vals)
      PROVE  IF IsAnswer(Head(s))
             THEN Answers(Head(s), id, v, vals) /\ Unanswered(Tail(s))
             ELSE OneAnswer(Tail(s), id, v, vals)
  <2>1. PICK k \in 1 .. Len(s) : /\ Answers(s[k], id, v, vals)
                                 /\ \A i \in 1 .. Len(s) : i # k => ~IsAnswer(s[i])
    BY <1>2 DEF OneAnswer
  <2>2. CASE k = 1
    <3>1. Unanswered(Tail(s))
      BY <2>1, <2>2, TailFrame DEF Unanswered
    <3>2. IsAnswer(Head(s)) /\ Answers(Head(s), id, v, vals)
      BY <2>1, <2>2, TailFrame DEF IsAnswer, Answers
    <3> QED
      BY <3>1, <3>2
  <2>3. CASE k # 1
    <3>1. ~IsAnswer(Head(s))
      BY <2>1, <2>3, TailFrame
    <3>2. /\ k - 1 \in 1 .. Len(Tail(s))
          /\ Answers(Tail(s)[k - 1], id, v, vals)
          /\ \A i \in 1 .. Len(Tail(s)) : i # k - 1 => ~IsAnswer(Tail(s)[i])
      BY <2>1, <2>3, TailFrame
    <3> QED
      BY <3>1, <3>2 DEF OneAnswer
  <2> QED
    BY <2>2, <2>3
<1> QED
  BY <1>1, <1>2

\* A server does not answer what was not asked: its steps keep the lockstep.
LEMMA LockServer ==
    ASSUME TypeInv, WindowInv, NEW c \in Clients, LinkInv(c), LockInv(c),
           NEW d \in Clients, ServerStep(d)
    PROVE  LockInv(c)'
<1> DEFINE rid == RequestId(c)
<1>0. wire[c] \in Seq(Frame) /\ reqs[c] \in Seq(Request)
      /\ DOMAIN wire = Clients /\ DOMAIN reqs = Clients /\ DOMAIN link = Clients
  BY DEF TypeInv, TypeOK, ServerTypeOK, ServerStep, Accept, Refuse, Drop, Serve, Trap, Foreign,
         SendFrame
<1>1. /\ UNCHANGED <<sch, pc, ret, cur, vi, window, sval>>
      /\ UNCHANGED <<At(c), rid, CurVar>>
  BY DEF ServerStep, Accept, Refuse, Drop, Serve, Trap, Foreign, SendFrame,
         ctrlVars, pollVars, At, Polling, Cc, RequestId, CurVar
<1>2. CASE UNCHANGED <<link[c], reqs[c], wire[c]>>
  BY <1>1, <1>2 DEF LockInv, Quiet, Asked, Answered, rid
<1>3. CASE c = d /\ (Accept(c) \/ Refuse(c))
  <2>1. link[c] = "syn" /\ UNCHANGED <<reqs[c], wire[c]>>
    BY <1>3 DEF Accept, Refuse
  <2>2. ~(At(c) /\ pc \in {"header", "body", "got"})
    BY <2>1 DEF LinkInv, TypeInv, Positions, Asking, At
  <2> QED
    BY <1>1, <2>1, <2>2 DEF LockInv, Quiet
<1>4. CASE c = d /\ Drop(c)
  <2>1. PICK n \in 0 .. Len(wire[c]) : wire'[c] = SubSeq(wire[c], 1, n)
    BY <1>0, <1>4 DEF Drop
  <2>2. reqs'[c] = <<>> /\ link'[c] = "dead"
    BY <1>0, <1>4 DEF Drop
  <2>3. Quiet(c) \/ Asked(c, CurVar) => Quiet(c)'
    BY <1>0, <2>1, <2>2, PrefixAnswers DEF Quiet, Asked
  <2>4. Answered(c, CurVar) => Answered(c, CurVar)' \/ Quiet(c)'
    BY <1>0, <1>1, <2>1, <2>2, PrefixAnswers DEF Quiet, Answered
  <2> QED
    BY <1>1, <2>2, <2>3, <2>4 DEF LockInv
<1>5. CASE c = d /\ Serve(c)
  <2>1. reqs[c] # <<>>
    BY <1>5 DEF Serve
  <2>2. CASE At(c) /\ pc \in {"header", "body"}
    <3>1. Asked(c, CurVar)
      BY <2>1, <2>2 DEF LockInv, Quiet, Answered
    <3> DEFINE f == AnswerTo(c, Head(reqs[c]))
    <3>2. Head(reqs[c]) = [id |-> rid, var |-> CurVar] /\ Tail(reqs[c]) = <<>>
      BY <3>1 DEF Asked
    <3>3. Answers(f, rid, CurVar, window)
      BY <2>2, <3>2 DEF AnswerTo, Answers, WindowInv, At
    <3>4. f \in Frame
      <4>1. Head(reqs[c]) \in Request
        BY <1>0, <2>1
      <4>2. \A v \in Vars : sval[c][v] \in Values
        BY DEF TypeInv, TypeOK, ServerTypeOK
      <4> QED
        BY <4>1, <4>2 DEF AnswerTo, Frame, Request
    <3>5. reqs'[c] = <<>> /\ wire'[c] = Append(wire[c], f)
      BY <1>0, <1>5, <3>2 DEF Serve
    <3>6. OneAnswer(Append(wire[c], f), rid, CurVar, window)
      BY <1>0, <3>1, <3>3, <3>4, AppendAnswer DEF Asked
    <3>7. Answered(c, CurVar)'
      BY <1>1, <3>5, <3>6 DEF Answered
    <3> QED
      BY <1>1, <2>2, <3>7 DEF LockInv
  <2>3. CASE ~(At(c) /\ pc \in {"header", "body"})
    BY <1>1, <2>1, <2>3 DEF LockInv, Quiet
  <2> QED
    BY <2>2, <2>3
<1>6. CASE c = d /\ (Trap(c) \/ Foreign(c))
  <2>1. PICK f \in Frame : SendFrame(c, f) /\ ~IsAnswer(f)
    BY <1>6 DEF Trap, Foreign, IsAnswer, Frame
  <2>2. UNCHANGED <<reqs[c], link[c]>> /\ wire'[c] = Append(wire[c], f)
    BY <1>0, <2>1 DEF SendFrame
  <2>3. Quiet(c) => Quiet(c)'
    BY <1>0, <2>1, <2>2, AppendOther DEF Quiet
  <2>4. Asked(c, CurVar) => Asked(c, CurVar)'
    BY <1>0, <1>1, <2>1, <2>2, AppendOther DEF Asked
  <2>5. Answered(c, CurVar) => Answered(c, CurVar)'
    BY <1>0, <1>1, <2>1, <2>2, AppendOther DEF Answered
  <2> QED
    BY <1>1, <2>2, <2>3, <2>4, <2>5 DEF LockInv
<1>7. c # d => UNCHANGED <<link[c], reqs[c], wire[c]>>
  BY <1>0 DEF ServerStep, Accept, Refuse, Drop, Serve, Trap, Foreign, SendFrame
<1> QED
  BY <1>2, <1>3, <1>4, <1>5, <1>6, <1>7 DEF ServerStep

LEMMA LockCtrlCall ==
    ASSUME TypeInv, WindowInv, NEW c \in Clients, LinkInv(c), LockInv(c), CtrlCall
    PROVE  LockInv(c)'
<1>0. wire[c] \in Seq(Frame) /\ reqs[c] \in Seq(Request)
      /\ DOMAIN wire = Clients /\ DOMAIN reqs = Clients /\ DOMAIN link = Clients
  BY DEF TypeInv, TypeOK, ServerTypeOK
<1>1. /\ Polling /\ Cc \in Clients
      /\ UNCHANGED <<window, At(c), CurVar>>
  BY AtCurrent DEF CurVar, At, Polling
<1>2. CASE c # Cc
  <2>1. UNCHANGED <<link[c], reqs[c], wire[c]>>
    BY <1>0, <1>1, <1>2
       DEF CtrlCall, ConnectReady, ConnectFails, CloseFd, SendOk, SendFails, ReadHeader,
           Returns, HeaderShort, HeaderTimeout, ReadBody, BodyShort, serverVars
  <2>2. ~At(c)
    BY <1>2 DEF At
  <2> QED
    BY <1>1, <2>1, <2>2 DEF LockInv, Quiet
<1>3. CASE c = Cc
  <2> DEFINE rid == RequestId(c)
  <2>0. At(c)
    BY <1>1, <1>3 DEF At
  <2>1. CASE ConnectReady(c)
    BY <1>1, <2>0, <2>1 DEF ConnectReady, LockInv, Quiet
  <2>2. CASE ConnectFails(c)
    <3>1. Quiet(c)'
      BY <1>0, <2>2 DEF ConnectFails, CloseFd, Quiet, Unanswered
    <3> QED
      BY <2>2, <3>1 DEF ConnectFails, LockInv
  <2>3. CASE SendOk(c, CurVar)
    <3>1. Quiet(c) /\ UNCHANGED <<wire[c], link[c], rid>> /\ pc' = "header"
      BY <2>0, <2>3 DEF SendOk, LockInv, RequestId
    <3>2. CASE link[c] = "open"
      <4>1. reqs'[c] = <<[id |-> rid, var |-> CurVar]>>
        BY <1>0, <2>3, <3>1, <3>2 DEF SendOk, Quiet
      <4>2. Asked(c, CurVar)'
        BY <1>1, <3>1, <4>1 DEF Asked, Quiet
      <4> QED
        BY <1>1, <2>0, <3>1, <4>2 DEF LockInv
    <3>3. CASE link[c] # "open"
      <4>1. link[c] = "dead"
        BY <2>3, <1>3, <3>3
           DEF SendOk, LinkInv, TypeInv, TypeOK, ServerTypeOK, LinkStates, Positions, Asking
      <4>2. Quiet(c)'
        BY <2>3, <3>1, <3>3 DEF SendOk, Quiet
      <4> QED
        BY <1>1, <2>0, <3>1, <4>1, <4>2 DEF LockInv
    <3> QED
      BY <3>2, <3>3
  <2>4. CASE SendFails \/ HeaderShort(c) \/ HeaderTimeout \/ BodyShort(c)
    BY <1>1, <2>0, <2>4
       DEF SendFails, HeaderShort, HeaderTimeout, BodyShort, Returns, LockInv, Quiet, serverVars
  <2>5. CASE ReadHeader(c)
    BY <1>1, <2>0, <2>5
       DEF ReadHeader, LockInv, Quiet, Asked, Answered, RequestId, serverVars
  <2>6. CASE ReadBody(c, CurVar)
    <3> DEFINE f == Head(wire[c])
    <3>1. /\ pc = "body" /\ wire[c] # <<>>
          /\ wire'[c] = Tail(wire[c])
          /\ UNCHANGED <<link[c], reqs[c], rid>>
      BY <1>0, <2>6 DEF ReadBody, RequestId
    <3>2. CASE f.kind = "foreign"
      <4>1. pc' = "header" /\ ~IsAnswer(f)
        BY <2>6, <3>2 DEF ReadBody, IsAnswer
      <4>2. Asked(c, CurVar) => Asked(c, CurVar)'
        BY <1>0, <1>1, <3>1, TailAnswers DEF Asked
      <4>3. Answered(c, CurVar) => Answered(c, CurVar)'
        BY <1>0, <1>1, <3>1, <4>1, TailAnswers DEF Answered
      <4>4. Quiet(c) => Quiet(c)'
        BY <1>0, <3>1, TailAnswers DEF Quiet
      <4> QED
        BY <1>1, <2>0, <3>1, <4>1, <4>2, <4>3, <4>4 DEF LockInv
    <3>3. CASE f.kind # "foreign"
      <4>1. pc' = "got" /\ (ret' # NoValue => f.kind = "reply")
        BY <2>6, <3>3 DEF ReadBody, Returns, Accepted
      <4>2. f.kind = "reply" => Quiet(c)'
        <5>1. SUFFICES ASSUME IsAnswer(f) PROVE Quiet(c)'
          BY DEF IsAnswer
        <5>2. Answered(c, CurVar)
          BY <1>0, <2>0, <3>1, <5>1, TailAnswers DEF LockInv, Asked, Quiet
        <5> QED
          BY <1>0, <3>1, <5>1, <5>2, TailAnswers DEF Answered, Quiet
      <4> QED
        BY <1>1, <2>0, <4>1, <4>2 DEF LockInv
    <3> QED
      BY <3>2, <3>3
  <2> QED
    BY <1>3, <2>1, <2>2, <2>3, <2>4, <2>5, <2>6 DEF CtrlCall
<1> QED
  BY <1>2, <1>3

LEMMA LockPoll ==
    ASSUME TypeInv, NEW c \in Clients, LockInv(c),
           \/ PollBegin \/ PollEnd \/ ClientPoll \/ Opened
           \/ AskNext \/ AllAsked \/ GotValue \/ GotNothing
    PROVE  LockInv(c)'
<1>1. Quiet(c)'
  <2>1. CASE Quiet(c) /\ UNCHANGED <<reqs, wire>>
    BY <2>1 DEF Quiet
  <2>2. CASE GotNothing
    <3>1. Cc \in Clients /\ Polling
      BY <2>2, CurrentClient DEF GotNothing, TypeInv, Positions
    <3>2. CASE c = Cc
      BY <2>2, <3>1, <3>2
         DEF GotNothing, Close, CloseFd, Quiet, Unanswered, TypeInv, TypeOK, ServerTypeOK
    <3>3. CASE c # Cc
      <4>1. Quiet(c)
        BY <3>3 DEF LockInv, At
      <4> QED
        BY <2>2, <3>1, <3>3, <4>1
           DEF GotNothing, Close, CloseFd, Quiet, TypeInv, TypeOK, ServerTypeOK
    <3> QED
      BY <3>2, <3>3
  <2>3. CASE GotValue
    BY <2>1, <2>3 DEF GotValue, LockInv, serverVars
  <2>4. CASE PollBegin \/ PollEnd \/ ClientPoll \/ Opened \/ AskNext \/ AllAsked
    <3>1. UNCHANGED <<reqs, wire>> /\ pc \in {"idle", "client", "opened", "loop"}
      BY <2>4 DEF PollBegin, PollEnd, ClientPoll, Open, Opened, AskNext, Get, AllAsked, serverVars
    <3> QED
      BY <2>1, <3>1 DEF LockInv
  <2> QED
    BY <2>2, <2>3, <2>4
<1>2. pc' \notin {"header", "body", "got"}
  BY DEF PollBegin, PollEnd, ClientPoll, Open, Opened, NextClient, AskNext, Get, AllAsked,
         GotValue, GotNothing
<1> QED
  BY <1>1, <1>2 DEF LockInv

LEMMA LockChange ==
    ASSUME TypeInv, NEW c \in Clients, LinkInv(c), CutInv(c), LockInv(c),
           NEW d \in Clients, NEW v \in Vars, NEW x \in Values, ChangeStep(d, v, x)
    PROVE  LinkInv(c)' /\ CutInv(c)' /\ LockInv(c)'
<1>1. /\ UNCHANGED <<link, reqs, wire, sch, cut, pc, ret, cur, vi>>
      /\ window \subseteq window'
  BY DEF ChangeStep, Change, ctrlVars
<1>2. /\ At(c)' <=> At(c)
      /\ UNCHANGED <<CurVar, RequestId(c)>>
  BY <1>1 DEF At, Polling, Cc, CurVar, RequestId
<1>3. Answered(c, CurVar) => Answered(c, CurVar)'
  BY <1>1, <1>2 DEF Answered, OneAnswer, Answers
<1>4. LinkInv(c)' /\ CutInv(c)'
  BY <1>1, <1>2 DEF LinkInv, CutInv
<1>5. LockInv(c)'
  BY <1>1, <1>2, <1>3 DEF LockInv, Quiet, Asked
<1> QED
  BY <1>4, <1>5

LEMMA WindowStep ==
    ASSUME TypeInv, WindowInv, [Next]_vars
    PROVE  WindowInv'
<1>1. CASE UNCHANGED vars \/ \E c \in Clients : ServerStep(c)
  <2>1. UNCHANGED <<pc, sval, cur, vi, window>>
    BY <1>1 DEF vars, serverVars, ctrlVars, pollVars, ServerStep, Accept, Refuse, Drop, Serve,
                Trap, Foreign, SendFrame
  <2> QED
    BY <2>1 DEF WindowInv, Cc, CurVar
<1>2. ASSUME NEW c \in Clients, NEW v \in Vars, NEW x \in Values, ChangeStep(c, v, x)
      PROVE  WindowInv'
  <2>1. UNCHANGED <<pc, cur, vi, Cc, CurVar>>
    BY <1>2 DEF ChangeStep, ctrlVars, Cc, CurVar
  <2>2. SUFFICES ASSUME pc \in {"send", "header", "body"}
                 PROVE  sval'[Cc][CurVar] \in window'
    BY <2>1 DEF WindowInv
  <2>3. Asking /\ sval[Cc][CurVar] \in window
    BY <2>2 DEF Asking, WindowInv
  <2> QED
    BY <1>2, <2>3 DEF ChangeStep, Change, TypeInv, TypeOK, ServerTypeOK
<1>3. CASE CtrlCall
  <2>1. UNCHANGED <<window, sval, Cc, CurVar>>
    BY <1>3, AtCurrent DEF CurVar
  <2>2. pc' \in {"send", "header", "body"} => pc \in {"send", "header", "body"}
    BY <1>3 DEF CtrlCall, ConnectReady, ConnectFails, SendOk, SendFails, ReadHeader, Returns,
                HeaderShort, HeaderTimeout, ReadBody, BodyShort
  <2> QED
    BY <2>1, <2>2 DEF WindowInv
<1>4. CASE AskNext
  BY <1>4 DEF AskNext, Get, WindowInv, Cc, CurVar
<1>5. CASE PollBegin \/ PollEnd \/ ClientPoll \/ Opened \/ AllAsked \/ GotValue \/ GotNothing
  BY <1>5 DEF PollBegin, PollEnd, ClientPoll, Open, Opened, NextClient, AllAsked, GotValue,
              GotNothing, WindowInv
<1> QED
  BY <1>1, <1>2, <1>3, <1>4, <1>5 DEF Next, Process

LEMMA InvInit == Init => IInv
<1> SUFFICES ASSUME Init PROVE IInv
  OBVIOUS
<1>1. TypeInv /\ WindowInv
  BY TypeInit DEF Init, WindowInv
<1>2. ASSUME NEW c \in Clients
      PROVE  LinkInv(c) /\ CutInv(c) /\ LockInv(c)
  BY DEF Init, ServerInit, CtrlInit, LinkInv, CutInv, LockInv, Quiet, Unanswered
<1> QED
  BY <1>1, <1>2 DEF IInv

LEMMA InvStep ==
    ASSUME IInv, [Next]_vars
    PROVE  IInv'
<1>1. TypeInv' /\ WindowInv'
  BY TypeStep, WindowStep DEF IInv
<1>2. ASSUME NEW c \in Clients
      PROVE  (LinkInv(c) /\ CutInv(c) /\ LockInv(c))'
  <2>1. TypeInv /\ WindowInv /\ LinkInv(c) /\ CutInv(c) /\ LockInv(c)
    BY DEF IInv
  <2>2. CASE UNCHANGED vars
    BY <2>1, <2>2
       DEF vars, serverVars, ctrlVars, pollVars, LinkInv, CutInv, LockInv, At, Polling, Cc,
           CurVar, Quiet, Asked, Answered, RequestId
  <2>3. CASE \E d \in Clients : ServerStep(d)
    BY <2>1, <2>3, LinkServer, LockServer
  <2>4. CASE \E d \in Clients, v \in Vars, x \in Values : ChangeStep(d, v, x)
    BY <2>1, <2>4, LockChange
  <2>5. CASE CtrlCall
    BY <2>1, <2>5, LinkCtrlCall, LockCtrlCall
  <2>6. CASE \/ PollBegin \/ PollEnd \/ ClientPoll \/ Opened
             \/ AskNext \/ AllAsked \/ GotValue \/ GotNothing
    BY <2>1, <2>6, LinkPoll, LockPoll
  <2> QED
    BY <2>2, <2>3, <2>4, <2>5, <2>6 DEF Next, Process
<1> QED
  BY <1>1, <1>2 DEF IInv

LEMMA InvCorrect == Spec => []IInv
BY InvInit, InvStep, PTL DEF Spec

-----------------------------------------------------------------------------
(* What the invariant implies.                                             *)

LEMMA Listed ==
    ASSUME NEW i \in 1 .. Len(ClientSeq)
    PROVE  ClientSeq[i] \in Clients
BY ConfigAssumption DEF ConfigAssumption

\* At most one question is open on a connection, and the only answer that can
\* arrive is the one to the question last asked, for any number of clients,
\* variables and request ids and whatever timeouts, short reads, TRAPs and
\* disconnects there are (ctrl_client_poll with simple_ctrl_get).
THEOREM LockstepCorrect == Spec => []Lockstep
<1>1. IInv => Lockstep
  <2>1. SUFFICES ASSUME IInv, NEW i \in 1 .. Len(ClientSeq)
                 PROVE  LET c == ClientSeq[i]
                        IN  IF Polling THEN LockstepOf(c) ELSE sch[c] # NoHandle => Quiet(c)
    BY DEF Lockstep
  <2>2. LockInv(ClientSeq[i])
    BY <2>1, Listed DEF IInv
  <2> QED
    BY <2>2 DEF LockInv, LockstepOf, At
<1> QED
  BY InvCorrect, <1>1, PTL

\* simple_ctrl_get never finds a GET_REPLY with another id or name than it asked
\* for: the check of simple_ctrl.c:286 never fails for a well-behaved server.
THEOREM RepliesMatchCorrect == Spec => []RepliesMatch
<1>1. IInv => RepliesMatch
  <2>1. SUFFICES ASSUME IInv, pc = "body", wire[Cc] # <<>>, Head(wire[Cc]).kind = "reply"
                 PROVE  Accepted(Cc, CurVar, Head(wire[Cc]))
    BY DEF RepliesMatch
  <2>2. Cc \in Clients /\ At(Cc)
    BY <2>1, CurrentClient DEF IInv, TypeInv, Positions, At
  <2>3. wire[Cc] \in Seq(Frame) /\ IsAnswer(Head(wire[Cc]))
    BY <2>1, <2>2 DEF IInv, TypeInv, TypeOK, ServerTypeOK, IsAnswer
  <2>4. Answered(Cc, CurVar)
    BY <2>1, <2>2, <2>3, TailAnswers DEF IInv, LockInv, Asked, Quiet
  <2>5. Answers(Head(wire[Cc]), RequestId(Cc), CurVar, window)
    BY <2>1, <2>3, <2>4, TailAnswers DEF Answered
  <2> QED
    BY <2>1, <2>5 DEF Answers, Accepted
<1> QED
  BY InvCorrect, <1>1, PTL

\* A connection on which a read stopped in the middle of a frame is not used
\* again: it is closed before the next request.
THEOREM FramesAlignedCorrect == Spec => []FramesAligned
<1>1. IInv => FramesAligned
  BY Listed DEF IInv, CutInv, FramesAligned, At
<1> QED
  BY InvCorrect, <1>1, PTL

\* No descriptor is lost or closed under a handle, on any path through
\* simple_ctrl_open and ctrl_client_poll.
THEOREM DescriptorsOwnedCorrect == Spec => []DescriptorsOwned
<1>1. IInv => DescriptorsOwned
  BY Listed DEF IInv, LinkInv, DescriptorsOwned, At
<1> QED
  BY InvCorrect, <1>1, PTL

-----------------------------------------------------------------------------
(* What is shown.                                                          *)

Reading == pc = "loop" \/ Asking

\* The variables of s are the first n of those configured for c.
Prefix(s, c, n) == {e.var : e \in s} = {GetVars[c][k] : k \in 1 .. n}

\* What the poll has left behind it, where it is, and what lies before it.
SectionInv(j) ==
    LET c == ClientSeq[j]
    IN  /\ j < cur => /\ \E n \in 0 .. Len(GetVars[c]) : Prefix(shown[c], c, n)
                      /\ c \in sections /\ sch[c] # NoHandle
                            => Prefix(shown[c], c, Len(GetVars[c]))
        /\ j = cur /\ Reading => /\ vi <= Len(GetVars[c]) + 1
                                 /\ Prefix(shown[c], c, vi - 1)
        /\ j > cur \/ (j = cur /\ ~Reading) => shown[c] = {}

ShownInv ==
    /\ pc = "idle" => cur = Len(ClientSeq) + 1
    /\ \A j \in 1 .. Len(ClientSeq) : SectionInv(j)

\* What simple_ctrl_get returns is in the window.
RetInv == pc = "got" /\ ret # NoValue => \E x \in window : ret = FirstWord(x)

ReportInv == IInv /\ ShownInv /\ RetInv

LEMMA RetStep ==
    ASSUME IInv, RetInv, [Next]_vars
    PROVE  RetInv'
<1>1. CASE ReadBody(Cc, CurVar) /\ UNCHANGED pollVars
  <2> DEFINE f == Head(wire[Cc])
  <2>1. SUFFICES ASSUME pc' = "got", ret' # NoValue
                 PROVE  \E x \in window : ret' = FirstWord(x)
    BY <1>1 DEF RetInv, pollVars
  <2>2. /\ pc = "body" /\ wire[Cc] # <<>> /\ f.kind = "reply"
        /\ ret' = FirstWord(f.val)
    BY <1>1, <2>1 DEF ReadBody, Returns, Accepted
  <2>3. Cc \in Clients /\ At(Cc)
    BY <2>2, CurrentClient DEF IInv, TypeInv, Positions, At
  <2>4. wire[Cc] \in Seq(Frame) /\ IsAnswer(f)
    BY <2>2, <2>3 DEF IInv, TypeInv, TypeOK, ServerTypeOK, IsAnswer
  <2>5. Answered(Cc, CurVar)
    BY <2>2, <2>3, <2>4, TailAnswers DEF IInv, LockInv, Asked, Quiet
  <2>6. Answers(f, RequestId(Cc), CurVar, window)
    BY <2>2, <2>4, <2>5, TailAnswers DEF Answered
  <2> QED
    BY <2>2, <2>6 DEF Answers
<1>2. CASE UNCHANGED vars \/ (\E c \in Clients : ServerStep(c))
           \/ (\E c \in Clients, v \in Vars, x \in Values : ChangeStep(c, v, x))
  <2>1. UNCHANGED <<pc, ret>> /\ window \subseteq window'
    BY <1>2 DEF vars, ctrlVars, pollVars, ServerStep, ChangeStep
  <2> QED
    BY <2>1 DEF RetInv
<1>3. CASE /\ UNCHANGED pollVars
           /\ \/ ConnectReady(Cc) \/ ConnectFails(Cc) \/ SendOk(Cc, CurVar) \/ SendFails
              \/ ReadHeader(Cc) \/ HeaderShort(Cc) \/ HeaderTimeout \/ BodyShort(Cc)
  BY <1>3 DEF ConnectReady, ConnectFails, SendOk, SendFails, ReadHeader, HeaderShort,
              HeaderTimeout, BodyShort, Returns, RetInv
<1>4. CASE \/ PollBegin \/ PollEnd \/ ClientPoll \/ Opened
           \/ AskNext \/ AllAsked \/ GotValue \/ GotNothing
  BY <1>4 DEF PollBegin, PollEnd, ClientPoll, Open, Opened, NextClient, AskNext, Get, AllAsked,
              GotValue, GotNothing, RetInv
<1> QED
  BY <1>1, <1>2, <1>3, <1>4 DEF Next, Process, CtrlCall

LEMMA EmptyPrefix ==
    ASSUME NEW c
    PROVE  Prefix({}, c, 0)
BY DEF Prefix

LEMMA LongerPrefix ==
    ASSUME NEW c, NEW s, NEW n \in Nat, NEW x, Prefix(s, c, n)
    PROVE  Prefix(AddEntry(s, GetVars[c][n + 1], x), c, n + 1)
<1> DEFINE v == GetVars[c][n + 1]
<1>1. {e.var : e \in AddEntry(s, v, x)} = {e.var : e \in s} \cup {v}
  <2>1. CASE \E e \in s : e.var = v
    BY <2>1 DEF AddEntry
  <2>2. CASE ~\E e \in s : e.var = v
    <3>1. AddEntry(s, v, x) = s \cup {[var |-> v, val |-> x]}
      BY <2>2 DEF AddEntry
    <3>2. \A d : {e.var : e \in s \cup {d}} = {e.var : e \in s} \cup {d.var}
      OBVIOUS
    <3> QED
      BY <3>1, <3>2
  <2> QED
    BY <2>1, <2>2
<1>2. {GetVars[c][k] : k \in 1 .. n + 1} = {GetVars[c][k] : k \in 1 .. n} \cup {v}
  <2>1. 1 .. n + 1 = (1 .. n) \cup {n + 1}
    OBVIOUS
  <2> QED
    BY <2>1
<1> QED
  BY <1>1, <1>2 DEF Prefix

\* The clients before the current one are other clients.
LEMMA OtherClients ==
    ASSUME TypeInv, Polling, NEW j \in 1 .. Len(ClientSeq), j # cur
    PROVE  ClientSeq[j] # Cc /\ ClientSeq[j] \in Clients
BY ConfigAssumption DEF ConfigAssumption, TypeInv, TypeOK, Polling, Cc

\* A step that neither moves the poll nor touches what is shown of a client.
LEMMA SectionSame ==
    ASSUME NEW j \in 1 .. Len(ClientSeq), SectionInv(j),
           UNCHANGED <<cur, vi>>, Reading' <=> Reading,
           shown'[ClientSeq[j]] = shown[ClientSeq[j]],
           j < cur => /\ sch'[ClientSeq[j]] = sch[ClientSeq[j]]
                      /\ ClientSeq[j] \in sections' => ClientSeq[j] \in sections
    PROVE  SectionInv(j)'
BY DEF SectionInv

\* A step from one client to the next.
LEMMA SectionNext ==
    ASSUME TypeInv, Polling, NextClient, ~Reading', UNCHANGED <<sections, shown>>,
           NEW j \in 1 .. Len(ClientSeq), SectionInv(j),
           j # cur => sch'[ClientSeq[j]] = sch[ClientSeq[j]],
           \E n \in 0 .. Len(GetVars[Cc]) : Prefix(shown[Cc], Cc, n),
           sch'[Cc] # NoHandle => Prefix(shown[Cc], Cc, Len(GetVars[Cc]))
    PROVE  SectionInv(j)'
<1>0. Len(ClientSeq) \in Nat /\ cur \in Nat /\ j \in Nat /\ cur' = cur + 1
  BY ConfigAssumption DEF ConfigAssumption, TypeInv, TypeOK, NextClient
<1>1. CASE j < cur
  <2>1. j < cur' /\ j # cur'
    BY <1>0, <1>1
  <2> QED
    BY <1>0, <1>1, <2>1 DEF SectionInv
<1>2. CASE j = cur
  <2>1. j < cur' /\ j # cur' /\ ~(j > cur') /\ ClientSeq[j] = Cc
    BY <1>0, <1>2 DEF Cc
  <2> QED
    BY <2>1 DEF SectionInv
<1>3. CASE j > cur
  <2>1. ~(j < cur')
    BY <1>0, <1>3
  <2> QED
    BY <1>3, <2>1 DEF SectionInv
<1> QED
  BY <1>0, <1>1, <1>2, <1>3

LEMMA ShownPoll ==
    ASSUME TypeInv, ShownInv, NEW j \in 1 .. Len(ClientSeq),
           \/ PollBegin \/ PollEnd \/ ClientPoll \/ Opened
           \/ AskNext \/ AllAsked \/ GotValue \/ GotNothing
    PROVE  SectionInv(j)'
<1> DEFINE c == ClientSeq[j]
<1>0. /\ SectionInv(j) /\ c \in Clients /\ Len(GetVars[c]) \in Nat
      /\ Len(ClientSeq) \in Nat /\ cur \in Nat /\ vi \in Nat \ {0} /\ j \in Nat
  BY ConfigAssumption DEF ConfigAssumption, ShownInv, TypeInv, TypeOK
<1>1. CASE PollBegin
  <2>1. shown'[c] = {} /\ cur' = 1 /\ ~Reading'
    BY <1>0, <1>1 DEF PollBegin, Reading, Asking
  <2>2. ~(j < cur')
    BY <1>0, <2>1
  <2> QED
    BY <2>1, <2>2 DEF SectionInv
<1>2. CASE PollEnd
  <2>1. UNCHANGED <<cur, vi, shown, sch, sections>> /\ (Reading' <=> Reading)
    BY <1>2 DEF PollEnd, pollVars, Reading, Asking
  <2> QED
    BY <1>0, <2>1, SectionSame
<1>3. CASE ClientPoll
  <2>1. /\ Polling /\ UNCHANGED <<cur, vi, shown, sch>> /\ (Reading' <=> Reading)
        /\ sections' = sections \cup {Cc}
    BY <1>3 DEF ClientPoll, Open, Polling, Reading, Asking
  <2>2. j < cur => c # Cc
    BY <1>0, <2>1, OtherClients
  <2> QED
    BY <1>0, <2>1, <2>2, SectionSame
<1>4. CASE Opened
  <2>1. Polling /\ ~Reading /\ UNCHANGED <<sch, sections, shown>>
    BY <1>4 DEF Opened, TypeInv, Positions, Reading, Asking
  <2>2. shown[Cc] = {}
    BY <1>0, <2>1 DEF ShownInv, SectionInv, Polling, Cc, TypeInv, TypeOK
  <2>3. Cc \in Clients /\ Len(GetVars[Cc]) \in Nat
    BY <2>1, CurrentClient, ConfigAssumption DEF ConfigAssumption
  <2>4. CASE sch[Cc] = NoHandle
    <3>1. NextClient /\ ~Reading'
      BY <1>4, <2>4 DEF Opened, NextClient, Reading, Asking
    <3>2. Prefix(shown[Cc], Cc, 0)
      BY <2>2, EmptyPrefix
    <3> QED
      BY <1>0, <2>1, <2>3, <2>4, <3>1, <3>2, SectionNext
  <2>5. CASE sch[Cc] # NoHandle
    <3>1. Reading' /\ vi' = 1 /\ UNCHANGED cur
      BY <1>4, <2>5 DEF Opened, Reading, Asking
    <3>2. vi' - 1 = 0 /\ vi' <= Len(GetVars[c]) + 1
      BY <1>0, <3>1
    <3>3. Prefix({}, c, 0)
      BY EmptyPrefix
    <3>4. CASE j = cur
      <4>1. shown[c] = {}
        BY <2>2, <3>4 DEF Cc
      <4>2. Prefix(shown'[c], c, vi' - 1)
        BY <2>1, <3>2, <3>3, <4>1
      <4> QED
        BY <1>0, <2>1, <3>1, <3>2, <3>4, <4>2 DEF SectionInv
    <3>5. CASE j # cur
      BY <1>0, <2>1, <3>1, <3>5 DEF SectionInv
    <3> QED
      BY <3>4, <3>5
  <2> QED
    BY <2>4, <2>5
<1>5. CASE AskNext
  <2>1. Polling /\ Reading /\ Reading' /\ UNCHANGED <<cur, vi, sections, shown>>
    BY <1>5 DEF AskNext, Get, TypeInv, Positions, Reading, Asking
  <2>2. j < cur => sch'[c] = sch[c]
    BY <1>0, <1>5, <2>1, OtherClients DEF AskNext, Get, TypeInv, TypeOK
  <2> QED
    BY <1>0, <2>1, <2>2, SectionSame
<1>6. CASE AllAsked
  <2>1. /\ Polling /\ Reading /\ ~Reading' /\ NextClient /\ vi > Len(GetVars[Cc])
        /\ UNCHANGED <<sch, sections, shown>>
    BY <1>6 DEF AllAsked, NextClient, TypeInv, Positions, Reading, Asking
  <2>2. Cc \in Clients /\ Len(GetVars[Cc]) \in Nat
    BY <2>1, CurrentClient, ConfigAssumption DEF ConfigAssumption
  <2>3. vi <= Len(GetVars[Cc]) + 1 /\ Prefix(shown[Cc], Cc, vi - 1)
    BY <2>1 DEF ShownInv, SectionInv, Polling, Cc, TypeInv, TypeOK
  <2>4. vi - 1 = Len(GetVars[Cc])
    BY <1>0, <2>1, <2>2, <2>3
  <2>5. Prefix(shown[Cc], Cc, Len(GetVars[Cc]))
    BY <2>3, <2>4
  <2> QED
    BY <1>0, <2>1, <2>2, <2>5, SectionNext
<1>7. CASE GotValue
  <2>1. /\ Polling /\ Reading /\ Reading' /\ UNCHANGED <<cur, sch, sections>>
        /\ vi' = vi + 1 /\ vi <= Len(GetVars[Cc])
        /\ shown' = [shown EXCEPT ![Cc] = AddEntry(shown[Cc], CurVar, ret)]
    BY <1>7 DEF GotValue, TypeInv, Positions, Reading, Asking
  <2>2. CASE j = cur
    <3>1. c = Cc /\ Prefix(shown[c], c, vi - 1)
      BY <1>0, <2>1, <2>2 DEF SectionInv, Cc
    <3>2. shown'[c] = AddEntry(shown[c], GetVars[c][vi], ret)
      BY <1>0, <2>1, <3>1 DEF CurVar, TypeInv, TypeOK
    <3>3. PICK n \in Nat : n = vi - 1 /\ vi = n + 1 /\ vi' - 1 = n + 1
      BY <1>0, <2>1
    <3>4. Prefix(AddEntry(shown[c], GetVars[c][n + 1], ret), c, n + 1)
      BY <3>1, <3>3, LongerPrefix
    <3>5. vi' <= Len(GetVars[c]) + 1 /\ Prefix(shown'[c], c, vi' - 1)
      BY <1>0, <2>1, <3>1, <3>2, <3>3, <3>4
    <3> QED
      BY <1>0, <2>1, <2>2, <3>5 DEF SectionInv
  <2>3. CASE j # cur
    <3>1. shown'[c] = shown[c]
      BY <1>0, <2>1, <2>3, OtherClients DEF TypeInv, TypeOK
    <3> QED
      BY <1>0, <2>1, <2>3, <3>1 DEF SectionInv
  <2> QED
    BY <2>2, <2>3
<1>8. CASE GotNothing
  <2>1. /\ Polling /\ Reading /\ ~Reading' /\ NextClient /\ vi <= Len(GetVars[Cc])
        /\ UNCHANGED <<sections, shown>> /\ sch' = [sch EXCEPT ![Cc] = NoHandle]
    BY <1>8 DEF GotNothing, Close, NextClient, TypeInv, Positions, Reading, Asking
  <2>2. Cc \in Clients /\ Len(GetVars[Cc]) \in Nat
    BY <2>1, CurrentClient, ConfigAssumption DEF ConfigAssumption
  <2>3. Prefix(shown[Cc], Cc, vi - 1) /\ vi - 1 \in 0 .. Len(GetVars[Cc])
    BY <1>0, <2>1, <2>2 DEF ShownInv, SectionInv, Polling, Cc, TypeInv, TypeOK
  <2>4. sch'[Cc] = NoHandle /\ (j # cur => sch'[c] = sch[c])
    BY <1>0, <2>1, <2>2, OtherClients DEF TypeInv, TypeOK
  <2> QED
    BY <1>0, <2>1, <2>3, <2>4, SectionNext
<1> QED
  BY <1>1, <1>2, <1>3, <1>4, <1>5, <1>6, <1>7, <1>8

LEMMA ShownStep ==
    ASSUME TypeInv, ShownInv, [Next]_vars
    PROVE  ShownInv'
<1>1. CASE \/ PollBegin \/ PollEnd \/ ClientPoll \/ Opened
           \/ AskNext \/ AllAsked \/ GotValue \/ GotNothing
  <2>1. pc' = "idle" => cur' = Len(ClientSeq) + 1
    BY <1>1, ConfigAssumption
       DEF PollBegin, PollEnd, ClientPoll, Open, Opened, NextClient, AskNext, Get, AllAsked,
           GotValue, GotNothing, pollVars, TypeInv, TypeOK, ConfigAssumption
  <2> QED
    BY <1>1, <2>1, ShownPoll DEF ShownInv
<1>2. CASE CtrlCall
  <2>1. Polling /\ UNCHANGED <<cur, vi, sections, shown>>
    BY <1>2, AtCurrent DEF CtrlCall, pollVars
  <2>2. pc' # "idle" /\ (Reading' <=> Reading)
    BY <1>2 DEF CtrlCall, ConnectReady, ConnectFails, SendOk, SendFails, ReadHeader, Returns,
                HeaderShort, HeaderTimeout, ReadBody, BodyShort, Reading, Asking
  <2>3. ASSUME NEW j \in 1 .. Len(ClientSeq) PROVE SectionInv(j)'
    <3>1. Cc \in Clients /\ (j < cur => ClientSeq[j] # Cc /\ ClientSeq[j] \in Clients)
      BY <2>1, CurrentClient, OtherClients
         DEF TypeInv, TypeOK
    <3>2. j < cur => sch'[ClientSeq[j]] = sch[ClientSeq[j]]
      BY <1>2, <3>1
         DEF CtrlCall, ConnectReady, ConnectFails, SendOk, SendFails, ReadHeader, Returns,
             HeaderShort, HeaderTimeout, ReadBody, BodyShort, TypeInv, TypeOK
    <3> QED
      BY <2>1, <2>2, <3>2, SectionSame DEF ShownInv
  <2> QED
    BY <2>2, <2>3 DEF ShownInv
<1>3. CASE UNCHANGED vars \/ (\E c \in Clients : ServerStep(c))
           \/ (\E c \in Clients, v \in Vars, x \in Values : ChangeStep(c, v, x))
  <2>1. UNCHANGED <<pc, sch, cur, vi, sections, shown>>
    BY <1>3 DEF vars, ctrlVars, pollVars, ServerStep, ChangeStep
  <2>2. Reading' <=> Reading
    BY <2>1 DEF Reading, Asking
  <2> QED
    BY <2>1, <2>2, SectionSame DEF ShownInv
<1> QED
  BY <1>1, <1>2, <1>3 DEF Next, Process

LEMMA ReportInit == Init => ReportInv
<1>1. ASSUME Init PROVE ShownInv /\ RetInv
  <2>1. \A j \in 1 .. Len(ClientSeq) : ClientSeq[j] \in Clients /\ j < Len(ClientSeq) + 1
    BY ConfigAssumption DEF ConfigAssumption
  <2>2. ASSUME NEW j \in 1 .. Len(ClientSeq) PROVE SectionInv(j)
    <3>1. shown[ClientSeq[j]] = {} /\ sections = {} /\ ~Reading /\ cur = Len(ClientSeq) + 1
      BY <1>1, <2>1 DEF Init, Reading, Asking
    <3>2. Prefix({}, ClientSeq[j], 0) /\ 0 \in 0 .. Len(GetVars[ClientSeq[j]])
      BY <2>1, EmptyPrefix, ConfigAssumption DEF ConfigAssumption
    <3> QED
      BY <2>1, <3>1, <3>2 DEF SectionInv
  <2> QED
    BY <1>1, <2>2 DEF Init, ShownInv, RetInv
<1> QED
  BY <1>1, InvInit DEF ReportInv

LEMMA ReportCorrect == Spec => []ReportInv
<1>1. ReportInv /\ [Next]_vars => ReportInv'
  BY InvStep, ShownStep, RetStep DEF ReportInv, IInv
<1> QED
  BY ReportInit, <1>1, PTL DEF Spec

\* Every section shows a prefix of what is configured, and a complete one unless
\* the connection of its client failed and was closed.
THEOREM SectionsHonestCorrect == Spec => []SectionsHonest
<1>1. ASSUME ReportInv PROVE SectionsHonest
  <2>1. SUFFICES ASSUME NEW i \in 1 .. Len(ClientSeq)
                 PROVE  LET c == ClientSeq[i]
                        IN  /\ \E n \in 0 .. Len(GetVars[c]) : PrefixShown(c, n)
                            /\ pc = "idle" /\ c \in sections /\ sch[c] # NoHandle
                                    => PrefixShown(c, Len(GetVars[c]))
    BY DEF SectionsHonest
  <2> DEFINE c == ClientSeq[i]
  <2>2. /\ SectionInv(i) /\ c \in Clients /\ Len(GetVars[c]) \in Nat
        /\ Len(ClientSeq) \in Nat /\ cur \in Nat /\ vi \in Nat \ {0}
    BY <1>1, ConfigAssumption
       DEF ConfigAssumption, ReportInv, IInv, ShownInv, TypeInv, TypeOK
  <2>3. \A n : PrefixShown(c, n) <=> Prefix(shown[c], c, n)
    BY DEF Prefix, PrefixShown, VarsShown
  <2>4. \E n \in 0 .. Len(GetVars[c]) : Prefix(shown[c], c, n)
    <3>1. CASE i < cur
      BY <2>2, <3>1 DEF SectionInv
    <3>2. CASE i = cur /\ Reading
      <4>1. Prefix(shown[c], c, vi - 1) /\ vi <= Len(GetVars[c]) + 1
        BY <2>2, <3>2 DEF SectionInv
      <4>2. vi - 1 \in 0 .. Len(GetVars[c])
        BY <2>2, <4>1
      <4> QED
        BY <4>1, <4>2
    <3>3. CASE i > cur \/ (i = cur /\ ~Reading)
      <4>1. shown[c] = {}
        BY <2>2, <3>3 DEF SectionInv
      <4>2. Prefix({}, c, 0)
        BY EmptyPrefix
      <4>3. Prefix(shown[c], c, 0) /\ 0 \in 0 .. Len(GetVars[c])
        BY <2>2, <4>1, <4>2
      <4> QED
        BY <4>3
    <3> QED
      BY <2>2, <3>1, <3>2, <3>3
  <2>5. pc = "idle" => i < cur
    BY <1>1, <2>2 DEF ReportInv, ShownInv
  <2>6. pc = "idle" /\ c \in sections /\ sch[c] # NoHandle
            => Prefix(shown[c], c, Len(GetVars[c]))
    BY <2>2, <2>5 DEF SectionInv
  <2> QED
    BY <2>3, <2>4, <2>6
<1> QED
  BY ReportCorrect, <1>1, PTL

-----------------------------------------------------------------------------
(* Refinement of CtrlReport.                                               *)

\* The value of Report's variable asked.
AskedNow == IF Asking THEN <<Cc, CurVar>> ELSE Nobody

LEMMA AskedWhat ==
    ASSUME TypeInv
    PROVE  /\ Asking => Cc \in Clients /\ CurVar \in Vars /\ AskedNow # Nobody
           /\ \A c \in Clients, v \in Vars : AskedNow = <<c, v>> <=> Asking /\ c = Cc /\ v = CurVar
<1>1. CASE Asking
  <2>1. Cc \in Clients /\ CurVar \in Vars
    BY <1>1, CurrentClient, CurrentVar DEF TypeInv, Positions, Asking
  <2> QED
    BY <1>1, <2>1, ConfigAssumption DEF AskedNow, ConfigAssumption
<1>2. CASE ~Asking
  BY <1>2, ConfigAssumption DEF AskedNow, ConfigAssumption
<1> QED
  BY <1>1, <1>2

\* The variable the poll has come to is not shown yet.
LEMMA NotYetShown ==
    ASSUME TypeInv, ShownInv, Polling, Reading, vi <= Len(GetVars[Cc])
    PROVE  \A e \in shown[Cc] : e.var # CurVar
<1>1. /\ cur \in 1 .. Len(ClientSeq) /\ SectionInv(cur) /\ Cc \in Clients
  BY CurrentClient, ConfigAssumption
     DEF ConfigAssumption, ShownInv, Polling, TypeInv, TypeOK
<1>2. Prefix(shown[Cc], Cc, vi - 1)
  BY <1>1 DEF SectionInv, Cc
<1>3. /\ vi \in Nat \ {0} /\ Len(GetVars[Cc]) \in Nat
      /\ \A i, k \in 1 .. Len(GetVars[Cc]) : GetVars[Cc][i] = GetVars[Cc][k] => i = k
  BY <1>1, ConfigAssumption DEF ConfigAssumption, TypeInv, TypeOK
<1>4. ASSUME NEW e \in shown[Cc], e.var = GetVars[Cc][vi] PROVE FALSE
  <2>1. e.var \in {GetVars[Cc][k] : k \in 1 .. vi - 1}
    BY <1>2 DEF Prefix
  <2>2. PICK k \in 1 .. vi - 1 : e.var = GetVars[Cc][k]
    BY <2>1
  <2>3. k \in 1 .. Len(GetVars[Cc]) /\ vi \in 1 .. Len(GetVars[Cc]) /\ k # vi
    BY <1>3, <2>2
  <2> QED
    BY <1>3, <1>4, <2>2, <2>3
<1> QED
  BY <1>4 DEF CurVar

LEMMA ReportStep ==
    ASSUME ReportInv, [Next]_vars
    PROVE  [Report!Next]_(Report!vars)
<1> USE DEF Report!vars, AskedNow
<1>0. TypeInv /\ ShownInv /\ RetInv
  BY DEF ReportInv, IInv
<1>1. CASE PollBegin
  <2>1. Report!NewReport
    BY <1>1 DEF PollBegin, Report!NewReport, Asking, serverVars
  <2> QED
    BY <2>1 DEF Report!Next
<1>2. CASE PollEnd \/ ClientPoll \/ Opened \/ AllAsked
  <2>1. ~Asking /\ ~Asking' /\ UNCHANGED <<sval, shown, window>>
    BY <1>2 DEF PollEnd, ClientPoll, Open, Opened, AllAsked, NextClient, Asking, pollVars,
                serverVars
  <2> QED
    BY <2>1
<1>3. CASE AskNext
  <2>1. Cc \in Clients /\ CurVar \in Vars /\ \A e \in shown[Cc] : e.var # CurVar
    BY <1>0, <1>3, CurrentClient, CurrentVar, NotYetShown
       DEF AskNext, TypeInv, Positions, Reading
  <2>2. ~Asking /\ Asking' /\ UNCHANGED <<sval, shown, Cc, CurVar>>
        /\ window' = {sval[Cc][CurVar]}
    BY <1>3 DEF AskNext, Get, Asking, Cc, CurVar, serverVars
  <2>3. Report!Ask(Cc, CurVar)
    BY <2>1, <2>2 DEF Report!Ask
  <2> QED
    BY <2>1, <2>3 DEF Report!Next
<1>4. CASE GotValue
  <2>1. /\ Asking /\ ~Asking' /\ UNCHANGED <<sval, window>>
        /\ shown' = [shown EXCEPT ![Cc] = AddEntry(shown[Cc], CurVar, ret)]
    BY <1>4 DEF GotValue, Asking, serverVars
  <2>2. Cc \in Clients /\ CurVar \in Vars /\ \A e \in shown[Cc] : e.var # CurVar
    BY <1>0, <2>1, AskedWhat, NotYetShown DEF TypeInv, Positions, Reading, Asking
  <2>3. PICK x \in window : ret = FirstWord(x)
    BY <1>0, <1>4 DEF GotValue, RetInv
  <2>4. shown' = [shown EXCEPT ![Cc] = shown[Cc] \cup {[var |-> CurVar, val |-> Report!FirstWord(x)]}]
    BY <2>1, <2>2, <2>3 DEF AddEntry, FirstWord, Report!FirstWord
  <2>5. Report!Show
    BY <2>1, <2>2, <2>3, <2>4 DEF Report!Show
  <2> QED
    BY <2>5 DEF Report!Next
<1>5. CASE GotNothing
  <2>1. Asking /\ ~Asking' /\ UNCHANGED <<sval, shown, window>>
    BY <1>5 DEF GotNothing, NextClient, Asking
  <2>2. AskedNow # Nobody
    BY <1>0, <2>1, AskedWhat
  <2>3. Report!GiveUp
    BY <2>1, <2>2 DEF Report!GiveUp
  <2> QED
    BY <2>3 DEF Report!Next
<1>6. CASE CtrlCall
  <2>1. UNCHANGED <<sval, shown, window, Cc, CurVar>>
    BY <1>0, <1>6, AtCurrent DEF CtrlCall, pollVars, Cc, CurVar
  <2>2. Asking' <=> Asking
    BY <1>6 DEF CtrlCall, ConnectReady, ConnectFails, SendOk, SendFails, ReadHeader, Returns,
                HeaderShort, HeaderTimeout, ReadBody, BodyShort, Asking
  <2> QED
    BY <2>1, <2>2
<1>7. CASE UNCHANGED vars \/ \E c \in Clients : ServerStep(c)
  <2>1. UNCHANGED <<sval, ctrlVars, pollVars>>
    BY <1>7 DEF vars, serverVars, ServerStep, Accept, Refuse, Drop, Serve, Trap, Foreign,
                SendFrame
  <2>2. UNCHANGED <<shown, window, pc, Cc, CurVar>>
    BY <2>1 DEF ctrlVars, pollVars, Cc, CurVar
  <2> QED
    BY <2>1, <2>2 DEF Asking
<1>8. CASE \E c \in Clients, v \in Vars, x \in Values : ChangeStep(c, v, x)
  <2>1. PICK c \in Clients, v \in Vars, x \in Values : ChangeStep(c, v, x)
    BY <1>8
  <2>2. UNCHANGED <<shown, pc, Cc, CurVar>> /\ sval' = [sval EXCEPT ![c][v] = x]
    BY <2>1 DEF ChangeStep, Change, ctrlVars, Cc, CurVar
  <2>3. window' = IF AskedNow = <<c, v>> THEN window \cup {x} ELSE window
    BY <1>0, <2>1, AskedWhat DEF ChangeStep
  <2>4. Report!Change(c, v, x)
    BY <2>2, <2>3 DEF Report!Change, Asking
  <2> QED
    BY <2>4 DEF Report!Next
<1> QED
  BY <1>1, <1>2, <1>3, <1>4, <1>5, <1>6, <1>7, <1>8 DEF Next, Process

\* A report never shows an answer to an older question, nor one to a question
\* about another variable or another server: the poll implements CtrlReport.
THEOREM ReportsCurrentValuesCorrect == Spec => ReportsCurrentValues
<1>1. Init => Report!Init
  BY DEF Init, ServerInit, Report!Init, Asking
<1>2. ReportInv /\ [Next]_vars => [Report!Next]_(Report!vars)
  BY ReportStep
<1> QED
  BY ReportCorrect, <1>1, <1>2, PTL DEF Spec, ReportsCurrentValues, Report!Spec
=============================================================================
