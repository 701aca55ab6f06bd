--------------------------- MODULE CtrlToolProofs ---------------------------
(***************************************************************************)
(* What is proved of CtrlTool for any values, any width of the request id  *)
(* and any number of TRAPs.                                                *)
(***************************************************************************)
EXTENDS CtrlTool, SequenceTheorems, TLAPS

Wire == wire[Server]
Reqs == reqs[Server]

\* How far the process has come.
StageInv ==
    /\ pc = "start" => link[Server] = "none" /\ ~trouble
    /\ link[Server] = "syn" => pc = "connect"
    /\ link[Server] \in {"none", "syn"} => Wire = <<>> /\ Reqs = <<>>
    /\ pc = "start" \/ link[Server] = "syn" => traps = 0 /\ printed = <<>>
    /\ pc \in {"send", "header", "body"} => sch[Server] # NoHandle
    /\ pc \notin {"got", "exited"} => ~cut[Server]
    /\ pc # "exited" => exit = 0
    /\ mode # "monitor" /\ pc # "exited" => printed = <<>>
    /\ mode = "monitor" => pc # "send" /\ (pc = "got" => ret = NoValue)

\* The one request there is, and the answers to it.
Answering == pc \in {"header", "body", "got", "exited"}

IsRequest(r) ==
    /\ Answering /\ mode # "monitor"
    /\ r.id = RequestId(Server)
    /\ r.var = Var
    /\ mode = "set" => r.val = value

IsAnswer(f) ==
    /\ f.kind = "trap" => f \in NumberedTrap /\ trouble
    /\ f.kind = "error" => trouble /\ mode # "monitor"
    /\ f.kind = "reply" =>
        Answering /\ mode = "get" /\ f.id = RequestId(Server) /\ f.var = Var /\ f.val \in window
    /\ f.kind = "set_reply" =>
        /\ Answering /\ mode = "set" /\ done
        /\ f.id = RequestId(Server) /\ f.var = Var /\ f.val = value

AnswerInv ==
    /\ \A i \in 1 .. Len(Reqs) : IsRequest(Reqs[i])
    /\ \A i \in 1 .. Len(Wire) : IsAnswer(Wire[i])
    /\ mode = "get" /\ pc \in {"send", "header", "body", "got"} => sval[Server][Var] \in window

\* What the call returns.
ResultInv ==
    pc = "got" /\ ret # NoValue =>
        /\ mode = "set" => done
        /\ mode = "get" => \E x \in window : ret = FirstWord(x)

\* As long as nothing was in the way.
UntroubledInv ==
    ~trouble =>
        /\ pc # "start" => link[Server] \in {"syn", "open"}
        /\ pc \notin {"start", "connect"} => sch[Server] # NoHandle
        /\ pc = "got" => ret # NoValue \/ (mode = "set" /\ Len(value) # 1)

IInv ==
    /\ TypeOK /\ StageInv /\ AnswerInv /\ ResultInv /\ UntroubledInv
    /\ ExitZeroIsTrue /\ FailureHasReason /\ MonitorPrintsAll

-----------------------------------------------------------------------------
(* Sequences, as the wire changes them.                                    *)

LEMMA AppendTo ==
    ASSUME NEW S, NEW s \in Seq(S), NEW e
    PROVE  /\ e \in S => Append(s, e) \in Seq(S)
           /\ Len(Append(s, e)) = Len(s) + 1
           /\ \A i \in 1 .. Len(s) : Append(s, e)[i] = s[i]
           /\ Append(s, e)[Len(s) + 1] = e
OBVIOUS

LEMMA TailOf ==
    ASSUME NEW S, NEW s \in Seq(S), s # <<>>
    PROVE  /\ Head(s) = s[1] /\ Head(s) \in S /\ 1 \in 1 .. Len(s)
           /\ Tail(s) \in Seq(S) /\ Len(Tail(s)) = Len(s) - 1 /\ Len(s) \in Nat
           /\ \A i \in 1 .. Len(Tail(s)) : i + 1 \in 1 .. Len(s) /\ Tail(s)[i] = s[i + 1]
OBVIOUS

LEMMA PrefixOf ==
    ASSUME NEW S, NEW s \in Seq(S), NEW n \in 0 .. Len(s)
    PROVE  /\ SubSeq(s, 1, n) \in Seq(S) /\ Len(SubSeq(s, 1, n)) = n
           /\ \A i \in 1 .. n : i \in 1 .. Len(s) /\ SubSeq(s, 1, n)[i] = s[i]
OBVIOUS

-----------------------------------------------------------------------------
(* The invariant holds at first.                                           *)

LEMMA InitInv == Init => IInv
<1> SUFFICES ASSUME Init PROVE IInv
  OBVIOUS
<1> USE ToolAssumption DEF ToolAssumption, Init, ServerInit, CtrlInit, Wire, Reqs
<1>1. TypeOK
  <2>1. \A S : <<>> \in Seq(S)
    OBVIOUS
  <2>2. wire \in [Clients -> Seq(Message)]
    BY <2>1
  <2>3. reqs \in [Clients -> Seq(Question)]
    BY <2>1
  <2>4. printed \in Seq(Output)
    BY <2>1
  <2>5. Len(reqs[Server]) <= 1
    OBVIOUS
  <2>6. /\ link \in [Clients -> LinkStates]
        /\ sch \in [Clients -> Handle \cup {NoHandle}]
        /\ cut \in [Clients -> BOOLEAN]
    BY DEF LinkStates
  <2>7. /\ sval \in [Clients -> [Vars -> Values]]
        /\ pc \in CallStates \cup {"start", "exited"}
        /\ ret \in Words \cup {NoValue}
    OBVIOUS
  <2>8. /\ exit \in 0 .. 2 /\ traps \in 0 .. MaxTraps
    OBVIOUS
  <2>9. mode \in Modes /\ value \in Values /\ window \subseteq Values
    OBVIOUS
  <2>10. done \in BOOLEAN /\ trouble \in BOOLEAN
    OBVIOUS
  <2> QED
    BY <2>2, <2>3, <2>4, <2>5, <2>6, <2>7, <2>8, <2>9, <2>10, Zenon DEF TypeOK
<1>2. StageInv /\ AnswerInv
  BY DEF StageInv, AnswerInv
<1>3. ResultInv /\ UntroubledInv /\ ExitZeroIsTrue /\ FailureHasReason
  BY DEF ResultInv, UntroubledInv, ExitZeroIsTrue, FailureHasReason
<1>4. MonitorPrintsAll
  BY DEF MonitorPrintsAll
<1> QED
  BY <1>1, <1>2, <1>3, <1>4 DEF IInv

-----------------------------------------------------------------------------
(* Types.                                                                  *)

LEMMA Shape ==
    ASSUME TypeOK
    PROVE  /\ Server \in Clients /\ Clients = {Server}
           /\ Wire \in Seq(Message) /\ Len(Wire) \in Nat
           /\ Reqs \in Seq(Question)
           /\ Len(Reqs) \in {0, 1}
           /\ sch[Server] # NoHandle => sch[Server] \in Handle
           /\ sval[Server][Var] \in Values
<1>1. Server \in Clients /\ Clients = {Server}
  BY ToolAssumption DEF ToolAssumption
<1>2. Wire \in Seq(Message)
  BY <1>1 DEF TypeOK, Wire
<1>3. Reqs \in Seq(Question) /\ Len(Reqs) <= 1
  BY <1>1 DEF TypeOK, Reqs
<1>4. Len(Wire) \in Nat /\ Len(Reqs) \in {0, 1}
  <2>1. \A S : \A q \in Seq(S) : Len(q) \in Nat
    OBVIOUS
  <2> QED
    BY <1>2, <1>3, <2>1
<1>5. sch[Server] # NoHandle => sch[Server] \in Handle
  BY <1>1 DEF TypeOK
<1>6. sval[Server][Var] \in Values
  BY <1>1, ToolAssumption DEF ToolAssumption, TypeOK
<1> QED
  BY <1>1, <1>2, <1>3, <1>4, <1>5, <1>6

LEMMA IdTypes ==
    ASSUME NEW n \in Ids
    PROVE  Incremented(n) \in Ids /\ Decremented(n) \in Ids
BY ServerAssumption DEF ServerAssumption, Ids, Incremented, Decremented

LEMMA RequestIdType ==
    ASSUME TypeOK, sch[Server] # NoHandle
    PROVE  RequestId(Server) \in Ids
BY Shape, IdTypes DEF RequestId, Handle

LEMMA NewHandle ==
    ASSUME NEW n \in Ids
    PROVE  [next_id |-> n] \in Handle /\ [next_id |-> n] # NoHandle
BY SimpleCtrlAssumption DEF SimpleCtrlAssumption, Handle

LEMMA FirstWordType ==
    ASSUME NEW val \in Values
    PROVE  FirstWord(val) \in Words /\ FirstWord(val) # NoValue
BY ServerAssumption, SimpleCtrlAssumption
   DEF ServerAssumption, SimpleCtrlAssumption, FirstWord

LEMMA NothingAsked ==
    ASSUME IInv, ~Answering
    PROVE  Reqs = <<>> /\ \A i \in 1 .. Len(Wire) : Wire[i].kind \notin {"reply", "set_reply"}
<1>1. \A i \in 1 .. Len(Reqs) : FALSE
  BY DEF IInv, AnswerInv, IsRequest
<1>2. Reqs = <<>>
  BY <1>1, Shape DEF IInv
<1> QED
  BY <1>2 DEF IInv, AnswerInv, IsAnswer

\* What no step changes.
LEMMA Kept ==
    ASSUME Process \/ ServerStep
    PROVE  UNCHANGED <<mode, value, Question, Output>>
<1>1. UNCHANGED <<mode, value>>
  BY DEF Process, ServerStep, Start, NoConnection, Ask, Monitor, Same, Troubled,
         PrintsMessage, PrintsValue, GivesUp, ServeGet, ServeSet, SendTrap
<1> QED
  BY <1>1 DEF Question, Output

LEMMA TypeProcess ==
    ASSUME IInv, Process
    PROVE  TypeOK'
<1> USE DEF TypeOK, CallStates, Same, Troubled, serverVars, ctrlVars
<1>0. TypeOK /\ StageInv /\ AnswerInv /\ UNCHANGED <<mode, value, Question, Output>>
  BY Kept DEF IInv
<1>2. CASE Start
  BY <1>0, <1>2 DEF Start, Open, LinkStates
<1>3. CASE NoConnection \/ Monitor \/ GivesUp
  BY <1>0, <1>3 DEF NoConnection, Exit, Monitor, GivesUp
<1>4. CASE Ask
  <2>1. sch' \in [Clients -> Handle \cup {NoHandle}]
    BY <1>0, <1>4, Shape, IdTypes, NewHandle DEF Ask, Get, Handle
  <2>2. window' \subseteq Values
    BY <1>0, <1>4, Shape DEF Ask
  <2> QED
    BY <1>0, <1>4, <2>1, <2>2 DEF Ask, Get
<1>5. CASE ConnectReady(Server) /\ Same
  <2>1. [next_id |-> 0] \in Handle
    BY NewHandle, ServerAssumption DEF ServerAssumption, Ids
  <2> QED
    BY <1>0, <1>5, <2>1 DEF ConnectReady
<1>6. CASE ConnectFails(Server) /\ Troubled
  <2>1. \A S : <<>> \in Seq(S)
    OBVIOUS
  <2>2. wire' \in [Clients -> Seq(Message)] /\ reqs' \in [Clients -> Seq(Question)']
    BY <1>0, <1>6, <2>1 DEF ConnectFails, CloseFd
  <2>3. Len(reqs'[Server]) <= 1
    BY <1>0, <1>6, Shape DEF ConnectFails, CloseFd
  <2>4. link' \in [Clients -> LinkStates] /\ cut' \in [Clients -> BOOLEAN]
    BY <1>0, <1>6 DEF ConnectFails, CloseFd, LinkStates
  <2> QED
    BY <1>0, <1>6, <2>2, <2>3, <2>4 DEF ConnectFails, Output
<1>7. CASE mode = "set" /\ SendSet /\ Same
  <2>1. [id |-> RequestId(Server), var |-> Var, val |-> value] \in Question
    BY <1>0, <1>7, RequestIdType, ToolAssumption
       DEF SendSet, StageInv, ToolAssumption, SetRequest, Question
  <2>2. Append(<<>>, [id |-> RequestId(Server), var |-> Var, val |-> value]) \in Seq(Question)
    BY <2>1
  <2>3. Reqs = <<>>
    BY <1>7, NothingAsked DEF SendSet, Answering
  <2>4. reqs' \in [Clients -> Seq(Question)]
    BY <1>0, <1>7, <2>2, <2>3, Shape DEF SendSet, Reqs
  <2>5. Len(reqs'[Server]) <= 1
    BY <1>0, <1>7, <2>1, <2>3, Shape DEF SendSet, Reqs
  <2> QED
    BY <1>0, <1>7, <2>4, <2>5 DEF SendSet
<1>8. CASE mode # "set" /\ SendOk(Server, Var) /\ Same
  <2>1. [id |-> RequestId(Server), var |-> Var] \in Question
    BY <1>0, <1>8, RequestIdType, ToolAssumption
       DEF SendOk, StageInv, ToolAssumption, Request, Question
  <2>2. Append(<<>>, [id |-> RequestId(Server), var |-> Var]) \in Seq(Question)
    BY <2>1
  <2>3. Reqs = <<>>
    BY <1>8, NothingAsked DEF SendOk, Answering
  <2>4. reqs' \in [Clients -> Seq(Question)]
    BY <1>0, <1>8, <2>2, <2>3, Shape DEF SendOk, Reqs
  <2>5. Len(reqs'[Server]) <= 1
    BY <1>0, <1>8, <2>1, <2>3, Shape DEF SendOk, Reqs
  <2> QED
    BY <1>0, <1>8, <2>4, <2>5 DEF SendOk
<1>9. CASE (SendFails \/ HeaderTimeout) /\ Troubled
  BY <1>0, <1>9 DEF SendFails, HeaderTimeout, Returns
<1>10. CASE ReadHeader(Server) /\ Same
  BY <1>0, <1>10 DEF ReadHeader
<1>11. CASE (HeaderShort(Server) \/ BodyShort(Server)) /\ Troubled
  BY <1>0, <1>11, Shape DEF HeaderShort, BodyShort, Returns
<1>12. ASSUME pc = "body", Wire # <<>>, wire' = [wire EXCEPT ![Server] = Tail(@)]
       PROVE  wire' \in [Clients -> Seq(Message)] /\ Head(Wire) \in Message
  BY <1>0, <1>12, Shape, TailOf DEF Wire
<1>13. CASE mode = "get" /\ ReadBody(Server, Var) /\ Same
  <2>1. wire' \in [Clients -> Seq(Message)] /\ Head(Wire) \in Message
    BY <1>12, <1>13 DEF ReadBody, Wire
  <2>2. ret' \in Words \cup {NoValue}
    BY <1>0, <1>13, <2>1, FirstWordType
       DEF ReadBody, Returns, Accepted, Wire, Message, Frame, NumberedTrap, SetReply
  <2>3. pc' \in {"header", "got"}
    BY <1>13 DEF ReadBody, Returns
  <2> QED
    BY <1>0, <1>13, <2>1, <2>2, <2>3 DEF ReadBody
<1>14. CASE mode = "set" /\ ReadSetReply /\ Same
  <2>1. wire' \in [Clients -> Seq(Message)]
    BY <1>12, <1>14 DEF ReadSetReply, Wire
  <2>2. ret' \in Words \cup {NoValue} /\ pc' \in {"header", "got"}
    BY <1>0, <1>14, ServerAssumption DEF ServerAssumption, ReadSetReply, Returns
  <2> QED
    BY <1>0, <1>14, <2>1, <2>2 DEF ReadSetReply
<1>15. CASE mode = "monitor" /\ PrintsMessage
  <2>1. wire' \in [Clients -> Seq(Message)] /\ Head(Wire) \in Message
    BY <1>12, <1>15 DEF PrintsMessage, Wire
  <2>2. Head(Wire).kind # "foreign" => Head(Wire) \in Output
    <3>1. IsAnswer(Head(Wire))
      BY <1>0, <1>15, Shape, TailOf DEF PrintsMessage, AnswerInv, Wire
    <3> QED
      BY <1>15, <2>1, <3>1 DEF IsAnswer, Output, Message, Frame, NumberedTrap, SetReply
  <2>3. printed' \in Seq(Output)
    BY <1>0, <1>15, <2>2 DEF PrintsMessage, Wire
  <2> QED
    BY <1>0, <1>15, <2>1, <2>3 DEF PrintsMessage
<1>16. CASE PrintsValue
  <2>1. printed' \in Seq(Output)
    <3>1. mode # "monitor" /\ ret \in Words
      BY <1>0, <1>16 DEF PrintsValue, StageInv
    <3>2. Output = Words
      BY <3>1 DEF Output
    <3>3. <<>> \in Seq(Words) /\ <<ret>> \in Seq(Words)
      BY <3>1
    <3> QED
      BY <1>0, <1>16, <3>2, <3>3 DEF PrintsValue
  <2> QED
    BY <1>0, <1>16, <2>1 DEF PrintsValue, Exit
<1> QED
  BY <1>2, <1>3, <1>4, <1>5, <1>6, <1>7, <1>8, <1>9, <1>10, <1>11, <1>13, <1>14, <1>15, <1>16
     DEF Process

LEMMA TypeServer ==
    ASSUME IInv, ServerStep
    PROVE  TypeOK'
<1> USE DEF TypeOK, Same, Troubled, serverVars, ctrlVars, LinkStates
<1>0. TypeOK /\ StageInv /\ AnswerInv /\ UNCHANGED <<mode, value, Question, Output>>
  BY Kept DEF IInv
<1>1. ASSUME NEW f \in Message, wire' = [wire EXCEPT ![Server] = Append(@, f)]
      PROVE  wire' \in [Clients -> Seq(Message)]
  BY <1>0, <1>1, Shape, AppendTo DEF Wire
<1>2. ASSUME Reqs # <<>>, reqs' = [reqs EXCEPT ![Server] = Tail(@)]
      PROVE  /\ reqs' \in [Clients -> Seq(Question)] /\ Len(reqs'[Server]) <= 1
             /\ Head(Reqs) \in Question
  BY <1>0, <1>2, Shape, TailOf DEF Reqs
<1>3. CASE (Accept(Server) \/ Refuse(Server)) /\ UNCHANGED ctrlVars /\ (Same \/ Troubled)
  BY <1>0, <1>3 DEF Accept, Refuse
<1>4. CASE Drop(Server) /\ UNCHANGED ctrlVars /\ Troubled
  <2>1. PICK n \in 0 .. Len(Wire) : wire' = [wire EXCEPT ![Server] = SubSeq(@, 1, n)]
    BY <1>4 DEF Drop, Wire
  <2>2. wire' \in [Clients -> Seq(Message)]
    BY <1>0, <2>1, Shape, PrefixOf DEF Wire
  <2>3. reqs' \in [Clients -> Seq(Question)] /\ Len(reqs'[Server]) <= 1
    BY <1>0, <1>4, Shape DEF Drop
  <2> QED
    BY <1>0, <1>4, <2>2, <2>3 DEF Drop
<1>5. CASE ServeGet
  <2>1. /\ reqs' \in [Clients -> Seq(Question)] /\ Len(reqs'[Server]) <= 1
        /\ Head(Reqs) \in Question
    BY <1>2, <1>5 DEF ServeGet, Serve, Reqs
  <2>2. AnswerTo(Server, Head(Reqs)) \in Message
    <3>1. Head(Reqs) \in Request /\ Server \in Clients
      BY <1>0, <1>5, <2>1, Shape DEF ServeGet, Question
    <3>2. sval[Server] \in [Vars -> Values]
      BY <1>0, <3>1
    <3>3. sval[Server][Head(Reqs).var] \in Values
      BY <3>1, <3>2 DEF Request
    <3> QED
      BY <3>1, <3>3 DEF AnswerTo, Request, Message, Frame
  <2>3. wire' \in [Clients -> Seq(Message)]
    BY <1>1, <1>5, <2>2 DEF ServeGet, Serve, Reqs
  <2> QED
    BY <1>0, <1>5, <2>1, <2>3 DEF ServeGet, Serve
<1>6. CASE ServeSet
  <2>1. /\ reqs' \in [Clients -> Seq(Question)] /\ Len(reqs'[Server]) <= 1
        /\ Head(Reqs) \in SetRequest
    BY <1>2, <1>6 DEF ServeSet, Reqs, Question
  <2> DEFINE r == Head(Reqs)
             done_ == [kind |-> "set_reply", id |-> r.id, var |-> r.var, val |-> r.val]
             error == [kind |-> "error", id |-> r.id]
  <2>2. done_ \in Message /\ error \in Message
    BY <2>1 DEF SetRequest, SetReply, Message, Frame
  <2>3. wire' \in [Clients -> Seq(Message)]
    BY <1>1, <1>6, <2>2 DEF ServeSet, Reqs
  <2>4. sval' \in [Clients -> [Vars -> Values]]
    <3>1. r.var \in Vars /\ r.val \in Values /\ Server \in Clients
      BY <1>0, <2>1, Shape DEF SetRequest
    <3>2. sval[Server] \in [Vars -> Values]
      BY <1>0, <3>1
    <3>3. [sval[Server] EXCEPT ![r.var] = r.val] \in [Vars -> Values]
      BY <3>1, <3>2
    <3>4. \/ sval' = sval
          \/ sval' = [sval EXCEPT ![Server] = [sval[Server] EXCEPT ![r.var] = r.val]]
      BY <1>6 DEF ServeSet, Reqs
    <3> QED
      BY <1>0, <3>1, <3>3, <3>4
  <2> QED
    BY <1>0, <1>6, <2>1, <2>3, <2>4 DEF ServeSet
<1>7. CASE SendTrap
  <2>1. traps + 1 \in 1 .. MaxTraps /\ traps' \in 0 .. MaxTraps
    BY <1>0, <1>7, ToolAssumption DEF SendTrap, ToolAssumption
  <2>2. [kind |-> "trap", n |-> traps + 1] \in Message
    BY <2>1 DEF Message, NumberedTrap
  <2>3. wire' \in [Clients -> Seq(Message)]
    BY <1>1, <1>7, <2>2 DEF SendTrap, SendFrame
  <2> QED
    BY <1>0, <1>7, <2>1, <2>3 DEF SendTrap, SendFrame
<1>8. CASE Foreign(Server) /\ UNCHANGED ctrlVars /\ Same
  <2>1. [kind |-> "foreign"] \in Message
    BY DEF Message, Frame
  <2>2. wire' \in [Clients -> Seq(Message)]
    BY <1>1, <1>8, <2>1 DEF Foreign, SendFrame
  <2> QED
    BY <1>0, <1>8, <2>2 DEF Foreign, SendFrame
<1>9. ASSUME NEW x \in Values, Change(Server, Var, x), UNCHANGED ctrlVars,
             UNCHANGED <<mode, value, exit, printed, traps, done, trouble>>,
             window' = IF window = {} THEN {} ELSE window \cup {x}
      PROVE  TypeOK'
  BY <1>0, <1>9 DEF Change
<1> QED
  BY <1>3, <1>4, <1>5, <1>6, <1>7, <1>8, <1>9 DEF ServerStep

-----------------------------------------------------------------------------
(* How far the process has come.                                           *)

LEMMA StageProcess ==
    ASSUME IInv, Process
    PROVE  StageInv'
<1> USE DEF StageInv, Same, Troubled, serverVars, ctrlVars, Wire, Reqs, Returns, Exit
<1>0. TypeOK /\ StageInv /\ UNCHANGED <<mode, value>> /\ Server \in Clients
  BY Kept, Shape DEF IInv
<1>1. /\ link \in [Clients -> LinkStates] /\ cut \in [Clients -> BOOLEAN]
      /\ sch \in [Clients -> Handle \cup {NoHandle}]
      /\ DOMAIN wire = Clients /\ DOMAIN reqs = Clients
  BY <1>0 DEF TypeOK
<1>2. CASE Start
  BY <1>0, <1>1, <1>2 DEF Start, Open
<1>3. CASE NoConnection \/ Monitor \/ GivesUp \/ PrintsValue
  BY <1>0, <1>1, <1>3 DEF NoConnection, Monitor, GivesUp, PrintsValue
<1>4. CASE Ask
  <2>1. sch'[Server] # NoHandle
    BY <1>0, <1>1, <1>4, IdTypes, NewHandle DEF Ask, Get, Handle
  <2> QED
    BY <1>0, <1>1, <1>4, <2>1 DEF Ask, Get
<1>5. CASE ConnectReady(Server) /\ Same
  <2>1. sch'[Server] # NoHandle
    BY <1>0, <1>1, <1>5, NewHandle, ServerAssumption DEF ConnectReady, ServerAssumption, Ids
  <2> QED
    BY <1>0, <1>1, <1>5, <2>1 DEF ConnectReady
<1>6. CASE ConnectFails(Server) /\ Troubled
  BY <1>0, <1>1, <1>6 DEF ConnectFails, CloseFd
<1>7. CASE (IF mode = "set" THEN SendSet ELSE SendOk(Server, Var)) /\ Same
  BY <1>0, <1>1, <1>7 DEF SendSet, SendOk
<1>8. CASE (SendFails \/ HeaderTimeout) /\ Troubled
  BY <1>0, <1>1, <1>8 DEF SendFails, HeaderTimeout
<1>9. CASE ReadHeader(Server) /\ Same
  BY <1>0, <1>1, <1>9 DEF ReadHeader
<1>10. CASE (HeaderShort(Server) \/ BodyShort(Server)) /\ Troubled
  BY <1>0, <1>1, <1>10 DEF HeaderShort, BodyShort
<1>11. CASE mode = "get" /\ ReadBody(Server, Var) /\ Same
  BY <1>0, <1>1, <1>11 DEF ReadBody
<1>12. CASE mode = "set" /\ ReadSetReply /\ Same
  BY <1>0, <1>1, <1>12 DEF ReadSetReply
<1>13. CASE mode = "monitor" /\ PrintsMessage
  BY <1>0, <1>1, <1>13 DEF PrintsMessage
<1> QED
  BY <1>2, <1>3, <1>4, <1>5, <1>6, <1>7, <1>8, <1>9, <1>10, <1>11, <1>12, <1>13 DEF Process

LEMMA StageServer ==
    ASSUME IInv, ServerStep
    PROVE  StageInv'
<1> USE DEF StageInv, Same, Troubled, ctrlVars, Wire, Reqs
<1>0. TypeOK /\ StageInv /\ UNCHANGED <<ctrlVars, mode, exit, printed>> /\ Server \in Clients
  BY Kept, Shape DEF IInv, ServerStep, ServeGet, ServeSet, SendTrap
<1>1. link \in [Clients -> LinkStates] /\ DOMAIN wire = Clients /\ DOMAIN reqs = Clients
  BY <1>0 DEF TypeOK
<1>2. CASE UNCHANGED <<link, wire, reqs, traps, trouble>>
  BY <1>0, <1>2
<1>3. ASSUME link[Server] \in {"syn", "open"}, link'[Server] \in {"open", "dead"},
             traps' # traps => link[Server] = "open"
      PROVE  StageInv'
  BY <1>0, <1>1, <1>3
<1> QED
  BY <1>0, <1>1, <1>2, <1>3
     DEF ServerStep, Accept, Refuse, Drop, ServeGet, Serve, ServeSet, SendTrap, Foreign,
         SendFrame, Change

-----------------------------------------------------------------------------
(* Requests and answers.                                                   *)

\* What is a request or an answer to one stays so.
LEMMA Stays ==
    ASSUME IInv, Process \/ ServerStep
    PROVE  /\ \A r : Answering /\ IsRequest(r) => IsRequest(r)'
           /\ \A f : Answering \/ f.kind \notin {"reply", "set_reply"} =>
                        (IsAnswer(f) => IsAnswer(f)')
<1>1. trouble => trouble'
  BY DEF IInv, StageInv, Process, ServerStep, Start, NoConnection, Ask, Monitor, Same, Troubled,
         PrintsMessage, PrintsValue, GivesUp, ServeGet, ServeSet, SendTrap
<1>2. Answering => window \subseteq window'
  <2>1. CASE Process
    BY <2>1 DEF Process, Start, NoConnection, Ask, Monitor, Same, Troubled, Answering,
                PrintsMessage, PrintsValue, GivesUp
  <2>2. CASE ServerStep
    BY <2>2 DEF ServerStep, Same, Troubled, ServeGet, ServeSet, SendTrap
  <2> QED
    BY <2>1, <2>2
<1>3. done => done'
  BY DEF Process, ServerStep, Start, NoConnection, Ask, Monitor, Same, Troubled,
         PrintsMessage, PrintsValue, GivesUp, ServeGet, ServeSet, SendTrap
<1>4. Answering => ~Ask
  BY DEF Ask, Answering
<1>5. Answering /\ ~Ask => Answering' /\ UNCHANGED RequestId(Server)
  BY Shape
     DEF Process, ServerStep, Start, Open, NoConnection, Exit, Monitor, Answering,
         ConnectReady, ConnectFails, SendSet, SendOk, SendFails, Returns, ReadHeader,
         HeaderShort, HeaderTimeout, ReadBody, ReadSetReply, BodyShort,
         PrintsMessage, PrintsValue, GivesUp, ServeGet, ServeSet, SendTrap, ctrlVars, RequestId
<1> QED
  BY <1>1, <1>2, <1>3, <1>4, <1>5, Kept DEF IsRequest, IsAnswer

LEMMA AnswerProcess ==
    ASSUME IInv, Process
    PROVE  AnswerInv'
<1>0. /\ TypeOK /\ StageInv /\ AnswerInv
      /\ UNCHANGED <<mode, value>>
      /\ DOMAIN wire = Clients /\ DOMAIN reqs = Clients
  BY Kept DEF IInv, TypeOK
<1>1. ASSUME NEW i \in 1 .. Len(Reqs')
      PROVE  IsRequest(Reqs[i])'
  <2>1. CASE Reqs' = Reqs
    <3>1. IsRequest(Reqs[i]) /\ Answering
      BY <1>0, <2>1 DEF AnswerInv, IsRequest
    <3> QED
      BY <2>1, <3>1, Stays
  <2>2. CASE Reqs' # Reqs
    <3>1. Reqs = <<>> \/ Reqs' = <<>>
      BY <2>2, NothingAsked, <1>0, Shape
         DEF Process, Start, Open, NoConnection, Ask, Get, Monitor, ConnectReady, ConnectFails,
             CloseFd, SendSet, SendOk, SendFails, ReadHeader, HeaderShort, HeaderTimeout,
             ReadBody, ReadSetReply, BodyShort, PrintsMessage, PrintsValue, GivesUp,
             serverVars, Reqs, Answering
    <3>2. PICK r : Reqs' = <<r>> /\ (\/ mode = "set" /\ SendSet
                                     \/ mode # "set" /\ SendOk(Server, Var))
                   /\ r.id = RequestId(Server) /\ r.var = Var /\ (mode = "set" => r.val = value)
      BY <2>2, <3>1, <1>0, Shape
         DEF Process, Start, Open, NoConnection, Ask, Get, Monitor, ConnectReady, ConnectFails,
             CloseFd, SendSet, SendOk, SendFails, ReadHeader, HeaderShort, HeaderTimeout,
             ReadBody, ReadSetReply, BodyShort, PrintsMessage, PrintsValue, GivesUp,
             serverVars, Reqs, Answering
    <3>3. i = 1 /\ Reqs'[i] = r
      BY <3>2
    <3>4. Answering' /\ mode # "monitor" /\ UNCHANGED RequestId(Server)
      BY <1>0, <3>2 DEF SendSet, SendOk, RequestId, Answering, StageInv
    <3> QED
      BY <1>0, <3>2, <3>3, <3>4 DEF IsRequest
  <2> QED
    BY <2>1, <2>2
<1>2. ASSUME NEW i \in 1 .. Len(Wire')
      PROVE  IsAnswer(Wire[i])'
  <2>1. \/ Wire' = Wire
        \/ Wire' = <<>>
        \/ Wire # <<>> /\ Wire' = Tail(Wire)
    BY <1>0, Shape
       DEF Process, Start, Open, NoConnection, Ask, Get, Monitor, ConnectReady, ConnectFails,
           CloseFd, SendSet, SendOk, SendFails, ReadHeader, HeaderShort, HeaderTimeout,
           ReadBody, ReadSetReply, BodyShort, PrintsMessage, PrintsValue, GivesUp,
           serverVars, Wire
  <2>2. PICK k \in 1 .. Len(Wire) : Wire'[i] = Wire[k]
    <3>1. CASE Wire' = Wire
      BY <3>1
    <3>2. CASE Wire' = <<>>
      BY <3>2
    <3>3. CASE Wire # <<>> /\ Wire' = Tail(Wire)
      BY <1>0, <3>3, Shape, TailOf
    <3> QED
      BY <2>1, <3>1, <3>2, <3>3
  <2>3. IsAnswer(Wire[k]) /\ (Answering \/ Wire[k].kind \notin {"reply", "set_reply"})
    BY <1>0, <2>2, NothingAsked DEF AnswerInv
  <2> QED
    BY <2>2, <2>3, Stays
<1>3. ASSUME mode' = "get", pc' \in {"send", "header", "body", "got"}
      PROVE  sval'[Server][Var] \in window'
  <2>1. CASE Ask
    BY <2>1 DEF Ask, Get
  <2>2. CASE ~Ask
    <3>1. pc \in {"send", "header", "body", "got"} /\ window' = window /\ sval' = sval
      BY <1>0, <1>3, <2>2
         DEF Process, Start, Open, NoConnection, Exit, Monitor, ConnectReady, ConnectFails,
             CloseFd, SendSet, SendOk, SendFails, ReadHeader, HeaderShort, HeaderTimeout,
             ReadBody, ReadSetReply, BodyShort, PrintsMessage, PrintsValue, GivesUp,
             serverVars, Same, Troubled
    <3> QED
      BY <1>0, <1>3, <3>1 DEF AnswerInv
  <2> QED
    BY <2>1, <2>2
<1> QED
  BY <1>1, <1>2, <1>3 DEF AnswerInv

LEMMA AnswerServer ==
    ASSUME IInv, ServerStep, pc # "exited"
    PROVE  AnswerInv'
<1>0. /\ TypeOK /\ StageInv /\ AnswerInv
      /\ UNCHANGED <<mode, value, ctrlVars>>
      /\ DOMAIN wire = Clients /\ DOMAIN reqs = Clients
  BY Kept DEF IInv, TypeOK, ServerStep, ServeGet, ServeSet, SendTrap
<1>1. ASSUME NEW i \in 1 .. Len(Wire), NEW w, w = Wire[i]
      PROVE  IsAnswer(w)'
  <2>1. IsAnswer(w) /\ (Answering \/ w.kind \notin {"reply", "set_reply"})
    BY <1>0, <1>1, NothingAsked DEF AnswerInv
  <2> QED
    BY <2>1, Stays
<1>2. ASSUME NEW r, Len(Reqs) = 1, r = Reqs[1]
      PROVE  Answering /\ IsRequest(r) /\ IsRequest(r)'
  <2>1. Answering /\ IsRequest(r)
    BY <1>0, <1>2, NothingAsked DEF AnswerInv, IsRequest
  <2> QED
    BY <2>1, Stays
<1>3. \A i \in 1 .. Len(Reqs') : IsRequest(Reqs[i])'
  <2>1. Reqs' = Reqs \/ Reqs' = <<>> \/ (Reqs # <<>> /\ Reqs' = Tail(Reqs))
    BY <1>0, Shape
       DEF ServerStep, Accept, Refuse, Drop, ServeGet, Serve, ServeSet, SendTrap, Foreign,
           SendFrame, Change, Reqs
  <2>2. CASE Reqs' = Reqs
    <3>1. Len(Reqs) = 0 \/ Len(Reqs) = 1
      BY <1>0, Shape
    <3> QED
      BY <1>2, <2>2, <3>1
  <2>3. CASE Reqs' = <<>>
    BY <2>3
  <2>4. CASE Reqs # <<>> /\ Reqs' = Tail(Reqs)
    <3>1. Len(Reqs') = 0
      BY <1>0, <2>4, Shape, TailOf
    <3> QED
      BY <3>1
  <2> QED
    BY <2>1, <2>2, <2>3, <2>4
<1>4. ASSUME NEW f, Wire' = Append(Wire, f), IsAnswer(f)'
      PROVE  \A i \in 1 .. Len(Wire') : IsAnswer(Wire[i])'
  <2>1. \A i \in 1 .. Len(Wire') : \/ Wire'[i] = f
                                   \/ i \in 1 .. Len(Wire) /\ Wire'[i] = Wire[i]
    BY <1>0, <1>4, Shape, AppendTo
  <2> QED
    BY <1>1, <1>4, <2>1
<1>5. \A i \in 1 .. Len(Wire') : IsAnswer(Wire[i])'
  <2>1. CASE Drop(Server)
    <3>1. PICK n \in 0 .. Len(Wire) : Wire' = SubSeq(Wire, 1, n)
      BY <1>0, <2>1, Shape DEF Drop, Wire
    <3> QED
      BY <1>0, <1>1, <3>1, Shape, PrefixOf
  <2>2. CASE ServeGet
    <3>0. Len(Reqs) = 1 /\ Head(Reqs) = Reqs[1] /\ Head(Reqs) \in Request
      BY <1>0, <2>2, Shape, TailOf DEF ServeGet, Serve, Reqs, Question
    <3> DEFINE r == Head(Reqs)
    <3> PICK f : f = AnswerTo(Server, r)
      OBVIOUS
    <3>1. Wire' = Append(Wire, f)
      BY <1>0, <2>2, Shape DEF ServeGet, Serve, Wire, Reqs
    <3>2. Answering' /\ UNCHANGED <<RequestId(Server), sval, window, mode>>
      BY <1>0, <1>2, <3>0, <2>2 DEF ServeGet, Serve, Answering, RequestId, ctrlVars
    <3>3. ASSUME r.var \in Known[Server]
          PROVE  IsAnswer(f)'
      <4>1. IsRequest(r) /\ pc # "exited" /\ mode = "get"
        BY <1>2, <2>2, <3>0 DEF ServeGet
      <4>2. sval[Server][Var] \in window
        BY <1>0, <4>1 DEF AnswerInv, IsRequest, Answering
      <4>3. f = [kind |-> "reply", id |-> r.id, var |-> r.var, val |-> sval[Server][r.var]]
        BY <3>3 DEF AnswerTo
      <4> QED
        BY <3>2, <4>1, <4>2, <4>3 DEF IsAnswer, IsRequest
    <3>4. ASSUME r.var \notin Known[Server]
          PROVE  IsAnswer(f)'
      <4>1. f = [kind |-> "error", id |-> r.id] /\ r.var = Var
        BY <1>2, <3>0, <3>4 DEF AnswerTo, IsRequest
      <4>2. trouble' /\ mode' # "monitor"
        BY <1>0, <2>2, <3>4, <4>1 DEF ServeGet
      <4> QED
        BY <4>1, <4>2 DEF IsAnswer
    <3>5. IsAnswer(f)'
      BY <3>3, <3>4
    <3> QED
      BY <1>4, <3>1, <3>5
  <2>3. CASE ServeSet
    <3>0. Len(Reqs) = 1 /\ Head(Reqs) = Reqs[1]
      BY <1>0, <2>3, Shape, TailOf DEF ServeSet, Reqs
    <3> DEFINE r == Head(Reqs)
    <3>1. Answering' /\ UNCHANGED <<RequestId(Server), value, mode>> /\ mode = "set"
      BY <1>0, <1>2, <3>0, <2>3 DEF ServeSet, Answering, RequestId, ctrlVars
    <3>2. ASSUME NEW f,
                 \/ done' /\ f = [kind |-> "set_reply", id |-> r.id, var |-> r.var, val |-> r.val]
                 \/ trouble' /\ f = [kind |-> "error", id |-> r.id],
                 Wire' = Append(Wire, f)
          PROVE  \A i \in 1 .. Len(Wire') : IsAnswer(Wire[i])'
      <4>1. IsRequest(r)
        BY <1>2, <3>0
      <4>2. IsAnswer(f)'
        BY <3>1, <3>2, <4>1 DEF IsAnswer, IsRequest
      <4> QED
        BY <1>4, <3>2, <4>2
    <3> QED
      BY <1>0, <2>3, <3>2, Shape DEF ServeSet, Wire, Reqs
  <2>4. CASE SendTrap
    <3> PICK f : f = [kind |-> "trap", n |-> traps + 1]
      OBVIOUS
    <3>1. Wire' = Append(Wire, f) /\ trouble'
      BY <1>0, <2>4, Shape DEF SendTrap, SendFrame, Wire
    <3>2. f \in NumberedTrap
      BY <1>0, <2>4, ToolAssumption DEF TypeOK, SendTrap, NumberedTrap, ToolAssumption
    <3>3. IsAnswer(f)'
      BY <3>1, <3>2 DEF IsAnswer
    <3> QED
      BY <1>4, <3>1, <3>3
  <2>5. CASE Foreign(Server)
    <3>1. Wire' = Append(Wire, [kind |-> "foreign"])
      BY <1>0, <2>5, Shape DEF Foreign, SendFrame, Wire
    <3>2. IsAnswer([kind |-> "foreign"])'
      BY DEF IsAnswer
    <3> QED
      BY <1>4, <3>1, <3>2
  <2>6. CASE Wire' = Wire
    BY <1>1, <2>6
  <2> QED
    BY <2>1, <2>2, <2>3, <2>4, <2>5, <2>6 DEF ServerStep, Accept, Refuse, Change, Wire
<1>6. ASSUME mode' = "get", pc' \in {"send", "header", "body", "got"}
      PROVE  sval'[Server][Var] \in window'
  <2>1. sval[Server][Var] \in window
    BY <1>0, <1>6 DEF AnswerInv, ctrlVars
  <2>2. CASE UNCHANGED sval
    BY <2>1, <2>2, <1>0, <1>6
       DEF ServerStep, ServeGet, ServeSet, SendTrap, Same, Troubled, Change
  <2>3. ASSUME NEW x \in Values, Change(Server, Var, x),
               window' = IF window = {} THEN {} ELSE window \cup {x}
        PROVE  sval'[Server][Var] \in window'
    <3>1. Server \in Clients /\ sval \in [Clients -> [Vars -> Values]] /\ Var \in Vars
      BY <1>0, Shape, ToolAssumption DEF TypeOK, ToolAssumption
    <3>2. sval'[Server][Var] = x
      BY <2>3, <3>1 DEF Change
    <3> QED
      BY <2>1, <2>3, <3>2
  <2> QED
    BY <1>0, <1>6, <2>2, <2>3
       DEF ServerStep, Accept, Refuse, Drop, ServeGet, Serve, ServeSet, SendTrap, Foreign,
           SendFrame
<1> QED
  BY <1>3, <1>5, <1>6 DEF AnswerInv

-----------------------------------------------------------------------------
(* The result and the exit status.                                         *)

\* What the frame at hand is when it is neither foreign nor in the way.
LEMMA FrameAtHand ==
    ASSUME IInv, pc = "body", Wire # <<>>
    PROVE  /\ Head(Wire) \in Message /\ IsAnswer(Head(Wire))
           /\ Head(Wire).kind \in {"reply", "error", "trap", "foreign", "set_reply"}
           /\ Head(Wire).kind = "reply" => Head(Wire).val \in Values
           /\ Head(Wire).kind = "set_reply" => Head(Wire).val \in Values
<1>1. Wire \in Seq(Message) /\ AnswerInv
  BY Shape DEF IInv
<1>2. Head(Wire) \in Message /\ IsAnswer(Head(Wire))
  BY <1>1, TailOf DEF AnswerInv
<1> QED
  BY <1>2 DEF Message, Frame, NumberedTrap, SetReply

LEMMA ResultProcess ==
    ASSUME IInv, Process, pc # "exited"
    PROVE  ResultInv'
<1> USE DEF ResultInv, Same, Troubled, Returns
<1>0. TypeOK /\ StageInv /\ ResultInv /\ UNCHANGED <<mode, value>>
  BY Kept DEF IInv
<1>1. CASE mode = "get" /\ ReadBody(Server, Var) /\ Same
  BY <1>0, <1>1, FrameAtHand DEF ReadBody, Accepted, Wire, IsAnswer
<1>2. CASE mode = "set" /\ ReadSetReply /\ Same
  BY <1>0, <1>2, FrameAtHand DEF ReadSetReply, SetAccepted, Wire, IsAnswer
<1>3. CASE pc' # "got" \/ ret' = NoValue
  BY <1>3
<1> QED
  BY <1>1, <1>2, <1>3
     DEF Process, Start, Open, NoConnection, Exit, Ask, Get, Monitor, ConnectReady, ConnectFails,
         SendSet, SendOk, SendFails, ReadHeader, HeaderShort, HeaderTimeout, BodyShort,
         PrintsMessage, PrintsValue, GivesUp

LEMMA UntroubledProcess ==
    ASSUME IInv, Process, pc # "exited"
    PROVE  UntroubledInv'
<1> USE DEF UntroubledInv, Same, Troubled, Returns, serverVars
<1>0. /\ TypeOK /\ StageInv /\ UntroubledInv /\ UNCHANGED <<mode, value>>
      /\ sch \in [Clients -> Handle \cup {NoHandle}] /\ Server \in Clients
  BY Kept, Shape DEF IInv, TypeOK
<1>1. CASE Start
  BY <1>0, <1>1 DEF Start, Open, TypeOK, StageInv
<1>2. CASE mode = "get" /\ ReadBody(Server, Var) /\ Same
  BY <1>0, <1>2, FrameAtHand, FirstWordType DEF ReadBody, Accepted, Wire, IsAnswer
<1>3. CASE mode = "set" /\ ReadSetReply /\ Same
  <2>1. value \in Seq(Words) /\ EmptyWord # NoValue
    BY <1>0, ServerAssumption, SimpleCtrlAssumption
       DEF TypeOK, ServerAssumption, SimpleCtrlAssumption
  <2>2. Len(value) = 1 => value # <<>> /\ value = <<Head(value)>>
    BY <2>1
  <2>3. pc' = "got" => ret' = EmptyWord \/ Len(value) # 1 \/ trouble
    BY <1>0, <1>3, <2>2, FrameAtHand DEF ReadSetReply, SetAccepted, Wire, IsAnswer
  <2> QED
    BY <1>0, <1>3, <2>1, <2>3 DEF ReadSetReply
<1>4. CASE ConnectReady(Server) /\ Same
  <2>1. sch'[Server] # NoHandle
    BY <1>0, <1>4, NewHandle, ServerAssumption DEF ConnectReady, ServerAssumption, Ids
  <2> QED
    BY <1>0, <1>4, <2>1 DEF ConnectReady
<1>5. CASE Ask
  <2>1. sch'[Server] # NoHandle
    BY <1>0, <1>5, IdTypes, NewHandle DEF Ask, Get, Handle
  <2> QED
    BY <1>0, <1>5, <2>1 DEF Ask, Get
<1>6. CASE trouble' \/ (pc' # "got" /\ pc \notin {"start", "connect"} /\ UNCHANGED <<link, sch, trouble>>)
  BY <1>0, <1>6
<1> QED
  BY <1>1, <1>2, <1>3, <1>4, <1>5, <1>6
     DEF Process, NoConnection, Exit, Monitor, ConnectFails,
         SendSet, SendOk, SendFails, ReadHeader, HeaderShort, HeaderTimeout, BodyShort,
         PrintsMessage, PrintsValue, GivesUp

LEMMA ExitProcess ==
    ASSUME IInv, Process, pc # "exited"
    PROVE  (ExitZeroIsTrue /\ FailureHasReason)'
<1> USE DEF ExitZeroIsTrue, FailureHasReason
<1>0. TypeOK /\ StageInv /\ ResultInv /\ UntroubledInv /\ UNCHANGED <<mode, value>>
  BY Kept DEF IInv
<1>1. CASE NoConnection
  BY <1>0, <1>1 DEF NoConnection, Exit, UntroubledInv
<1>2. CASE PrintsValue
  BY <1>0, <1>2 DEF PrintsValue, Exit, ResultInv
<1>3. CASE GivesUp
  BY <1>0, <1>3 DEF GivesUp, Exit, UntroubledInv
<1>4. CASE pc' # "exited"
  BY <1>4
<1> QED
  BY <1>1, <1>2, <1>3, <1>4
     DEF Process, Start, Open, Ask, Get, Monitor, ConnectReady, ConnectFails, Returns,
         SendSet, SendOk, SendFails, ReadHeader, HeaderShort, HeaderTimeout, BodyShort,
         PrintsMessage, ReadBody, ReadSetReply

LEMMA ResultServer ==
    ASSUME IInv, ServerStep, pc # "exited"
    PROVE  (ResultInv /\ UntroubledInv /\ ExitZeroIsTrue /\ FailureHasReason)'
<1>0. /\ TypeOK /\ StageInv /\ ResultInv /\ UntroubledInv
      /\ UNCHANGED <<mode, value, ctrlVars>>
      /\ link \in [Clients -> LinkStates] /\ Server \in Clients
  BY Kept, Shape DEF IInv, TypeOK, ServerStep, ServeGet, ServeSet, SendTrap
<1>1. ResultInv'
  <2>1. done => done'
    BY DEF ServerStep, Same, Troubled, ServeGet, ServeSet, SendTrap
  <2>2. window \subseteq window'
    BY DEF ServerStep, Same, Troubled, ServeGet, ServeSet, SendTrap
  <2> QED
    BY <1>0, <2>1, <2>2 DEF ResultInv, ctrlVars
<1>2. UntroubledInv'
  <2>1. trouble => trouble'
    BY DEF ServerStep, Same, Troubled, ServeGet, ServeSet, SendTrap
  <2>2. link' = link \/ link'[Server] = "open" \/ trouble'
    BY <1>0 DEF ServerStep, Accept, Refuse, Drop, ServeGet, Serve, ServeSet, SendTrap, SendFrame,
                Foreign, Change, Troubled
  <2> QED
    BY <1>0, <2>1, <2>2 DEF UntroubledInv, ctrlVars
<1> QED
  BY <1>0, <1>1, <1>2 DEF ExitZeroIsTrue, FailureHasReason, ctrlVars

-----------------------------------------------------------------------------
(* TRAPs in order: p of t are printed, the others wait in w.               *)

Traps(w) == {i \in 1 .. Len(w) : w[i].kind = "trap"}

InOrder(w, p, t) ==
    /\ \A i \in Traps(w) : w[i].n \in p + 1 .. t
    /\ \A n \in p + 1 .. t : \E i \in Traps(w) : w[i].n = n
    /\ \A i, j \in Traps(w) : i < j => w[i].n < w[j].n

Printed(out) == out = [n \in 1 .. Len(out) |-> [kind |-> "trap", n |-> n]]

Faithful ==
    /\ Len(printed) <= traps
    /\ Printed(printed)
    /\ InOrder(Wire, Len(printed), traps)

Watching == mode = "monitor" /\ link[Server] = "open" /\ ~cut[Server]

LEMMA MonitorIsFaithful ==
    ASSUME TypeOK
    PROVE  MonitorPrintsAll <=> (Watching => Faithful)
<1>1. DOMAIN Wire = 1 .. Len(Wire)
  BY Shape
<1>2. \A N : {Wire[i].n : i \in Traps(Wire)} = N
                <=> /\ \A i \in Traps(Wire) : Wire[i].n \in N
                    /\ \A n \in N : \E i \in Traps(Wire) : Wire[i].n = n
  OBVIOUS
<1> QED
  BY <1>1, <1>2 DEF MonitorPrintsAll, Watching, Faithful, Printed, InOrder, Traps, Wire

LEMMA MonitorIsFaithfulNext ==
    ASSUME TypeOK'
    PROVE  MonitorPrintsAll' <=> (Watching' => Faithful')
BY MonitorIsFaithful, PTL

LEMMA OrderAppendOther ==
    ASSUME NEW w \in Seq(Message), NEW p \in Nat, NEW t \in Nat, InOrder(w, p, t),
           NEW f, f.kind # "trap"
    PROVE  InOrder(Append(w, f), p, t)
<1>1. Traps(Append(w, f)) = Traps(w)
  BY AppendTo DEF Traps
<1>2. \A i \in Traps(w) : Append(w, f)[i] = w[i]
  BY AppendTo DEF Traps
<1> QED
  BY <1>1, <1>2 DEF InOrder

LEMMA OrderAppendTrap ==
    ASSUME NEW w \in Seq(Message), NEW p \in Nat, NEW t \in Nat, InOrder(w, p, t), p <= t,
           NEW f, f = [kind |-> "trap", n |-> t + 1]
    PROVE  InOrder(Append(w, f), p, t + 1)
<1> DEFINE v == Append(w, f)
           e == Len(w) + 1
<1>1. Traps(v) = Traps(w) \cup {e} /\ v[e] = f /\ \A i \in Traps(w) : v[i] = w[i]
  BY AppendTo DEF Traps
<1>2. e \in Nat /\ \A i \in Traps(w) : i \in Nat /\ i < e /\ w[i].n \in p + 1 .. t
  BY DEF InOrder, Traps
<1> HIDE DEF v, e
<1>3. ASSUME NEW i \in Traps(v)
      PROVE  v[i].n \in p + 1 .. t + 1
  <2>1. CASE i = e
    BY <1>1, <2>1
  <2>2. CASE i \in Traps(w)
    BY <1>1, <1>2, <2>2
  <2> QED
    BY <1>1, <2>1, <2>2
<1>4. ASSUME NEW n \in p + 1 .. t + 1
      PROVE  \E i \in Traps(v) : v[i].n = n
  <2>1. CASE n = t + 1
    BY <1>1, <2>1
  <2>2. CASE n # t + 1
    <3>1. PICK i \in Traps(w) : w[i].n = n
      BY <2>2 DEF InOrder
    <3> QED
      BY <1>1, <3>1
  <2> QED
    BY <2>1, <2>2
<1>5. ASSUME NEW i \in Traps(v), NEW j \in Traps(v), i < j
      PROVE  v[i].n < v[j].n
  <2>1. i \in Traps(w)
    BY <1>1, <1>2, <1>5
  <2>2. CASE j = e
    <3>1. v[j].n = t + 1
      BY <1>1, <2>2
    <3>2. w[i].n \in p + 1 .. t /\ v[i] = w[i]
      BY <1>1, <1>2, <2>1
    <3> QED
      BY <3>1, <3>2
  <2>3. CASE j \in Traps(w)
    <3>1. w[i].n < w[j].n
      BY <1>5, <2>1, <2>3 DEF InOrder
    <3> QED
      BY <1>1, <2>1, <2>3, <3>1
  <2> QED
    BY <1>1, <2>2, <2>3
<1>6. InOrder(v, p, t + 1)
  BY <1>3, <1>4, <1>5 DEF InOrder
<1> QED
  BY <1>6 DEF v

LEMMA OrderTail ==
    ASSUME NEW w \in Seq(Message), w # <<>>, NEW p \in Nat, NEW t \in Nat, InOrder(w, p, t)
    PROVE  /\ Head(w).kind # "trap" => InOrder(Tail(w), p, t)
           /\ Head(w).kind = "trap" => Head(w).n = p + 1 /\ p < t /\ InOrder(Tail(w), p + 1, t)
<1> DEFINE v == Tail(w)
<1>1. /\ \A i \in Traps(v) : i + 1 \in Traps(w) /\ v[i] = w[i + 1] /\ i \in Nat /\ i >= 1
      /\ \A j \in Traps(w) : j # 1 => j - 1 \in Traps(v) /\ v[j - 1] = w[j]
      /\ \A j \in Traps(w) : j \in Nat /\ j >= 1
      /\ Head(w) = w[1] /\ (Head(w).kind = "trap" <=> 1 \in Traps(w))
  BY TailOf DEF Traps
<1> HIDE DEF v
<1>2. ASSUME NEW i \in Traps(v), NEW j \in Traps(v), i < j
      PROVE  v[i].n < v[j].n
  <2>1. i + 1 \in Traps(w) /\ j + 1 \in Traps(w) /\ i + 1 < j + 1
    BY <1>1, <1>2
  <2>2. w[i + 1].n < w[j + 1].n
    BY <2>1 DEF InOrder
  <2> QED
    BY <1>1, <2>2
<1>3. CASE Head(w).kind # "trap"
  <2>1. \A i \in Traps(v) : v[i].n \in p + 1 .. t
    BY <1>1 DEF InOrder
  <2>2. \A n \in p + 1 .. t : \E i \in Traps(v) : v[i].n = n
    <3>1. SUFFICES ASSUME NEW n \in p + 1 .. t
                   PROVE  \E i \in Traps(v) : v[i].n = n
      OBVIOUS
    <3>2. PICK k \in Traps(w) : w[k].n = n
      BY DEF InOrder
    <3>3. k # 1
      BY <1>1, <1>3
    <3> QED
      BY <1>1, <3>2, <3>3
  <2>3. InOrder(v, p, t)
    BY <1>2, <2>1, <2>2 DEF InOrder
  <2> QED
    BY <1>3, <2>3 DEF v
<1>4. CASE Head(w).kind = "trap"
  <2>1. 1 \in Traps(w) /\ w[1].n \in p + 1 .. t
    BY <1>1, <1>4 DEF InOrder
  <2>2. PICK j \in Traps(w) : w[j].n = p + 1
    BY <2>1 DEF InOrder
  <2>3. w[1].n = p + 1
    <3>1. CASE j = 1
      BY <2>2, <3>1
    <3>2. CASE j # 1
      <4>1. 1 < j
        BY <1>1, <3>2
      <4>2. w[1].n < w[j].n
        BY <2>1, <4>1 DEF InOrder
      <4> QED
        BY <2>1, <2>2, <4>2
    <3> QED
      BY <3>1, <3>2
  <2>4. \A i \in Traps(v) : v[i].n \in (p + 1) + 1 .. t
    <3>1. SUFFICES ASSUME NEW i \in Traps(v) PROVE v[i].n \in (p + 1) + 1 .. t
      OBVIOUS
    <3>2. i + 1 \in Traps(w) /\ 1 < i + 1 /\ v[i] = w[i + 1]
      BY <1>1
    <3>3. w[1].n < w[i + 1].n /\ w[i + 1].n \in p + 1 .. t
      BY <2>1, <3>2 DEF InOrder
    <3> QED
      BY <2>3, <3>2, <3>3
  <2>5. \A n \in (p + 1) + 1 .. t : \E i \in Traps(v) : v[i].n = n
    <3>1. SUFFICES ASSUME NEW n \in (p + 1) + 1 .. t
                   PROVE  \E i \in Traps(v) : v[i].n = n
      OBVIOUS
    <3>2. PICK k \in Traps(w) : w[k].n = n
      BY DEF InOrder
    <3>3. k # 1
      BY <2>3, <3>2
    <3> QED
      BY <1>1, <3>2, <3>3
  <2>6. p < t
    BY <2>1
  <2>7. InOrder(v, p + 1, t)
    BY <1>2, <2>4, <2>5 DEF InOrder
  <2> QED
    BY <1>1, <1>4, <2>3, <2>6, <2>7 DEF v
<1> QED
  BY <1>3, <1>4

LEMMA PrintedAppend ==
    ASSUME NEW S, NEW s \in Seq(S), Printed(s),
           NEW f, f = [kind |-> "trap", n |-> Len(s) + 1]
    PROVE  Printed(Append(s, f))
<1> DEFINE v == Append(s, f)
<1>1. Len(v) = Len(s) + 1 /\ v = [i \in 1 .. Len(s) + 1 |-> v[i]]
  OBVIOUS
<1>2. \A i \in 1 .. Len(s) : s[i] = [kind |-> "trap", n |-> i]
  BY DEF Printed
<1>3. \A i \in 1 .. Len(s) + 1 : v[i] = [kind |-> "trap", n |-> i]
  <2>1. \A i \in 1 .. Len(s) : v[i] = s[i]
    BY AppendTo
  <2>2. v[Len(s) + 1] = f
    BY AppendTo
  <2>3. SUFFICES ASSUME NEW i \in 1 .. Len(s) + 1
                 PROVE  v[i] = [kind |-> "trap", n |-> i]
    OBVIOUS
  <2> HIDE DEF v
  <2>4. CASE i = Len(s) + 1
    BY <2>2, <2>4
  <2>5. CASE i # Len(s) + 1
    <3>1. i \in 1 .. Len(s)
      BY <2>5
    <3> QED
      BY <1>2, <2>1, <3>1
  <2> QED
    BY <2>4, <2>5
<1> HIDE DEF v
<1>4. v = [i \in 1 .. Len(v) |-> [kind |-> "trap", n |-> i]]
  BY <1>1, <1>3
<1>5. Printed(v)
  BY <1>4 DEF Printed
<1> QED
  BY <1>5 DEF v

LEMMA MonitorFacts ==
    ASSUME IInv, Process \/ ServerStep
    PROVE  /\ StageInv /\ AnswerInv /\ UNCHANGED mode /\ Server \in Clients
           /\ Wire \in Seq(Message)
           /\ printed \in Seq(Output) /\ Len(printed) \in Nat /\ traps \in Nat
           /\ link \in [Clients -> LinkStates] /\ DOMAIN wire = Clients
           /\ Watching => Faithful
<1>1. TypeOK /\ StageInv /\ AnswerInv /\ MonitorPrintsAll /\ UNCHANGED mode
  BY Kept DEF IInv
<1>2. printed \in Seq(Output) /\ traps \in Nat
  BY <1>1, ToolAssumption DEF TypeOK, ToolAssumption
<1> QED
  BY <1>1, <1>2, Shape, MonitorIsFaithful DEF TypeOK

LEMMA MonitorProcess ==
    ASSUME IInv, Process
    PROVE  MonitorPrintsAll'
<1>1. SUFFICES ASSUME Watching' PROVE Faithful'
  BY TypeProcess, MonitorIsFaithfulNext
<1>2. CASE PrintsMessage
  <2>1. Watching /\ Faithful /\ UNCHANGED traps /\ mode = "monitor"
    BY <1>1, <1>2, MonitorFacts DEF PrintsMessage, Watching
  <2>2. Wire # <<>> /\ Wire' = Tail(Wire)
    BY <1>2, MonitorFacts DEF PrintsMessage, Wire
  <2> DEFINE f == Head(Wire)
             p == Len(printed)
  <2>3. f \in Message /\ IsAnswer(f)
    BY <1>2, <2>2, FrameAtHand DEF PrintsMessage
  <2>4. CASE f.kind = "foreign"
    <3>1. printed' = printed
      BY <1>2, <2>4 DEF PrintsMessage, Wire
    <3>2. InOrder(Tail(Wire), p, traps)
      BY <2>1, <2>2, <2>4, MonitorFacts, OrderTail DEF Faithful
    <3> QED
      BY <2>1, <2>2, <3>1, <3>2 DEF Faithful
  <2>5. CASE f.kind # "foreign"
    <3>1. f.kind = "trap" /\ f \in NumberedTrap
      BY <2>1, <2>3, <2>5 DEF IsAnswer, Message, Frame, NumberedTrap, SetReply
    <3>2. f.n = p + 1 /\ p < traps /\ InOrder(Tail(Wire), p + 1, traps)
      BY <2>1, <2>2, <3>1, MonitorFacts, OrderTail DEF Faithful
    <3>3. f = [kind |-> "trap", n |-> p + 1]
      BY <3>1, <3>2 DEF NumberedTrap
    <3>4. printed' = Append(printed, f) /\ Len(printed') = p + 1
      BY <1>2, <2>5, MonitorFacts DEF PrintsMessage, Wire
    <3>5. Printed(printed')
      BY <2>1, <3>3, <3>4, MonitorFacts, PrintedAppend DEF Faithful
    <3>6. Len(printed') <= traps
      BY <3>2, <3>4, MonitorFacts
    <3> QED
      BY <2>1, <2>2, <3>2, <3>4, <3>5, <3>6 DEF Faithful
  <2> QED
    BY <2>4, <2>5
<1>3. CASE UNCHANGED <<printed, wire, traps, link, cut>>
  BY <1>1, <1>3, MonitorFacts DEF Watching, Faithful, Wire
<1>4. CASE link'[Server] # "open" \/ cut'[Server]
  BY <1>1, <1>4 DEF Watching
<1>5. mode = "monitor" /\ ~PrintsValue /\ ~SendOk(Server, Var)
  BY <1>1, MonitorFacts DEF StageInv, PrintsValue, SendOk, Watching
<1>6. CASE HeaderShort(Server) /\ Troubled
  <2>1. UNCHANGED <<printed, wire, traps, link>> /\ cut[Server] = FALSE
    BY <1>6, MonitorFacts DEF HeaderShort, Troubled, serverVars, StageInv
  <2> QED
    BY <1>1, <2>1, MonitorFacts DEF Watching, Faithful, Wire
<1>7. CASE Start \/ NoConnection \/ Ask \/ Monitor \/ GivesUp
  BY <1>3, <1>4, <1>7, MonitorFacts
     DEF Start, Open, NoConnection, Exit, Ask, Get, Monitor, GivesUp, Same, serverVars
<1>8. CASE \/ ConnectReady(Server) /\ Same
           \/ ConnectFails(Server) /\ Troubled
  BY <1>3, <1>4, <1>8, MonitorFacts DEF ConnectReady, ConnectFails, CloseFd, Same
<1>9. CASE \/ SendFails /\ Troubled
           \/ ReadHeader(Server) /\ Same
           \/ HeaderTimeout /\ Troubled
  BY <1>3, <1>9 DEF SendFails, ReadHeader, HeaderTimeout, Same, Troubled, serverVars
<1>10. CASE BodyShort(Server) /\ Troubled
  <2>1. cut'[Server]
    BY <1>10, MonitorFacts DEF BodyShort, IInv, TypeOK
  <2> QED
    BY <1>4, <2>1
<1> QED
  BY <1>2, <1>5, <1>6, <1>7, <1>8, <1>9, <1>10 DEF Process

LEMMA MonitorServer ==
    ASSUME IInv, ServerStep
    PROVE  MonitorPrintsAll'
<1>1. SUFFICES ASSUME Watching' PROVE Faithful'
  BY TypeServer, MonitorIsFaithfulNext
<1>2. UNCHANGED <<cut, printed>> /\ mode = "monitor"
  BY <1>1, MonitorFacts
     DEF ServerStep, ServeGet, ServeSet, SendTrap, Same, Troubled, ctrlVars, Watching
<1>3. CASE SendTrap
  <2>1. Watching /\ Faithful /\ traps' = traps + 1
    BY <1>1, <1>2, <1>3, MonitorFacts DEF SendTrap, SendFrame, Watching
  <2> PICK f : f = [kind |-> "trap", n |-> traps + 1]
    OBVIOUS
  <2>2. Wire' = Append(Wire, f)
    BY <1>3, MonitorFacts DEF SendTrap, SendFrame, Wire
  <2>3. InOrder(Append(Wire, f), Len(printed), traps + 1)
    BY <2>1, MonitorFacts, OrderAppendTrap DEF Faithful
  <2> QED
    BY <1>2, <2>1, <2>2, <2>3, MonitorFacts DEF Faithful
<1>4. CASE Foreign(Server) /\ UNCHANGED ctrlVars /\ Same
  <2>1. Watching /\ Faithful /\ traps' = traps
    BY <1>1, <1>2, <1>4, MonitorFacts DEF Foreign, SendFrame, Watching, Same
  <2> PICK f : f = [kind |-> "foreign"]
    OBVIOUS
  <2>2. Wire' = Append(Wire, f)
    BY <1>4, MonitorFacts DEF Foreign, SendFrame, Wire
  <2>3. InOrder(Append(Wire, f), Len(printed), traps)
    BY <2>1, MonitorFacts, OrderAppendOther DEF Faithful
  <2> QED
    BY <1>2, <2>1, <2>2, <2>3, MonitorFacts DEF Faithful
<1>5. CASE Accept(Server) /\ Same
  <2>1. Wire' = <<>> /\ traps' = 0 /\ printed' = <<>>
    BY <1>5, MonitorFacts DEF Accept, Same, StageInv, Wire
  <2> QED
    BY <2>1 DEF Faithful, Printed, InOrder, Traps
<1>6. CASE link'[Server] = "dead"
  BY <1>1, <1>6 DEF Watching
<1>7. CASE UNCHANGED <<wire, link, traps>>
  BY <1>1, <1>2, <1>7, MonitorFacts DEF Watching, Faithful, Wire
<1>8. ~ServeGet /\ ~ServeSet
  BY <1>2 DEF ServeGet, ServeSet
<1> QED
  BY <1>3, <1>4, <1>5, <1>6, <1>7, <1>8, MonitorFacts
     DEF ServerStep, Refuse, Drop, Change

-----------------------------------------------------------------------------
(* The invariant, and the theorems.                                        *)

LEMMA NextInv == IInv /\ [Next]_vars => IInv'
<1> SUFFICES ASSUME IInv, [Next]_vars PROVE IInv'
  OBVIOUS
<1>1. CASE pc # "exited" /\ Process
  BY <1>1, TypeProcess, StageProcess, AnswerProcess, ResultProcess, UntroubledProcess,
     ExitProcess, MonitorProcess
     DEF IInv
<1>2. CASE pc # "exited" /\ ServerStep
  BY <1>2, TypeServer, StageServer, AnswerServer, ResultServer, MonitorServer DEF IInv
<1>3. CASE UNCHANGED vars
  <2> USE <1>3 DEF vars, serverVars, ctrlVars, toolVars
  <2>1. TypeOK'
    BY DEF IInv, TypeOK, Question, Output
  <2>2. (StageInv /\ AnswerInv)'
    BY DEF IInv, StageInv, AnswerInv, IsRequest, IsAnswer, Answering, RequestId, Wire, Reqs
  <2>3. (ResultInv /\ UntroubledInv /\ ExitZeroIsTrue /\ FailureHasReason)'
    BY DEF IInv, ResultInv, UntroubledInv, ExitZeroIsTrue, FailureHasReason
  <2>4. MonitorPrintsAll'
    BY DEF IInv, MonitorPrintsAll
  <2> QED
    BY <2>1, <2>2, <2>3, <2>4 DEF IInv
<1> QED
  BY <1>1, <1>2, <1>3 DEF Next

THEOREM IInvCorrect == Spec => []IInv
BY InitInv, NextInv, PTL DEF Spec

\* Every variable of the tool and of the server keeps its type.
THEOREM TypeCorrect == Spec => []TypeOK
BY IInvCorrect, PTL DEF IInv

\* What the exit status 0 says is so: the SET was carried out, and a GET printed a
\* value that the variable had while the tool waited (main, simple_ctrl_get and _set).
THEOREM ExitZeroIsTrueCorrect == Spec => []ExitZeroIsTrue
BY IInvCorrect, PTL DEF IInv

\* With no fault, no refusal and no TRAP in the way, only a SET of a value that is not
\* exactly one word fails (simple_ctrl_set's sscanf).
THEOREM FailureHasReasonCorrect == Spec => []FailureHasReason
BY IInvCorrect, PTL DEF IInv

\* "monitor" prints every TRAP once and in order, over a whole connection.
THEOREM MonitorPrintsAllCorrect == Spec => []MonitorPrintsAll
BY IInvCorrect, PTL DEF IInv
=============================================================================
