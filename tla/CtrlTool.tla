------------------------------ MODULE CtrlTool ------------------------------
(***************************************************************************)
(* osmo-ctrl-client.c: one GET, one SET, or printing whatever comes, over  *)
(* one connection; with simple_ctrl_set and simple_ctrl_receive of         *)
(* simple_ctrl.c.  The rest of the library is SimpleCtrl.                  *)
(*                                                                         *)
(* External: the server.  It answers a SET with SET_REPLY and the value,   *)
(* or with ERROR, and numbers the TRAPs it sends.                          *)
(***************************************************************************)
EXTENDS SimpleCtrl

CONSTANTS
    Server,     \* the one client of this process, and its server
    Var,        \* VARIABLE
    MaxTraps    \* bound on the TRAPs a server sends

ASSUME ToolAssumption ==
    /\ Clients = {Server}
    /\ Var \in Vars
    /\ MaxTraps \in Nat

VARIABLES
    mode,       \* argv[3]
    value,      \* VALUE, argv[5]: any number of words
    exit,       \* the exit status, once the process has exited
    printed,    \* standard output
    traps,      \* history: how many TRAPs were sent to this process
    window,     \* history: values of Var since the process asked
    done,       \* history: the server has carried out the SET
    trouble     \* history: something was in the way of an answer

toolVars == <<mode, value, exit, printed, traps, window, done, trouble>>
vars == <<serverVars, ctrlVars, toolVars>>

Modes == {"get", "set", "monitor"}
NumberedTrap == [kind : {"trap"}, n : 1 .. MaxTraps]
SetRequest == [id : Ids, var : Vars, val : Values]
SetReply == [kind : {"set_reply"}, id : Ids, var : Vars, val : Values]

Message  == Frame \cup NumberedTrap \cup SetReply
Question == IF mode = "set" THEN SetRequest ELSE Request
Output   == IF mode = "monitor" THEN NumberedTrap ELSE Words

TypeOK ==
    /\ sval \in [Clients -> [Vars -> Values]]
    /\ link \in [Clients -> LinkStates]
    /\ wire \in [Clients -> Seq(Message)]
    /\ reqs \in [Clients -> Seq(Question)]
    /\ Len(reqs[Server]) <= 1
    /\ sch \in [Clients -> Handle \cup {NoHandle}]
    /\ cut \in [Clients -> BOOLEAN]
    /\ pc \in CallStates \cup {"start", "exited"}
    /\ ret \in Words \cup {NoValue}
    /\ mode \in Modes /\ value \in Values
    /\ exit \in 0 .. 2
    /\ printed \in Seq(Output)
    /\ traps \in 0 .. MaxTraps
    /\ window \subseteq Values
    /\ done \in BOOLEAN /\ trouble \in BOOLEAN

Init ==
    /\ ServerInit
    /\ CtrlInit
    /\ pc = "start"
    /\ mode \in Modes
    /\ value \in Values
    /\ exit = 0
    /\ printed = <<>>
    /\ traps = 0
    /\ window = {}
    /\ done = FALSE
    /\ trouble = FALSE

Same == UNCHANGED <<mode, value, exit, printed, traps, window, done, trouble>>
Troubled == trouble' = TRUE /\ UNCHANGED <<mode, value, exit, printed, traps, window, done>>

Exit(status) == pc' = "exited" /\ exit' = status

-----------------------------------------------------------------------------
(* main                                                                    *)

Start ==
    /\ pc = "start"
    /\ Open(Server)
    /\ UNCHANGED <<mode, value, exit, printed, traps, window, done>>
    /\ trouble' = (pc' # "connect")

NoConnection ==
    /\ pc = "opened"
    /\ sch[Server] = NoHandle
    /\ Exit(1)
    /\ UNCHANGED <<serverVars, sch, cut, ret, mode, value, printed, traps, window, done, trouble>>

\* simple_ctrl_get and simple_ctrl_set begin alike: next_id++, then the request.
Ask ==
    /\ pc = "opened"
    /\ sch[Server] # NoHandle
    /\ mode # "monitor"
    /\ Get(Server)
    /\ window' = {sval[Server][Var]}
    /\ UNCHANGED <<mode, value, exit, printed, traps, done, trouble>>

\* simple_ctrl_set_timeout(sch, 0): from now on select() waits without end.
Monitor ==
    /\ pc = "opened"
    /\ sch[Server] # NoHandle
    /\ mode = "monitor"
    /\ pc' = "header"
    /\ UNCHANGED <<serverVars, sch, cut, ret>>
    /\ Same

-----------------------------------------------------------------------------
(* simple_ctrl_set, as far as it differs from simple_ctrl_get.             *)

SendSetTwice ==                     \* mutant: written again after a short wait
    /\ pc = "send"
    /\ LET r == [id |-> RequestId(Server), var |-> Var, val |-> value]
       IN  reqs' = IF link[Server] = "open" THEN [reqs EXCEPT ![Server] = @ \o <<r, r>>] ELSE reqs
    /\ pc' = "header"
    /\ UNCHANGED <<sval, link, wire, sch, cut, ret>>
SendSet ==
    /\ pc = "send"
    /\ reqs' = IF link[Server] = "open"
               THEN [reqs EXCEPT ![Server] =
                        Append(@, [id |-> RequestId(Server), var |-> Var, val |-> value])]
               ELSE reqs
    /\ pc' = "header"
    /\ UNCHANGED <<sval, link, wire, sch, cut, ret>>

\* sscanf takes the first word of the value; there must be one.
SetAcceptedIfCtrl(f) == f.kind # "foreign"      \* mutant: any message is the reply
SetAcceptedOldId(f) ==                          \* mutant: rx_id == sch->next_id
    /\ f.kind = "set_reply"
    /\ f.id = sch[Server].next_id
    /\ f.var = Var
    /\ f.val # <<>> /\ value = <<Head(f.val)>>
SetAccepted(f) ==
    /\ f.kind = "set_reply"
    /\ f.id = RequestId(Server)
    /\ f.var = Var
    /\ f.val # <<>> /\ value = <<Head(f.val)>>

\* A reply that is accepted: 0, here the result that is not NoValue.
ReadSetReply ==
    /\ pc = "body"
    /\ wire[Server] # <<>>
    /\ LET f == Head(wire[Server])
       IN  IF f.kind = "foreign"
           THEN pc' = "header" /\ UNCHANGED ret
           ELSE Returns(IF SetAccepted(f) THEN EmptyWord ELSE NoValue)
    /\ wire' = [wire EXCEPT ![Server] = Tail(@)]
    /\ UNCHANGED <<sval, link, reqs, sch, cut>>

-----------------------------------------------------------------------------
(* What the tool does with the result.                                     *)

PrintsValue ==
    /\ pc = "got" /\ ret # NoValue
    /\ Exit(0)
    /\ printed' = IF mode = "get" THEN <<ret>> ELSE <<>>
    /\ UNCHANGED <<serverVars, sch, cut, ret, mode, value, traps, window, done, trouble>>

GivesUpNever ==                         \* mutant: continue instead of exit(1)
    /\ pc = "got" /\ ret = NoValue
    /\ IF mode = "monitor" THEN pc' = "header" /\ UNCHANGED exit
                           ELSE Exit(IF mode = "get" THEN 2 ELSE 1)
    /\ UNCHANGED <<serverVars, sch, cut, ret, mode, value, printed, traps, window, done, trouble>>
GivesUp ==
    /\ pc = "got" /\ ret = NoValue
    /\ Exit(IF mode = "get" THEN 2 ELSE 1)
    /\ UNCHANGED <<serverVars, sch, cut, ret, mode, value, printed, traps, window, done, trouble>>

PrintsMessageOnce ==                    \* mutant: only what is new is printed
    /\ pc = "body"
    /\ wire[Server] # <<>>
    /\ LET f == Head(wire[Server])
       IN  printed' = IF f.kind = "foreign" \/ printed # <<>> THEN printed
                      ELSE Append(printed, f)
    /\ wire' = [wire EXCEPT ![Server] = Tail(@)]
    /\ pc' = "header"
    /\ UNCHANGED <<sval, link, reqs, sch, cut, ret, mode, value, exit, traps, window, done, trouble>>
\* The loop of "monitor": whatever CTRL message comes is printed.
PrintsMessage ==
    /\ pc = "body"
    /\ wire[Server] # <<>>
    /\ LET f == Head(wire[Server])
       IN  printed' = IF f.kind = "foreign" THEN printed ELSE Append(printed, f)
    /\ wire' = [wire EXCEPT ![Server] = Tail(@)]
    /\ pc' = "header"
    /\ UNCHANGED <<sval, link, reqs, sch, cut, ret, mode, value, exit, traps, window, done, trouble>>

-----------------------------------------------------------------------------
Process ==
    \/ Start \/ NoConnection \/ Ask \/ Monitor
    \/ ConnectReady(Server) /\ Same
    \/ ConnectFails(Server) /\ Troubled
    \/ (IF mode = "set" THEN SendSet ELSE SendOk(Server, Var)) /\ Same
    \/ SendFails /\ Troubled
    \/ ReadHeader(Server) /\ Same
    \/ HeaderShort(Server) /\ Troubled
    \/ mode # "monitor" /\ HeaderTimeout /\ Troubled
    \/ mode = "get" /\ ReadBody(Server, Var) /\ Same
    \/ mode = "set" /\ ReadSetReply /\ Same
    \/ mode = "monitor" /\ PrintsMessage
    \/ BodyShort(Server) /\ Troubled
    \/ PrintsValue \/ GivesUp

ServeGet ==
    /\ mode = "get"
    /\ Serve(Server)
    /\ UNCHANGED <<ctrlVars, mode, value, exit, printed, traps, window, done>>
    /\ trouble' = (trouble \/ Var \notin Known[Server])

\* The value is set, and the reply says so.
ServeSet ==
    /\ mode = "set"
    /\ link[Server] = "open"
    /\ reqs[Server] # <<>>
    /\ LET r == Head(reqs[Server])
       IN  \/ /\ sval' = [sval EXCEPT ![Server][r.var] = r.val]
              /\ wire' = [wire EXCEPT ![Server] = Append(@,
                            [kind |-> "set_reply", id |-> r.id, var |-> r.var, val |-> r.val])]
              /\ done' = TRUE
              /\ UNCHANGED trouble
           \/ /\ wire' = [wire EXCEPT ![Server] = Append(@, [kind |-> "error", id |-> r.id])]
              /\ trouble' = TRUE
              /\ UNCHANGED <<sval, done>>
    /\ reqs' = [reqs EXCEPT ![Server] = Tail(@)]
    /\ UNCHANGED <<link, ctrlVars, mode, value, exit, printed, traps, window>>

\* The server sends TRAPs, which a request takes for its answer.
SendTrap ==
    /\ traps < MaxTraps
    /\ SendFrame(Server, [kind |-> "trap", n |-> traps + 1])
    /\ traps' = traps + 1
    /\ trouble' = TRUE
    /\ UNCHANGED <<ctrlVars, mode, value, exit, printed, window, done>>

ServerStep ==
    \/ Accept(Server) /\ UNCHANGED ctrlVars /\ Same
    \/ Refuse(Server) /\ UNCHANGED ctrlVars /\ Troubled
    \/ Drop(Server) /\ UNCHANGED ctrlVars /\ Troubled
    \/ ServeGet \/ ServeSet
    \/ SendTrap
    \/ Foreign(Server) /\ UNCHANGED ctrlVars /\ Same
    \/ \E x \in Values :
        /\ Change(Server, Var, x)
        /\ window' = IF window = {} THEN {} ELSE window \cup {x}
        /\ UNCHANGED <<ctrlVars, mode, value, exit, printed, traps, done, trouble>>

\* Once the process has exited nobody looks.
Next == pc # "exited" /\ (Process \/ ServerStep)

Spec == Init /\ [][Next]_vars

\* select() has a timeout but for "monitor", which goes on when something arrives;
\* a started frame is completed or its connection ends.  The server answers: each
\* frame it sends instead, of another protocol, starts the timeout anew.
FairSpec ==
    /\ Spec
    /\ WF_vars(pc # "exited" /\ Process)
    /\ WF_vars(pc # "exited" /\ (ServeGet \/ ServeSet))

-----------------------------------------------------------------------------
(* Properties.                                                             *)

\* Exit status 0 is the truth: a SET was done by the server, and what a GET printed
\* is a value the variable had while the tool was waiting.
ExitZeroIsTrue ==
    pc = "exited" /\ exit = 0 =>
        /\ mode = "set" => done
        /\ mode = "get" => \E x \in window : printed = <<FirstWord(x)>>

\* Any other status has a reason: the server refused, an answer was lost, a TRAP came
\* instead of it, or VALUE is not exactly one word (simple_ctrl.c:321-322).
FailureHasReason ==
    pc = "exited" /\ exit # 0 => trouble \/ (mode = "set" /\ Len(value) # 1)

\* Nothing is lost, repeated or reordered between the server and the output of
\* "monitor": as long as the connection is whole, each TRAP sent is printed or waiting.
MonitorPrintsAll ==
    mode = "monitor" /\ link[Server] = "open" /\ ~cut[Server] =>
        LET Waiting == {i \in DOMAIN wire[Server] : wire[Server][i].kind = "trap"}
        IN  /\ Len(printed) <= traps
            /\ printed = [n \in 1 .. Len(printed) |-> [kind |-> "trap", n |-> n]]
            /\ {wire[Server][i].n : i \in Waiting} = Len(printed) + 1 .. traps
            /\ \A i, j \in Waiting : i < j => wire[Server][i].n < wire[Server][j].n

\* GET and SET come to an end, and "monitor" does when its connection has.
ToolEnds ==
    /\ mode # "monitor" => <>(pc = "exited")
    /\ link[Server] = "dead" ~> pc = "exited"
=============================================================================
