----------------------------- MODULE CtrlServer -----------------------------
(***************************************************************************)
(* The far ends of the CTRL connections: one Osmocom CTRL server (a BSC, a *)
(* gbproxy, ...) per configured ctrl-client, and the TCP connection to it. *)
(* Nothing of this is in the repository; it is modelled from how           *)
(* simple_ctrl.c uses it.                                                  *)
(*                                                                         *)
(* What a server sends is a sequence of IPA frames.  How much of the       *)
(* sequence has arrived is not recorded: TCP may have delivered any prefix *)
(* of the bytes, so the reader chooses when it reads (SimpleCtrl).         *)
(***************************************************************************)
EXTENDS Naturals, Sequences

CONSTANTS
    Clients,    \* the configured ctrl-clients, each with a server of its own
    Vars,       \* names of CTRL variables
    Known,      \* Known[c]: the variables the server of c answers; others yield ERROR
    Words,      \* the blank-separated words values are made of
    EmptyWord,  \* "", what is reported of a value of no words
    Values,     \* what a CTRL variable may hold: a sequence of words
    MaxId,      \* request ids are 0..MaxId (uint32_t in the code)
    MaxWire     \* bound: no TRAP or foreign frame is added to a longer queue

ASSUME ServerAssumption ==
    /\ Known \in [Clients -> SUBSET Vars]
    /\ EmptyWord \in Words
    /\ Values \subseteq Seq(Words)
    /\ MaxId \in Nat
    /\ MaxWire \in Nat

VARIABLES
    sval,   \* sval[c][v]: the value of v at the server of c, now
    link,   \* link[c]: the TCP connection behind the descriptor held for c
    reqs,   \* reqs[c]: GET requests on their way to the server or queued there
    wire    \* wire[c]: frames sent by the server and not yet read

serverVars == <<sval, link, reqs, wire>>

Ids == 0 .. MaxId
Request == [id : Ids, var : Vars]

\* "none": no descriptor.  "syn": connect() in progress.  "open": established.
\* "dead": refused, reset or closed by the server; the descriptor is still open.
LinkStates == {"none", "syn", "open", "dead"}

Frame ==
         [kind : {"reply"}, id : Ids, var : Vars, val : Values]  \* GET_REPLY id var val
    \cup [kind : {"error"}, id : Ids]                            \* ERROR id text
    \cup [kind : {"trap"}]                                       \* TRAP, unsolicited
    \cup [kind : {"foreign"}]                                    \* IPA, but not CTRL

ServerTypeOK ==
    /\ sval \in [Clients -> [Vars -> Values]]
    /\ link \in [Clients -> LinkStates]
    /\ reqs \in [Clients -> Seq(Request)]
    /\ wire \in [Clients -> Seq(Frame)]

ServerInit ==
    /\ sval \in [Clients -> [Vars -> Values]]
    /\ link = [c \in Clients |-> "none"]
    /\ reqs = [c \in Clients |-> <<>>]
    /\ wire = [c \in Clients |-> <<>>]

-----------------------------------------------------------------------------
Accept(c) ==
    /\ link[c] = "syn"
    /\ link' = [link EXCEPT ![c] = "open"]
    /\ UNCHANGED <<sval, reqs, wire>>

Refuse(c) ==
    /\ link[c] = "syn"
    /\ link' = [link EXCEPT ![c] = "dead"]
    /\ UNCHANGED <<sval, reqs, wire>>

\* The server closes the connection, crashes or restarts.  Requests it has not
\* served are gone; of what it sent, some prefix still reaches the reader.
Drop(c) ==
    /\ link[c] = "open"
    /\ link' = [link EXCEPT ![c] = "dead"]
    /\ reqs' = [reqs EXCEPT ![c] = <<>>]
    /\ \E n \in 0 .. Len(wire[c]) : wire' = [wire EXCEPT ![c] = SubSeq(@, 1, n)]
    /\ UNCHANGED sval

AnswerTo(c, r) ==
    IF r.var \in Known[c]
    THEN [kind |-> "reply", id |-> r.id, var |-> r.var, val |-> sval[c][r.var]]
    ELSE [kind |-> "error", id |-> r.id]

\* Requests are answered in order, with the value the variable has then.
Serve(c) ==
    /\ link[c] = "open"
    /\ reqs[c] # <<>>
    /\ wire' = [wire EXCEPT ![c] = Append(@, AnswerTo(c, Head(reqs[c])))]
    /\ reqs' = [reqs EXCEPT ![c] = Tail(@)]
    /\ UNCHANGED <<sval, link>>

SendFrame(c, f) ==
    /\ link[c] = "open"
    /\ Len(wire[c]) < MaxWire
    /\ wire' = [wire EXCEPT ![c] = Append(@, f)]
    /\ UNCHANGED <<sval, link, reqs>>

Trap(c)    == SendFrame(c, [kind |-> "trap"])
Foreign(c) == SendFrame(c, [kind |-> "foreign"])

Change(c, v, x) ==
    /\ sval[c][v] # x
    /\ sval' = [sval EXCEPT ![c][v] = x]
    /\ UNCHANGED <<link, reqs, wire>>
=============================================================================
