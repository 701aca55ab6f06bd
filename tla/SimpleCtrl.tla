----------------------------- MODULE SimpleCtrl -----------------------------
(***************************************************************************)
(* simple_ctrl.c: the blocking CTRL client.  A call is cut into the steps  *)
(* between which the process sleeps in a system call: select() or read().  *)
(* The caller starts a call with Open(c) or Get(c) and finds the process   *)
(* at "opened" or "got" when it has returned.                              *)
(***************************************************************************)
EXTENDS CtrlServer

CONSTANTS
    NoHandle,   \* a NULL struct simple_ctrl_handle pointer
    NoValue     \* the NULL that simple_ctrl_get returns on any error

ASSUME SimpleCtrlAssumption ==
    /\ NoHandle \notin [next_id : Ids]
    /\ NoValue \notin Words

VARIABLES
    sch,    \* sch[c]: the handle the caller keeps for c (cc->sch), or NoHandle
    cut,    \* cut[c]: the last read() on the connection of c left half a frame behind
    pc,     \* where the process is
    ret     \* the result of the last simple_ctrl_get

ctrlVars == <<sch, cut, pc, ret>>

\* Inside simple_ctrl_open: "connect".  Inside simple_ctrl_get: "send" (select
\* for writing), "header" (select for reading), "body" (read of the payload).
CallStates == {"connect", "opened", "send", "header", "body", "got"}

Handle == [next_id : Ids]

CtrlInit ==
    /\ sch = [c \in Clients |-> NoHandle]
    /\ cut = [c \in Clients |-> FALSE]
    /\ ret = NoValue

IncrementedUnbounded(n) == n + 1    \* mutant: no wrap-around
\* next_id++ and next_id-1 in the uint32_t of the handle.
Incremented(n) == IF n = MaxId THEN 0 ELSE n + 1
Decremented(n) == IF n = 0 THEN MaxId ELSE n - 1

\* sscanf("%ms"): the first word of the value; strdup("") when there is none.
FirstWord(val) == IF val = <<>> THEN EmptyWord ELSE Head(val)

\* close(fd): the connection and all that is in flight on it are gone.
CloseFd(c) ==
    /\ link' = [link EXCEPT ![c] = "none"]
    /\ reqs' = [reqs EXCEPT ![c] = <<>>]
    /\ wire' = [wire EXCEPT ![c] = <<>>]
    /\ cut'  = [cut EXCEPT ![c] = FALSE]

-----------------------------------------------------------------------------
(* simple_ctrl_open: a socket in non-blocking connect(), or none at all.   *)

Open(c) ==
    /\ \/ /\ link' = [link EXCEPT ![c] = "syn"]
          /\ pc' = "connect"
       \/ pc' = "opened" /\ UNCHANGED link                \* osmo_sock_init < 0
    /\ UNCHANGED <<sval, reqs, wire, sch, cut, ret>>

\* select() reports the socket writable when connect() has succeeded and also
\* when it has failed; the code does not ask which.
ConnectReady(c) ==
    /\ pc = "connect"
    /\ link[c] # "syn"
    /\ sch' = [sch EXCEPT ![c] = [next_id |-> 0]]
    /\ pc' = "opened"
    /\ UNCHANGED <<sval, link, reqs, wire, cut, ret>>

ConnectFailsLeaking(c) ==           \* mutant: no close(fd) at out_close
    /\ pc = "connect"
    /\ pc' = "opened"
    /\ UNCHANGED <<serverVars, sch, cut, ret>>
\* select() or ioctl() fails (a signal), or the timeout expires.
ConnectFails(c) ==
    /\ pc = "connect"
    /\ CloseFd(c)
    /\ pc' = "opened"
    /\ UNCHANGED <<sval, sch, ret>>

(* simple_ctrl_close, with the caller's "cc->sch = NULL".                  *)
Close(c) ==
    /\ CloseFd(c)
    /\ sch' = [sch EXCEPT ![c] = NoHandle]

-----------------------------------------------------------------------------
(* simple_ctrl_get(sch, v).                                                *)

Get(c) ==
    /\ sch' = [sch EXCEPT ![c].next_id = Incremented(@)]
    /\ pc' = "send"
    /\ UNCHANGED <<sval, link, reqs, wire, cut, ret>>

RequestId(c) == Decremented(sch[c].next_id)

Returns(x) == pc' = "got" /\ ret' = x

\* The whole request is written.  A connection the server has closed may still
\* take it.
SendOk(c, v) ==
    /\ pc = "send"
    /\ reqs' = IF link[c] = "open"
               THEN [reqs EXCEPT ![c] = Append(@, [id |-> RequestId(c), var |-> v])]
               ELSE reqs
    /\ pc' = "header"
    /\ UNCHANGED <<sval, link, wire, sch, cut, ret>>

\* Timeout, a signal, a write error, or a short write.
SendFails ==
    /\ pc = "send"
    /\ Returns(NoValue)
    /\ UNCHANGED <<serverVars, sch, cut>>

\* All of the header is there.
ReadHeader(c) ==
    /\ pc = "header"
    /\ wire[c] # <<>>
    /\ pc' = "body"
    /\ UNCHANGED <<serverVars, sch, cut, ret>>

\* Part of the header is there and is consumed; or the connection is at its end.
HeaderShort(c) ==
    /\ pc = "header"
    /\ wire[c] # <<>> \/ link[c] = "dead"
    /\ cut' = [cut EXCEPT ![c] = wire[c] # <<>>]
    /\ Returns(NoValue)
    /\ UNCHANGED <<serverVars, sch>>

\* Nothing arrives in time, or a signal interrupts select().
HeaderTimeout ==
    /\ pc = "header"
    /\ Returns(NoValue)
    /\ UNCHANGED <<serverVars, sch, cut>>

\* sscanf takes a GET_REPLY only; id and name must be those of the request.
Accepted(c, v, f) ==
    /\ f.kind = "reply"
    /\ f.id = RequestId(c)
    /\ f.var = v

\* All of the payload is there.  A frame that is not CTRL is skipped.
ReadBody(c, v) ==
    /\ pc = "body"
    /\ wire[c] # <<>>
    /\ LET f == Head(wire[c])
       IN  \/ f.kind = "foreign" /\ pc' = "header" /\ UNCHANGED ret
           \/ /\ f.kind # "foreign"
              /\ Returns(IF Accepted(c, v, f) THEN FirstWord(f.val) ELSE NoValue)
    /\ wire' = [wire EXCEPT ![c] = Tail(@)]
    /\ UNCHANGED <<sval, link, reqs, sch, cut>>

BodyShortGoingOn(c) ==              \* mutant: the loop takes the next frame
    /\ pc = "body"
    /\ cut' = [cut EXCEPT ![c] = TRUE]
    /\ pc' = "header"
    /\ UNCHANGED <<serverVars, sch, ret>>
\* Part of the payload is there, or the connection ends before it is complete.
\* This read() has no timeout: while nothing arrives, the process sleeps.
BodyShort(c) ==
    /\ pc = "body"
    /\ cut' = [cut EXCEPT ![c] = TRUE]
    /\ Returns(NoValue)
    /\ UNCHANGED <<serverVars, sch>>
=============================================================================
