-------------------------------- MODULE Rtnl --------------------------------
(***************************************************************************)
(* osysmon_rtnl.c: each poll asks the kernel for all links and then for    *)
(* all addresses, over one socket that is kept between polls.  The         *)
(* requests are numbered with time(NULL): two of the same poll usually     *)
(* have the same number, those of different polls never.                   *)
(*                                                                         *)
(* External, modelled from how the code uses it: mnl_cb_run, and netlink.  *)
(* The kernel writes the first datagram of a dump when it is requested and *)
(* the next one whenever one is received, as long as the socket's buffer   *)
(* is at most half full; it refuses a second dump with EBUSY; and it marks *)
(* the first message after a change of what is dumped.                     *)
(***************************************************************************)
EXTENDS Naturals, Sequences

CONSTANTS
    Index,          \* interface indexes; the kernel does not use one again
    NameOf,         \* the name of the interface of each index
    Configured,     \* names given by "netdev NAME"
    Addrs,          \* IPv4 addresses
    HalfBuffer,     \* datagrams in half the socket's buffer
    MaxChanges      \* bound on the changes of links and addresses

ASSUME RtnlAssumption ==
    /\ Index \subseteq Nat
    /\ HalfBuffer \in Nat
    /\ MaxChanges \in Nat

VARIABLES
    links,      \* indexes that exist
    up,         \* up[i]: the flags of a link
    addrs,      \* addrs[i]: its addresses, in the kernel's order
    changes,    \* how often any of these has changed
    opened,     \* g_oss->rcs is not NULL
    queue,      \* datagrams to be received
    dump,       \* the dump the kernel is busy with
    pc,         \* "idle", "link_send", "link_recv", "addr_send", "addr_recv", "print", "exited"
    shown,      \* shown[n]: the node of interface n in the section of the report
    link_ret,   \* what rtnl_update_link returned; the code does not look at it
    seen,       \* history: what was true at some moment of this poll
    aborted     \* history: a reply was given up before its end

kernelVars  == <<links, up, addrs, changes>>
socketVars  == <<opened, queue, dump>>
historyVars == <<seen, aborted>>
vars == <<kernelVars, socketVars, pc, shown, link_ret, historyVars>>

NoDump == [running |-> FALSE, kind |-> "link", current |-> FALSE, at |-> {}, dirty |-> FALSE]

\* What a datagram holds: interfaces or addresses, the end of a dump, an error.
LinkMessage == [idx : Index, up : BOOLEAN]
AddrMessage == [idx : Index, addrs : Seq(Addrs) \ {<<>>}]
Datagram(current, what, intr, msgs) ==
    [current |-> current, what |-> what, intr |-> intr, msgs |-> msgs]
Datagrams ==
         [current : BOOLEAN, what : {"link"}, intr : BOOLEAN, msgs : SUBSET LinkMessage]
    \cup [current : BOOLEAN, what : {"addr"}, intr : BOOLEAN, msgs : SUBSET AddrMessage]
    \cup [current : BOOLEAN, what : {"done", "error"}, intr : BOOLEAN, msgs : {{}}]

Dumps == [running : BOOLEAN, kind : {"link", "addr"}, current : BOOLEAN,
          at : SUBSET Index, dirty : BOOLEAN]
Interface == [idx : Index, up : BOOLEAN, ip : SUBSET Addrs]

Receiving == pc \in {"link_recv", "addr_recv"}

\* What dumps leave unread stays within the buffer: the kernel stops writing a
\* dump when half of it is used, and each request receives at least once.
TypeOK ==
    /\ links \subseteq Index
    /\ up \in [Index -> BOOLEAN]
    /\ addrs \in [Index -> Seq(Addrs)]
    /\ changes \in 0 .. MaxChanges
    /\ opened \in BOOLEAN
    /\ queue \in Seq(Datagrams) /\ Len(queue) <= HalfBuffer + 2
    /\ dump \in Dumps
    /\ pc \in {"idle", "link_send", "link_recv", "addr_send", "addr_recv", "print", "exited"}
    /\ DOMAIN shown \subseteq Configured
    /\ shown \in [DOMAIN shown -> Interface]
    /\ link_ret \in {"none", "ok", "failed"}
    /\ aborted \in BOOLEAN

-----------------------------------------------------------------------------
(* The kernel.                                                             *)

Nothing == [links |-> {}, up |-> {}, ip |-> {}]
Snapshot == [links |-> {links},
             up    |-> {<<i, up[i]>> : i \in links},
             ip    |-> UNION {{<<i, addrs[i][k]>> : k \in 1 .. Len(addrs[i])} : i \in links}]
Both(s, t) == [links |-> s.links \cup t.links, up |-> s.up \cup t.up, ip |-> s.ip \cup t.ip]

\* Something changes; a running dump will be marked if it was of what changed.
\* Outside of a poll nobody looks, and history is not kept.
Changed(ofLinks, ofAddrs) ==
    /\ pc # "exited"
    /\ changes < MaxChanges
    /\ changes' = changes + 1
    /\ dump' = [dump EXCEPT !.dirty =
                    @ \/ (dump.running /\ (ofLinks \/ (ofAddrs /\ dump.kind = "addr")))]
    /\ seen' = IF pc = "idle" THEN Nothing ELSE Both(seen, Snapshot')
    /\ UNCHANGED <<opened, queue, pc, shown, link_ret, aborted>>

LinkAppears(i) ==
    /\ i \notin links
    /\ \A j \in links : NameOf[j] # NameOf[i]
    /\ links' = links \cup {i}
    /\ UNCHANGED <<up, addrs>>
    /\ Changed(TRUE, FALSE)

LinkVanishes(i) ==
    /\ i \in links
    /\ links' = links \ {i}
    /\ addrs' = [addrs EXCEPT ![i] = <<>>]
    /\ UNCHANGED up
    /\ Changed(TRUE, TRUE)

LinkFlaps(i) ==
    /\ i \in links
    /\ up' = [up EXCEPT ![i] = ~@]
    /\ UNCHANGED <<links, addrs>>
    /\ Changed(FALSE, FALSE)

AddrAdded(i, a) ==
    /\ i \in links
    /\ \A k \in 1 .. Len(addrs[i]) : addrs[i][k] # a
    /\ addrs' = [addrs EXCEPT ![i] = Append(@, a)]
    /\ UNCHANGED <<links, up>>
    /\ Changed(FALSE, TRUE)

AddrRemoved(i) ==
    /\ i \in links /\ addrs[i] # <<>>
    /\ addrs' = [addrs EXCEPT ![i] = Tail(@)]
    /\ UNCHANGED <<links, up>>
    /\ Changed(FALSE, TRUE)

\* The messages of dump d that are still to be written.
Pending(d) == {i \in links \ d.at : d.kind = "addr" => addrs[i] # <<>>}

Message(kind, i) ==
    IF kind = "link" THEN [idx |-> i, up |-> up[i]] ELSE [idx |-> i, addrs |-> addrs[i]]

\* The next datagram of dump d: some of what is pending, in the order of indexes, or the end.
Batches(d) ==
    {{i \in Pending(d) : i <= k} : k \in Pending(d)}

Written(d, batch) ==
    IF batch = {}
    THEN Datagram(d.current, "done", d.dirty, {})
    ELSE Datagram(d.current, d.kind, d.dirty, {Message(d.kind, i) : i \in batch})

Advanced(d, batch) ==
    IF batch = {} THEN NoDump
    ELSE [d EXCEPT !.at = @ \cup batch, !.dirty = FALSE]

\* Dump d writes one datagram to q.
Write(d, q) ==
    \E batch \in IF Pending(d) = {} THEN {{}} ELSE Batches(d) :
        /\ queue' = Append(q, Written(d, batch))
        /\ dump' = Advanced(d, batch)

\* A request for a dump, with q in the buffer and d running.
Request(kind, d, q) ==
    IF d.running
    THEN queue' = Append(q, Datagram(TRUE, "error", FALSE, {})) /\ dump' = d
    ELSE Write([NoDump EXCEPT !.running = TRUE, !.kind = kind, !.current = TRUE], q)

\* recvfrom: the first datagram is taken, and a running dump writes one more.
Take ==
    IF dump.running /\ Len(queue) - 1 <= HalfBuffer
    THEN Write(dump, Tail(queue))
    ELSE queue' = Tail(queue) /\ UNCHANGED dump

-----------------------------------------------------------------------------
(* The process.                                                            *)

SameSecond(q) == q      \* mutant: a constant for time(NULL)
\* time(NULL) goes on: whatever is in the buffer, or still to come of a dump,
\* has another number than the next request.  Its contents no longer matter.
Aged(q) == [k \in 1 .. Len(q) |-> [q[k] EXCEPT !.current = FALSE, !.intr = FALSE]]
AgedDump(d) == [d EXCEPT !.current = FALSE]

\* A name seen again keeps its values (value_node_add), but not its index.
LinkShown(m) ==
    IF NameOf[m.idx] \in DOMAIN shown
    THEN [shown[NameOf[m.idx]] EXCEPT !.idx = m.idx]
    ELSE [idx |-> m.idx, up |-> m.up, ip |-> {}]

\* Interfaces that are not configured are skipped.  Addresses never come here: only
\* their own request, which is later, has their number.
DataCb(d) ==
    LET msgs  == {m \in d.msgs : d.what = "link" /\ NameOf[m.idx] \in Configured}
        names == {NameOf[m.idx] : m \in msgs}
    IN  [n \in DOMAIN shown \cup names |->
            IF n \in names THEN LinkShown(CHOOSE m \in msgs : NameOf[m.idx] = n) ELSE shown[n]]

\* The interface is found by its index.  Links, which are in the buffer if the
\* first dump was given up, are of another family; a second address is not added.
InetDataCb(d) ==
    [n \in DOMAIN shown |->
        LET own == {m \in d.msgs : m.idx = shown[n].idx}
        IN  IF d.what = "addr" /\ own # {} /\ shown[n].ip = {}
            THEN [shown[n] EXCEPT !.ip = {(CHOOSE m \in own : TRUE).addrs[1]}]
            ELSE shown[n]]

\* osysmon_rtnl_poll: the socket is opened if it is not yet.
Open ==
    /\ pc = "idle"
    /\ opened' \in IF opened THEN {TRUE} ELSE BOOLEAN
    /\ pc' = IF opened' THEN "link_send" ELSE "print"
    /\ shown' = [n \in {} |-> 0]
    /\ link_ret' = "none"
    /\ seen' = Snapshot
    /\ UNCHANGED <<kernelVars, queue, dump, aborted>>

Sent(p) ==
    /\ pc' = p
    /\ UNCHANGED <<kernelVars, opened, shown, link_ret, historyVars>>

\* The request of the next poll has another number than those before.
LinkSend ==
    /\ pc = "link_send"
    /\ Request("link", AgedDump(dump), Aged(queue))
    /\ Sent("link_recv")

AddrSendOnly ==                 \* mutant: the reply is not received
    /\ pc = "addr_send"
    /\ Request("addr", dump, queue)
    /\ Sent("print")
\* The clock may have ticked since the first request.
AddrSend ==
    /\ pc = "addr_send"
    /\ \/ Request("addr", dump, queue)
       \/ Request("addr", AgedDump(dump), Aged(queue))
    /\ Sent("addr_recv")

\* mnl_socket_sendto fails: exit(EXIT_FAILURE).
SendFails ==
    /\ pc \in {"link_send", "addr_send"}
    /\ pc' = "exited"
    /\ UNCHANGED <<kernelVars, socketVars, shown, link_ret, historyVars>>

\* mnl_cb_run looks at the number, then at the mark, then at the kind of message.
Refused(d) == ~d.current \/ d.intr \/ d.what = "error"
Ended(d)   == Refused(d) \/ d.what = "done"

AfterStopGoingOn(d, next) ==    \* mutant: ret < MNL_CB_STOP
    IF Refused(d) THEN next ELSE pc
AfterIgnoringMarks(d, next) ==  \* mutant: a marked datagram is skipped
    IF Ended(d) /\ ~d.intr THEN next ELSE pc
AfterOneDatagram(d, next) ==    \* mutant: no loop
    next
\* An error and MNL_CB_STOP leave the loop.
After(d, next) ==
    IF Ended(d) THEN next ELSE pc

LinkRecv ==
    /\ pc = "link_recv"
    /\ queue # <<>>
    /\ Take
    /\ LET d == Head(queue) IN
        /\ shown' = IF Ended(d) THEN shown ELSE DataCb(d)
        /\ pc' = After(d, "addr_send")
        /\ link_ret' = IF pc' = pc THEN "none" ELSE IF Refused(d) THEN "failed" ELSE "ok"
        /\ aborted' = (aborted \/ Refused(d))
    /\ UNCHANGED <<kernelVars, opened, seen>>

AddrRecv ==
    /\ pc = "addr_recv"
    /\ queue # <<>>
    /\ Take
    /\ LET d == Head(queue) IN
        /\ shown' = IF Ended(d) THEN shown ELSE InetDataCb(d)
        /\ pc' = After(d, "print")
        /\ aborted' = (aborted \/ Refused(d))
    /\ UNCHANGED <<kernelVars, opened, link_ret, seen>>

\* The rest of the report, and the second until the next one.
DisplayUpdate ==
    /\ pc = "print"
    /\ pc' = "idle"
    /\ shown' = [n \in {} |-> 0]
    /\ link_ret' = "none"
    /\ seen' = Nothing
    /\ UNCHANGED <<kernelVars, socketVars, aborted>>

Init ==
    /\ links \in {S \in SUBSET Index : \A i, j \in S : NameOf[i] = NameOf[j] => i = j}
    /\ up = [i \in Index |-> TRUE]
    /\ addrs \in [Index -> {<<>>} \cup {<<a>> : a \in Addrs}]
    /\ \A i \in Index \ links : addrs[i] = <<>>
    /\ changes = 0
    /\ opened = FALSE
    /\ queue = <<>>
    /\ dump = NoDump
    /\ pc = "idle"
    /\ shown = [n \in {} |-> 0]
    /\ link_ret = "none"
    /\ seen = Nothing
    /\ aborted = FALSE

Process == Open \/ LinkSend \/ LinkRecv \/ AddrSend \/ AddrRecv \/ SendFails \/ DisplayUpdate

Kernel ==
    \E i \in Index :
        \/ LinkAppears(i) \/ LinkVanishes(i) \/ LinkFlaps(i) \/ AddrRemoved(i)
        \/ \E a \in Addrs : AddrAdded(i, a)

Next == Process \/ Kernel

Spec == Init /\ [][Next]_vars

\* The process runs; recvfrom returns when there is something to receive.
FairSpec == Spec /\ WF_vars(Process)

-----------------------------------------------------------------------------
(* Properties.                                                             *)

\* The receive loops have no timeout (osysmon_rtnl.c:253, :342): whenever the
\* process waits, an answer is in the buffer, also after dumps that were given up
\* and with requests that the kernel refuses.
RecvNeverHangs == Receiving => queue # <<>>

\* Interfaces shown together existed together at one moment of this poll: a list
\* that changed while it was dumped is given up (osysmon_rtnl.c:255).
ShownCoexisted ==
    pc # "exited" /\ DOMAIN shown # {} =>
        \E S \in seen.links : \A n \in DOMAIN shown : shown[n].idx \in S

\* State and address shown with an interface were its own, at some moment of this
\* poll, whatever the links did between the two requests and whatever is in the
\* buffer of earlier polls.
ShownHeld ==
    \A n \in DOMAIN shown :
        /\ NameOf[shown[n].idx] = n
        /\ <<shown[n].idx, shown[n].up>> \in seen.up
        /\ \A a \in shown[n].ip : <<shown[n].idx, a>> \in seen.ip

\* When the first request is answered to its end, no configured interface that
\* was there all the time is missing from the section; and a reply is left in the
\* socket for the next poll only once an answer was given up.
CompleteOrFailed ==
    /\ link_ret = "ok" =>
        \A i \in Index : NameOf[i] \in Configured /\ (\A S \in seen.links : i \in S) =>
            NameOf[i] \in DOMAIN shown
    /\ pc \in {"idle", "print"} /\ queue # <<>> => aborted

\* "Prints on screen once per second" (debian/control:27): the poll ends, unless
\* the process gives up because a request cannot be sent.
PollsEnd == []<>(pc \in {"print", "exited"})

\* "Information being printed can be specified through configuration file"
\* (debian/control:28): configured interfaces that are there, and stay, are shown
\* again, however the links changed before.
ShownAgain ==
    <>[]opened =>
        []<>(\/ pc = "exited"
             \/ /\ pc = "print"
                /\ \A i \in links : NameOf[i] \in Configured => NameOf[i] \in DOMAIN shown)
=============================================================================
