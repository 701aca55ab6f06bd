------------------------------- MODULE Sysmon -------------------------------
(***************************************************************************)
(* osysmon_main.c, value_node.c and the poll functions as the main loop    *)
(* sees them: the configuration says what to ask for; each report is a     *)
(* tree of values which the poll functions extend one after the other, and *)
(* which is then printed and freed.  What the CTRL and OpenVPN clients put *)
(* below their nodes is the subject of OsysmonCtrl and OpenVpn.            *)
(*                                                                         *)
(* External: the main loop of libosmocore, which runs the timers that are  *)
(* due before the callbacks of descriptors; netlink and liboping, whose    *)
(* calls may fail.                                                         *)
(***************************************************************************)
EXTENDS Naturals, Sequences, SequencesExt

CONSTANTS
    ClientNames,    \* NAME of a ctrl-client
    ClientVars,     \* the variables of each, in order
    Items,          \* names of files, shell commands, interfaces and hosts
    MaxLost         \* bound on the count of lost nodes

ASSUME SysmonAssumption ==
    /\ ClientNames \subseteq STRING /\ Items \subseteq STRING
    /\ ClientVars \in Seq(STRING)
    /\ MaxLost \in Nat

VARIABLES
    oneshot,    \* option -o
    conf,       \* conf[k]: the list of what is configured of kind k
    sysinfo_enabled,
    pc,         \* "config", "due" (the print timer), a poll function, "print", ...
    root,       \* the sections of the report: the children of the root node
    lost,       \* nodes allocated below NULL that nothing refers to any more
    vpn_up,     \* the OpenVPN clients are connected
    rcs,        \* the netlink socket is open
    queried,    \* history: the kinds of things asked for in this report
    troubled    \* history: the kinds of which a library call failed in this report

optionVars == <<oneshot, conf, sysinfo_enabled>>
vars == <<optionVars, pc, root, lost, vpn_up, rcs, queried, troubled>>

Kinds == {"openvpn", "ctrl-client", "netdev", "ping", "file", "shellcmd"}

\* print_nodes calls them in this order.
Polls == <<"openvpn", "sysinfo", "ctrl-client", "netdev", "ping", "file", "shellcmd", "print">>

Owners == Kinds \cup {"sysinfo"}
Headings == {"OpenVPN", "sysinfo", "netdev", "ping", "file", "shellcmd"}
Names == ClientNames \cup Items \cup Range(ClientVars) \cup Headings \cup {"load", "ram", "uptime"}
Node == [name : Names, owner : Owners]
SectionNode == [name : Names, owner : Owners, kids : Seq(Node)]

NamesOf(k) == IF k = "ctrl-client" THEN ClientNames ELSE Items

TypeOK ==
    /\ oneshot \in BOOLEAN
    /\ DOMAIN conf = Kinds /\ \A k \in Kinds : conf[k] \in Seq(NamesOf(k))
    /\ sysinfo_enabled \in BOOLEAN
    /\ pc \in {"config", "due", "wait", "exited", "crashed", "failed"} \cup Range(Polls)
    /\ root \in Seq(SectionNode)
    /\ lost \in 0 .. MaxLost
    /\ vpn_up \in BOOLEAN
    /\ rcs \in BOOLEAN
    /\ queried \subseteq Kinds /\ troubled \subseteq Kinds

Init ==
    /\ oneshot \in BOOLEAN
    /\ conf = [k \in Kinds |-> <<>>]
    /\ sysinfo_enabled = TRUE
    /\ pc = "config"
    /\ root = <<>>
    /\ lost = 0
    /\ vpn_up = FALSE
    /\ rcs = FALSE
    /\ queried = {} /\ troubled = {}

-----------------------------------------------------------------------------
(* The configuration file.  A name that is known is not added again, a     *)
(* warning or not.                                                         *)

Configure(k, list) ==
    /\ pc = "config"
    /\ conf' = [conf EXCEPT ![k] = list]
    /\ UNCHANGED <<oneshot, sysinfo_enabled, pc, root, lost, vpn_up, rcs, queried, troubled>>

Put(k, n)  == n \notin Range(conf[k]) /\ Configure(k, Append(conf[k], n))
Drop(k, n) == \E i \in 1 .. Len(conf[k]) : conf[k][i] = n /\ Configure(k, RemoveAt(conf[k], i))

CfgCtrlClient(n) == Put("ctrl-client", n)
CfgNoCtrlClient(n) == Drop("ctrl-client", n)
CfgOpenvpn(n)    == Put("openvpn", n)
CfgNoOpenvpn(n)  == Drop("openvpn", n)
CfgFile(n)       == Put("file", n)
CfgNoFile(n)     == Drop("file", n)
CfgShellcmd(n)   == Put("shellcmd", n)
CfgNoShellcmd(n) == Drop("shellcmd", n)
CfgNetdevToClients(n) == Put("ctrl-client", n)   \* mutant: the wrong list head
CfgNetdev(n)     == Put("netdev", n)
CfgNoNetdev(n)   == Drop("netdev", n)
CfgPing(n)       == Put("ping", n)
CfgNoPing(n)     == Drop("ping", n)

CfgSysinfo(on) ==
    /\ pc = "config"
    /\ sysinfo_enabled' = on
    /\ UNCHANGED <<oneshot, conf, pc, root, lost, vpn_up, rcs, queried, troubled>>

\* The file has been read: the print timer is due at once.
Run ==
    /\ pc = "config"
    /\ pc' = "due"
    /\ UNCHANGED <<optionVars, root, lost, vpn_up, rcs, queried, troubled>>

-----------------------------------------------------------------------------
(* value_node.c                                                            *)

Named(list, n) == \E i \in 1 .. Len(list) : list[i].name = n

ValueNodeAddUnchecked(list, node) == Append(list, node)     \* mutant: no value_node_find
\* A duplicate name is not permitted: the caller gets NULL.
ValueNodeAdd(list, node) ==
    IF Named(list, node.name) THEN list ELSE Append(list, node)

Counted(n) == IF n > MaxLost THEN MaxLost ELSE n

\* Nodes of these names, added one after the other.
Nodes(owner, names) == [i \in 1 .. Len(names) |-> [name |-> names[i], owner |-> owner]]
AddAll(nodes) ==
    LET list[i \in 0 .. Len(nodes)] ==
            IF i = 0 THEN <<>> ELSE ValueNodeAdd(list[i - 1], nodes[i])
    IN  list[Len(nodes)]

SectionFound(m, owner, name, names) ==  \* mutant: value_node_find_or_add
    LET kids == Nodes(owner, names)
        extended == [i \in 1 .. Len(m.root) |->
                        IF m.root[i].name = name THEN [m.root[i] EXCEPT !.kids = @ \o kids]
                                                 ELSE m.root[i]]
    IN  [m EXCEPT !.root = IF Named(m.root, name) THEN extended
                           ELSE Append(m.root, [name |-> name, owner |-> owner, kids |-> kids])]
\* A section and the nodes below it.  Below NULL, a node is an orphan, and so is
\* the one that value_node_add allocates before its check.
Section(m, owner, name, names) ==
    LET new == ValueNodeAdd(m.root, [name |-> name, owner |-> owner,
                                     kids |-> AddAll(Nodes(owner, names))])
    IN  IF new = m.root
        THEN [m EXCEPT !.lost = Counted(@ + 2 * Len(names))]
        ELSE [m EXCEPT !.root = new]

Tree == [root |-> root, lost |-> lost]
Becomes(m) == root' = m.root /\ lost' = m.lost

-----------------------------------------------------------------------------
(* print_nodes                                                             *)

\* The root node; the one allocated before it is lost.
PrintNodes ==
    /\ pc = "due"
    /\ pc' = "openvpn"
    /\ root' = <<>>
    /\ lost' = Counted(lost + 1)
    /\ queried' = {} /\ troubled' = {}
    /\ UNCHANGED <<optionVars, vpn_up, rcs>>

AfterForgetting(p) ==               \* mutant: osysmon_shellcmd_poll is not called
    IF p = "file" THEN "print" ELSE Polls[CHOOSE i \in 2 .. Len(Polls) : Polls[i - 1] = p]
After(p) == Polls[CHOOSE i \in 2 .. Len(Polls) : Polls[i - 1] = p]

\* A poll function that leaves the tree m, has asked for the kinds in ks and got an
\* error about those in fs.
Leaves(p, m, ks, fs) ==
    /\ pc = p
    /\ pc' = After(p)
    /\ Becomes(m)
    /\ queried' = queried \cup ks
    /\ troubled' = troubled \cup fs
    /\ UNCHANGED <<optionVars, vpn_up>>

Polled(p, m, ks) == Leaves(p, m, ks, {}) /\ UNCHANGED rcs

\* Sections of things of which there may be none.
PolledIfAny(k, name, names, ks) ==
    IF conf[k] = <<>> THEN Polled(k, Tree, {}) ELSE Polled(k, Section(Tree, k, name, names), ks)

\* "state" is sent to an interface that is connected.
OpenvpnPoll ==
    PolledIfAny("openvpn", "OpenVPN", conf["openvpn"], IF vpn_up THEN {"openvpn"} ELSE {})

SysinfoPoll ==
    \E names \in {<<>>, <<"load", "ram", "uptime">>} :
        Polled("sysinfo",
               IF sysinfo_enabled THEN Section(Tree, "sysinfo", "sysinfo", names) ELSE Tree,
               {})

\* A section for each client in turn, with the values it has got.
ClientSections(m, clients, got) ==
    LET tree[i \in 0 .. Len(clients)] ==
            IF i = 0 THEN m
            ELSE Section(tree[i - 1], "ctrl-client", clients[i],
                         SubSeq(ClientVars, 1, got[clients[i]]))
    IN  tree[Len(clients)]

\* Of each client, the first so many variables (OsysmonCtrl).
CtrlPoll ==
    \E got \in [Range(conf["ctrl-client"]) -> 0 .. Len(ClientVars)] :
        Polled("ctrl-client", ClientSections(Tree, conf["ctrl-client"], got),
               IF conf["ctrl-client"] # <<>> THEN {"ctrl-client"} ELSE {})

\* rtnl_init fails: the section stays empty, and a later report tries again.
RtnlInitFails ==
    /\ conf["netdev"] # <<>> /\ ~rcs
    /\ Leaves("netdev", Section(Tree, "netdev", "netdev", <<>>), {}, {"netdev"})
    /\ UNCHANGED rcs

\* Interfaces the kernel has, in its order; none if it answers with an error.
InterfacesShown ==
    \E n \in 0 .. Len(conf["netdev"]) :
    \E present \in [1 .. n -> Range(conf["netdev"])] :
        /\ conf["netdev"] # <<>>
        /\ IsInjective(present)
        /\ present # <<>> => ~Named(root, "netdev")
        /\ Leaves("netdev", Section(Tree, "netdev", "netdev", present), {"netdev"}, {})
        /\ rcs' = TRUE

Ends(how) ==
    /\ pc = "netdev"
    /\ conf["netdev"] # <<>>
    /\ pc' = how
    /\ rcs' = TRUE
    /\ UNCHANGED <<optionVars, root, lost, vpn_up, queried, troubled>>

\* The callback looks for an interface below vn_net, also if that is NULL.
RtnlCrashes == Named(root, "netdev") /\ Ends("crashed")

\* A request that cannot be sent: exit(EXIT_FAILURE), in every mode.
RtnlExits == Ends("failed")

RtnlPoll ==
    \/ conf["netdev"] = <<>> /\ Polled("netdev", Tree, {})
    \/ RtnlInitFails \/ InterfacesShown \/ RtnlCrashes \/ RtnlExits

\* Hosts are printed, then pinged; neither if vn_ping is NULL.  A host whose name or
\* address liboping does not tell ends the poll: the hosts behind it are not printed,
\* and nothing is sent.
PingPoll ==
    IF Named(root, "ping")
    THEN Polled("ping", Tree, {})
    ELSE \/ PolledIfAny("ping", "ping", conf["ping"], {"ping"})
         \/ \E n \in 0 .. Len(conf["ping"]) :
                /\ conf["ping"] # <<>>
                /\ Leaves("ping", Section(Tree, "ping", "ping", SubSeq(conf["ping"], 1, n)),
                          {}, {"ping"})
                /\ UNCHANGED rcs

FilePoll     == PolledIfAny("file", "file", conf["file"], {"file"})
ShellcmdPoll == PolledIfAny("shellcmd", "shellcmd", conf["shellcmd"], {"shellcmd"})

DisplayUpdateNotArming ==                   \* mutant: no osmo_timer_schedule
    /\ pc = "print"
    /\ root' = <<>>
    /\ pc' = IF oneshot THEN "exited" ELSE "off"
    /\ UNCHANGED <<optionVars, lost, vpn_up, rcs, queried, troubled>>
\* display_update, value_node_del; the timer is armed again.
DisplayUpdate ==
    /\ pc = "print"
    /\ root' = <<>>
    /\ pc' = IF oneshot THEN "exited" ELSE "wait"
    /\ UNCHANGED <<optionVars, lost, vpn_up, rcs, queried, troubled>>

PrintTimer ==
    /\ pc = "wait"
    /\ pc' = "due"
    /\ UNCHANGED <<optionVars, root, lost, vpn_up, rcs, queried, troubled>>

\* Callbacks run while the process waits for the timer (OpenVpn has the details).
VpnCallback ==
    /\ pc = "wait"
    /\ conf["openvpn"] # <<>>
    /\ vpn_up' = ~vpn_up
    /\ UNCHANGED <<optionVars, pc, root, lost, rcs, queried, troubled>>

Process ==
    \/ Run \/ PrintTimer \/ PrintNodes
    \/ OpenvpnPoll \/ SysinfoPoll \/ CtrlPoll \/ RtnlPoll \/ PingPoll \/ FilePoll \/ ShellcmdPoll
    \/ DisplayUpdate

Next ==
    \/ \E n \in ClientNames : CfgCtrlClient(n) \/ CfgNoCtrlClient(n)
    \/ \E n \in Items :
        \/ CfgOpenvpn(n) \/ CfgNoOpenvpn(n)
        \/ CfgFile(n) \/ CfgNoFile(n)
        \/ CfgShellcmd(n) \/ CfgNoShellcmd(n)
        \/ CfgNetdev(n) \/ CfgNoNetdev(n)
        \/ CfgPing(n) \/ CfgNoPing(n)
    \/ \E on \in BOOLEAN : CfgSysinfo(on)
    \/ Process
    \/ VpnCallback

Spec == Init /\ [][Next]_vars

\* The process runs; no shell command, file or ping keeps it for ever.
FairSpec == Spec /\ WF_vars(Process)

-----------------------------------------------------------------------------
(* Properties.                                                             *)

\* "Duplicate name not permitted" (value_node.c:31): whatever names are
\* configured, siblings in the tree have different names.
SiblingsDiffer ==
    LET Distinct(list) == \A i, j \in 1 .. Len(list) : list[i].name = list[j].name => i = j
    IN  Distinct(root) /\ \A i \in 1 .. Len(root) : Distinct(root[i].kids)

\* A section holds what one component put there: also when a ctrl-client has the
\* name of another component's section, nothing is reported under a heading it
\* does not belong to.
SectionsUnmixed ==
    \A i \in 1 .. Len(root) : \A j \in 1 .. Len(root[i].kids) :
        root[i].kids[j].owner = root[i].owner

SectionName(k) == IF k = "openvpn" THEN "OpenVPN" ELSE k
Taken(name) == name \in Range(conf["ctrl-client"])

Printed(owner, name) ==
    {root[i].kids : i \in {j \in 1 .. Len(root) : root[j].owner = owner /\ root[j].name = name}}

KidNames(kids) == [j \in 1 .. Len(kids) |-> kids[j].name]

\* "Information being printed can be specified through configuration file"
\* (debian/control:28): every configured host, file and command is in the section
\* of its component unless a ctrl-client has that section's name; every ctrl-client
\* has a section of its own, unless it has the name of an earlier one.  Interfaces may be
\* missing, but then this report has asked for them in vain.  Nothing has been left out
\* before a report is printed: also in the only report of a oneshot run everything
\* configured has been asked for, only an OpenVPN interface that is not connected has
\* not.  An error of liboping or of the netlink socket keeps what it is about from being
\* asked for, and nothing else; of the hosts it leaves the first ones, in their order.
ConfiguredIsPrinted ==
    pc = "print" =>
        /\ \A k \in {"openvpn", "ping", "file", "shellcmd"} \ troubled : conf[k] # <<>> =>
                \/ k # "openvpn" /\ Taken(k)
                \/ \E kids \in Printed(k, SectionName(k)) : KidNames(kids) = conf[k]
        /\ \A c \in Range(conf["ctrl-client"]) :
                Printed("ctrl-client", c) # {} \/ c \in {"OpenVPN", "sysinfo"}
        /\ sysinfo_enabled => Printed("sysinfo", "sysinfo") # {}
        /\ \A k \in Kinds \ troubled : conf[k] # <<>> =>
                k \in queried \/ (IF k = "openvpn" THEN ~vpn_up ELSE Taken(k))
        /\ troubled \subseteq {"netdev", "ping"}
        /\ \A k \in troubled :
                /\ k \notin queried
                /\ Taken(k) \/ \E kids \in Printed(k, k) : IsPrefix(KidNames(kids), conf[k])

\* "Prints on screen once per second" (debian/control:27); with -o, once.
ReportsRecur == []<>(pc = "print" \/ (oneshot /\ pc = "exited"))

\* Reports recur, unless interfaces are configured and a request for them cannot be
\* sent, or a ctrl-client is named like their section.
ReportsRecurUnlessEnded ==
    \/ ReportsRecur
    \/ <>(pc = "failed" /\ conf["netdev"] # <<>>)
    \/ <>(pc = "crashed" /\ Taken("netdev"))

\* "Let talloc do its magic to delete all child nodes" (value_node.c:91): between
\* reports no node is left.
NoNodeLeft == pc = "wait" => lost = 0
=============================================================================
