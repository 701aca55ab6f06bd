# osmo-sysmon in TLA+

osmo-sysmon prints, once per second, a tree of values that describe an Osmocom
site: variables read over the Osmocom CTRL protocol, the state of OpenVPN
tunnels, network interfaces, pings, files, shell commands and load. It is one
process with one thread, built on libosmocore's main loop. The files below model
the program in TLA+, check the models with TLC on small instances, and prove with
TLAPS, for all instances, the safety of its parts (section 4).

Source references are relative to the source directory (`src/`) of the program,
in which most files are in `src/src/`; external means that the code is
not part of the repository and is modelled from how the program uses it.

## 1. Inventory

| Component | Source | State it keeps | Operations | What is hard |
|---|---|---|---|---|
| CTRL client library | `simple_ctrl.c` | per handle: descriptor, timeout, `next_id` | open, close, get, set, receive | blocking calls on sockets that refuse, drop, stop in the middle of a frame, interleave TRAPs; late answers |
| Polling of CTRL clients | `osysmon_ctrl.c:259-297` | `cc->sch` per client | `osysmon_ctrl_poll`, `ctrl_client_poll` | reuse and re-opening of handles over many polls, partial failure |
| Configuration of CTRL clients | `osysmon_ctrl.c:52-257` | list of clients, lists of variables, `vty->node`, `vty->index` | four VTY commands, `osysmon_ctrl_go_parent` | sequences of commands, object lifetime |
| OpenVPN clients | `osysmon_openvpn.c` | per client: name, tunnel address, remote host and port, `connected` | create, destroy, connect/read/disconnect callbacks, poll | callbacks in any order, messages that are not lines, reconnects |
| Host configurations | `client.c` | name, host, port | allocate, update, match | - (strings; their effect is part of OpenVpn and CtrlConfig) |
| Main program and value tree | `osysmon_main.c`, `value_node.c` | configuration lists, timer, root of the tree | print timer, one call of each poll function, display, free | order of poll functions, duplicate names, what happens below NULL, oneshot mode |
| Network interfaces | `osysmon_rtnl.c` | netlink socket, list of interfaces | two dumps per poll | aborted dumps leave replies in the socket; equal sequence numbers; links that change between the dumps |
| Pinged hosts | `osysmon_ping.c` | liboping object and per-host counters | print, then send | every report shows the previous round |
| Files, shell commands | `osysmon_file.c`, `osysmon_shellcmd.c` | list of files / commands | read first line; run and read the output | full buffers, commands that do not end |
| System information | `osysmon_sysinfo.c` | one flag | print `sysinfo()` | - |
| Command-line CTRL tool | `osmo-ctrl-client.c` | one handle | get, set, monitor | what the library returns for values of several words |
| OpenVPN status exporter | `contrib/openvpn-status-export.pl` | - | - | separate script |
| Build and packaging | `configure.ac`, `debian/`, ... | - | - | no run-time behaviour |

How they interact: the print timer (`osysmon_main.c`) creates a root node and
calls the poll function of each component in a fixed order. Each adds a section
to the same tree (`value_node.c`). The CTRL poll blocks in the CTRL client
library; the OpenVPN poll only shows what callbacks have stored and sends the
next query. Then the tree is printed and freed, and the timer is armed again.
The configuration file is read once, before the main loop starts, and each
component has VTY commands that build its lists.

What makes each part correct:

* *CTRL*: what is shown for a variable is a value it had while it was being read,
  not the answer to an earlier question or one about another variable; an error
  costs at most the rest of that client's section, and heals; no descriptor is
  lost; every poll ends.
* *Configuration*: names are unique, commands act on the object whose section is
  open, and lists and objects agree.
* *OpenVPN*: what is shown stems from the connection there is now, and the report
  converges to what the interface says.
* *Network interfaces*: interfaces shown together existed together, their states
  and addresses are their own, receiving always ends.
* *Hosts, files, commands*: what is shown is what was there or was written, a
  report shows the round of pings before it, no child process is left, and none of
  them keeps reports from going on.
* *Command-line tool*: its exit status and its output say what the server did.
* *Main program*: everything configured is in the report under the heading it
  belongs to, reports recur, and nothing is left behind between them.

## 2. Modules

| Module | Models | Role |
|---|---|---|
| `CtrlServer` | the far ends of the CTRL connections (external) | environment of `SimpleCtrl` |
| `SimpleCtrl` | `simple_ctrl.c`: open, close, get | extends `CtrlServer` |
| `OsysmonCtrl` | `osysmon_ctrl_poll`, `ctrl_client_poll` | composes all of the above |
| `CtrlReport` | what the CTRL part of a report promises | abstract specification, refined by `OsysmonCtrl` |
| `CtrlTool` | `osmo-ctrl-client.c`; set and receive of `simple_ctrl.c` | another composition of `SimpleCtrl` and `CtrlServer` |
| `CtrlConfig` | the VTY commands of `osysmon_ctrl.c` | objects, lists, pointers |
| `CtrlConfigMap` | what the configuration file means | abstract specification, refined by `CtrlConfig` |
| `OpenVpn` | `osysmon_openvpn.c`, `update_name`, `update_host` and `make_authority` of `client.c` | with the management interface and the stream client (external) |
| `Rtnl` | the poll of `osysmon_rtnl.c` | with netlink and the kernel's dumps (external) |
| `Ping`, `FileWatch`, `Shellcmd` | the polls of `osysmon_ping.c`, `osysmon_file.c`, `osysmon_shellcmd.c` | with liboping, other users of the file, commands and their pipe (external) |
| `Probes` | the last part of `print_nodes` | composes `Ping`, `FileWatch` and `Shellcmd` in one thread |
| `Sysmon` | `osysmon_main.c`, `value_node.c`, configuration and section of every component | composition as the main loop sees it |
| `OsysmonCtrlProofs`, `CtrlConfigProofs`, `OpenVpnProofs`, `RtnlProofs`, `ProbesProofs`, `CtrlToolProofs`, `SysmonProofs` | - | theorems about `OsysmonCtrl`, `CtrlConfig`, `OpenVpn`, `Rtnl`, `Probes`, `CtrlTool`, `Sysmon` |
| `SetInduction` | - | induction over the natural numbers and over what a recursive function computes, used by the proofs |
| `MCOsysmonCtrl`, `MCOpenVpn`, `MCRtnl`, `MCProbes`, `MCCtrlTool`, `MCSysmon` | - | instances for TLC |

### 2.1 CtrlServer, SimpleCtrl, OsysmonCtrl

The process is sequential, but it sleeps in system calls while servers, networks
and values go on. So a call of the library is cut exactly at these system calls:

| `pc` | the process is in |
|---|---|
| `connect` | `select()` of `simple_ctrl_open` |
| `send` | `select()`/`write()` of the request |
| `header` | `select()`/`read()` of the three bytes of an IPA header |
| `body` | the `read()` of the payload, which has no timeout |
| `opened`, `got` | return to the caller |
| `client`, `loop`, `idle` | heads of the two loops of the poll; outside of it |

`sch[c]` is `cc->sch`, reduced to `next_id` (modulo `MaxId + 1`; `uint32_t` in
the code). `link`, `reqs` and `wire` are the connection behind the descriptor.
The servers answer requests in order, with the value of that moment; they may
refuse, close, and send TRAPs or frames of other protocols. Bytes are abstracted
to frames; what remains of bytes is that a read may end in the middle of a frame
(`HeaderShort`, `BodyShort`), which is recorded in `cut`. How much of what the
server sent has arrived is not state: the reader chooses.

`window` is a history variable: the values the variable being read has had
since it was asked for. `CtrlReport` keeps it too, and its `Show` only shows a member of it.

### 2.2 CtrlConfig, CtrlConfigMap

`heap` holds every object ever allocated, pointers are positions in it, and
`freed` is the set of freed ones. `vty->node` and `vty->index` are `node` and
`index`. A walk over a list of variables that meets a freed element is undefined
behaviour: the model records this in `undefined` and stops. Whether a walk meets one depends
on what is looked for, as the walk ends with the first match (`WalkDefined`).
The mapping to `CtrlConfigMap` leaves out freed objects (`Alive`): up to the moment of
undefined behaviour, the live objects mean what the file says. Lists of variables of
`CtrlConfigMap` are in the order of first mention, so the order in which the lists are
built and taken apart is part of what is implemented.

### 2.3 OpenVpn

What an interface has sent and the client has not read (`stream`) is one sequence of
characters, and a read takes any non-empty beginning of it: it may end between two lines, within
a line or within a field. `parse_state` is modelled by what it does: a message that does not begin
with a digit is discarded; of the others `sizeof(tmp) - 1` characters are kept
(`TmpSize`), up to the first that is not printable; `strtok` splits these, and skips empty
fields; a token is taken for a field by its number alone, so what is left of a line of which a
read has taken the beginning is, if it begins with a digit, taken for a line of its own, its
tokens moved to the front. A text is a sequence of characters, and `Chars` is a parameter: the proofs
are about single characters, while in the instances for TLC one "character" stands for a run that is
not cut. The end of a line is one of them; reads that end between its two bytes differ only
by a message that begins with a line feed, which is discarded. `received` is a history variable.

### 2.4 Sysmon

One action per VTY command of each component (with and without `no`), one per
poll function, and the print timer. `root` is the list of sections with the
component that owns each; `lost` counts nodes that are allocated below NULL and
never freed. `SysinfoPoll` and `InterfacesShown` choose what the kernel
reports; `CtrlPoll` chooses how many variables of each client were read, which is
what `OsysmonCtrl` says of it (`SectionsHonest`). `vn_net` being NULL, which
happens when another section has the name `netdev`, is a crash (`RtnlCrashes`). The errors of
libraries that end a poll are steps too: netlink's socket cannot be opened (`RtnlInitFails`: nothing
is asked, and as `rcs` stays FALSE the next report tries again), a request cannot be sent
(`RtnlExits`: `exit(EXIT_FAILURE)`, whatever the mode), and liboping does not tell the name or
the address of a host (`PingPoll`: the hosts behind it are not shown, and nothing is sent).
`queried` and `troubled` are history variables: what this report has asked for, and
what it got such an error about. Names of nodes are
those of the configuration and the headings in the code (`Names`).

### 2.5 Rtnl

One action per request and per datagram received; the change of a link, its
flags or its addresses may come between any two. A datagram carries some of the
messages of a dump, or its end, or an error. `current` says whether its sequence
number is that of the last request: `time(NULL)` only goes on, so all that a new
second tells of old numbers is that they are old (`Aged`). `dump` is the dump the kernel
is busy with: it writes the first datagram when it is requested and the next when
one is received, while the socket is not more than half full; it refuses a second
dump (`EBUSY`) and marks what follows a change (`NLM_F_DUMP_INTR`), on which
`mnl_cb_run` fails. An error ends the receive loop, and what has not been read stays in the socket, which is
kept between polls (`osysmon_rtnl.c:251-260`). `seen` is a history variable: the sets of
links, the flags and the addresses there have been during this poll.

### 2.6 Ping, FileWatch, Shellcmd, Probes

`Ping` shows what liboping knows and then sends the next round; a host whose name
does not fit ends both. `FileWatch` cuts the poll of a file between `fopen` and
`fgets`; a file that is replaced stays what it is for those who have it open, one that is
rewritten does not. `Shellcmd` cuts the poll of a command at each `fread` and at
`pclose`; the pipe, the command and what it leaves in the background go on in between. A full
buffer ends the reading (`fread` is asked for no byte), and `pclose` waits for a
command that may be blocked on the full pipe; as it inherits that `SIGPIPE` is
ignored (`osysmon_main.c:253`), it gets an error and goes on. `Probes` runs the three one after
the other in one thread, as `print_nodes` does. `wrote`, `outputs`, `window` and
`reports` are history variables.

### 2.7 CtrlTool

The actions of `SimpleCtrl` with one client, the process of `osmo-ctrl-client.c`
around them, and the server's side of SET and of TRAPs with numbers. `value` is a
sequence of words: the reply to SET is compared with the first word of it
(`sscanf`, `simple_ctrl.c:321-322`). In monitor mode the timeout is 0, which waits for ever.

### 2.8 Map to the code

`PROJECT.json` names, for each definition that models code, the lines it
translates.

## 3. Checks

### 3.1 Runs that pass

| Run | Specification | Properties | Shows |
|---|---|---|---|
| `ctrl` | `OsysmonCtrl!FairSpec` | `TypeOK`, `Lockstep`, `RepliesMatch`, `FramesAligned`, `DescriptorsOwned`, `SectionsHonest`, `ReportsCurrentValues`, `PollsRecur`, `RecoversAlone` | 150,448 states: two clients with changing values, the first with a variable its server does not know, all faults without bound. Questions and answers stay in step, the poll implements `CtrlReport`, polls end, and a client is reported in full (up to the unknown variable) again and again unless its own connection fails again and again, whatever the other does |
| `config_all` | `CtrlConfig!Spec` | `TypeOK`, `NamesUnique`, `IndexMatchesNode`, `AliveAreLinked`, `ImplementsMap` | all sequences of commands that allocate up to five objects |
| `openvpn_stream` | `OpenVpn!FairSpec` | `TypeOK`, `OnlyFromThisConnection`, `ConnectedIffUp`, `StatusConverges` | 136,646 states: reads that end anywhere, also within a status, an address or a port, truncated messages, lost connections, a line with all fields and one with empty ones |
| `rtnl_poll` | `Rtnl!FairSpec` | `TypeOK`, `RecvNeverHangs`, `ShownCoexisted`, `ShownHeld`, `CompleteOrFailed`, `PollsEnd` | 1,497,364 states: up to three changes of links, flags or addresses at any moments, dumps in any pieces, polls that find the replies of those before |
| `probes_all` | `Probes!FairSpec` | `TypeOK`, `CommandShown`, `NoChildLeft`, `FileShownWasThere`, `RoundBefore`, `ReportsRecur` | 834 thousand states: commands that write more than fits or leave a process behind, files replaced while they are read, hosts with and without usable names |
| `tool_all` | `CtrlTool!FairSpec` | `TypeOK`, `ExitZeroIsTrue`, `FailureHasReason`, `MonitorPrintsAll`, `ToolEnds` | 45,474 states: get, set and monitor on connections with every fault |
| `sysmon_names` | `Sysmon!FairSpec` | `TypeOK`, `SiblingsDiffer`, `SectionsUnmixed`, `ConfiguredIsPrinted`, `ReportsRecurUnlessEnded` | 148,876 states: all configurations with up to one item per component and two clients named `file` and `netdev`, oneshot and not, errors of liboping and netlink in any report |

### 3.2 Runs that end in a counterexample

Each checks one property that states what the repository says of the program.

| Run | Property | What happens |
|---|---|---|
| `ctrl_stall` | `PollsRecur` | A server that stays connected in the middle of a frame stops the only thread: the payload is read without the timeout (`simple_ctrl.c:187`). |
| `config_dangling` | `ReadsOnlyLive` | `no get-variable` frees an element that stays in the list (`osysmon_ctrl.c:211`). |
| `openvpn_stale` | `SectionMatchesLine` | Empty or missing fields keep old values: a new status is shown with an old address (`osysmon_openvpn.c:95`). |
| `rtnl_lag` | `ShownAgain` | One link that appears in the middle of a dump makes the reply end early; from then on every request reads an old reply first, is refused, and leaves its own behind: interfaces need never be shown again (`osysmon_rtnl.c:253`). |
| `sysmon_lost` | `NoNodeLeft` | `value_node_add` allocates twice; the first node of each root has no parent and is never freed (`value_node.c:28`). |

Five more deviations are part of the models without a run of their own, as the
properties name them as exceptions:

* An ERROR reply is treated as a lost connection, so one unknown variable hides,
  for ever, those configured after it (`osysmon_ctrl.c:278`; `RecoversAlone`).
* A ctrl-client named `netdev` leaves the section of the interfaces NULL, which
  the callbacks dereference (`osysmon_rtnl.c:405`; `ReportsRecurUnlessEnded`).
* A request to the kernel that cannot be sent ends the program
  (`osysmon_rtnl.c:248`, `:336`; `ReportsRecurUnlessEnded`).
* One host liboping does not tell the name or address of hides those behind it, and
  keeps all of them from being pinged (`osysmon_ping.c:239`, `:248`; `ConfiguredIsPrinted`, which
  asks for the hosts before it, in their order, and for everything else).
* With `-o` the process exits from its first timer, before an OpenVPN interface
  can be connected: it is never asked (`osysmon_main.c:222`; `ConfiguredIsPrinted`).

A ctrl-client named like a later section that may be empty, for example `file`,
only replaces that section: the conditions of `ConfiguredIsPrinted` say so.

### 3.3 Bounds

* `MaxId = 1`: two request ids, so ids wrap around at every second request and
  an id coincides with that of the question before the last. The code has
  2^32; lockstep makes the number irrelevant, and the proof is for all.
* `MaxWire = 1`: a server adds a TRAP or foreign frame only to an empty queue.
  Answers are not bounded, so a queue may hold a TRAP and an answer, in
  either order. The proof does without the bound on its value.
* Two clients, two variables and one: the smallest instance in which a failure of one
  variable, of one client, and of its neighbour differ. Values: none and two words
  (so that `FirstWord` matters).
* Faults are not bounded: every wait may fail at every poll.
* `MaxObjects = 5` (`CtrlConfig`): two clients with three variables, or one that is
  removed and made again. Two names, addresses and variables.
* `MaxQueries = 1`, `MaxStream = 2`, `TmpSize = 13` (`OpenVpn`): one query on its way while
  the end of the answer before it (`END` and the end of the line) is still unread; a poll whose
  query finds no room drops it. The longest line does not fit into `TmpSize`, so that it is
  truncated within its port. The proofs are for all three. One interface: clients share nothing.
* `MaxLost = 3` (`Sysmon`): one root and two orphans are told apart; the counter
  stays at the bound.
* `HalfBuffer = 1`, `MaxChanges = 3` (`Rtnl`): buffers hold up to three datagrams, so that
  a dump has to wait for room and a request finds one running; three changes are a link that
  goes, another that takes its name, and one more of either's state. Four interfaces, of which two
  have the same name and one is not configured. `rtnl_lag` needs one change and a buffer of
  two. The proofs are for all sizes and any number of changes.
* `BufSize = 2`, `PipeSize = 2`, `MaxOutput = 3` (`Shellcmd`): output that is shorter than the
  buffer, fills it, and exceeds it, with and without a final newline; two commands, so that one
  can leave something to the next. `MaxSeq = 2` (`Ping`): a round, the one before and the one
  before that differ. At most one host has a name that cannot be had. The file changes only
  before and while it is read; its first line is written in one piece.
* `MaxTraps = 3`, `MaxWire = 2` (`CtrlTool`): a TRAP read, and two waiting. Values have no
  word, one and two.
* `CHECK_DEADLOCK FALSE` is given only where the program may stop: `CtrlConfig`
  (the file ends, or undefined behaviour), `Sysmon` (exit in oneshot mode or when a request cannot be sent, or the crash),
  `Rtnl` (exit when a request cannot be sent) and `CtrlTool` (exit).
  `OsysmonCtrl`, `OpenVpn` and `Probes` never stop, and deadlock is checked.

### 3.4 Fairness

* `ProcessFair`: the code passes a timeout to every `select()`, so the process
  moves on from every state but `body`.
* `PayloadFair` and `ServerFair`: assumptions about the network, not the code: a
  started frame is completed or its connection ends, `connect()` ends, a server
  answers. `StallingSpec` is without the first; this is `ctrl_stall`. A server that
  sends frames of other protocols for ever and never answers is excluded by `ServerFair`: the
  loop of `simple_ctrl.c:206` has no bound of its own, and `PollsRecur` does not say that it ends then.
* `OpenVpn`: the main loop runs due timers and ready callbacks, and the library
  reconnects; the interface answers. Nothing is assumed of how reads are cut:
  `StatusConverges` says that the report converges unless reads end short again
  and again, the connection is lost again and again, or the state keeps changing.
* `Rtnl`: the process runs, if it can: `recvfrom` has no timeout, so that there is
  something to receive is a result (`RecvNeverHangs`) and not an assumption. `PollsEnd` takes the
  exit for an end of the poll; that reports end by it only with interfaces configured is
  `ReportsRecurUnlessEnded` of `Sysmon`.
* `Probes`: liboping has a timeout. Commands get on, end, and leave nothing behind that holds
  the pipe for ever; nothing in the code guarantees this, and without it reports stop
  (`osysmon_shellcmd.c:89`). Their steps compete with each other, hence strong fairness.
* `CtrlTool`: `select()` has a timeout except in monitor mode; the server answers, as each
  frame of another protocol that it sends instead starts the timeout anew. So `ToolEnds` does not
  cover a server that goes on like that for ever.
* `Sysmon`: weak fairness of the process as a whole, which assumes that shell
  commands, files and pings end.

## 4. Proofs

Every theorem has the form `Spec => []P`, or `Spec =>` a refinement, and holds for every
value of the constants that satisfies the assumptions named here. The passing runs of section 3.1
check the same properties on small instances. Every invariant and both refinements of
these runs are proved.

| Module | Assumptions used | Properties proved |
|---|---|---|
| `OsysmonCtrlProofs` | `ServerAssumption` (types), `SimpleCtrlAssumption` (NULL differs from handles and values), `ConfigAssumption` (nothing is listed twice) | `TypeOK`, `Lockstep`, `RepliesMatch`, `FramesAligned`, `DescriptorsOwned`, `SectionsHonest`, `ReportsCurrentValues` (the refinement of `CtrlReport`) |
| `CtrlConfigProofs` | `BoundAssumption` (that `Nobody` is no name), for the refinement only | `TypeOK`, `NamesUnique`, `IndexMatchesNode`, `AliveAreLinked`, `ImplementsMap` (the refinement of `CtrlConfigMap`) |
| `OpenVpnProofs` | `LinesAssumption` (state lines are printable; the other texts do not begin with a digit) | `TypeOK`, `OnlyFromThisConnection`, `ConnectedIffUp` |
| `RtnlProofs` | `RtnlAssumption` (types) | `TypeOK`, `RecvNeverHangs`, `ShownCoexisted`, `ShownHeld`, `CompleteOrFailed` |
| `ProbesProofs` | `PingAssumption`, `FileAssumption`, `ShellcmdAssumption` (types and sizes) | `TypeOK`, `CommandShown`, `NoChildLeft`, `FileShownWasThere`, `RoundBefore` |
| `CtrlToolProofs` | `ToolAssumption`, `ServerAssumption`, `SimpleCtrlAssumption` (types; NULL differs from values) | `TypeOK`, `ExitZeroIsTrue`, `FailureHasReason`, `MonitorPrintsAll` |
| `SysmonProofs` | `SysmonAssumption` (types) | `TypeOK`, `SiblingsDiffer`, `SectionsUnmixed`, `ConfiguredIsPrinted` |

`ConfigAssumption` of `OsysmonCtrl` is what `NamesUniqueCorrect` of `CtrlConfigProofs`
establishes of every configuration the program can read.

### 4.1 OsysmonCtrlProofs

`TypeOK` is not inductive, because the poll indexes its lists by
`cur` and `vi` and dereferences `sch[Cc]`; `Positions` says where these are in
range, and `TypeInv` is the two together. `IInv` adds, for each client,

* `LinkInv`: who owns the descriptor, and that nothing is in flight on a
  connection that is not established;
* `CutInv`: a broken stream exists only between the short read and the return;
* `LockInv`: `Lockstep`, strengthened to clients without a handle (a connection
  just made must start quiet) and to clients that are not listed;
* `WindowInv`: the present value of the variable being read is in the window, so
  that an answer given now is a permitted one.

The heart is `LockCtrlCall`/`LockPoll`: a request is sent only on a quiet
connection; after it, the queue holds at most one answer, and it is the one to this
request; whatever else ends the wait makes `ret` NULL, and the NULL makes
`GotNothing` close the connection, which empties it. `ReportInv` adds what
`shown` holds (`ShownInv`) and that a value in hand is in the window (`RetInv`); from it
follow `SectionsHonest` and the refinement, in which the steps of the library are
stutters except `AskNext` (Ask), `GotValue` (Show), `GotNothing` (GiveUp),
`PollBegin` (NewReport) and changes of values.

### 4.2 CtrlConfigProofs

`IInv` is `TypeOK`, `HeapInv`, `IndexMatchesNode`, `NamesUnique` and
`AliveAreLinked`. `HeapInv` is what the C types do not say and the lists rely on: the list
of clients holds clients, the list of a client holds variables, and these point back to this
client. With it, a command that walks, appends or unlinks is shown to disturb one list
only. `IndexMatchesNode` is part of the types as `heap[index]` is read by every command
inside a section; that it survives `no ctrl-client` is because that command is available in
the configuration node alone, where `index` is not used. `NamesUnique` needs that a walk
which defines its result has seen the whole list when it found nothing.

`ImplementsMapCorrect` is the refinement. `Config` is computed by a recursive function over
the list of variables (`Alive`), so the proof first says what that function does to
each change of a list: `AliveAppend`, `AliveSame`, `AliveMembers`, and `AliveFreed` (an element
that is freed where it stands is taken out of its place, and the others keep theirs). Then there
is one lemma per command: `MapOpen`, `MapRemove`, `MapGet`, `MapNoGet`. The invariant is needed
for what a command does *not* change: the entries of the other clients stay because the variables of
a list point back to their own client (`HeapInv`), and an entry has one place because clients
and variables of a list are distinct (`NamesUnique`). Undefined behaviour and the poll are stutters.

### 4.3 OpenVpnProofs

`Inv` is `TypeOK` and

* `LinkInv`: `ConnectedIffUp` of all clients there have been, and that none is connected
  while the configuration is read, so that removing one cannot leave the flag set;
* `QuietInv`: nothing has been received without a connection, which is what makes a
  refused connection harmless when the library does not call back;
* `HeardInv`: `OnlyFromThisConnection` of all clients there have been.

The lemmas are about data: `TokenIsPart` (a token is a part of the message, not empty, without
comma and end of line), `AtoiIsPort` (what `atoi` takes of it is digits), `Parsed` (`parse_state`
keeps what there is or takes tokens of this message, whatever their number and order), and `Read`
(wherever a read ends, what it takes and what it leaves are made of what was sent). So the types
speak of parts of fields: that an address is a *whole* field is not true of the code, and not claimed.

### 4.4 RtnlProofs

`Inv` is `TypeOK` with `WaitInv`, which bounds the buffer and says that whoever waits for a
datagram has one, or the end of the dump, still to come (this is `RecvNeverHangs`);
`TidyInv`: replies stay behind only when an answer was given up; `SeenInv`: what is in the
buffer and of the present request was true during this poll; `LinksInv`: all that
is shown and will be shown from the dump stems from one set of links. The last is the hard one,
as the kernel writes a dump in pieces between which links change: `OneSet` says that every
datagram up to the first one to be refused is of one set, and that a change marks
(`NLM_F_DUMP_INTR`) all that follows.

### 4.5 ProbesProofs

`Inv` is `TypeOK` with `StageInv` (one component has the thread) and `ChildInv` (a command is
there exactly while its pipe is open); `RoundInv`: what liboping has of each host is
one round ahead once this report has sent its pings; `FileInv`: what may still be read
from the open file was at its path during this poll; `BufferInv`: buffer and pipe together are
what was written, or the buffer is full of its beginning; `ShownInv`: each command is shown
once, with its own output.

### 4.6 CtrlToolProofs

`IInv` is the four properties with `StageInv` (how far the process has come, and what of
the connection goes with it); `AnswerInv`: at most one request is out, it is the
tool's own, a reply on the wire answers it, a reply to SET is there only once the value has been
set, and the value to be read is in the window; `ResultInv`: what the call returns is the value
set, or the first word of a value in the window; and `UntroubledInv`: with nothing in the way
the connection stands, and the call returns a result unless the value is not one word. TRAPs are
numbered, so that `MonitorPrintsAll` says which have been printed, are on the wire, and in which
order; the lemmas `OrderAppendTrap`, `OrderTail` and `PrintedAppend` say how sending,
reading and printing move the boundary.

### 4.7 SysmonProofs

`IInv` is `TypeOK` with `ConfDistinct` (no kind has a name twice); `GoodRoot`: siblings
differ and sections are unmixed, for any tree a poll function may leave; `NoReport`: the tree is
empty outside a report; `RootOwners`: a section belongs to a component that has
been polled and has the heading of this component, or the name of a client; `AskedPast`: only
poll functions that are past have asked for something or got an error in this report; and
`AllDone`: each poll function that is past has done what it has to do (`Done`), which after an
error of liboping is to show the hosts before the one concerned (`PrefixPolled`).
`ConfiguredIsPrinted` is `AllDone` when all are past. The hard case is a client that has the name of another component's section, before
that component is polled: `HeadingTaken` says that only a client can have taken it, and this
is the exception `ConfiguredIsPrinted` makes. `AddAllFacts` and `ClientSectionsFacts` say what the
functions compute that add a list of nodes and a list of clients.

### 4.8 SetInduction

The induction theorems of the standard library take an operator as a parameter, which the
provers cannot instantiate. `NatSetInduction` states induction for a set instead (of the numbers
that have the property), and is proved from the well-foundedness of strict inclusion
on finite sets; `BoundedInduction` is the same up to a bound. `IterationExists` says
that a function defined by steps exists, so that a recursive function `f[n]`, which
is a CHOOSE, is known to satisfy its equations.

### 4.9 Only model-checked

All liveness properties, as liveness under fairness and ENABLED are out of TLAPS's reach:
`PollsRecur`, `RecoversAlone`, `StatusConverges`, `PollsEnd`, `ReportsRecur`, `ToolEnds` and
`ReportsRecurUnlessEnded`. That `RecvNeverHangs` is proved takes from `PollsEnd` the part that is
safety: the process never waits for what nobody owes it.

No module that is proved about declares a RECURSIVE operator, or uses one that does.

## 5. Not modelled

* The memory of handles and messages: the handle that `simple_ctrl_open` does not free when it
  fails (`simple_ctrl.c:121`), the message that is not freed when a write fails
  (`:235`), the message of each poll of an interface that is not connected
  (`osysmon_openvpn.c:280`). Each is a plain leak in one function; nothing reads it later.
* The node of a second address of an interface, which has the name of the first and is
  refused (`osysmon_rtnl.c:311`): `Rtnl` keeps the first address only, and no property
  asks for the others, as nothing in the repository promises them.
* A path that is a FIFO, on which `fopen` waits for a writer (`osysmon_file.c`).
* The two kinds of `match_config` that nobody calls; failures to allocate memory.
* Signals, logging, daemonizing, command-line parsing other than `-o`. There
  is no interactive VTY: commands come from the configuration file, which is read
  before the main loop starts.
* Formatting of numbers and the layout of the printed tree; the numbers of `sysinfo()`.
* The Perl script and the build files.

## 6. Plan

The components of the program are modelled, and every safety property of a passing run is
proved. What is left:

1. Lemmas stated once: `CtrlToolProofs`, `SysmonProofs` and `CtrlConfigProofs` have facts about
   Append and RemoveAt of their own, in the form each needs.
2. Action properties and results about the deviations: that in `CtrlConfig` no list ever holds a
   freed object as long as no `no get-variable` has been read; that the orphans of `Sysmon` are
   all that is left between two reports.
