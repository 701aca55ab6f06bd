----------------------------- MODULE CtrlConfig -----------------------------
(***************************************************************************)
(* osysmon_ctrl.c, configuration part: the VTY commands that build the     *)
(* list of ctrl-clients while the configuration file is read.  Objects are *)
(* talloc chunks; a chunk that has been freed may still be linked, and     *)
(* what a walk over a list that holds one does is undefined.               *)
(***************************************************************************)
EXTENDS Naturals, Sequences, SequencesExt

CONSTANTS
    Names,      \* NAME of a ctrl-client
    Addrs,      \* its A.B.C.D <1-65535>
    Vars,       \* NAME of a get-variable
    MaxObjects, \* bound on the objects ever allocated
    Nobody      \* for the properties: no section is open

ASSUME BoundAssumption ==
    /\ MaxObjects \in Nat
    /\ Nobody \notin Names

VARIABLES
    heap,       \* every object ever allocated; pointers are positions in it
    freed,      \* those that have been freed
    clients,    \* g_oss->ctrl_clients
    node,       \* vty->node
    index,      \* vty->index; 0 is NULL
    undefined   \* a freed object has been read: anything may happen from here on

vars == <<heap, freed, clients, node, index, undefined>>

Pointers == 1 .. Len(heap)

ClientObject == [kind : {"client"}, name : Names, addr : Addrs, gets : Seq(Nat)]
GetVarObject == [kind : {"getvar"}, name : Vars, cc : Nat]

Nodes == {"CONFIG_NODE", "CTRL_CLIENT_NODE", "CTRL_CLIENT_GETVAR_NODE"}

TypeOK ==
    /\ heap \in Seq(ClientObject \cup GetVarObject)
    /\ \A p \in Pointers : heap[p].kind = "client" => heap[p].gets \in Seq(Pointers)
    /\ freed \subseteq Pointers
    /\ clients \in Seq(Pointers)
    /\ node \in Nodes
    /\ index \in {0} \cup Pointers
    /\ undefined \in BOOLEAN

Init ==
    /\ heap = <<>>
    /\ freed = {}
    /\ clients = <<>>
    /\ node = "CONFIG_NODE"
    /\ index = 0
    /\ undefined = FALSE

Enter(n, p) == node' = n /\ index' = p

-----------------------------------------------------------------------------
(* ctrl-client NAME A.B.C.D <1-65535>                                      *)

Named(list, x) == {p \in Range(list) : heap[p].name = x}

CreateClientNoListHead(n, a) ==     \* mutant: no INIT_LLIST_HEAD, next is NULL
    /\ Len(heap) < MaxObjects
    /\ heap' = Append(heap, [kind |-> "client", name |-> n, addr |-> a, gets |-> <<0>>])
    /\ clients' = Append(clients, Len(heap'))
    /\ Enter("CTRL_CLIENT_NODE", Len(heap'))
\* ctrl_client_create: at the end of the list.
CreateClient(n, a) ==
    /\ Len(heap) < MaxObjects
    /\ heap' = Append(heap, [kind |-> "client", name |-> n, addr |-> a, gets |-> <<>>])
    /\ clients' = Append(clients, Len(heap'))
    /\ Enter("CTRL_CLIENT_NODE", Len(heap'))

CtrlClientByAddr(n, a) ==   \* mutant: a client is looked for by name and address
    /\ node = "CONFIG_NODE" /\ ~undefined
    /\ \/ \E p \in Named(clients, n) :
            /\ heap[p].addr = a
            /\ Enter("CTRL_CLIENT_NODE", p)
            /\ UNCHANGED <<heap, clients>>
       \/ (\A p \in Named(clients, n) : heap[p].addr # a) /\ CreateClient(n, a)
    /\ UNCHANGED <<freed, undefined>>
\* Another address for a known name: a warning, and nothing is changed.
CtrlClient(n, a) ==
    /\ node = "CONFIG_NODE" /\ ~undefined
    /\ \/ \E p \in Named(clients, n) :
            /\ heap[p].addr = a
            /\ Enter("CTRL_CLIENT_NODE", p)
            /\ UNCHANGED <<heap, clients>>
       \/ Named(clients, n) = {} /\ CreateClient(n, a)
    /\ UNCHANGED <<freed, undefined>>

(* no ctrl-client NAME                                                     *)

\* talloc_free frees the client and what is allocated below it.
Below(p) == {p} \cup {q \in Pointers : heap[q].kind = "getvar" /\ heap[q].cc = p}

NoCtrlClientLinked(n) ==    \* mutant: no llist_del
    /\ node = "CONFIG_NODE" /\ ~undefined
    /\ \E p \in Named(clients, n) : freed' = freed \cup Below(p)
    /\ UNCHANGED <<heap, clients, node, index, undefined>>
NoCtrlClient(n) ==
    /\ node = "CONFIG_NODE" /\ ~undefined
    /\ \E i \in 1 .. Len(clients) :
            /\ heap[clients[i]].name = n
            /\ clients' = RemoveAt(clients, i)
            /\ freed' = freed \cup Below(clients[i])
    /\ UNCHANGED <<heap, node, index, undefined>>

-----------------------------------------------------------------------------
(* get-variable NAME                                                       *)

Gets == heap[index].gets

\* ctrl_client_get_var_find_or_create returns Found(v), or a new object at the
\* end of the list; the walk is defined if it meets nothing freed before Found(v).
Found(v) == Named(Gets, v) \ freed
WalkDefined(v) ==
    \A j \in 1 .. Len(Gets) : Gets[j] \in freed => \E i \in 1 .. j - 1 : Gets[i] \in Found(v)

CreateGetVar(v) ==
    /\ Len(heap) < MaxObjects
    /\ heap' = [Append(heap, [kind |-> "getvar", name |-> v, cc |-> index])
                    EXCEPT ![index].gets = Append(@, Len(heap) + 1)]

Undefined ==
    /\ undefined' = TRUE
    /\ UNCHANGED <<heap, freed, clients, node, index>>

GetVariableAgain(v) ==      \* mutant: a name is not looked for
    /\ node = "CTRL_CLIENT_NODE" /\ ~undefined
    /\ CreateGetVar(v)
    /\ Enter("CTRL_CLIENT_GETVAR_NODE", Len(heap'))
    /\ UNCHANGED <<freed, clients, undefined>>
GetVariable(v) ==
    /\ node = "CTRL_CLIENT_NODE" /\ ~undefined
    /\ \/ ~WalkDefined(v) /\ Undefined
       \/ /\ WalkDefined(v)
          /\ \/ /\ \E p \in Found(v) : Enter("CTRL_CLIENT_GETVAR_NODE", p)
                /\ UNCHANGED heap
             \/ /\ Found(v) = {}
                /\ CreateGetVar(v)
                /\ Enter("CTRL_CLIENT_GETVAR_NODE", Len(heap'))
          /\ UNCHANGED <<freed, clients, undefined>>

(* no get-variable NAME: found or created, then freed where it is linked.  *)
NoGetVariable(v) ==
    /\ node = "CTRL_CLIENT_NODE" /\ ~undefined
    /\ \/ ~WalkDefined(v) /\ Undefined
       \/ /\ WalkDefined(v)
          /\ \/ /\ \E p \in Found(v) : freed' = freed \cup {p}
                /\ UNCHANGED heap
             \/ /\ Found(v) = {}
                /\ CreateGetVar(v)
                /\ freed' = freed \cup {Len(heap')}
          /\ UNCHANGED <<clients, node, index, undefined>>

-----------------------------------------------------------------------------
GoParentKeepingIndex ==     \* mutant: vty->index is left alone
    /\ ~undefined
    /\ node' = CASE node = "CTRL_CLIENT_NODE" -> "CONFIG_NODE"
                 [] node = "CTRL_CLIENT_GETVAR_NODE" -> "CTRL_CLIENT_NODE"
                 [] OTHER -> node
    /\ UNCHANGED <<heap, freed, clients, index, undefined>>
\* A line that is indented less than the one before it.
GoParent ==
    /\ ~undefined
    /\ \/ node = "CTRL_CLIENT_NODE" /\ Enter("CONFIG_NODE", 0)
       \/ node = "CTRL_CLIENT_GETVAR_NODE" /\ Enter("CTRL_CLIENT_NODE", heap[index].cc)
    /\ UNCHANGED <<heap, freed, clients, undefined>>

\* ctrl_client_poll walks the list of every client (and so does the writing of
\* the configuration).
Poll ==
    /\ ~undefined
    /\ \E p \in Range(clients) : Range(heap[p].gets) \cap freed # {}
    /\ Undefined

Next ==
    \/ \E n \in Names, a \in Addrs : CtrlClient(n, a)
    \/ \E n \in Names : NoCtrlClient(n)
    \/ \E v \in Vars : GetVariable(v) \/ NoGetVariable(v)
    \/ GoParent
    \/ Poll

Spec == Init /\ [][Next]_vars

-----------------------------------------------------------------------------
(* Properties.                                                             *)

\* No two clients have one name, no two variables of a client have one name:
\* what OsysmonCtrl assumes of its configuration (ConfigAssumption), and what
\* keeps value_node_add from refusing a value.
NamesUnique ==
    LET Distinct(list) == \A i, j \in 1 .. Len(list) :
                            heap[list[i]].name = heap[list[j]].name => i = j
    IN  /\ Distinct(clients)
        /\ \A p \in Range(clients) : Distinct(heap[p].gets)

\* vty->index always is what the commands of vty->node take it for: a client of
\* the list, or a variable in the list of the client it points back to.
IndexMatchesNode ==
    CASE node = "CONFIG_NODE" -> index = 0
      [] node = "CTRL_CLIENT_NODE" -> index \in Range(clients)
      [] node = "CTRL_CLIENT_GETVAR_NODE" ->
            /\ index \in Pointers \ freed
            /\ heap[index].kind = "getvar"
            /\ heap[index].cc \in Range(clients)
            /\ index \in Range(heap[heap[index].cc].gets)

\* Every object that is alive is linked, so nothing is lost, and the list of
\* clients never holds one that has been freed ("no ctrl-client" unlinks before it
\* frees).  The lists of variables may (ReadsOnlyLive).
AliveAreLinked ==
    LET linked == Range(clients) \cup UNION {Range(heap[p].gets) : p \in Range(clients)}
    IN  /\ Pointers \ freed \subseteq linked
        /\ Range(clients) \cap freed = {}

Section ==
    CASE node = "CONFIG_NODE" -> Nobody
      [] node = "CTRL_CLIENT_NODE" -> heap[index].name
      [] node = "CTRL_CLIENT_GETVAR_NODE" -> heap[heap[index].cc].name

\* A list without what is in dead.
Alive(list, dead) ==
    LET alive[n \in 0 .. Len(list)] ==
            IF n = 0 THEN <<>>
            ELSE IF list[n] \in dead THEN alive[n - 1] ELSE Append(alive[n - 1], list[n])
    IN  alive[Len(list)]

Entry(p) ==
    LET gets == Alive(heap[p].gets, freed)
    IN  [name |-> heap[p].name, addr |-> heap[p].addr,
         vars |-> [j \in 1 .. Len(gets) |-> heap[gets[j]].name]]

Config == [i \in 1 .. Len(clients) |-> Entry(clients[i])]

\* The commands do to the objects that are alive what the lines of the file say
\* (CtrlConfigMap), as long as no freed object is read.
Map == INSTANCE CtrlConfigMap WITH config <- Config, section <- Section
ImplementsMap == Map!Spec

\* The walks over the lists only read objects that have not been freed ("list of
\* ctrl_client_get_var objects", osysmon_ctrl.c:39).
ReadsOnlyLive == ~undefined
=============================================================================
