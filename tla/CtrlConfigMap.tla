--------------------------- MODULE CtrlConfigMap ----------------------------
(***************************************************************************)
(* What the ctrl-client part of the configuration file means: a list of    *)
(* clients, each with a name, an address and a list of variables, in the   *)
(* order of their first mention and without repetition.  A line changes    *)
(* nothing but the client whose section it stands in.                      *)
(***************************************************************************)
EXTENDS Naturals, Sequences, SequencesExt

CONSTANTS Names, Addrs, Vars, Nobody

VARIABLES
    config,     \* sequence of [name, addr, vars]
    section     \* the name of the client whose section is open, or Nobody

vars == <<config, section>>

Mentions(n) == \E i \in 1 .. Len(config) : config[i].name = n

Init == config = <<>> /\ section = Nobody

\* The same client may be opened again; with another address it is refused.
OpenSection(n, a) ==
    /\ section = Nobody
    /\ section' = n
    /\ \/ /\ \E i \in 1 .. Len(config) : config[i].name = n /\ config[i].addr = a
          /\ UNCHANGED config
       \/ /\ ~Mentions(n)
          /\ config' = Append(config, [name |-> n, addr |-> a, vars |-> <<>>])

CloseSection ==
    /\ section' = Nobody
    /\ UNCHANGED config

RemoveClient(n) ==
    /\ section = Nobody
    /\ \E i \in 1 .. Len(config) :
            config[i].name = n /\ config' = RemoveAt(config, i)
    /\ UNCHANGED section

\* A variable that is there keeps its place.
AddVar(v) ==
    /\ section # Nobody
    /\ \E i \in 1 .. Len(config) :
            /\ config[i].name = section
            /\ config' = IF \E j \in 1 .. Len(config[i].vars) : config[i].vars[j] = v
                         THEN config
                         ELSE [config EXCEPT ![i].vars = Append(@, v)]
    /\ UNCHANGED section

RemoveVar(v) ==
    /\ section # Nobody
    /\ \E i \in 1 .. Len(config) : \E j \in 1 .. Len(config[i].vars) :
            /\ config[i].name = section /\ config[i].vars[j] = v
            /\ config' = [config EXCEPT ![i].vars = RemoveAt(@, j)]
    /\ UNCHANGED section

Next ==
    \/ \E n \in Names, a \in Addrs : OpenSection(n, a)
    \/ CloseSection
    \/ \E n \in Names : RemoveClient(n)
    \/ \E v \in Vars : AddVar(v) \/ RemoveVar(v)

Spec == Init /\ [][Next]_vars
=============================================================================
