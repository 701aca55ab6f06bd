----------------------------- MODULE CtrlReport -----------------------------
(***************************************************************************)
(* What the CTRL part of a report promises, whatever the network does: a   *)
(* variable is read at most once per report, and what is shown for it is   *)
(* (the first word of) a value it had between the moment it was asked for  *)
(* and the moment it was shown -- never an answer to an older question,    *)
(* nor to a question about another variable or another server.             *)
(***************************************************************************)
EXTENDS Sequences

CONSTANTS
    Clients, Vars,
    Values,     \* what a variable may hold: sequences of words
    EmptyWord,  \* what is shown of a value of no words
    Nobody      \* not a <<client, variable>>

VARIABLES
    sval,    \* sval[c][v]: the value of v at the server of c, now
    shown,   \* shown[c]: what the report says of c
    asked,   \* the <<client, variable>> being read, or Nobody
    window   \* the values it has had since it was asked for

vars == <<sval, shown, asked, window>>

FirstWord(val) == IF val = <<>> THEN EmptyWord ELSE Head(val)

Init ==
    /\ sval \in [Clients -> [Vars -> Values]]
    /\ shown = [c \in Clients |-> {}]
    /\ asked = Nobody
    /\ window = {}

NewReport ==
    /\ asked = Nobody
    /\ shown' = [c \in Clients |-> {}]
    /\ UNCHANGED <<sval, asked, window>>

Ask(c, v) ==
    /\ asked = Nobody
    /\ \A e \in shown[c] : e.var # v
    /\ asked' = <<c, v>>
    /\ window' = {sval[c][v]}
    /\ UNCHANGED <<sval, shown>>

Change(c, v, x) ==
    /\ sval' = [sval EXCEPT ![c][v] = x]
    /\ window' = IF asked = <<c, v>> THEN window \cup {x} ELSE window
    /\ UNCHANGED <<shown, asked>>

Show ==
    /\ \E c \in Clients, v \in Vars, x \in window :
            /\ asked = <<c, v>>
            /\ shown' = [shown EXCEPT ![c] = @ \cup {[var |-> v, val |-> FirstWord(x)]}]
    /\ asked' = Nobody
    /\ UNCHANGED <<sval, window>>

GiveUp ==
    /\ asked # Nobody
    /\ asked' = Nobody
    /\ UNCHANGED <<sval, shown, window>>

Next ==
    \/ NewReport
    \/ \E c \in Clients, v \in Vars : Ask(c, v)
    \/ \E c \in Clients, v \in Vars, x \in Values : Change(c, v, x)
    \/ Show
    \/ GiveUp

Spec == Init /\ [][Next]_vars
=============================================================================
