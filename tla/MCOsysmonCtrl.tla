--------------------------- MODULE MCOsysmonCtrl ----------------------------
(* Instances of OsysmonCtrl for TLC.                                       *)
EXTENDS OsysmonCtrl, TLC

CONSTANTS c1, c2, v1, v2

MCClientSeq1 == <<c1>>
MCClientSeq2 == <<c1, c2>>

\* One client with two variables.
MCGetVars1 == [c \in Clients |-> <<v1, v2>>]

\* Two clients: the first with two variables, the second with one.
MCGetVars2 == (c1 :> <<v1, v2>>) @@ (c2 :> <<v2>>)

MCKnownAll == [c \in Clients |-> Vars]

\* The server of c1 does not know the second of its variables.
MCKnownSome == (c1 :> {v1}) @@ (c2 :> {v1, v2})

MCEmptyWord == ""
MCWords == {"", "on", "off"}
MCOneValue == {<<"on">>}

\* A value of no word and one of two words.
MCTwoValues == {<<>>, <<"off", "on">>}
=============================================================================
