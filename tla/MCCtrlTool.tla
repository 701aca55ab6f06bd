----------------------------- MODULE MCCtrlTool -----------------------------
(* Instances of CtrlTool for TLC: one variable, and values of no word, one *)
(* word and two.                                                           *)
EXTENDS CtrlTool

MCKnown == [c \in Clients |-> Vars]
MCEmptyWord == ""
MCWords == {"", "on", "off"}
MCValues == {<<>>, <<"on">>, <<"off", "on">>}
=============================================================================
