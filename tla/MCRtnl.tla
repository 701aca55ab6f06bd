------------------------------- MODULE MCRtnl -------------------------------
(* Instances of Rtnl for TLC: the third interface has the name of the      *)
(* first, so that one may be taken for the other.                          *)
EXTENDS Rtnl

MCNameOf == <<"eth0", "eth1", "eth0", "lo">>
=============================================================================
