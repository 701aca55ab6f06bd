------------------------------ MODULE MCSysmon ------------------------------
(* Instances of Sysmon for TLC.                                            *)
EXTENDS Sysmon

MCClientVars == <<"v1", "v2">>
=============================================================================
