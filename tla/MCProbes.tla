------------------------------ MODULE MCProbes ------------------------------
(* Instances of Probes for TLC.                                            *)
EXTENDS Probes

MCCommands == <<"uptime", "df">>
MCHosts == <<"bsc", "msc">>
=============================================================================
