-------------------------------- MODULE Ping --------------------------------
(***************************************************************************)
(* osysmon_ping.c: each poll shows what liboping knows of the configured   *)
(* hosts and then sends the next round of pings.                           *)
(*                                                                         *)
(* External: liboping.  A round sends one ping to each host and waits for  *)
(* the replies or its timeout.  The name of a host that does not fit the   *)
(* caller's buffer is an error.                                            *)
(***************************************************************************)
EXTENDS Naturals, Sequences

CONSTANTS
    Hosts,      \* the hosts of g_oss->pings
    MaxSeq      \* sequence numbers are 0..MaxSeq

ASSUME PingAssumption ==
    /\ Hosts \in Seq(STRING)
    /\ \A i, j \in 1 .. Len(Hosts) : Hosts[i] = Hosts[j] => i = j
    /\ MaxSeq \in Nat

VARIABLES
    long,       \* hosts with a name of 127 characters or more
    ping_pc,    \* "off", "ping_send"
    known,      \* known[h]: what liboping has of host h, reduced to the sequence number
    ping_shown  \* ping_shown[h]: the same in the section of the report

pingVars == <<long, ping_pc, known, ping_shown>>

HostNames == {Hosts[i] : i \in 1 .. Len(Hosts)}
Counters == [seq : 0 .. MaxSeq]
Following(n) == (n + 1) % (MaxSeq + 1)

PingTypeOK ==
    /\ long \subseteq HostNames
    /\ ping_pc \in {"off", "ping_send"}
    /\ known \in [HostNames -> Counters]
    /\ DOMAIN ping_shown \subseteq HostNames
    /\ \A h \in DOMAIN ping_shown : ping_shown[h] \in Counters

PingInit ==
    /\ long \in {{}} \cup {{h} : h \in HostNames}
    /\ ping_pc = "off"
    /\ known = [h \in HostNames |-> [seq |-> 0]]
    /\ ping_shown = [h \in {} |-> 0]

\* The hosts before the first one whose name cannot be had.
Nameable == {Hosts[i] : i \in {k \in 1 .. Len(Hosts) : \A j \in 1 .. k : Hosts[j] \notin long}}

\* Without an error, ping_send follows.  Losses, latency and TTL come from the same
\* round as the sequence number.
PingPoll ==
    /\ ping_pc = "off"
    /\ ping_shown' = [h \in Nameable |-> known[h]]
    /\ ping_pc' = IF Hosts # <<>> /\ Nameable = HostNames THEN "ping_send" ELSE "off"
    /\ UNCHANGED <<long, known>>

PingSendTwice ==                    \* mutant: once more after the loop
    /\ ping_pc = "ping_send"
    /\ known' = [h \in HostNames |-> [seq |-> Following(Following(known[h].seq))]]
    /\ ping_pc' = "off"
    /\ UNCHANGED <<long, ping_shown>>
\* Each host answers, or does not in time.
PingSend ==
    /\ ping_pc = "ping_send"
    /\ known' = [h \in HostNames |-> [seq |-> Following(known[h].seq)]]
    /\ ping_pc' = "off"
    /\ UNCHANGED <<long, ping_shown>>
=============================================================================
