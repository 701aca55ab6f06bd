------------------------------ MODULE OpenVpn -------------------------------
(***************************************************************************)
(* osysmon_openvpn.c: clients of OpenVPN management interfaces.  They are  *)
(* created while the configuration file is read; then the main loop calls  *)
(* back on connect, input and disconnect, and the print timer polls.       *)
(*                                                                         *)
(* External, modelled from their use: libosmo-netif's stream client, which *)
(* reconnects by itself, and the management interface, which greets, and   *)
(* answers "state" with a line of comma-separated fields and "END".  What  *)
(* it sends is a stream of characters, and a read may end anywhere in it.  *)
(***************************************************************************)
EXTENDS Naturals, Sequences, FiniteSets, SequencesExt

CONSTANTS
    Hosts,      \* HOST <1-65535> of a management interface
    Chars,      \* printable characters other than the comma; "END" and ">INFO" stand
                \* for the other texts an interface sends, and are never cut
    Digits,     \* isdigit
    States,     \* the state lines an interface may send
    TmpSize,    \* sizeof(tmp) - 1 of parse_state
    MaxQueries, \* bound: "state" commands sent and not yet answered
    MaxStream,  \* bound: an answer is sent when no more than this is unread
    Null        \* a NULL string

Comma == ","
Eol == "\r\n"   \* not printable; a read may as well end before as within it

ASSUME LinesAssumption ==
    /\ Digits \subseteq Chars /\ {"END", ">INFO"} \subseteq Chars \ Digits
    /\ {Comma, Eol} \cap Chars = {}
    /\ \A s \in States : s \in Seq(Chars \cup {Comma})
    /\ {TmpSize, MaxQueries} \subseteq Nat \ {0} /\ MaxStream \in Nat

VARIABLES
    vpns,       \* g_oss->openvpn_clients
    running,    \* the configuration file has been read
    client,     \* client[h]: the struct openvpn_client of h
    shown,      \* shown[h]: its section of the last report
    conn,       \* conn[h]: the stream client's connection
    queries,    \* queries[h]: "state" commands on their way
    stream,     \* stream[h]: what is on its way back
    tunnel,     \* tunnel[h]: the state line the interface sends now
    received    \* history: the characters received on this connection

clientVars == <<vpns, running, client, shown>>
vars == <<clientVars, conn, queries, stream, tunnel, received>>

\* What strtok returns: a field, or the part of it that was received.
Token == Seq(Chars) \ {<<>>}

Texts == {<<<<"connecting">>>>, <<<<"connected">>>>, <<<<"disconnected">>>>}
Zero == <<"0">>

\* rem_cfg->name, tun_ip, rem_cfg->remote_host and ->remote_port, connected.
Fresh == [name |-> <<<<"connecting">>>>, tun_ip |-> Null, host |-> Null, port |-> Zero,
          connected |-> FALSE]

Names == Texts \cup [1 .. 1 -> Token] \cup [1 .. 2 -> Token]
Addresses == {Null} \cup Token
Ports == {Zero} \cup Seq(Digits)

ClientRecord ==
    [name : Names, tun_ip : Addresses, host : Addresses, port : Ports, connected : BOOLEAN]

SectionRecord ==
    [status : {Null} \cup Names, tunnel : Addresses, remote : {Null} \cup (Token \X Ports)]

NothingShown == [status |-> Null, tunnel |-> Null, remote |-> Null]

TypeOK ==
    /\ vpns \in Seq(Hosts)
    /\ running \in BOOLEAN
    /\ client \in [Hosts -> ClientRecord]
    /\ shown \in [Hosts -> SectionRecord]
    /\ conn \in [Hosts -> {"none", "connecting", "up", "waiting"}]
    /\ queries \in [Hosts -> 0 .. MaxQueries]
    /\ stream \in [Hosts -> Seq(Chars \cup {Comma, Eol})]
    /\ tunnel \in [Hosts -> States]
    /\ received \in [Hosts -> SUBSET Chars]

Init ==
    /\ vpns = <<>>
    /\ running = FALSE
    /\ client = [h \in Hosts |-> Fresh]
    /\ shown = [h \in Hosts |-> NothingShown]
    /\ conn = [h \in Hosts |-> "none"]
    /\ queries = [h \in Hosts |-> 0]
    /\ stream = [h \in Hosts |-> <<>>]
    /\ tunnel \in [Hosts -> States]
    /\ received = [h \in Hosts |-> {}]

-----------------------------------------------------------------------------
(* Configuration.                                                          *)

\* openvpn_client_find_or_make only finds.
Found(h) == h \in Range(vpns)

\* openvpn HOST PORT.  A client that is there already is kept; connecting may
\* fail at once, and then there is no client.
Create(h) ==
    /\ ~running
    /\ ~Found(h)
    /\ vpns' = Append(vpns, h)
    /\ client' = [client EXCEPT ![h] = Fresh]
    /\ conn' = [conn EXCEPT ![h] = "connecting"]
    /\ UNCHANGED <<running, shown, queries, stream, tunnel, received>>

\* no openvpn HOST PORT
Destroy(h) ==
    /\ ~running
    /\ \E i \in 1 .. Len(vpns) : vpns[i] = h /\ vpns' = RemoveAt(vpns, i)
    /\ conn' = [conn EXCEPT ![h] = "none"]
    /\ UNCHANGED <<running, client, shown, queries, stream, tunnel, received>>

Run ==
    /\ ~running
    /\ running' = TRUE
    /\ UNCHANGED <<vpns, client, shown, conn, queries, stream, tunnel, received>>

-----------------------------------------------------------------------------
(* Callbacks.                                                              *)

ConnectCb(h) ==
    /\ running
    /\ conn[h] = "connecting"
    /\ conn' = [conn EXCEPT ![h] = "up"]
    /\ client' = [client EXCEPT ![h].name = <<<<"connected">>>>, ![h].connected = TRUE]
    /\ stream' = [stream EXCEPT ![h] = <<">INFO", Eol>>]
    /\ UNCHANGED <<vpns, running, shown, queries, tunnel, received>>

DisconnectCbKeepingState(h) ==      \* mutant: only the name and the flag are set
    client' = [client EXCEPT ![h].name = <<<<"disconnected">>>>, ![h].connected = FALSE]
DisconnectCbStillConnected(h) ==    \* mutant: connected is not reset
    client' = [client EXCEPT ![h].name = <<<<"disconnected">>>>,
                             ![h].tun_ip = Null,
                             ![h].host = Null]
DisconnectCbDangling(h) ==          \* mutant: the freed strings are not set to NULL
    client' = [client EXCEPT ![h].name = <<<<"disconnected">>>>,
                             ![h].connected = FALSE,
                             ![h].tun_ip = IF @ = Null THEN Null ELSE <<"freed">>,
                             ![h].host = IF @ = Null THEN Null ELSE <<"freed">>]
DisconnectCb(h) ==
    client' = [client EXCEPT ![h].name = <<<<"disconnected">>>>,
                             ![h].connected = FALSE,
                             ![h].tun_ip = Null,
                             ![h].host = Null]

\* The connection ends (read_cb then gets an empty message, and does nothing
\* with it) or is not made.  The library does not always call back for the
\* latter.
Disconnect(h) ==
    /\ running
    /\ conn[h] \in {"connecting", "up"}
    /\ DisconnectCb(h) \/ (conn[h] = "connecting" /\ UNCHANGED client)
    /\ conn' = [conn EXCEPT ![h] = "waiting"]
    /\ queries' = [queries EXCEPT ![h] = 0]
    /\ stream' = [stream EXCEPT ![h] = <<>>]
    /\ received' = [received EXCEPT ![h] = {}]
    /\ UNCHANGED <<vpns, running, shown, tunnel>>

\* The library's reconnect timer.
Reconnect(h) ==
    /\ conn[h] = "waiting"
    /\ conn' = [conn EXCEPT ![h] = "connecting"]
    /\ UNCHANGED <<clientVars, queries, stream, tunnel, received>>

\* strtok on what parse_state copies of the message, up to what is not printable: the
\* first and the last position of each token.
Tokens(msg) ==
    LET size   == IF Len(msg) < TmpSize THEN Len(msg) ELSE TmpSize
        firsts == {i \in 1 .. size : i = 1 \/ msg[i - 1] = Comma}
        lasts  == {i \in 1 .. size : i = size \/ msg[i + 1] \in {Comma, Eol}}
    IN  {t \in firsts \X lasts :
            /\ t[1] <= t[2] /\ \A i \in t[1] .. t[2] : msg[i] \in Chars
            /\ \A i \in 1 .. t[1] : msg[i] # Eol}

Atoi(tok) ==
    LET ends == {n \in DOMAIN tok :
                    /\ \A i \in 1 .. n : tok[i] \in Digits
                    /\ n = Len(tok) \/ tok[n + 1] \notin Digits}
    IN  IF ends = {} THEN Zero ELSE SubSeq(tok, 1, CHOOSE n \in ends : TRUE)

\* The tokens that are there are taken by their number; the first one is a time.
Updated(c, msg) ==
    LET tokens == Tokens(msg)
        Nth(n) == {t \in tokens : Cardinality({u \in tokens : u[1] <= t[1]}) = n}
        There(n) == Nth(n) # {}
        Tok(n) == LET t == CHOOSE t \in Nth(n) : TRUE IN SubSeq(msg, t[1], t[2])
    IN  [c EXCEPT
            !.name   = IF There(2)
                       THEN IF There(3) THEN <<Tok(2), Tok(3)>> ELSE <<Tok(2)>>
                       ELSE @,
            !.tun_ip = IF There(4) THEN Tok(4) ELSE @,
            !.host   = IF There(5) THEN Tok(5) ELSE @,
            !.port   = IF There(6) THEN Atoi(Tok(6)) ELSE @]

ParseState(c, msg) == IF msg[1] \in Digits THEN Updated(c, msg) ELSE c

\* One recv returns some of what has been sent.
ReadCb(h) ==
    /\ conn[h] = "up"
    /\ \E n \in 1 .. Len(stream[h]) :
          LET msg == SubSeq(stream[h], 1, n)
          IN  /\ stream' = [stream EXCEPT ![h] = SubSeq(@, n + 1, Len(@))]
              /\ client' = [client EXCEPT ![h] = ParseState(@, msg)]
              /\ received' = [received EXCEPT ![h] = @ \cup (Range(msg) \cap Chars)]
    /\ UNCHANGED <<vpns, running, shown, conn, queries, tunnel>>

-----------------------------------------------------------------------------
MakeAuthority(c) == IF c.host = Null THEN Null ELSE <<c.host, c.port>>

Section(c) == [status |-> c.name, tunnel |-> c.tun_ip, remote |-> MakeAuthority(c)]

PollOnly(h) ==      \* mutant: "state" is not sent
    /\ running
    /\ h \in Range(vpns)
    /\ shown' = [shown EXCEPT ![h] = Section(client[h])]
    /\ UNCHANGED <<vpns, running, client, conn, queries, stream, tunnel, received>>
\* openvpn_client_poll.  "state" is sent whatever has become of the last one.
Poll(h) ==
    /\ running
    /\ h \in Range(vpns)
    /\ shown' = [shown EXCEPT ![h] = Section(client[h])]
    /\ queries' = IF client[h].connected /\ queries[h] < MaxQueries
                  THEN [queries EXCEPT ![h] = @ + 1]
                  ELSE queries
    /\ UNCHANGED <<vpns, running, client, conn, stream, tunnel, received>>

\* The management interface.
Answer(h) ==
    /\ conn[h] = "up" /\ queries[h] > 0 /\ Len(stream[h]) <= MaxStream
    /\ stream' = [stream EXCEPT ![h] = @ \o tunnel[h] \o <<Eol, "END", Eol>>]
    /\ queries' = [queries EXCEPT ![h] = @ - 1]
    /\ UNCHANGED <<clientVars, conn, tunnel, received>>

TunnelChanges(h, line) ==
    /\ tunnel[h] # line
    /\ tunnel' = [tunnel EXCEPT ![h] = line]
    /\ UNCHANGED <<clientVars, conn, queries, stream, received>>

Next ==
    \/ Run
    \/ \E h \in Hosts :
        \/ Create(h) \/ Destroy(h)
        \/ ConnectCb(h) \/ Disconnect(h) \/ Reconnect(h) \/ ReadCb(h)
        \/ Poll(h) \/ Answer(h)
        \/ \E line \in States : TunnelChanges(h, line)

Spec == Init /\ [][Next]_vars

\* The main loop runs its timers and callbacks; the interface answers.
FairSpec ==
    /\ Spec
    /\ \A h \in Hosts :
        /\ WF_vars(ConnectCb(h)) /\ WF_vars(Reconnect(h))
        /\ WF_vars(ReadCb(h)) /\ WF_vars(Poll(h)) /\ WF_vars(Answer(h))

-----------------------------------------------------------------------------
(* Properties.                                                             *)

\* What the client says of the tunnel was received on the connection it has
\* now, or it is one of its own texts: after a disconnect nothing is left of
\* what the last connection said -- except the port.
OnlyFromThisConnection ==
    \A h \in Range(vpns) :
        LET c == client[h]
        IN  /\ c.name \in Texts \/ \A tok \in Range(c.name) : Range(tok) \subseteq received[h]
            /\ \A tok \in {c.tun_ip, c.host} : tok = Null \/ Range(tok) \subseteq received[h]

\* The flag follows the connection through lost and refused connections and
\* reconnects, so "state" is sent on an established connection only, and on
\* every one.
ConnectedIffUp ==
    \A h \in Range(vpns) : client[h].connected <=> conn[h] = "up"

Disturbed(h) ==
    \/ Disconnect(h)
    \/ \E line \in States : TunnelChanges(h, line)
    \/ stream'[h] # <<>> /\ ReadCb(h)       \* a read that does not take all that was sent

StatusOf(line) == ParseState(Fresh, line).name

\* If the interface goes on saying the same on a connection that is not lost, and
\* reads come to take all that was sent, the report comes to show that state,
\* although a poll shows what was last received, only the first line of each
\* message is looked at, a message that does not begin with a digit is dropped, and
\* earlier reads may have ended anywhere, also within a field.
StatusConverges ==
    \A h \in Hosts :
        \/ []<><<Disturbed(h)>>_vars
        \/ []<>(~running \/ h \notin Range(vpns))
        \/ <>[](shown[h].status = StatusOf(tunnel[h]))

\* The characters of the n-th field of a line.
FieldOf(line, n) ==
    {line[i] : i \in {j \in DOMAIN line :
        line[j] # Comma /\ Cardinality({k \in 1 .. j : line[k] = Comma}) = n - 1}}

\* "Fields ... are parsed from response to 'state' command" (osysmon_openvpn.c:51)
\* and are known by their position (osysmon_openvpn.c:58-63): an address that is
\* shown next to the status of a line is that field of the line, or the part of the
\* field that was received.
SectionMatchesLine ==
    \A h \in Range(vpns) : \A line \in States :
        LET Part(tok, n) ==
                \E l \in States : /\ StatusOf(l) = StatusOf(line)
                                  /\ Range(tok) \subseteq FieldOf(l, n)
        IN  shown[h].status = StatusOf(line) =>
                /\ shown[h].tunnel = Null \/ Part(shown[h].tunnel, 4)
                /\ shown[h].remote = Null \/ Part(shown[h].remote[1], 5)
=============================================================================
