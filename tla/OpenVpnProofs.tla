--------------------------- MODULE OpenVpnProofs ----------------------------
(***************************************************************************)
(* What is proved of OpenVpn for any number of interfaces, any state lines, *)
(* any sizeof(tmp) and any way in which reads cut what was sent.           *)
(***************************************************************************)
EXTENDS OpenVpn, SequenceTheorems, TLAPS

\* ConnectedIffUp also holds of clients that have been removed, as nothing is
\* connected before the main loop runs.
LinkInv ==
    /\ \A h \in Hosts : client[h].connected <=> conn[h] = "up"
    /\ ~running => \A h \in Hosts : conn[h] # "up"

Heard(c, r) ==
    /\ c.name \in Texts \/ \A tok \in Range(c.name) : Range(tok) \subseteq r
    /\ \A tok \in {c.tun_ip, c.host} : tok = Null \/ Range(tok) \subseteq r

\* OnlyFromThisConnection, of every client there has been.
HeardInv == \A h \in Hosts : Heard(client[h], received[h])

\* Nothing is heard without a connection.
QuietInv == \A h \in Hosts : conn[h] # "up" => received[h] = {}

Inv == TypeOK /\ LinkInv /\ QuietInv /\ HeardInv

\* What an interface sends is made of these.
Sent == Chars \cup {Comma, Eol}

-----------------------------------------------------------------------------
(* Messages and their tokens.                                              *)

LEMMA RangeOfLine ==
    ASSUME NEW S, NEW s \in Seq(S)
    PROVE  /\ Len(s) \in Nat
           /\ Range(s) = {s[i] : i \in 1 .. Len(s)}
           /\ \A i \in 1 .. Len(s) : s[i] \in S
BY RangeEquality, LenProperties, ElementOfSeq

LEMMA Part ==
    ASSUME NEW S, NEW s \in Seq(S), NEW m \in 1 .. Len(s) + 1, NEW n \in 0 .. Len(s)
    PROVE  /\ SubSeq(s, m, n) \in Seq(S)
           /\ Len(SubSeq(s, m, n)) = IF m <= n THEN n - m + 1 ELSE 0
           /\ \A i \in 1 .. n - m + 1 : SubSeq(s, m, n)[i] = s[m + i - 1]
<1>1. Len(s) \in Nat /\ \A i \in 1 .. Len(s) : s[i] \in S
  BY RangeOfLine
<1>2. m \in Int /\ n \in Int /\ \A i \in m .. n : s[i] \in S
  BY <1>1
<1> QED
  BY <1>2, SubSeqProperties

\* A token is a part of the message, and neither empty nor cut in two by a comma.
LEMMA TokenIsPart ==
    ASSUME NEW msg \in Seq(Sent), NEW t \in Tokens(msg)
    PROVE  /\ SubSeq(msg, t[1], t[2]) \in Token
           /\ Range(SubSeq(msg, t[1], t[2])) \subseteq Range(msg) \cap Chars
<1> DEFINE size == IF Len(msg) < TmpSize THEN Len(msg) ELSE TmpSize
           tok  == SubSeq(msg, t[1], t[2])
<1>1. Len(msg) \in Nat /\ TmpSize \in Nat
  BY LenProperties, LinesAssumption
<1>2. /\ t[1] \in 1 .. size /\ t[2] \in 1 .. size
      /\ t[1] <= t[2] /\ \A i \in t[1] .. t[2] : msg[i] \in Chars
  BY DEF Tokens
<1>3. PICK m, n : m = t[1] /\ n = t[2]
  OBVIOUS
<1>4. m \in 1 .. Len(msg) + 1 /\ n \in 0 .. Len(msg) /\ m <= n /\ n <= Len(msg) /\ 1 <= m
  BY <1>1, <1>2, <1>3
<1>5. /\ SubSeq(msg, m, n) \in Seq(Sent)
      /\ Len(SubSeq(msg, m, n)) = n - m + 1
      /\ \A i \in 1 .. n - m + 1 : SubSeq(msg, m, n)[i] = msg[m + i - 1]
  BY <1>4, Part
<1> DEFINE part == SubSeq(msg, m, n)
<1>6. \A i \in 1 .. Len(part) : part[i] \in Chars /\ part[i] \in Range(msg)
  <2>1. TAKE i \in 1 .. Len(part)
  <2>2. i \in 1 .. n - m + 1 /\ m + i - 1 \in m .. n /\ m + i - 1 \in 1 .. Len(msg)
    BY <1>1, <1>4, <1>5
  <2>3. part[i] = msg[m + i - 1]
    BY <1>5, <2>2
  <2>4. msg[m + i - 1] \in Chars
    BY <1>2, <1>3, <2>2
  <2>5. msg[m + i - 1] \in Range(msg)
    BY <2>2, RangeOfLine
  <2> QED
    BY <2>3, <2>4, <2>5
<1> HIDE DEF part
<1>7. part \in Seq(Chars) /\ part # <<>>
  <2>1. part \in [1 .. Len(part) -> Sent] /\ Len(part) \in Nat
    BY <1>5, LenProperties DEF part
  <2>2. part \in [1 .. Len(part) -> Chars]
    BY <1>6, <2>1
  <2>3. part \in Seq(Chars)
    BY <2>1, <2>2, SeqDef
  <2>4. Len(part) # 0
    BY <1>4, <1>5 DEF part
  <2> QED
    BY <2>3, <2>4, EmptySeq
<1>8. Range(part) \subseteq Range(msg) \cap Chars
  <2>1. Range(part) = {part[i] : i \in 1 .. Len(part)}
    BY <1>7, RangeOfLine
  <2> QED
    BY <1>6, <2>1
<1> QED
  BY <1>3, <1>7, <1>8 DEF part, Token

LEMMA AtoiIsPort ==
    ASSUME NEW tok \in Token
    PROVE  Atoi(tok) \in Ports
<1> DEFINE ends == {n \in DOMAIN tok :
                      /\ \A i \in 1 .. n : tok[i] \in Digits
                      /\ n = Len(tok) \/ tok[n + 1] \notin Digits}
<1>1. /\ tok \in Seq(Chars) /\ Len(tok) \in Nat /\ DOMAIN tok = 1 .. Len(tok)
  BY LenProperties DEF Token
<1>2. ASSUME NEW n \in ends
      PROVE  SubSeq(tok, 1, n) \in Seq(Digits)
  <2>1. n \in 1 .. Len(tok) /\ \A i \in 1 .. n : tok[i] \in Digits
    BY <1>1
  <2>2. 1 \in Int /\ n \in Int
    BY <1>1, <2>1
  <2> QED
    BY <2>1, <2>2, SubSeqProperties
<1>3. Atoi(tok) = IF ends = {} THEN Zero ELSE SubSeq(tok, 1, CHOOSE n \in ends : TRUE)
  BY DEF Atoi
<1> HIDE DEF ends
<1>4. CASE ends = {}
  BY <1>3, <1>4 DEF Ports
<1>5. CASE ends # {}
  <2>1. PICK last : last = (CHOOSE n \in ends : TRUE)
    OBVIOUS
  <2>2. last \in ends
    BY <1>5, <2>1
  <2> QED
    BY <1>2, <1>3, <1>5, <2>1, <2>2 DEF Ports
<1> QED
  BY <1>4, <1>5

\* tok is what strtok returned for this message.
IsOf(tok, msg) == tok \in Token /\ Range(tok) \subseteq Range(msg) \cap Chars

\* What parse_state does to a client, of whatever message: it takes tokens of it or
\* keeps what there is.
LEMMA Parsed ==
    ASSUME NEW c \in ClientRecord, NEW msg \in Seq(Sent)
    PROVE  LET p == ParseState(c, msg)
           IN  /\ p \in ClientRecord
               /\ p.connected = c.connected
               /\ p.name = c.name \/ \A tok \in Range(p.name) : IsOf(tok, msg)
               /\ p.tun_ip = c.tun_ip \/ IsOf(p.tun_ip, msg)
               /\ p.host = c.host \/ IsOf(p.host, msg)
<1>1. CASE msg[1] \notin Digits
  BY <1>1 DEF ParseState
<1>2. CASE msg[1] \in Digits
  <2> DEFINE tokens == Tokens(msg)
             Nth(n) == {t \in tokens : Cardinality({u \in tokens : u[1] <= t[1]}) = n}
             There(n) == Nth(n) # {}
             Tok(n) == LET t == CHOOSE t \in Nth(n) : TRUE IN SubSeq(msg, t[1], t[2])
  <2>1. ASSUME NEW n, There(n)
        PROVE  IsOf(Tok(n), msg)
    <3>1. PICK nth : nth = (CHOOSE t \in Nth(n) : TRUE)
      OBVIOUS
    <3>2. nth \in Nth(n)
      BY <2>1, <3>1
    <3>3. nth \in Tokens(msg)
      BY <3>2
    <3>4. IsOf(SubSeq(msg, nth[1], nth[2]), msg)
      BY <3>3, TokenIsPart DEF IsOf
    <3> QED
      BY <3>1, <3>4
  <2> DEFINE name   == IF There(2) THEN IF There(3) THEN <<Tok(2), Tok(3)>> ELSE <<Tok(2)>>
                       ELSE c.name
             tun_ip == IF There(4) THEN Tok(4) ELSE c.tun_ip
             host   == IF There(5) THEN Tok(5) ELSE c.host
             port   == IF There(6) THEN Atoi(Tok(6)) ELSE c.port
  <2>2. ParseState(c, msg) =
          [c EXCEPT !.name = name, !.tun_ip = tun_ip, !.host = host, !.port = port]
    BY <1>2 DEF ParseState, Updated
  <2> HIDE DEF There, Tok
  <2>3. name \in Names /\ (name = c.name \/ \A tok \in Range(name) : IsOf(tok, msg))
    <3>1. CASE There(2) /\ There(3)
      <4>1. IsOf(Tok(2), msg) /\ IsOf(Tok(3), msg)
        BY <2>1, <3>1
      <4>2. name = <<Tok(2), Tok(3)>>
        BY <3>1
      <4> HIDE DEF name
      <4>3. name \in [1 .. 2 -> Token]
        BY <4>1, <4>2 DEF IsOf
      <4>4. Range(name) = {Tok(2), Tok(3)}
        BY <4>2 DEF Range
      <4> QED
        BY <4>1, <4>3, <4>4 DEF Names
    <3>2. CASE There(2) /\ ~There(3)
      <4>1. IsOf(Tok(2), msg)
        BY <2>1, <3>2
      <4>2. name = <<Tok(2)>>
        BY <3>2
      <4> HIDE DEF name
      <4>3. name \in [1 .. 1 -> Token]
        BY <4>1, <4>2 DEF IsOf
      <4>4. Range(name) = {Tok(2)}
        BY <4>2 DEF Range
      <4> QED
        BY <4>1, <4>3, <4>4 DEF Names
    <3>3. CASE ~There(2)
      <4>1. name = c.name
        BY <3>3
      <4> QED
        BY <4>1 DEF ClientRecord
    <3> QED
      BY <3>1, <3>2, <3>3
  <2>4. tun_ip \in Addresses /\ (tun_ip = c.tun_ip \/ IsOf(tun_ip, msg))
    <3>1. There(4) => IsOf(Tok(4), msg)
      BY <2>1
    <3> QED
      BY <3>1 DEF ClientRecord, Addresses, IsOf
  <2>5. host \in Addresses /\ (host = c.host \/ IsOf(host, msg))
    <3>1. There(5) => IsOf(Tok(5), msg)
      BY <2>1
    <3> QED
      BY <3>1 DEF ClientRecord, Addresses, IsOf
  <2>6. port \in Ports
    <3>1. There(6) => IsOf(Tok(6), msg)
      BY <2>1
    <3>2. There(6) => Atoi(Tok(6)) \in Ports
      BY <3>1, AtoiIsPort DEF IsOf
    <3> QED
      BY <3>2 DEF ClientRecord
  <2> HIDE DEF name, tun_ip, host, port
  <2> QED
    BY <2>2, <2>3, <2>4, <2>5, <2>6 DEF ClientRecord
<1> QED
  BY <1>1, <1>2

\* read_cb: the message is made of what interfaces send, it was received on this
\* connection, and so is what is left.
LEMMA Read ==
    ASSUME TypeOK, NEW h \in Hosts, ReadCb(h)
    PROVE  \E msg \in Seq(Sent) :
              /\ client' = [client EXCEPT ![h] = ParseState(client[h], msg)]
              /\ stream' \in [Hosts -> Seq(Sent)]
              /\ received' = [received EXCEPT ![h] = received[h] \cup (Range(msg) \cap Chars)]
<1> DEFINE s == stream[h]
<1>1. s \in Seq(Sent) /\ Len(s) \in Nat
  BY LenProperties DEF TypeOK, Sent
<1>2. PICK n \in 1 .. Len(s) :
        /\ stream' = [stream EXCEPT ![h] = SubSeq(s, n + 1, Len(s))]
        /\ client' = [client EXCEPT ![h] = ParseState(client[h], SubSeq(s, 1, n))]
        /\ received' = [received EXCEPT ![h] =
                            received[h] \cup (Range(SubSeq(s, 1, n)) \cap Chars)]
  BY DEF ReadCb, TypeOK
<1>3. /\ 1 \in 1 .. Len(s) + 1 /\ n \in 0 .. Len(s)
      /\ n + 1 \in 1 .. Len(s) + 1 /\ Len(s) \in 0 .. Len(s)
  BY <1>1
<1>4. SubSeq(s, 1, n) \in Seq(Sent) /\ SubSeq(s, n + 1, Len(s)) \in Seq(Sent)
  BY <1>1, <1>3, Part
<1>5. stream' \in [Hosts -> Seq(Sent)]
  BY <1>2, <1>4 DEF TypeOK, Sent
<1> QED
  BY <1>2, <1>4, <1>5

-----------------------------------------------------------------------------
(* Types.                                                                  *)

LEMMA Removed ==
    ASSUME NEW S, NEW s \in Seq(S), NEW i \in 1 .. Len(s)
    PROVE  RemoveAt(s, i) \in Seq(S)
<1>1. Len(s) \in Nat
  BY LenProperties
<1>2. /\ 1 \in 1 .. Len(s) + 1 /\ i - 1 \in 0 .. Len(s)
      /\ i + 1 \in 1 .. Len(s) + 1 /\ Len(s) \in 0 .. Len(s)
  BY <1>1
<1>3. SubSeq(s, 1, i - 1) \in Seq(S) /\ SubSeq(s, i + 1, Len(s)) \in Seq(S)
  BY <1>2, Part
<1>4. SubSeq(s, 1, i - 1) \o SubSeq(s, i + 1, Len(s)) \in Seq(S)
  BY <1>3, ConcatProperties
<1> QED
  BY <1>4 DEF RemoveAt

\* A state line can be sent.
LEMMA StateLines ==
    ASSUME NEW s \in States
    PROVE  s \in Seq(Sent)
<1>1. s \in Seq(Chars \cup {Comma})
  BY LinesAssumption
<1>2. Len(s) \in Nat /\ s \in [1 .. Len(s) -> Chars \cup {Comma}]
  BY <1>1, LenProperties
<1>3. s \in [1 .. Len(s) -> Sent]
  BY <1>2 DEF Sent
<1> QED
  BY <1>2, <1>3, SeqDef

LEMMA SomeQueries == MaxQueries \in Nat \ {0}
BY LinesAssumption

LEMMA FreshIsClient == Fresh \in ClientRecord
BY DEF Fresh, ClientRecord, Names, Texts, Addresses, Ports

LEMMA RecordUpdate ==
    ASSUME NEW c \in ClientRecord, NEW name \in Names
    PROVE  /\ [c EXCEPT !.name = name, !.connected = TRUE] \in ClientRecord
           /\ [c EXCEPT !.name = name, !.connected = FALSE,
                        !.tun_ip = Null, !.host = Null] \in ClientRecord
BY DEF ClientRecord, Addresses

LEMMA SectionIsShown ==
    ASSUME NEW c \in ClientRecord
    PROVE  Section(c) \in SectionRecord
BY DEF Section, MakeAuthority, ClientRecord, SectionRecord, Addresses

LEMMA DisconnectType ==
    ASSUME TypeOK, NEW h \in Hosts, DisconnectCb(h)
    PROVE  client' \in [Hosts -> ClientRecord]
<1> DEFINE c == [client[h] EXCEPT !.name = <<<<"disconnected">>>>, !.connected = FALSE,
                                  !.tun_ip = Null, !.host = Null]
<1>1. c \in ClientRecord
  <2>1. client[h] \in ClientRecord /\ <<<<"disconnected">>>> \in Names
    BY DEF TypeOK, Names, Texts
  <2> QED
    BY <2>1, RecordUpdate
<1>2. client' = [client EXCEPT ![h] = c]
  BY DEF DisconnectCb, TypeOK
<1> HIDE DEF c
<1> QED
  BY <1>1, <1>2 DEF TypeOK

LEMMA ReadType ==
    ASSUME TypeOK, NEW h \in Hosts, ReadCb(h)
    PROVE  TypeOK'
<1>1. PICK msg \in Seq(Sent) :
         /\ client' = [client EXCEPT ![h] = ParseState(client[h], msg)]
         /\ stream' \in [Hosts -> Seq(Sent)]
         /\ received' = [received EXCEPT ![h] = received[h] \cup (Range(msg) \cap Chars)]
  BY Read
<1>2. client' \in [Hosts -> ClientRecord]
  <2>1. ParseState(client[h], msg) \in ClientRecord
    BY Parsed DEF TypeOK
  <2> QED
    BY <1>1, <2>1 DEF TypeOK
<1>3. UNCHANGED <<vpns, running, shown, conn, queries, tunnel>>
  BY DEF ReadCb
<1>4. received' \in [Hosts -> SUBSET Chars]
  BY <1>1 DEF TypeOK
<1> QED
  BY <1>1, <1>2, <1>3, <1>4 DEF TypeOK, Sent

LEMMA TypeNext ==
    ASSUME TypeOK, [Next]_vars
    PROVE  TypeOK'
<1>1. ASSUME NEW h \in Hosts, Create(h)
      PROVE  TypeOK'
  <2>1. vpns' \in Seq(Hosts)
    BY <1>1, AppendProperties DEF TypeOK, Create
  <2>2. client' \in [Hosts -> ClientRecord]
    BY <1>1, FreshIsClient DEF TypeOK, Create
  <2>3. conn' \in [Hosts -> {"none", "connecting", "up", "waiting"}]
    BY <1>1 DEF TypeOK, Create
  <2> QED
    BY <1>1, <2>1, <2>2, <2>3 DEF TypeOK, Create
<1>2. ASSUME NEW h \in Hosts, Destroy(h)
      PROVE  TypeOK'
  <2>1. vpns' \in Seq(Hosts)
    BY <1>2, Removed DEF TypeOK, Destroy
  <2>2. conn' \in [Hosts -> {"none", "connecting", "up", "waiting"}]
    BY <1>2 DEF TypeOK, Destroy
  <2> QED
    BY <1>2, <2>1, <2>2 DEF TypeOK, Destroy
<1>3. ASSUME NEW h \in Hosts, ConnectCb(h)
      PROVE  TypeOK'
  <2>1. client' \in [Hosts -> ClientRecord]
    <3> DEFINE c == [client[h] EXCEPT !.name = <<<<"connected">>>>, !.connected = TRUE]
    <3>1. c \in ClientRecord
      <4>1. client[h] \in ClientRecord /\ <<<<"connected">>>> \in Names
        BY DEF TypeOK, Names, Texts
      <4> QED
        BY <4>1, RecordUpdate
    <3>2. client' = [client EXCEPT ![h] = c]
      BY <1>3 DEF ConnectCb, TypeOK
    <3> HIDE DEF c
    <3> QED
      BY <3>1, <3>2 DEF TypeOK
  <2>2. conn' \in [Hosts -> {"none", "connecting", "up", "waiting"}]
    BY <1>3 DEF TypeOK, ConnectCb
  <2>3. stream' \in [Hosts -> Seq(Sent)]
    <3>1. ">INFO" \in Sent /\ Eol \in Sent
      BY LinesAssumption DEF Sent
    <3>2. <<">INFO", Eol>> \in Seq(Sent)
      BY <3>1
    <3> QED
      BY <1>3, <3>2 DEF TypeOK, ConnectCb, Sent
  <2> QED
    BY <1>3, <2>1, <2>2, <2>3 DEF TypeOK, ConnectCb, Sent
<1>4. ASSUME NEW h \in Hosts, Disconnect(h)
      PROVE  TypeOK'
  <2>1. client' \in [Hosts -> ClientRecord]
    BY <1>4, DisconnectType DEF Disconnect, TypeOK
  <2>2. conn' \in [Hosts -> {"none", "connecting", "up", "waiting"}]
    BY <1>4 DEF TypeOK, Disconnect
  <2>3. queries' \in [Hosts -> 0 .. MaxQueries]
    BY <1>4, SomeQueries DEF TypeOK, Disconnect
  <2>4. stream' \in [Hosts -> Seq(Sent)]
    BY <1>4, EmptySeq DEF TypeOK, Disconnect, Sent
  <2>5. received' \in [Hosts -> SUBSET Chars]
    BY <1>4 DEF TypeOK, Disconnect
  <2> QED
    BY <1>4, <2>1, <2>2, <2>3, <2>4, <2>5 DEF TypeOK, Disconnect, Sent
<1>5. ASSUME NEW h \in Hosts, Reconnect(h)
      PROVE  TypeOK'
  <2>1. conn' \in [Hosts -> {"none", "connecting", "up", "waiting"}]
    BY <1>5 DEF TypeOK, Reconnect
  <2> QED
    BY <1>5, <2>1 DEF TypeOK, Reconnect, clientVars
<1>6. ASSUME NEW h \in Hosts, ReadCb(h)
      PROVE  TypeOK'
  BY <1>6, ReadType
<1>7. ASSUME NEW h \in Hosts, Poll(h)
      PROVE  TypeOK'
  <2>1. shown' \in [Hosts -> SectionRecord]
    BY <1>7, SectionIsShown DEF TypeOK, Poll
  <2>2. queries' \in [Hosts -> 0 .. MaxQueries]
    BY <1>7, SomeQueries DEF TypeOK, Poll
  <2> QED
    BY <1>7, <2>1, <2>2 DEF TypeOK, Poll
<1>8. ASSUME NEW h \in Hosts, Answer(h)
      PROVE  TypeOK'
  <2>1. queries' \in [Hosts -> 0 .. MaxQueries]
    BY <1>8, SomeQueries DEF TypeOK, Answer
  <2>2. stream' \in [Hosts -> Seq(Sent)]
    <3>1. "END" \in Sent /\ Eol \in Sent
      BY LinesAssumption DEF Sent
    <3>2. <<Eol, "END", Eol>> \in Seq(Sent)
      BY <3>1
    <3>3. tunnel[h] \in Seq(Sent)
      BY StateLines DEF TypeOK
    <3>4. stream[h] \o tunnel[h] \o <<Eol, "END", Eol>> \in Seq(Sent)
      <4>1. stream[h] \in Seq(Sent)
        BY DEF TypeOK, Sent
      <4>2. stream[h] \o tunnel[h] \in Seq(Sent)
        BY <3>3, <4>1, ConcatProperties
      <4> QED
        BY <3>2, <4>2, ConcatProperties
    <3> QED
      BY <1>8, <3>4 DEF TypeOK, Answer, Sent
  <2> QED
    BY <1>8, <2>1, <2>2 DEF TypeOK, Answer, clientVars, Sent
<1>9. ASSUME NEW h \in Hosts, NEW line \in States, TunnelChanges(h, line)
      PROVE  TypeOK'
  BY <1>9 DEF TypeOK, TunnelChanges, clientVars
<1>10. CASE Run
  BY <1>10 DEF TypeOK, Run
<1>11. CASE UNCHANGED vars
  BY <1>11 DEF TypeOK, vars, clientVars
<1> QED
  BY <1>1, <1>2, <1>3, <1>4, <1>5, <1>6, <1>7, <1>8, <1>9, <1>10, <1>11 DEF Next

-----------------------------------------------------------------------------
(* The flag and the connection.                                            *)

LEMMA LinkNext ==
    ASSUME TypeOK, LinkInv, [Next]_vars
    PROVE  LinkInv'
<1>1. ASSUME NEW h \in Hosts, Create(h)
      PROVE  LinkInv'
  BY <1>1 DEF LinkInv, TypeOK, Create, Fresh
<1>2. ASSUME NEW h \in Hosts, Destroy(h)
      PROVE  LinkInv'
  BY <1>2 DEF LinkInv, TypeOK, Destroy
<1>3. ASSUME NEW h \in Hosts, ConnectCb(h)
      PROVE  LinkInv'
  <2>1. client'[h].connected = TRUE
    BY <1>3 DEF TypeOK, ConnectCb, ClientRecord
  <2>2. \A g \in Hosts \ {h} : client'[g] = client[g] /\ conn'[g] = conn[g]
    BY <1>3 DEF TypeOK, ConnectCb
  <2> QED
    BY <1>3, <2>1, <2>2 DEF LinkInv, TypeOK, ConnectCb
<1>4. ASSUME NEW h \in Hosts, Disconnect(h)
      PROVE  LinkInv'
  <2>1. client'[h].connected = FALSE
    BY <1>4 DEF LinkInv, TypeOK, Disconnect, DisconnectCb, ClientRecord
  <2>2. \A g \in Hosts \ {h} : client'[g] = client[g] /\ conn'[g] = conn[g]
    BY <1>4 DEF TypeOK, Disconnect, DisconnectCb
  <2> QED
    BY <1>4, <2>1, <2>2 DEF LinkInv, TypeOK, Disconnect
<1>5. ASSUME NEW h \in Hosts, Reconnect(h)
      PROVE  LinkInv'
  BY <1>5 DEF LinkInv, TypeOK, Reconnect, clientVars
<1>6. ASSUME NEW h \in Hosts, ReadCb(h)
      PROVE  LinkInv'
  <2>1. PICK msg \in Seq(Sent) : client' = [client EXCEPT ![h] = ParseState(client[h], msg)]
    BY <1>6, Read
  <2>2. \A g \in Hosts : client'[g].connected = client[g].connected
    <3>1. ParseState(client[h], msg).connected = client[h].connected
      BY Parsed DEF TypeOK
    <3> QED
      BY <2>1, <3>1 DEF TypeOK
  <2>3. UNCHANGED <<running, conn>>
    BY <1>6 DEF ReadCb
  <2> QED
    BY <2>2, <2>3 DEF LinkInv
<1>7. ASSUME NEW h \in Hosts, Poll(h)
      PROVE  LinkInv'
  BY <1>7 DEF LinkInv, Poll
<1>8. ASSUME NEW h \in Hosts, Answer(h)
      PROVE  LinkInv'
  BY <1>8 DEF LinkInv, Answer, clientVars
<1>9. ASSUME NEW h \in Hosts, NEW line \in States, TunnelChanges(h, line)
      PROVE  LinkInv'
  BY <1>9 DEF LinkInv, TunnelChanges, clientVars
<1>10. CASE Run
  BY <1>10 DEF LinkInv, Run
<1>11. CASE UNCHANGED vars
  BY <1>11 DEF LinkInv, vars, clientVars
<1> QED
  BY <1>1, <1>2, <1>3, <1>4, <1>5, <1>6, <1>7, <1>8, <1>9, <1>10, <1>11 DEF Next

-----------------------------------------------------------------------------
(* What was heard on this connection.                                      *)

LEMMA QuietNext ==
    ASSUME TypeOK, LinkInv, QuietInv, [Next]_vars
    PROVE  QuietInv'
<1>1. ASSUME NEW h \in Hosts, Create(h) \/ Destroy(h)
      PROVE  QuietInv'
  BY <1>1 DEF LinkInv, QuietInv, TypeOK, Create, Destroy
<1>2. ASSUME NEW h \in Hosts, ConnectCb(h)
      PROVE  QuietInv'
  BY <1>2 DEF QuietInv, TypeOK, ConnectCb
<1>3. ASSUME NEW h \in Hosts, Disconnect(h)
      PROVE  QuietInv'
  BY <1>3 DEF QuietInv, TypeOK, Disconnect
<1>4. ASSUME NEW h \in Hosts, Reconnect(h)
      PROVE  QuietInv'
  BY <1>4 DEF QuietInv, TypeOK, Reconnect
<1>5. ASSUME NEW h \in Hosts, ReadCb(h)
      PROVE  QuietInv'
  <2>1. conn[h] = "up" /\ UNCHANGED conn
    BY <1>5 DEF ReadCb
  <2>2. \A g \in Hosts \ {h} : received'[g] = received[g]
    BY <1>5, Read DEF TypeOK
  <2> QED
    BY <2>1, <2>2 DEF QuietInv
<1>6. CASE UNCHANGED <<conn, received>>
  BY <1>6 DEF QuietInv
<1> QED
  BY <1>1, <1>2, <1>3, <1>4, <1>5, <1>6
  DEF Next, Run, Poll, Answer, TunnelChanges, vars, clientVars

LEMMA DisconnectHeard ==
    ASSUME TypeOK, QuietInv, HeardInv, NEW h \in Hosts, Disconnect(h)
    PROVE  HeardInv'
<1>1. CASE DisconnectCb(h)
  <2>1. /\ client'[h].name = <<<<"disconnected">>>>
        /\ client'[h].tun_ip = Null /\ client'[h].host = Null
    BY <1>1 DEF DisconnectCb, TypeOK, ClientRecord
  <2>2. \A g \in Hosts \ {h} : client'[g] = client[g] /\ received'[g] = received[g]
    BY <1>1 DEF Disconnect, DisconnectCb, TypeOK
  <2> QED
    BY <2>1, <2>2 DEF HeardInv, Heard, Texts
<1>2. CASE conn[h] = "connecting" /\ UNCHANGED client
  BY <1>2 DEF HeardInv, QuietInv, Disconnect, TypeOK
<1> QED
  BY <1>1, <1>2 DEF Disconnect

LEMMA HeardNext ==
    ASSUME TypeOK, QuietInv, HeardInv, [Next]_vars
    PROVE  HeardInv'
<1>1. ASSUME NEW h \in Hosts, Create(h)
      PROVE  HeardInv'
  <2>1. Heard(Fresh, received[h])
    BY DEF Heard, Fresh, Texts
  <2>2. client' = [client EXCEPT ![h] = Fresh] /\ received' = received
    BY <1>1 DEF Create
  <2>3. \A g \in Hosts : Heard(client'[g], received'[g])
    BY <2>1, <2>2 DEF TypeOK, HeardInv
  <2> QED
    BY <2>3 DEF HeardInv
<1>2. ASSUME NEW h \in Hosts, ConnectCb(h)
      PROVE  HeardInv'
  <2> DEFINE c == [client[h] EXCEPT !.name = <<<<"connected">>>>, !.connected = TRUE]
  <2>1. Heard(c, received[h])
    <3>1. c.name = <<<<"connected">>>> /\ c.tun_ip = client[h].tun_ip /\ c.host = client[h].host
      BY DEF TypeOK, ClientRecord
    <3> QED
      BY <3>1 DEF Texts, Heard, HeardInv
  <2>2. client' = [client EXCEPT ![h] = c] /\ received' = received
    BY <1>2 DEF ConnectCb, TypeOK
  <2> HIDE DEF c
  <2>3. \A g \in Hosts : Heard(client'[g], received'[g])
    BY <2>1, <2>2 DEF TypeOK, HeardInv
  <2> QED
    BY <2>3 DEF HeardInv
<1>3. ASSUME NEW h \in Hosts, Disconnect(h)
      PROVE  HeardInv'
  BY <1>3, DisconnectHeard
<1>4. ASSUME NEW h \in Hosts, ReadCb(h)
      PROVE  HeardInv'
  <2>1. PICK msg \in Seq(Sent) :
           /\ client' = [client EXCEPT ![h] = ParseState(client[h], msg)]
           /\ received' = [received EXCEPT ![h] = received[h] \cup (Range(msg) \cap Chars)]
    BY <1>4, Read
  <2> DEFINE more == Range(msg) \cap Chars
             p == ParseState(client[h], msg)
  <2>2. Heard(p, received[h] \cup more)
    <3>1. /\ p.name = client[h].name \/ \A tok \in Range(p.name) : IsOf(tok, msg)
          /\ p.tun_ip = client[h].tun_ip \/ IsOf(p.tun_ip, msg)
          /\ p.host = client[h].host \/ IsOf(p.host, msg)
      BY Parsed DEF TypeOK
    <3>2. Heard(client[h], received[h])
      BY DEF HeardInv
    <3> HIDE DEF p
    <3> QED
      BY <3>1, <3>2 DEF Heard, IsOf
  <2>3. \A g \in Hosts : Heard(client'[g], received'[g])
    BY <2>1, <2>2 DEF TypeOK, HeardInv
  <2> QED
    BY <2>3 DEF HeardInv
<1>5. CASE UNCHANGED <<client, received>>
  BY <1>5 DEF HeardInv
<1> QED
  BY <1>1, <1>2, <1>3, <1>4, <1>5
  DEF Next, Run, Destroy, Reconnect, Poll, Answer, TunnelChanges, vars, clientVars

-----------------------------------------------------------------------------
(* All of it.                                                              *)

LEMMA InvInit == Init => Inv
<1> SUFFICES ASSUME Init PROVE Inv
  OBVIOUS
<1>1. TypeOK
  <2>1. vpns \in Seq(Hosts) /\ stream \in [Hosts -> Seq(Sent)]
    BY EmptySeq DEF Init
  <2>2. NothingShown \in SectionRecord
    BY DEF NothingShown, SectionRecord, Addresses
  <2>3. queries \in [Hosts -> 0 .. MaxQueries]
    BY SomeQueries DEF Init
  <2>4. client \in [Hosts -> ClientRecord] /\ shown \in [Hosts -> SectionRecord]
    BY <2>2, FreshIsClient DEF Init
  <2>5. received \in [Hosts -> SUBSET Chars]
    BY DEF Init
  <2> QED
    BY <2>1, <2>3, <2>4, <2>5 DEF Init, TypeOK, Sent
<1>2. LinkInv
  BY DEF Init, LinkInv, Fresh
<1>3. HeardInv
  BY DEF Init, HeardInv, Heard, Fresh, Texts
<1>4. QuietInv
  BY DEF Init, QuietInv
<1> QED
  BY <1>1, <1>2, <1>3, <1>4 DEF Inv

\* Inv is an inductive invariant of the clients of osysmon_openvpn.c.
THEOREM InvCorrect == Spec => []Inv
<1>1. Inv /\ [Next]_vars => Inv'
  BY TypeNext, LinkNext, QuietNext, HeardNext DEF Inv
<1> QED
  BY <1>1, InvInit, PTL DEF Spec

\* Types: wherever a read or sizeof(tmp) cuts a line, parse_state
\* (osysmon_openvpn.c:65) puts tokens into the client that are not empty and hold
\* neither commas nor the end of a line, and digits only into the port; the report
\* shows nothing else.
THEOREM TypeCorrect == Spec => []TypeOK
<1>1. Inv => TypeOK
  BY DEF Inv
<1> QED
  BY <1>1, InvCorrect, PTL

\* After a disconnect (osysmon_openvpn.c:132) nothing the last connection said is
\* left in the client, but the port.
THEOREM OnlyFromThisConnectionCorrect == Spec => []OnlyFromThisConnection
<1>1. Inv => OnlyFromThisConnection
  <2> SUFFICES ASSUME Inv PROVE OnlyFromThisConnection
    OBVIOUS
  <2>1. Range(vpns) \subseteq Hosts
    BY RangeOfLine DEF Inv, TypeOK
  <2> QED
    BY <2>1 DEF Inv, HeardInv, Heard, OnlyFromThisConnection
<1> QED
  BY <1>1, InvCorrect, PTL

\* connected (osysmon_openvpn.c:137, :151) is the state of the connection, whatever
\* is lost, refused or made again.
THEOREM ConnectedIffUpCorrect == Spec => []ConnectedIffUp
<1>1. Inv => ConnectedIffUp
  <2> SUFFICES ASSUME Inv PROVE ConnectedIffUp
    OBVIOUS
  <2>1. Range(vpns) \subseteq Hosts
    BY RangeOfLine DEF Inv, TypeOK
  <2> QED
    BY <2>1 DEF Inv, LinkInv, ConnectedIffUp
<1> QED
  BY <1>1, InvCorrect, PTL
=============================================================================
