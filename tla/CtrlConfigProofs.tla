-------------------------- MODULE CtrlConfigProofs --------------------------
(***************************************************************************)
(* What is proved of CtrlConfig for every configuration file: any names,   *)
(* any order of its lines, any number of objects.                          *)
(***************************************************************************)
EXTENDS CtrlConfig, SequenceTheorems, SetInduction

\* Lists of clients hold clients, lists of variables hold variables of their client.
HeapInv ==
    /\ \A i \in 1 .. Len(clients) : heap[clients[i]].kind = "client"
    /\ \A p \in Pointers : heap[p].kind = "client" =>
        \A j \in 1 .. Len(heap[p].gets) :
            /\ heap[heap[p].gets[j]].kind = "getvar"
            /\ heap[heap[p].gets[j]].cc = p

TypeInv == TypeOK /\ HeapInv /\ IndexMatchesNode
IInv == TypeInv /\ NamesUnique /\ AliveAreLinked

-----------------------------------------------------------------------------
(* Lists.                                                                  *)

LEMMA RangeOfList ==
    ASSUME NEW S, NEW s \in Seq(S)
    PROVE  /\ Len(s) \in Nat
           /\ Range(s) = {s[i] : i \in 1 .. Len(s)}
           /\ \A i \in 1 .. Len(s) : s[i] \in S
BY RangeEquality, LenProperties, ElementOfSeq

LEMMA RangeOfAppend ==
    ASSUME NEW S, NEW s \in Seq(S), NEW e \in S
    PROVE  Range(Append(s, e)) = Range(s) \cup {e}
<1>1. /\ Append(s, e) \in Seq(S)
      /\ Len(Append(s, e)) = Len(s) + 1
      /\ \A i \in 1 .. Len(s) : Append(s, e)[i] = s[i]
      /\ Append(s, e)[Len(s) + 1] = e
  BY AppendProperties
<1>2. Len(s) \in Nat
  BY LenProperties
<1>3. Range(Append(s, e)) = {Append(s, e)[i] : i \in 1 .. Len(s) + 1}
  BY <1>1, RangeEquality
<1>4. Range(s) = {s[i] : i \in 1 .. Len(s)}
  BY RangeEquality
<1>5. 1 .. Len(s) + 1 = 1 .. Len(s) \cup {Len(s) + 1}
  BY <1>2
<1> QED
  BY <1>1, <1>3, <1>4, <1>5

\* llist_del: the others stay, in their order.
LEMMA Removed ==
    ASSUME NEW S, NEW s \in Seq(S), NEW i \in 1 .. Len(s)
    PROVE  /\ RemoveAt(s, i) \in Seq(S)
           /\ Len(RemoveAt(s, i)) = Len(s) - 1
           /\ \A j \in 1 .. Len(s) - 1 : RemoveAt(s, i)[j] = IF j < i THEN s[j] ELSE s[j + 1]
<1>0. Len(s) \in Nat /\ \A j \in 1 .. Len(s) : s[j] \in S
  BY LenProperties, ElementOfSeq
<1>1. /\ SubSeq(s, 1, i - 1) \in Seq(S)
      /\ Len(SubSeq(s, 1, i - 1)) = i - 1
      /\ \A j \in 1 .. i - 1 : SubSeq(s, 1, i - 1)[j] = s[j]
  <2>1. 1 \in Int /\ i - 1 \in Int /\ \A j \in 1 .. i - 1 : s[j] \in S
    BY <1>0
  <2>2. /\ SubSeq(s, 1, i - 1) \in Seq(S)
        /\ Len(SubSeq(s, 1, i - 1)) = IF 1 <= i - 1 THEN (i - 1) - 1 + 1 ELSE 0
        /\ \A j \in 1 .. (i - 1) - 1 + 1 : SubSeq(s, 1, i - 1)[j] = s[1 + j - 1]
    BY <2>1, SubSeqProperties
  <2> QED
    BY <1>0, <2>2
<1>2. /\ SubSeq(s, i + 1, Len(s)) \in Seq(S)
      /\ Len(SubSeq(s, i + 1, Len(s))) = Len(s) - i
      /\ \A j \in 1 .. Len(s) - i : SubSeq(s, i + 1, Len(s))[j] = s[i + j]
  <2>1. i + 1 \in Int /\ Len(s) \in Int /\ \A j \in i + 1 .. Len(s) : s[j] \in S
    BY <1>0
  <2>2. /\ SubSeq(s, i + 1, Len(s)) \in Seq(S)
        /\ Len(SubSeq(s, i + 1, Len(s))) = IF i + 1 <= Len(s) THEN Len(s) - (i + 1) + 1 ELSE 0
        /\ \A j \in 1 .. Len(s) - (i + 1) + 1 : SubSeq(s, i + 1, Len(s))[j] = s[(i + 1) + j - 1]
    BY <2>1, SubSeqProperties
  <2> QED
    BY <1>0, <2>2
<1> DEFINE a == SubSeq(s, 1, i - 1)
           b == SubSeq(s, i + 1, Len(s))
<1>3. /\ a \o b \in Seq(S)
      /\ Len(a \o b) = Len(a) + Len(b)
      /\ \A j \in 1 .. Len(a) + Len(b) : (a \o b)[j] = IF j <= Len(a) THEN a[j] ELSE b[j - Len(a)]
  BY <1>1, <1>2, ConcatProperties
<1>4. /\ a \o b \in Seq(S)
      /\ Len(a \o b) = Len(s) - 1
      /\ \A j \in 1 .. Len(s) - 1 : (a \o b)[j] = IF j < i THEN s[j] ELSE s[j + 1]
  <2> HIDE DEF a, b
  <2>1. Len(a) = i - 1 /\ Len(b) = Len(s) - i
    BY <1>1, <1>2 DEF a, b
  <2>2. \A j \in 1 .. i - 1 : a[j] = s[j]
    BY <1>1 DEF a
  <2>3. \A j \in 1 .. Len(s) - i : b[j] = s[i + j]
    BY <1>2 DEF b
  <2>4. Len(a \o b) = Len(s) - 1
    BY <1>0, <1>3, <2>1
  <2>5. ASSUME NEW j \in 1 .. Len(s) - 1
        PROVE  (a \o b)[j] = IF j < i THEN s[j] ELSE s[j + 1]
    <3>1. j \in 1 .. Len(a) + Len(b)
      BY <1>0, <2>1
    <3>2. CASE j < i
      BY <1>0, <1>3, <2>1, <2>2, <3>1, <3>2
    <3>3. CASE ~(j < i)
      <4>1. (a \o b)[j] = b[j - (i - 1)]
        BY <1>0, <1>3, <2>1, <3>1, <3>3
      <4>2. j - (i - 1) \in 1 .. Len(s) - i /\ i + (j - (i - 1)) = j + 1
        BY <1>0, <3>3
      <4>3. b[j - (i - 1)] = s[i + (j - (i - 1))]
        BY <2>3, <4>2
      <4> QED
        BY <3>3, <4>1, <4>2, <4>3
    <3> QED
      BY <3>2, <3>3
  <2> QED
    BY <1>3, <2>4, <2>5
<1> QED
  BY <1>4 DEF RemoveAt

-----------------------------------------------------------------------------
(* Objects.                                                                *)

\* What a pointer points to is known by its kind.
LEMMA Objects ==
    ASSUME TypeOK, NEW p \in Pointers
    PROVE  /\ heap[p] \in ClientObject \cup GetVarObject
           /\ heap[p].kind = "client" => heap[p] \in ClientObject /\ heap[p].gets \in Seq(Pointers)
           /\ heap[p].kind = "getvar" => heap[p] \in GetVarObject
           /\ heap[p].kind \in {"client", "getvar"}
<1>1. heap[p] \in ClientObject \cup GetVarObject
  BY ElementOfSeq DEF TypeOK, Pointers
<1> QED
  BY <1>1 DEF TypeOK, ClientObject, GetVarObject

\* A section that is open has a client of the list.
LEMMA OpenSection ==
    ASSUME TypeInv, node = "CTRL_CLIENT_NODE"
    PROVE  /\ index \in Range(clients) /\ index \in Pointers
           /\ heap[index] \in ClientObject /\ heap[index].kind = "client"
           /\ Gets \in Seq(Pointers)
<1>1. index \in Range(clients)
  BY DEF TypeInv, IndexMatchesNode
<1>2. clients \in Seq(Pointers)
  BY DEF TypeInv, TypeOK
<1>3. index \in Pointers /\ heap[index].kind = "client"
  BY <1>1, <1>2, RangeOfList DEF TypeInv, HeapInv
<1> QED
  BY <1>1, <1>3, Objects DEF TypeInv, Gets

\* ctrl_client_create appends one object, to the heap and to the list.
LEMMA ClientCreated ==
    ASSUME TypeOK, NEW n \in Names, NEW a \in Addrs, CreateClient(n, a)
    PROVE  /\ Len(heap) \in Nat
           /\ heap' \in Seq(ClientObject \cup GetVarObject)
           /\ Len(heap') = Len(heap) + 1
           /\ \A p \in Pointers : heap'[p] = heap[p]
           /\ heap'[Len(heap')] = [kind |-> "client", name |-> n, addr |-> a, gets |-> <<>>]
           /\ Pointers' = Pointers \cup {Len(heap')}
           /\ clients' = Append(clients, Len(heap'))
           /\ node' = "CTRL_CLIENT_NODE" /\ index' = Len(heap')
<1> DEFINE c == [kind |-> "client", name |-> n, addr |-> a, gets |-> <<>>]
<1>1. c \in ClientObject
  BY EmptySeq DEF ClientObject
<1>2. heap \in Seq(ClientObject \cup GetVarObject) /\ heap' = Append(heap, c)
  BY DEF TypeOK, CreateClient
<1> HIDE DEF c
<1>3. /\ heap' \in Seq(ClientObject \cup GetVarObject)
      /\ Len(heap') = Len(heap) + 1
      /\ \A p \in 1 .. Len(heap) : heap'[p] = heap[p]
      /\ heap'[Len(heap) + 1] = c
  BY <1>1, <1>2, AppendProperties
<1>4. Len(heap) \in Nat
  BY <1>2, LenProperties
<1>5. 1 .. Len(heap) + 1 = 1 .. Len(heap) \cup {Len(heap) + 1}
  BY <1>4
<1> QED
  BY <1>3, <1>4, <1>5 DEF c, Pointers, CreateClient, Enter

\* ctrl_client_get_var_find_or_create appends one object, to the heap and to the
\* list of the client whose section is open.
LEMMA GetVarCreated ==
    ASSUME TypeInv, node = "CTRL_CLIENT_NODE", NEW v \in Vars, CreateGetVar(v)
    PROVE  /\ Len(heap) \in Nat /\ Len(heap') = Len(heap) + 1
           /\ heap' \in Seq(ClientObject \cup GetVarObject)
           /\ \A p \in Pointers \ {index} : heap'[p] = heap[p]
           /\ heap'[index] = [heap[index] EXCEPT !.gets = Append(Gets, Len(heap'))]
           /\ heap'[Len(heap')] = [kind |-> "getvar", name |-> v, cc |-> index]
           /\ Pointers' = Pointers \cup {Len(heap')} /\ Len(heap') \notin Pointers
<1> DEFINE g == [kind |-> "getvar", name |-> v, cc |-> index]
           U == ClientObject \cup GetVarObject
           new == [heap[index] EXCEPT !.gets = Append(Gets, Len(heap) + 1)]
           longer == Append(heap, g)
<1>1. /\ index \in Pointers
      /\ heap[index] \in ClientObject /\ Gets \in Seq(Pointers)
  BY OpenSection
<1>2. heap \in Seq(U) /\ Len(heap) \in Nat
  BY LenProperties DEF TypeInv, TypeOK
<1>3. g \in U
  BY <1>1, <1>2 DEF GetVarObject, Pointers
<1>4. new \in U
  <2>1. Append(Gets, Len(heap) + 1) \in Seq(Nat)
    <3>1. Gets \in Seq(Nat) /\ Len(heap) + 1 \in Nat
      BY <1>1, <1>2, SeqMonotonic DEF Pointers
    <3> QED
      BY <3>1, AppendProperties
  <2> QED
    BY <1>1, <2>1 DEF ClientObject
<1>5. /\ longer \in Seq(U) /\ Len(longer) = Len(heap) + 1
      /\ \A p \in 1 .. Len(heap) : longer[p] = heap[p]
      /\ longer[Len(heap) + 1] = g
  <2> HIDE DEF g, U
  <2> QED
    BY <1>2, <1>3, AppendProperties
<1>6. heap' = [longer EXCEPT ![index] = new]
  <2>1. longer[index] = heap[index]
    BY <1>1, <1>5 DEF Pointers
  <2>2. heap' = [longer EXCEPT ![index].gets = Append(@, Len(heap) + 1)]
    BY DEF CreateGetVar
  <2> QED
    BY <2>1, <2>2 DEF Gets
<1>7. index \in 1 .. Len(longer)
  BY <1>1, <1>2, <1>5 DEF Pointers
<1>8. /\ heap' \in Seq(U) /\ Len(heap') = Len(heap) + 1
      /\ \A p \in 1 .. Len(heap) + 1 : heap'[p] = IF p = index THEN new ELSE longer[p]
  <2> HIDE DEF longer, new, U
  <2> QED
    BY <1>4, <1>5, <1>6, <1>7, ExceptSeq
<1>9. /\ 1 .. Len(heap) + 1 = 1 .. Len(heap) \cup {Len(heap) + 1}
      /\ Len(heap) + 1 \notin 1 .. Len(heap)
  BY <1>2
<1> HIDE DEF new, longer, g
<1>10. /\ \A p \in Pointers \ {index} : heap'[p] = heap[p]
       /\ heap'[index] = new
       /\ heap'[Len(heap')] = g
  BY <1>1, <1>2, <1>5, <1>8, <1>9 DEF Pointers
<1> QED
  BY <1>2, <1>8, <1>9, <1>10 DEF Pointers, new, g

-----------------------------------------------------------------------------
(* Types, the shape of the lists, and vty->index.                          *)

LEMMA TypeCreateClient ==
    ASSUME TypeInv, NEW n \in Names, NEW a \in Addrs, CreateClient(n, a),
           UNCHANGED <<freed, undefined>>
    PROVE  TypeInv'
<1>0. TypeOK /\ HeapInv
  BY DEF TypeInv
<1>1. /\ Len(heap) \in Nat
      /\ heap' \in Seq(ClientObject \cup GetVarObject)
      /\ Len(heap') = Len(heap) + 1
      /\ \A p \in Pointers : heap'[p] = heap[p]
      /\ heap'[Len(heap')] = [kind |-> "client", name |-> n, addr |-> a, gets |-> <<>>]
      /\ Pointers' = Pointers \cup {Len(heap')}
      /\ clients' = Append(clients, Len(heap'))
      /\ node' = "CTRL_CLIENT_NODE" /\ index' = Len(heap')
  BY <1>0, ClientCreated
<1>2. /\ clients' \in Seq(Pointers')
      /\ Len(clients') = Len(clients) + 1
      /\ \A i \in 1 .. Len(clients) : clients'[i] = clients[i] /\ clients[i] \in Pointers
      /\ clients'[Len(clients) + 1] = Len(heap')
      /\ Range(clients') = Range(clients) \cup {Len(heap')}
      /\ Len(clients) \in Nat
  <2>1. clients \in Seq(Pointers')
    BY <1>0, <1>1, SeqMonotonic DEF TypeOK
  <2>2. Len(heap') \in Pointers'
    BY <1>1
  <2>3. Len(clients) \in Nat /\ \A i \in 1 .. Len(clients) : clients[i] \in Pointers
    BY <1>0, RangeOfList DEF TypeOK
  <2>4. Range(Append(clients, Len(heap'))) = Range(clients) \cup {Len(heap')}
    BY <2>1, <2>2, RangeOfAppend
  <2> QED
    BY <1>1, <2>1, <2>2, <2>3, <2>4, AppendProperties
<1>3. \A p \in Pointers' : heap'[p].kind = "client" => heap'[p].gets \in Seq(Pointers')
  <2>1. ASSUME NEW p \in Pointers, heap[p].kind = "client"
        PROVE  heap'[p].gets \in Seq(Pointers')
    <3>1. heap[p].gets \in Seq(Pointers) /\ Pointers \subseteq Pointers'
      BY <1>0, <1>1, <2>1 DEF TypeOK
    <3> QED
      BY <1>1, <3>1, SeqMonotonic
  <2>2. heap'[Len(heap')].gets \in Seq(Pointers')
    BY <1>1, EmptySeq
  <2> QED
    BY <1>1, <2>1, <2>2
<1>4. TypeOK'
  BY <1>0, <1>1, <1>2, <1>3 DEF TypeOK, Nodes
<1>5. HeapInv'
  <2>1. ASSUME NEW i \in 1 .. Len(clients')
        PROVE  heap'[clients'[i]].kind = "client"
    BY <1>0, <1>1, <1>2 DEF HeapInv
  <2>2. ASSUME NEW p \in Pointers', heap'[p].kind = "client", NEW j \in 1 .. Len(heap'[p].gets)
        PROVE  heap'[heap'[p].gets[j]].kind = "getvar" /\ heap'[heap'[p].gets[j]].cc = p
    <3>1. CASE p \in Pointers
      <4>1. heap'[p] = heap[p] /\ heap[p].gets \in Seq(Pointers)
        BY <1>0, <1>1, <2>2, <3>1 DEF TypeOK
      <4>2. heap[p].gets[j] \in Pointers
        BY <2>2, <4>1, ElementOfSeq
      <4>3. heap[heap[p].gets[j]].kind = "getvar" /\ heap[heap[p].gets[j]].cc = p
        BY <1>0, <2>2, <3>1, <4>1 DEF HeapInv
      <4> QED
        BY <1>1, <4>1, <4>2, <4>3
    <3>2. CASE p = Len(heap')
      <4>1. Len(heap'[p].gets) = 0
        BY <1>1, <3>2, EmptySeq
      <4> QED
        BY <2>2, <4>1
    <3> QED
      BY <1>1, <3>1, <3>2
  <2> QED
    BY <2>1, <2>2 DEF HeapInv
<1>6. IndexMatchesNode'
  BY <1>1, <1>2 DEF IndexMatchesNode
<1> QED
  BY <1>4, <1>5, <1>6 DEF TypeInv

\* The parts of TypeInv that do not depend on node and index.
LEMMA TypeCreateGetVar ==
    ASSUME TypeInv, node = "CTRL_CLIENT_NODE", NEW v \in Vars, CreateGetVar(v),
           UNCHANGED clients
    PROVE  /\ heap' \in Seq(ClientObject \cup GetVarObject)
           /\ \A p \in Pointers' : heap'[p].kind = "client" => heap'[p].gets \in Seq(Pointers')
           /\ clients' \in Seq(Pointers')
           /\ HeapInv'
           /\ Len(heap') \in Range(heap'[index].gets)
           /\ Range(heap'[index].gets) = Range(Gets) \cup {Len(heap')}
<1>0. TypeOK /\ HeapInv
  BY DEF TypeInv
<1>1. /\ Len(heap) \in Nat /\ Len(heap') = Len(heap) + 1
      /\ heap' \in Seq(ClientObject \cup GetVarObject)
      /\ \A p \in Pointers \ {index} : heap'[p] = heap[p]
      /\ heap'[index] = [heap[index] EXCEPT !.gets = Append(Gets, Len(heap'))]
      /\ heap'[Len(heap')] = [kind |-> "getvar", name |-> v, cc |-> index]
      /\ Pointers' = Pointers \cup {Len(heap')} /\ Len(heap') \notin Pointers
  BY GetVarCreated
<1>2. /\ index \in Pointers
      /\ heap[index] \in ClientObject /\ heap[index].kind = "client"
      /\ Gets \in Seq(Pointers)
  BY OpenSection
<1>3. heap'[index].kind = "client" /\ heap'[index].gets = Append(Gets, Len(heap'))
  BY <1>1, <1>2 DEF ClientObject
<1>4. /\ Append(Gets, Len(heap')) \in Seq(Pointers')
      /\ Len(Append(Gets, Len(heap'))) = Len(Gets) + 1
      /\ \A j \in 1 .. Len(Gets) : Append(Gets, Len(heap'))[j] = Gets[j] /\ Gets[j] \in Pointers
      /\ Append(Gets, Len(heap'))[Len(Gets) + 1] = Len(heap')
      /\ Range(Append(Gets, Len(heap'))) = Range(Gets) \cup {Len(heap')}
      /\ Len(Gets) \in Nat
  <2>1. Gets \in Seq(Pointers') /\ Len(heap') \in Pointers'
    BY <1>1, <1>2, SeqMonotonic
  <2>2. Len(Gets) \in Nat /\ \A j \in 1 .. Len(Gets) : Gets[j] \in Pointers
    BY <1>2, RangeOfList
  <2>3. Range(Append(Gets, Len(heap'))) = Range(Gets) \cup {Len(heap')}
    BY <2>1, RangeOfAppend
  <2> QED
    BY <2>1, <2>2, <2>3, AppendProperties
<1>5. \A p \in Pointers' : heap'[p].kind = "client" => heap'[p].gets \in Seq(Pointers')
  <2>1. ASSUME NEW p \in Pointers \ {index}, heap'[p].kind = "client"
        PROVE  heap'[p].gets \in Seq(Pointers')
    <3>1. heap'[p] = heap[p] /\ heap[p].gets \in Seq(Pointers) /\ Pointers \subseteq Pointers'
      BY <1>0, <1>1, <2>1 DEF TypeOK
    <3> QED
      BY <3>1, SeqMonotonic
  <2>2. heap'[Len(heap')].kind = "getvar"
    BY <1>1
  <2> QED
    BY <1>1, <1>3, <1>4, <2>1, <2>2
<1>6. clients' \in Seq(Pointers')
  <2>1. clients \in Seq(Pointers) /\ Pointers \subseteq Pointers'
    BY <1>0, <1>1 DEF TypeOK
  <2> QED
    BY <2>1, SeqMonotonic
<1>7. HeapInv'
  <2>1. ASSUME NEW p \in Pointers
        PROVE  heap'[p].kind = heap[p].kind
    BY <1>1, <1>2, <1>3
  <2>2. ASSUME NEW i \in 1 .. Len(clients')
        PROVE  heap'[clients'[i]].kind = "client"
    <3>1. clients[i] \in Pointers
      BY <1>0, <2>2, ElementOfSeq DEF TypeOK
    <3> QED
      BY <1>0, <2>1, <3>1 DEF HeapInv
  <2>3. ASSUME NEW p \in Pointers', heap'[p].kind = "client", NEW j \in 1 .. Len(heap'[p].gets)
        PROVE  heap'[heap'[p].gets[j]].kind = "getvar" /\ heap'[heap'[p].gets[j]].cc = p
    <3>1. ASSUME NEW q \in Pointers, heap[q].kind = "getvar", heap[q].cc = p
          PROVE  heap'[q].kind = "getvar" /\ heap'[q].cc = p
      BY <1>1, <1>2, <3>1
    <3>2. CASE p = index
      <4>1. CASE j \in 1 .. Len(Gets)
        <5>1. heap[Gets[j]].kind = "getvar" /\ heap[Gets[j]].cc = p
          BY <1>0, <1>2, <3>2, <4>1 DEF HeapInv, Gets
        <5> QED
          BY <1>3, <1>4, <3>1, <3>2, <4>1, <5>1
      <4>2. CASE j = Len(Gets) + 1
        <5>1. heap'[p].gets[j] = Len(heap')
          BY <1>3, <1>4, <3>2, <4>2
        <5>2. heap'[Len(heap')].kind = "getvar" /\ heap'[Len(heap')].cc = index
          BY <1>1
        <5> QED
          BY <3>2, <5>1, <5>2
      <4>3. Len(heap'[p].gets) = Len(Gets) + 1
        BY <1>3, <1>4, <3>2
      <4> QED
        BY <1>4, <2>3, <4>1, <4>2, <4>3
    <3>3. CASE p \in Pointers \ {index}
      <4>1. heap'[p] = heap[p] /\ heap[p].gets \in Seq(Pointers) /\ heap[p].kind = "client"
        BY <1>0, <1>1, <2>3, <3>3 DEF TypeOK
      <4>2. heap[p].gets[j] \in Pointers
        BY <2>3, <4>1, ElementOfSeq
      <4>3. heap[heap[p].gets[j]].kind = "getvar" /\ heap[heap[p].gets[j]].cc = p
        BY <1>0, <2>3, <3>3, <4>1 DEF HeapInv
      <4> QED
        BY <3>1, <4>1, <4>2, <4>3
    <3>4. p # Len(heap')
      BY <1>1, <2>3
    <3> QED
      BY <1>1, <3>2, <3>3, <3>4
  <2> QED
    BY <2>2, <2>3 DEF HeapInv
<1> QED
  BY <1>1, <1>3, <1>4, <1>5, <1>6, <1>7

LEMMA TypeNext == TypeInv /\ [Next]_vars => TypeInv'
<1> SUFFICES ASSUME TypeInv, [Next]_vars
             PROVE  TypeInv'
  OBVIOUS
<1>0. TypeOK /\ HeapInv /\ IndexMatchesNode
  BY DEF TypeInv
<1>1. ASSUME UNCHANGED <<heap, clients>>, freed' \subseteq Pointers, undefined' \in BOOLEAN,
             node' \in Nodes, index' \in {0} \cup Pointers, IndexMatchesNode'
      PROVE  TypeInv'
  <2>1. UNCHANGED Pointers
    BY <1>1 DEF Pointers
  <2> QED
    BY <1>0, <1>1, <2>1 DEF TypeInv, TypeOK, HeapInv
<1>2. ASSUME UNCHANGED <<heap, freed, clients, node, index>>, undefined' \in BOOLEAN
      PROVE  TypeInv'
  <2>1. IndexMatchesNode'
    BY <1>0, <1>2 DEF IndexMatchesNode, Pointers
  <2> QED
    BY <1>0, <1>1, <1>2, <2>1 DEF TypeOK
<1>3. ASSUME NEW n \in Names, NEW a \in Addrs, CtrlClient(n, a)
      PROVE  TypeInv'
  <2>1. ASSUME NEW p \in Range(clients), Enter("CTRL_CLIENT_NODE", p),
               UNCHANGED <<heap, clients, freed, undefined>>
        PROVE  TypeInv'
    <3>1. p \in Pointers
      BY <1>0, RangeOfList DEF TypeOK
    <3>2. IndexMatchesNode'
      BY <2>1 DEF Enter, IndexMatchesNode
    <3> QED
      BY <1>0, <1>1, <2>1, <3>1, <3>2 DEF Enter, TypeOK, Nodes
  <2>2. CASE CreateClient(n, a) /\ UNCHANGED <<freed, undefined>>
    BY <2>2, TypeCreateClient
  <2> QED
    BY <1>3, <2>1, <2>2 DEF CtrlClient, Named
<1>4. ASSUME NEW n \in Names, NoCtrlClient(n)
      PROVE  TypeInv'
  <2>1. PICK i \in 1 .. Len(clients) :
            clients' = RemoveAt(clients, i) /\ freed' = freed \cup Below(clients[i])
    BY <1>4 DEF NoCtrlClient
  <2>2. UNCHANGED <<heap, node, index, undefined>> /\ node = "CONFIG_NODE"
    BY <1>4 DEF NoCtrlClient
  <2>3. clients \in Seq(Pointers) /\ clients[i] \in Pointers /\ Len(clients) \in Nat
    BY <1>0, RangeOfList DEF TypeOK
  <2>4. /\ clients' \in Seq(Pointers)
        /\ Len(clients') = Len(clients) - 1
        /\ \A j \in 1 .. Len(clients) - 1 : clients'[j] = IF j < i THEN clients[j] ELSE clients[j + 1]
    BY <2>1, <2>3, Removed
  <2>5. freed' \subseteq Pointers
    BY <1>0, <2>1, <2>3 DEF Below, TypeOK
  <2>6. UNCHANGED Pointers
    BY <2>2 DEF Pointers
  <2>7. TypeOK'
    BY <1>0, <2>2, <2>4, <2>5, <2>6 DEF TypeOK
  <2>8. \A j \in 1 .. Len(clients') : heap'[clients'[j]].kind = "client"
    BY <1>0, <2>2, <2>3, <2>4 DEF HeapInv
  <2>9. HeapInv'
    BY <1>0, <2>2, <2>6, <2>8 DEF HeapInv
  <2>10. IndexMatchesNode'
    BY <1>0, <2>2 DEF IndexMatchesNode
  <2> QED
    BY <2>7, <2>9, <2>10 DEF TypeInv
<1>5. ASSUME NEW v \in Vars, GetVariable(v)
      PROVE  TypeInv'
  <2>0. node = "CTRL_CLIENT_NODE"
    BY <1>5 DEF GetVariable
  <2>1. CASE Undefined
    BY <1>2, <2>1 DEF Undefined
  <2>2. ASSUME NEW p \in Found(v), Enter("CTRL_CLIENT_GETVAR_NODE", p),
               UNCHANGED <<heap, freed, clients, undefined>>
        PROVE  TypeInv'
    <3>1. p \in Range(Gets) /\ p \notin freed
      BY <2>2 DEF Found, Named
    <3>2. /\ index \in Range(clients) /\ index \in Pointers
          /\ heap[index].kind = "client" /\ Gets \in Seq(Pointers)
      BY <2>0, OpenSection
    <3>3. p \in Pointers /\ heap[p].kind = "getvar" /\ heap[p].cc = index
      BY <1>0, <3>1, <3>2, RangeOfList DEF HeapInv, Gets
    <3>4. IndexMatchesNode'
      BY <2>2, <3>1, <3>2, <3>3 DEF Enter, IndexMatchesNode, Pointers, Gets
    <3> QED
      BY <1>0, <1>1, <2>2, <3>3, <3>4 DEF Enter, TypeOK, Nodes
  <2>3. CASE /\ CreateGetVar(v)
             /\ Enter("CTRL_CLIENT_GETVAR_NODE", Len(heap'))
             /\ UNCHANGED <<freed, clients, undefined>>
    <3>1. /\ heap' \in Seq(ClientObject \cup GetVarObject)
          /\ \A p \in Pointers' : heap'[p].kind = "client" => heap'[p].gets \in Seq(Pointers')
          /\ clients' \in Seq(Pointers')
          /\ HeapInv'
          /\ Len(heap') \in Range(heap'[index].gets)
      BY <2>0, <2>3, TypeCreateGetVar
    <3>2. /\ heap'[Len(heap')] = [kind |-> "getvar", name |-> v, cc |-> index]
          /\ Pointers' = Pointers \cup {Len(heap')} /\ Len(heap') \notin Pointers
      BY <2>0, <2>3, GetVarCreated
    <3>3. index \in Range(clients)
      BY <2>0, OpenSection
    <3>4. TypeOK'
      BY <1>0, <2>3, <3>1, <3>2 DEF TypeOK, Enter, Nodes
    <3>5. IndexMatchesNode'
      <4>1. node' = "CTRL_CLIENT_GETVAR_NODE" /\ index' = Len(heap')
        BY <2>3 DEF Enter
      <4>2. Len(heap') \in Pointers' \ freed'
        BY <1>0, <2>3, <3>2 DEF TypeOK
      <4>3. heap'[index'].kind = "getvar" /\ heap'[index'].cc = index
        BY <3>2, <4>1
      <4> QED
        BY <2>3, <3>1, <3>3, <4>1, <4>2, <4>3 DEF IndexMatchesNode
    <3> QED
      BY <3>1, <3>4, <3>5 DEF TypeInv
  <2> QED
    BY <1>5, <2>1, <2>2, <2>3 DEF GetVariable
<1>6. ASSUME NEW v \in Vars, NoGetVariable(v)
      PROVE  TypeInv'
  <2>0. node = "CTRL_CLIENT_NODE" /\ index \in Range(clients)
    BY <1>6, OpenSection DEF NoGetVariable
  <2>1. CASE Undefined
    BY <1>2, <2>1 DEF Undefined
  <2>2. ASSUME NEW p \in Found(v), freed' = freed \cup {p},
               UNCHANGED <<heap, clients, node, index, undefined>>
        PROVE  TypeInv'
    <3>1. p \in Pointers
      <4>1. Gets \in Seq(Pointers) /\ p \in Range(Gets)
        BY <2>0, <2>2, OpenSection DEF Found, Named
      <4> QED
        BY <4>1, RangeOfList
    <3>2. IndexMatchesNode'
      BY <2>0, <2>2 DEF IndexMatchesNode
    <3> QED
      BY <1>0, <1>1, <2>2, <3>1, <3>2 DEF TypeOK
  <2>3. CASE /\ CreateGetVar(v)
             /\ freed' = freed \cup {Len(heap')}
             /\ UNCHANGED <<clients, node, index, undefined>>
    <3>1. /\ heap' \in Seq(ClientObject \cup GetVarObject)
          /\ \A p \in Pointers' : heap'[p].kind = "client" => heap'[p].gets \in Seq(Pointers')
          /\ clients' \in Seq(Pointers')
          /\ HeapInv'
      BY <2>0, <2>3, TypeCreateGetVar
    <3>2. Pointers' = Pointers \cup {Len(heap')}
      BY <2>0, <2>3, GetVarCreated
    <3>3. TypeOK'
      BY <1>0, <2>3, <3>1, <3>2 DEF TypeOK
    <3>4. IndexMatchesNode'
      BY <2>0, <2>3 DEF IndexMatchesNode
    <3> QED
      BY <3>1, <3>3, <3>4 DEF TypeInv
  <2> QED
    BY <1>6, <2>1, <2>2, <2>3 DEF NoGetVariable
<1>7. CASE GoParent
  <2>0. UNCHANGED <<heap, freed, clients, undefined>>
    BY <1>7 DEF GoParent
  <2>1. CASE Enter("CONFIG_NODE", 0)
    <3>1. IndexMatchesNode'
      BY <2>1 DEF Enter, IndexMatchesNode
    <3> QED
      BY <1>0, <1>1, <2>0, <2>1, <3>1 DEF Enter, TypeOK, Nodes
  <2>2. CASE node = "CTRL_CLIENT_GETVAR_NODE" /\ Enter("CTRL_CLIENT_NODE", heap[index].cc)
    <3>1. heap[index].cc \in Range(clients)
      BY <1>0, <2>2 DEF IndexMatchesNode
    <3>2. heap[index].cc \in Pointers
      BY <1>0, <3>1, RangeOfList DEF TypeOK
    <3>3. IndexMatchesNode'
      BY <2>0, <2>2, <3>1 DEF Enter, IndexMatchesNode
    <3> QED
      BY <1>0, <1>1, <2>0, <2>2, <3>2, <3>3 DEF Enter, TypeOK, Nodes
  <2> QED
    BY <1>7, <2>1, <2>2 DEF GoParent
<1>8. CASE Poll
  BY <1>2, <1>8 DEF Poll, Undefined
<1>9. CASE UNCHANGED vars
  BY <1>0, <1>2, <1>9 DEF vars, TypeOK
<1> QED
  BY <1>3, <1>4, <1>5, <1>6, <1>7, <1>8, <1>9 DEF Next

-----------------------------------------------------------------------------
(* Names.                                                                  *)

\* A name that is not found is new, also among the elements that were freed: the walk
\* would have met them.
LEMMA NotFound ==
    ASSUME TypeInv, node = "CTRL_CLIENT_NODE", NEW v \in Vars, WalkDefined(v), Found(v) = {}
    PROVE  \A j \in 1 .. Len(Gets) : heap[Gets[j]].name # v
<1>1. Gets \in Seq(Pointers)
  BY OpenSection
<1>2. \A j \in 1 .. Len(Gets) : Gets[j] \notin freed
  BY DEF WalkDefined
<1>3. \A j \in 1 .. Len(Gets) : Gets[j] \in Range(Gets)
  BY <1>1, RangeOfList
<1> QED
  BY <1>2, <1>3 DEF Found, Named

LEMMA NamesCreateGetVar ==
    ASSUME TypeInv, NamesUnique, node = "CTRL_CLIENT_NODE", NEW v \in Vars,
           WalkDefined(v), Found(v) = {}, CreateGetVar(v), UNCHANGED clients
    PROVE  NamesUnique'
<1>0. TypeOK /\ HeapInv /\ clients \in Seq(Pointers)
  BY DEF TypeInv, TypeOK
<1>1. /\ Len(heap) \in Nat /\ Len(heap') = Len(heap) + 1
      /\ \A p \in Pointers \ {index} : heap'[p] = heap[p]
      /\ heap'[index] = [heap[index] EXCEPT !.gets = Append(Gets, Len(heap'))]
      /\ heap'[Len(heap')] = [kind |-> "getvar", name |-> v, cc |-> index]
      /\ Len(heap') \notin Pointers
  BY GetVarCreated
<1>2. /\ index \in Range(clients) /\ index \in Pointers
      /\ heap[index] \in ClientObject /\ Gets \in Seq(Pointers)
  BY OpenSection
<1>3. \A p \in Pointers : heap'[p].name = heap[p].name
  BY <1>1, <1>2 DEF ClientObject
<1>4. heap'[index].gets = Append(Gets, Len(heap'))
  BY <1>1, <1>2 DEF ClientObject
<1>5. /\ Len(Gets) \in Nat
      /\ Len(Append(Gets, Len(heap'))) = Len(Gets) + 1
      /\ \A j \in 1 .. Len(Gets) : Append(Gets, Len(heap'))[j] = Gets[j] /\ Gets[j] \in Pointers
      /\ Append(Gets, Len(heap'))[Len(Gets) + 1] = Len(heap')
  <2>1. Gets \in Seq(Pointers \cup {Len(heap')})
    BY <1>2, SeqMonotonic
  <2>2. Len(Gets) \in Nat /\ \A j \in 1 .. Len(Gets) : Gets[j] \in Pointers
    BY <1>2, RangeOfList
  <2> QED
    BY <2>1, <2>2, AppendProperties
<1>6. \A j \in 1 .. Len(Gets) : heap[Gets[j]].name # v
  BY NotFound
<1>7. \A i, j \in 1 .. Len(clients) : heap'[clients[i]].name = heap'[clients[j]].name => i = j
  <2>1. \A i \in 1 .. Len(clients) : clients[i] \in Pointers
    BY <1>0, RangeOfList
  <2> QED
    BY <1>3, <2>1 DEF NamesUnique
<1>8. ASSUME NEW p \in Range(clients),
             NEW i \in 1 .. Len(heap'[p].gets), NEW j \in 1 .. Len(heap'[p].gets),
             heap'[heap'[p].gets[i]].name = heap'[heap'[p].gets[j]].name
      PROVE  i = j
  <2>1. CASE p = index
    <3> DEFINE longer == Append(Gets, Len(heap'))
    <3>1. /\ i \in 1 .. Len(Gets) + 1 /\ j \in 1 .. Len(Gets) + 1
          /\ heap'[longer[i]].name = heap'[longer[j]].name
      BY <1>4, <1>5, <1>8, <2>1
    <3>2. \A k \in 1 .. Len(Gets) :
                heap'[longer[k]].name = heap[Gets[k]].name /\ heap[Gets[k]].name # v
      BY <1>3, <1>5, <1>6
    <3>3. heap'[longer[Len(Gets) + 1]].name = v
      BY <1>1, <1>5
    <3>4. \A k, l \in 1 .. Len(Gets) : heap[Gets[k]].name = heap[Gets[l]].name => k = l
      BY <1>2 DEF NamesUnique, Gets
    <3>5. CASE i \in 1 .. Len(Gets) /\ j \in 1 .. Len(Gets)
      BY <3>1, <3>2, <3>4, <3>5
    <3>6. CASE i = Len(Gets) + 1 /\ j = Len(Gets) + 1
      BY <3>6
    <3>7. CASE i \in 1 .. Len(Gets) /\ j = Len(Gets) + 1
      BY <3>1, <3>2, <3>3, <3>7
    <3>8. CASE i = Len(Gets) + 1 /\ j \in 1 .. Len(Gets)
      BY <3>1, <3>2, <3>3, <3>8
    <3> QED
      BY <1>5, <3>1, <3>5, <3>6, <3>7, <3>8
  <2>2. CASE p # index
    <3>1. p \in Pointers /\ heap[p].kind = "client"
      BY <1>0, RangeOfList DEF HeapInv
    <3>2. heap'[p] = heap[p] /\ heap[p].gets \in Seq(Pointers)
      BY <1>0, <1>1, <2>2, <3>1, Objects
    <3>3. heap[p].gets[i] \in Pointers /\ heap[p].gets[j] \in Pointers
      BY <1>8, <3>2, ElementOfSeq
    <3>4. heap[heap[p].gets[i]].name = heap[heap[p].gets[j]].name
      BY <1>3, <1>8, <3>2, <3>3
    <3> QED
      BY <3>2, <3>4 DEF NamesUnique
  <2> QED
    BY <2>1, <2>2
<1> QED
  BY <1>7, <1>8 DEF NamesUnique

LEMMA NamesCreateClient ==
    ASSUME TypeInv, NamesUnique, NEW n \in Names, NEW a \in Addrs,
           Named(clients, n) = {}, CreateClient(n, a)
    PROVE  NamesUnique'
<1>0. TypeOK /\ HeapInv /\ clients \in Seq(Pointers)
  BY DEF TypeInv, TypeOK
<1>1. /\ Len(heap) \in Nat
      /\ Len(heap') = Len(heap) + 1
      /\ \A p \in Pointers : heap'[p] = heap[p]
      /\ heap'[Len(heap')] = [kind |-> "client", name |-> n, addr |-> a, gets |-> <<>>]
      /\ clients' = Append(clients, Len(heap'))
  BY <1>0, ClientCreated
<1>2. /\ Len(clients) \in Nat
      /\ \A i \in 1 .. Len(clients) : clients[i] \in Pointers /\ clients[i] \in Range(clients)
  BY <1>0, RangeOfList
<1>3. /\ Len(clients') = Len(clients) + 1
      /\ \A i \in 1 .. Len(clients) : clients'[i] = clients[i]
      /\ clients'[Len(clients) + 1] = Len(heap')
      /\ Range(clients') = Range(clients) \cup {Len(heap')}
  <2>1. clients \in Seq(Pointers \cup {Len(heap')})
    BY <1>0, SeqMonotonic
  <2> QED
    BY <1>1, <2>1, AppendProperties, RangeOfAppend
<1>4. \A i \in 1 .. Len(clients) : heap'[clients'[i]].name = heap[clients[i]].name
                                   /\ heap[clients[i]].name # n
  BY <1>1, <1>2, <1>3 DEF Named
<1>5. heap'[clients'[Len(clients) + 1]].name = n
  BY <1>1, <1>3
<1>6. \A i, j \in 1 .. Len(clients') : heap'[clients'[i]].name = heap'[clients'[j]].name => i = j
  <2>1. \A i, j \in 1 .. Len(clients) : heap[clients[i]].name = heap[clients[j]].name => i = j
    BY DEF NamesUnique
  <2> QED
    BY <1>2, <1>3, <1>4, <1>5, <2>1
<1>7. ASSUME NEW p \in Range(clients'),
             NEW i \in 1 .. Len(heap'[p].gets), NEW j \in 1 .. Len(heap'[p].gets),
             heap'[heap'[p].gets[i]].name = heap'[heap'[p].gets[j]].name
      PROVE  i = j
  <2>1. CASE p \in Range(clients)
    <3>1. p \in Pointers /\ heap[p].kind = "client"
      BY <1>0, <2>1, RangeOfList DEF HeapInv
    <3>2. heap'[p] = heap[p] /\ heap[p].gets \in Seq(Pointers)
      BY <1>0, <1>1, <3>1, Objects
    <3>3. heap[p].gets[i] \in Pointers /\ heap[p].gets[j] \in Pointers
      BY <1>7, <3>2, ElementOfSeq
    <3>4. heap[heap[p].gets[i]].name = heap[heap[p].gets[j]].name
      BY <1>1, <1>7, <3>2, <3>3
    <3> QED
      BY <2>1, <3>2, <3>4 DEF NamesUnique
  <2>2. CASE p = Len(heap')
    <3>1. Len(heap'[p].gets) = 0
      BY <1>1, <2>2, EmptySeq
    <3> QED
      BY <1>7, <3>1
  <2> QED
    BY <1>3, <2>1, <2>2
<1> QED
  BY <1>6, <1>7 DEF NamesUnique

\* What "no ctrl-client" leaves in the list.
LEMMA ClientRemoved ==
    ASSUME TypeInv, NamesUnique, NEW n \in Names, NoCtrlClient(n)
    PROVE  \E i \in 1 .. Len(clients) :
            /\ \A j \in 1 .. Len(clients') :
                clients'[j] = IF j < i THEN clients[j] ELSE clients[j + 1]
            /\ Len(clients') = Len(clients) - 1
            /\ Range(clients') = Range(clients) \ {clients[i]}
            /\ freed' = freed \cup Below(clients[i])
<1>1. PICK i \in 1 .. Len(clients) :
        clients' = RemoveAt(clients, i) /\ freed' = freed \cup Below(clients[i])
  BY DEF NoCtrlClient
<1>2. clients \in Seq(Pointers) /\ Len(clients) \in Nat
  BY RangeOfList DEF TypeInv, TypeOK
<1>3. /\ clients' \in Seq(Pointers)
      /\ Len(clients') = Len(clients) - 1
      /\ \A j \in 1 .. Len(clients) - 1 : clients'[j] = IF j < i THEN clients[j] ELSE clients[j + 1]
  BY <1>1, <1>2, Removed
<1>4. Range(clients) = {clients[j] : j \in 1 .. Len(clients)}
      /\ Range(clients') = {clients'[j] : j \in 1 .. Len(clients')}
  BY <1>2, <1>3, RangeOfList
<1>5. \A j, k \in 1 .. Len(clients) : clients[j] = clients[k] => j = k
  BY DEF NamesUnique
<1>6. Range(clients') \subseteq Range(clients) \ {clients[i]}
  <2>1. ASSUME NEW j \in 1 .. Len(clients')
        PROVE  clients'[j] \in Range(clients) \ {clients[i]}
    <3>1. CASE j < i
      <4>1. clients'[j] = clients[j] /\ j \in 1 .. Len(clients) /\ j # i
        BY <1>2, <1>3, <2>1, <3>1
      <4> QED
        BY <1>4, <1>5, <4>1
    <3>2. CASE ~(j < i)
      <4>1. clients'[j] = clients[j + 1] /\ j + 1 \in 1 .. Len(clients) /\ j + 1 # i
        BY <1>2, <1>3, <2>1, <3>2
      <4> QED
        BY <1>4, <1>5, <4>1
    <3> QED
      BY <3>1, <3>2
  <2> QED
    BY <1>4, <2>1
<1>7. Range(clients) \ {clients[i]} \subseteq Range(clients')
  <2>1. ASSUME NEW j \in 1 .. Len(clients), j # i
        PROVE  clients[j] \in Range(clients')
    <3>1. CASE j < i
      <4>1. clients'[j] = clients[j] /\ j \in 1 .. Len(clients')
        BY <1>2, <1>3, <2>1, <3>1
      <4> QED
        BY <1>4, <4>1
    <3>2. CASE j > i
      <4>1. j - 1 \in 1 .. Len(clients') /\ ~(j - 1 < i) /\ (j - 1) + 1 = j
        BY <1>2, <1>3, <2>1, <3>2
      <4>2. clients'[j - 1] = clients[j]
        BY <1>3, <4>1
      <4> QED
        BY <1>4, <4>1, <4>2
    <3> QED
      BY <2>1, <3>1, <3>2
  <2> QED
    BY <1>4, <2>1
<1> QED
  BY <1>1, <1>3, <1>6, <1>7

LEMMA NamesNext ==
    ASSUME TypeInv, NamesUnique, [Next]_vars
    PROVE  NamesUnique'
<1>1. CASE UNCHANGED <<heap, clients>>
  BY <1>1 DEF NamesUnique
<1>2. ASSUME NEW n \in Names, NEW a \in Addrs, CtrlClient(n, a)
      PROVE  NamesUnique'
  <2>1. CASE Named(clients, n) = {} /\ CreateClient(n, a)
    BY <2>1, NamesCreateClient
  <2> QED
    BY <1>1, <1>2, <2>1 DEF CtrlClient
<1>3. ASSUME NEW n \in Names, NoCtrlClient(n)
      PROVE  NamesUnique'
  <2>1. PICK i \in 1 .. Len(clients) :
            /\ \A j \in 1 .. Len(clients') :
                clients'[j] = IF j < i THEN clients[j] ELSE clients[j + 1]
            /\ Len(clients') = Len(clients) - 1
            /\ Range(clients') = Range(clients) \ {clients[i]}
    BY <1>3, ClientRemoved
  <2>2. UNCHANGED heap
    BY <1>3 DEF NoCtrlClient
  <2>3. Len(clients) \in Nat
    BY RangeOfList DEF TypeInv, TypeOK
  <2>4. \A j, k \in 1 .. Len(clients') :
            heap'[clients'[j]].name = heap'[clients'[k]].name => j = k
    <3> DEFINE at(j) == IF j < i THEN j ELSE j + 1
    <3>1. \A j \in 1 .. Len(clients') :
            at(j) \in 1 .. Len(clients) /\ clients'[j] = clients[at(j)]
      BY <2>1, <2>3
    <3>2. \A j, k \in 1 .. Len(clients') : at(j) = at(k) => j = k
      BY <2>1, <2>3
    <3>3. \A j, k \in 1 .. Len(clients) : heap[clients[j]].name = heap[clients[k]].name => j = k
      BY DEF NamesUnique
    <3> HIDE DEF at
    <3> QED
      BY <2>2, <3>1, <3>2, <3>3
  <2> QED
    BY <2>1, <2>2, <2>4 DEF NamesUnique
<1>4. ASSUME NEW v \in Vars, GetVariable(v) \/ NoGetVariable(v)
      PROVE  NamesUnique'
  <2>1. CASE /\ node = "CTRL_CLIENT_NODE" /\ WalkDefined(v) /\ Found(v) = {}
             /\ CreateGetVar(v) /\ UNCHANGED clients
    BY <2>1, NamesCreateGetVar
  <2> QED
    BY <1>1, <1>4, <2>1 DEF GetVariable, NoGetVariable, Undefined
<1> QED
  BY <1>1, <1>2, <1>3, <1>4 DEF Next, GoParent, Poll, Undefined, vars

-----------------------------------------------------------------------------
(* Links.                                                                  *)

Linked == Range(clients) \cup UNION {Range(heap[p].gets) : p \in Range(clients)}

LEMMA AliveCreateClient ==
    ASSUME TypeInv, AliveAreLinked, NEW n \in Names, NEW a \in Addrs, CreateClient(n, a),
           UNCHANGED freed
    PROVE  AliveAreLinked'
<1>0. TypeOK /\ clients \in Seq(Pointers)
  BY DEF TypeInv, TypeOK
<1>1. /\ Len(heap) \in Nat
      /\ Len(heap') = Len(heap) + 1
      /\ \A p \in Pointers : heap'[p] = heap[p]
      /\ Pointers' = Pointers \cup {Len(heap')}
      /\ clients' = Append(clients, Len(heap'))
  BY <1>0, ClientCreated
<1>2. Range(clients') = Range(clients) \cup {Len(heap')}
  <2>1. clients \in Seq(Pointers \cup {Len(heap')})
    BY <1>0, SeqMonotonic
  <2> QED
    BY <1>1, <2>1, RangeOfAppend
<1>3. Range(clients) \subseteq Pointers
  BY <1>0, RangeOfList
<1>4. Linked \cup {Len(heap')} \subseteq Linked'
  BY <1>1, <1>2, <1>3 DEF Linked
<1>5. Len(heap') \notin freed
  BY <1>0, <1>1 DEF TypeOK, Pointers
<1>6. Pointers' \ freed' \subseteq Linked' /\ Range(clients') \cap freed' = {}
  BY <1>1, <1>2, <1>4, <1>5 DEF AliveAreLinked, Linked
<1> QED
  BY <1>6 DEF AliveAreLinked, Linked

LEMMA AliveCreateGetVar ==
    ASSUME TypeInv, AliveAreLinked, node = "CTRL_CLIENT_NODE", NEW v \in Vars, CreateGetVar(v),
           UNCHANGED clients, freed' \in {freed, freed \cup {Len(heap')}}
    PROVE  AliveAreLinked'
<1>0. clients \in Seq(Pointers)
  BY DEF TypeInv, TypeOK
<1>1. /\ \A p \in Pointers \ {index} : heap'[p] = heap[p]
      /\ Pointers' = Pointers \cup {Len(heap')} /\ Len(heap') \notin Pointers
  BY GetVarCreated
<1>2. Range(heap'[index].gets) = Range(heap[index].gets) \cup {Len(heap')}
  BY TypeCreateGetVar DEF Gets
<1>3. index \in Range(clients)
  BY OpenSection
<1>4. Range(clients) \subseteq Pointers
  BY <1>0, RangeOfList
<1>5. \A p \in Range(clients) : Range(heap[p].gets) \subseteq Range(heap'[p].gets)
  BY <1>1, <1>2, <1>4
<1>6. Linked \cup {Len(heap')} \subseteq Linked'
  BY <1>2, <1>3, <1>5 DEF Linked
<1>7. Pointers' \ freed' \subseteq Linked' /\ Range(clients') \cap freed' = {}
  BY <1>1, <1>4, <1>6 DEF AliveAreLinked, Linked
<1> QED
  BY <1>7 DEF AliveAreLinked, Linked

LEMMA AliveNext ==
    ASSUME TypeInv, NamesUnique, AliveAreLinked, [Next]_vars
    PROVE  AliveAreLinked'
<1>0. TypeOK /\ HeapInv /\ clients \in Seq(Pointers)
  BY DEF TypeInv, TypeOK
<1>a. Range(clients) \subseteq Pointers /\ \A p \in Range(clients) : heap[p].kind = "client"
  BY <1>0, RangeOfList DEF HeapInv
<1>1. CASE UNCHANGED <<heap, clients, freed>>
  BY <1>1 DEF AliveAreLinked, Pointers
<1>2. ASSUME NEW n \in Names, NEW a \in Addrs, CtrlClient(n, a)
      PROVE  AliveAreLinked'
  BY <1>1, <1>2, AliveCreateClient DEF CtrlClient
<1>3. ASSUME NEW n \in Names, NoCtrlClient(n)
      PROVE  AliveAreLinked'
  <2>1. PICK i \in 1 .. Len(clients) :
            /\ Range(clients') = Range(clients) \ {clients[i]}
            /\ freed' = freed \cup Below(clients[i])
    BY <1>3, ClientRemoved
  <2>2. UNCHANGED heap
    BY <1>3 DEF NoCtrlClient
  <2>3. clients[i] \in Range(clients) /\ clients[i] \in Pointers
    BY <1>0, RangeOfList
  <2>4. Range(heap[clients[i]].gets) \subseteq Below(clients[i])
    <3>1. heap[clients[i]].gets \in Seq(Pointers)
      BY <1>0, <1>a, <2>3, Objects
    <3>2. \A j \in 1 .. Len(heap[clients[i]].gets) :
            /\ heap[clients[i]].gets[j] \in Pointers
            /\ heap[heap[clients[i]].gets[j]].kind = "getvar"
            /\ heap[heap[clients[i]].gets[j]].cc = clients[i]
      BY <1>0, <1>a, <2>3, <3>1, ElementOfSeq DEF HeapInv
    <3> QED
      BY <3>1, <3>2, RangeOfList DEF Below
  <2>5. Linked \ Below(clients[i]) \subseteq Linked'
    <3>1. clients[i] \in Below(clients[i])
      BY DEF Below
    <3> QED
      BY <2>1, <2>2, <2>4, <3>1 DEF Linked
  <2>6. Range(clients') \cap Below(clients[i]) = {}
    BY <1>a, <2>1 DEF Below
  <2>7. Pointers' \ freed' \subseteq Linked' /\ Range(clients') \cap freed' = {}
    BY <2>1, <2>2, <2>5, <2>6 DEF AliveAreLinked, Linked, Pointers
  <2> QED
    BY <2>7 DEF AliveAreLinked, Linked
<1>4. ASSUME NEW v \in Vars, GetVariable(v)
      PROVE  AliveAreLinked'
  BY <1>1, <1>4, AliveCreateGetVar DEF GetVariable, Undefined
<1>5. ASSUME NEW v \in Vars, NoGetVariable(v)
      PROVE  AliveAreLinked'
  <2>1. ASSUME NEW p \in Found(v), freed' = freed \cup {p}, UNCHANGED <<heap, clients>>
        PROVE  AliveAreLinked'
    <3>1. p \notin Range(clients)
      <4>1. Gets \in Seq(Pointers) /\ index \in Pointers /\ heap[index].kind = "client"
        BY <1>5, OpenSection DEF NoGetVariable
      <4>2. p \in Range(Gets)
        BY <2>1 DEF Found, Named
      <4>3. heap[p].kind = "getvar"
        BY <1>0, <4>1, <4>2, RangeOfList DEF HeapInv, Gets
      <4> QED
        BY <1>a, <4>3
    <3> QED
      BY <2>1, <3>1 DEF AliveAreLinked, Pointers
  <2>2. CASE CreateGetVar(v) /\ freed' = freed \cup {Len(heap')} /\ UNCHANGED clients
    BY <1>5, <2>2, AliveCreateGetVar DEF NoGetVariable
  <2> QED
    BY <1>1, <1>5, <2>1, <2>2 DEF NoGetVariable, Undefined
<1> QED
  BY <1>1, <1>2, <1>3, <1>4, <1>5 DEF Next, GoParent, Poll, Undefined, vars

-----------------------------------------------------------------------------
(* All of it.                                                              *)

LEMMA IInvInit == Init => IInv
<1> SUFFICES ASSUME Init PROVE IInv
  OBVIOUS
<1>1. heap = <<>> /\ clients = <<>> /\ Pointers = {} /\ Len(clients) = 0
  BY EmptySeq DEF Init, Pointers
<1>2. TypeOK
  BY <1>1, EmptySeq DEF Init, TypeOK, Nodes
<1>3. Range(clients) = {}
  <2>1. clients \in Seq(Pointers) /\ Len(clients) = 0
    BY <1>1, <1>2 DEF TypeOK
  <2>2. Range(clients) = {clients[i] : i \in 1 .. Len(clients)}
    BY <2>1, RangeOfList
  <2> QED
    BY <2>1, <2>2
<1>4. HeapInv /\ IndexMatchesNode
  BY <1>1 DEF Init, HeapInv, IndexMatchesNode
<1>5. NamesUnique /\ AliveAreLinked
  BY <1>1, <1>3 DEF NamesUnique, AliveAreLinked
<1> QED
  BY <1>2, <1>4, <1>5 DEF IInv, TypeInv

\* IInv is an inductive invariant of the VTY commands of osysmon_ctrl.c.
THEOREM IInvCorrect == Spec => []IInv
<1>1. IInv /\ [Next]_vars => IInv'
  BY TypeNext, NamesNext, AliveNext DEF IInv
<1> QED
  BY <1>1, IInvInit, PTL DEF Spec

\* Types: what is linked has been allocated, and is what the list it is in holds.
THEOREM TypeCorrect == Spec => []TypeOK
<1>1. IInv => TypeOK
  BY DEF IInv, TypeInv
<1> QED
  BY <1>1, IInvCorrect, PTL

\* Whatever the configuration file contains, names are unique (osysmon_ctrl.c:72,
\* :102), which is what OsysmonCtrl assumes of its configuration.
THEOREM NamesUniqueCorrect == Spec => []NamesUnique
<1>1. IInv => NamesUnique
  BY DEF IInv
<1> QED
  BY <1>1, IInvCorrect, PTL

\* vty->index is what the commands of vty->node take it for (osysmon_ctrl.c:131-150),
\* after any sequence of sections opened and left.
THEOREM IndexMatchesNodeCorrect == Spec => []IndexMatchesNode
<1>1. IInv => IndexMatchesNode
  BY DEF IInv, TypeInv
<1> QED
  BY <1>1, IInvCorrect, PTL

\* No object that is alive is lost, and the list of clients holds nothing that was
\* freed (osysmon_ctrl.c:91-96).
THEOREM AliveAreLinkedCorrect == Spec => []AliveAreLinked
<1>1. IInv => AliveAreLinked
  BY DEF IInv
<1> QED
  BY <1>1, IInvCorrect, PTL

-----------------------------------------------------------------------------
(* Lists without the dead.                                                 *)

LEMMA Appended ==
    ASSUME NEW S, NEW s \in Seq(S), NEW e \in S
    PROVE  /\ Append(s, e) \in Seq(S) /\ Len(s) \in Nat
           /\ Len(Append(s, e)) = Len(s) + 1
           /\ \A i \in 1 .. Len(s) : Append(s, e)[i] = s[i]
           /\ Append(s, e)[Len(s) + 1] = e
OBVIOUS

\* f[n] is what is alive of the first n of the list.
Walk(f, s, dead, S) ==
    /\ f \in [0 .. Len(s) -> Seq(S)]
    /\ f[0] = <<>>
    /\ \A i \in 1 .. Len(s) : f[i] = IF s[i] \in dead THEN f[i - 1] ELSE Append(f[i - 1], s[i])

LEMMA AliveWalk ==
    ASSUME NEW S, NEW s \in Seq(S), NEW dead
    PROVE  \E f : Walk(f, s, dead, S) /\ Alive(s, dead) = f[Len(s)]
<1> DEFINE m == Len(s)
           V == Seq(S)
           next(q, i) == IF s[i] \in dead THEN q ELSE Append(q, s[i])
           step == [i \in 1 .. m |-> [q \in V |-> next(q, i)]]
           g == CHOOSE h : h = [i \in 0 .. m |-> IF i = 0 THEN <<>> ELSE next(h[i - 1], i)]
<1>1. m \in Nat /\ \A i \in 1 .. m : s[i] \in S
  OBVIOUS
<1>2. Alive(s, dead) = g[m]
  BY DEF Alive
<1>3. /\ <<>> \in V
      /\ \A q \in V : \A i \in 1 .. m : next(q, i) \in V
  BY <1>1
<1> HIDE DEF m, V, next
<1>4. step \in [1 .. m -> [V -> V]]
  BY <1>3
<1>5. \A i \in 1 .. m : \A q \in V : step[i][q] = next(q, i)
  OBVIOUS
<1> HIDE DEF step
<1>6. PICK f \in [0 .. m -> V] : Iterates(f, m, <<>>, step)
  BY <1>1, <1>3, <1>4, IterationExists
<1>7. \A i \in 1 .. m : f[i] = next(f[i - 1], i)
  <2>1. \A i \in 1 .. m : f[i - 1] \in V
    BY <1>1, <1>6
  <2> QED
    BY <1>5, <1>6, <2>1 DEF Iterates
<1>8. f = [i \in 0 .. m |-> IF i = 0 THEN <<>> ELSE next(f[i - 1], i)]
  BY <1>1, <1>6, <1>7 DEF Iterates
<1>9. g = [i \in 0 .. m |-> IF i = 0 THEN <<>> ELSE next(g[i - 1], i)]
  BY <1>8
<1> HIDE DEF g
<1>10. g[0] = <<>> /\ \A i \in 1 .. m : g[i] = next(g[i - 1], i)
  BY <1>1, <1>9
<1>11. \A i \in 0 .. m : g[i] \in V
  <2> DEFINE T == {i \in 0 .. m : g[i] \in V}
  <2>1. 0 \in T
    BY <1>1, <1>3, <1>10
  <2>2. ASSUME NEW n \in 0 .. m - 1, n \in T
        PROVE  n + 1 \in T
    <3>1. g[n + 1] = next(g[n], n + 1) /\ n + 1 \in 1 .. m
      BY <1>1, <1>10
    <3> QED
      BY <1>3, <2>2, <3>1
  <2> HIDE DEF T
  <2>3. \A n \in 0 .. m : n \in T
    BY <1>1, <2>1, <2>2, BoundedInduction
  <2> QED
    BY <2>3 DEF T
<1>12. g \in [0 .. m -> V]
  BY <1>9, <1>11
<1>13. Walk(g, s, dead, S)
  BY <1>10, <1>12 DEF Walk, next, m, V
<1> QED
  BY <1>2, <1>13 DEF m

\* Walks over lists that begin alike begin alike.
LEMMA WalksAgree ==
    ASSUME NEW S, NEW s \in Seq(S), NEW t \in Seq(S), NEW d, NEW e, NEW f, NEW g,
           Walk(f, s, d, S), Walk(g, t, e, S),
           NEW n \in Nat, n <= Len(s), n <= Len(t),
           \A i \in 1 .. n : s[i] = t[i] /\ (s[i] \in d <=> t[i] \in e)
    PROVE  \A i \in 0 .. n : f[i] = g[i]
<1> DEFINE T == {i \in 0 .. n : f[i] = g[i]}
<1>1. 0 \in T
  BY DEF Walk
<1>2. ASSUME NEW i \in 0 .. n - 1, i \in T
      PROVE  i + 1 \in T
  <2>1. i + 1 \in 1 .. Len(s) /\ i + 1 \in 1 .. Len(t) /\ (i + 1) - 1 = i /\ i + 1 \in 1 .. n
    OBVIOUS
  <2>2. /\ f[i + 1] = IF s[i + 1] \in d THEN f[i] ELSE Append(f[i], s[i + 1])
        /\ g[i + 1] = IF t[i + 1] \in e THEN g[i] ELSE Append(g[i], t[i + 1])
    BY <2>1 DEF Walk
  <2> QED
    BY <1>2, <2>1, <2>2
<1> HIDE DEF T
<1>3. \A i \in 0 .. n : i \in T
  BY <1>1, <1>2, BoundedInduction
<1> QED
  BY <1>3 DEF T

LEMMA AliveSame ==
    ASSUME NEW S, NEW s \in Seq(S), NEW d, NEW e,
           \A i \in 1 .. Len(s) : s[i] \in d <=> s[i] \in e
    PROVE  Alive(s, d) = Alive(s, e)
<1>1. PICK f : Walk(f, s, d, S) /\ Alive(s, d) = f[Len(s)]
  BY AliveWalk
<1>2. PICK g : Walk(g, s, e, S) /\ Alive(s, e) = g[Len(s)]
  BY AliveWalk
<1>3. Len(s) \in Nat /\ Len(s) \in 0 .. Len(s)
  OBVIOUS
<1>4. \A i \in 0 .. Len(s) : f[i] = g[i]
  BY <1>1, <1>2, <1>3, WalksAgree
<1> QED
  BY <1>1, <1>2, <1>3, <1>4

LEMMA AliveAppend ==
    ASSUME NEW S, NEW s \in Seq(S), NEW x \in S, NEW d
    PROVE  Alive(Append(s, x), d) = IF x \in d THEN Alive(s, d) ELSE Append(Alive(s, d), x)
<1>0. PICK t : t = Append(s, x)
  OBVIOUS
<1>1. /\ t \in Seq(S) /\ Len(t) = Len(s) + 1 /\ Len(s) \in Nat
      /\ \A i \in 1 .. Len(s) : t[i] = s[i]
      /\ t[Len(s) + 1] = x
  BY <1>0, Appended
<1>2. PICK f : Walk(f, s, d, S) /\ Alive(s, d) = f[Len(s)]
  BY AliveWalk
<1>3. PICK g : Walk(g, t, d, S) /\ Alive(t, d) = g[Len(t)]
  BY <1>1, AliveWalk
<1>4. \A i \in 0 .. Len(s) : f[i] = g[i]
  BY <1>1, <1>2, <1>3, WalksAgree
<1>5. g[Len(s) + 1] = IF x \in d THEN g[Len(s)] ELSE Append(g[Len(s)], x)
  <2>1. Len(s) + 1 \in 1 .. Len(t) /\ (Len(s) + 1) - 1 = Len(s)
    BY <1>1
  <2> QED
    BY <1>1, <1>3, <2>1 DEF Walk
<1>6. f[Len(s)] = g[Len(s)]
  BY <1>1, <1>4
<1> QED
  BY <1>0, <1>1, <1>2, <1>3, <1>5, <1>6

\* What is alive are the members that are not dead.
LEMMA AliveMembers ==
    ASSUME NEW S, NEW s \in Seq(S), NEW d
    PROVE  /\ Alive(s, d) \in Seq(S)
           /\ \A j \in 1 .. Len(Alive(s, d)) :
                \E i \in 1 .. Len(s) : Alive(s, d)[j] = s[i] /\ s[i] \notin d
           /\ \A i \in 1 .. Len(s) : s[i] \notin d =>
                \E j \in 1 .. Len(Alive(s, d)) : Alive(s, d)[j] = s[i]
<1>1. PICK f : Walk(f, s, d, S) /\ Alive(s, d) = f[Len(s)]
  BY AliveWalk
<1>2. Len(s) \in Nat /\ \A i \in 1 .. Len(s) : s[i] \in S
  OBVIOUS
<1> DEFINE m == Len(s)
           Holds(q, n) ==
                /\ \A j \in 1 .. Len(q) : \E i \in 1 .. n : q[j] = s[i] /\ s[i] \notin d
                /\ \A i \in 1 .. n : s[i] \notin d => \E j \in 1 .. Len(q) : q[j] = s[i]
           T == {n \in 0 .. m : Holds(f[n], n)}
<1>3. 0 \in T
  BY <1>1, <1>2 DEF Walk
<1>4. ASSUME NEW n \in 0 .. m - 1, n \in T
      PROVE  n + 1 \in T
  <2>1. /\ n + 1 \in 1 .. m /\ (n + 1) - 1 = n /\ f[n] \in Seq(S) /\ s[n + 1] \in S
        /\ f[n + 1] = IF s[n + 1] \in d THEN f[n] ELSE Append(f[n], s[n + 1])
    BY <1>1, <1>2 DEF Walk
  <2>2. /\ \A j \in 1 .. Len(f[n]) : \E i \in 1 .. n : f[n][j] = s[i] /\ s[i] \notin d
        /\ \A i \in 1 .. n : s[i] \notin d => \E j \in 1 .. Len(f[n]) : f[n][j] = s[i]
    BY <1>4
  <2>3. 1 .. n + 1 = 1 .. n \cup {n + 1}
    BY <1>2
  <2>4. CASE s[n + 1] \in d
    <3>1. PICK q : q = f[n]
      OBVIOUS
    <3>2. Holds(q, n + 1)
      BY <2>2, <2>3, <2>4, <3>1
    <3> HIDE DEF Holds
    <3>3. f[n + 1] = q /\ n + 1 \in 0 .. m
      BY <1>2, <2>1, <2>4, <3>1
    <3> QED
      BY <3>2, <3>3
  <2>5. CASE s[n + 1] \notin d
    <3>1. PICK q : q = f[n + 1]
      OBVIOUS
    <3>2. /\ Len(q) = Len(f[n]) + 1 /\ Len(f[n]) \in Nat
          /\ \A j \in 1 .. Len(f[n]) : q[j] = f[n][j]
          /\ q[Len(f[n]) + 1] = s[n + 1]
      BY <2>1, <2>5, <3>1, Appended
    <3>3. \A j \in 1 .. Len(q) : j \in 1 .. Len(f[n]) \/ j = Len(f[n]) + 1
      BY <3>2
    <3>4. \A j \in 1 .. Len(q) : \E i \in 1 .. n + 1 : q[j] = s[i] /\ s[i] \notin d
      BY <2>2, <2>3, <2>5, <3>2, <3>3
    <3>5. \A i \in 1 .. n + 1 : s[i] \notin d => \E j \in 1 .. Len(q) : q[j] = s[i]
      <4>1. \A j \in 1 .. Len(f[n]) : j \in 1 .. Len(q)
        BY <3>2
      <4>2. Len(f[n]) + 1 \in 1 .. Len(q)
        BY <3>2
      <4> QED
        BY <2>2, <2>3, <3>2, <4>1, <4>2
    <3>6. Holds(q, n + 1)
      BY <3>4, <3>5
    <3> HIDE DEF Holds
    <3> QED
      BY <1>2, <2>1, <3>1, <3>6
  <2> QED
    BY <2>4, <2>5
<1> HIDE DEF T
<1>5. m \in T /\ f[m] \in Seq(S)
  <2>1. \A n \in 0 .. m : n \in T
    BY <1>2, <1>3, <1>4, BoundedInduction
  <2> QED
    BY <1>1, <1>2, <2>1 DEF Walk
<1> QED
  BY <1>1, <1>5 DEF T

LEMMA RemoveAppend ==
    ASSUME NEW S, NEW q \in Seq(S), NEW e \in S, NEW j \in 1 .. Len(q) + 1
    PROVE  RemoveAt(Append(q, e), j) = IF j = Len(q) + 1 THEN q ELSE Append(RemoveAt(q, j), e)
<1>1. PICK t : t = Append(q, e)
  OBVIOUS
<1>2. /\ t \in Seq(S) /\ Len(t) = Len(q) + 1 /\ Len(q) \in Nat
      /\ \A i \in 1 .. Len(q) : t[i] = q[i]
      /\ t[Len(q) + 1] = e
  BY <1>1, Appended
<1>3. PICK r : r = RemoveAt(t, j)
  OBVIOUS
<1>4. /\ r \in Seq(S) /\ Len(r) = Len(q)
      /\ \A i \in 1 .. Len(q) : r[i] = IF i < j THEN t[i] ELSE t[i + 1]
  <2>1. j \in 1 .. Len(t) /\ Len(t) - 1 = Len(q)
    BY <1>2
  <2> QED
    BY <1>2, <1>3, <2>1, Removed
<1>5. CASE j = Len(q) + 1
  <2>1. \A i \in 1 .. Len(q) : r[i] = q[i]
    BY <1>2, <1>4, <1>5
  <2>2. r = q
    BY <1>4, <2>1, SeqEqual
  <2> QED
    BY <1>1, <1>3, <1>5, <2>2
<1>6. CASE j # Len(q) + 1
  <2>1. PICK b : b = RemoveAt(q, j)
    OBVIOUS
  <2>2. j \in 1 .. Len(q)
    BY <1>2, <1>6
  <2>3. /\ b \in Seq(S) /\ Len(b) = Len(q) - 1
        /\ \A i \in 1 .. Len(q) - 1 : b[i] = IF i < j THEN q[i] ELSE q[i + 1]
    BY <2>1, <2>2, Removed
  <2>4. PICK c : c = Append(b, e)
    OBVIOUS
  <2>5. /\ c \in Seq(S) /\ Len(c) = Len(q)
        /\ \A i \in 1 .. Len(q) - 1 : c[i] = b[i]
        /\ c[Len(q)] = e
    BY <1>2, <2>3, <2>4, Appended
  <2>6. \A i \in 1 .. Len(q) : c[i] = r[i]
    <3> TAKE i \in 1 .. Len(q)
    <3>1. CASE i = Len(q)
      BY <1>2, <1>4, <2>2, <2>5, <3>1
    <3>2. CASE i # Len(q)
      <4>1. i \in 1 .. Len(q) - 1 /\ i + 1 \in 1 .. Len(q)
        BY <1>2, <3>2
      <4> QED
        BY <1>2, <1>4, <2>3, <2>5, <4>1
    <3> QED
      BY <3>1, <3>2
  <2>7. c = r
    BY <1>4, <2>5, <2>6, SeqEqual
  <2> QED
    BY <1>1, <1>3, <1>6, <2>1, <2>4, <2>7
<1> QED
  BY <1>5, <1>6

\* One more that is dead has been taken out of its place.
LEMMA AliveFreed ==
    ASSUME NEW S, NEW s \in Seq(S), \A i, j \in 1 .. Len(s) : s[i] = s[j] => i = j,
           NEW d, NEW k \in 1 .. Len(s), s[k] \notin d
    PROVE  \E j \in 1 .. Len(Alive(s, d)) :
                /\ Alive(s, d)[j] = s[k]
                /\ Alive(s, d \cup {s[k]}) = RemoveAt(Alive(s, d), j)
<1> DEFINE m == Len(s)
           e == d \cup {s[k]}
<1>1. m \in Nat /\ \A i \in 1 .. m : s[i] \in S
  OBVIOUS
<1>2. PICK f : Walk(f, s, d, S) /\ Alive(s, d) = f[m]
  BY AliveWalk
<1>3. PICK g : Walk(g, s, e, S) /\ Alive(s, e) = g[m]
  BY AliveWalk
<1>4. \A i \in 1 .. m : s[i] \in e <=> s[i] \in d \/ i = k
  OBVIOUS
<1> HIDE DEF e
<1>5. /\ \A i \in 0 .. m : f[i] \in Seq(S) /\ g[i] \in Seq(S)
      /\ \A i \in 1 .. m : f[i] = IF s[i] \in d THEN f[i - 1] ELSE Append(f[i - 1], s[i])
      /\ \A i \in 1 .. m : g[i] = IF s[i] \in e THEN g[i - 1] ELSE Append(g[i - 1], s[i])
  BY <1>2, <1>3 DEF Walk
<1>6. f[k - 1] = g[k - 1]
  <2>1. k - 1 \in Nat /\ k - 1 <= m /\ \A i \in 1 .. k - 1 : i \in 1 .. m /\ i # k
    BY <1>1
  <2>2. \A i \in 0 .. k - 1 : f[i] = g[i]
    BY <1>2, <1>3, <1>4, <2>1, WalksAgree
  <2> QED
    BY <2>1, <2>2
<1> DEFINE j == Len(f[k - 1]) + 1
           Holds(n) == j \in 1 .. Len(f[n]) /\ f[n][j] = s[k] /\ g[n] = RemoveAt(f[n], j)
<1>7. Holds(k)
  <2>1. PICK q : q = f[k - 1]
    OBVIOUS
  <2>2. PICK x : x = s[k]
    OBVIOUS
  <2>3. k \in 1 .. m /\ k - 1 \in 0 .. m
    BY <1>1
  <2>4. q \in Seq(S) /\ x \in S /\ Len(q) \in Nat
    BY <1>1, <1>5, <2>1, <2>2, <2>3
  <2>5. f[k] = Append(q, x)
    BY <1>5, <2>1, <2>2, <2>3
  <2>6. g[k] = q
    BY <1>4, <1>5, <1>6, <2>1, <2>3
  <2>7. j = Len(q) + 1
    BY <2>1
  <2> HIDE DEF j
  <2>8. j \in 1 .. Len(Append(q, x)) /\ Append(q, x)[j] = x
    BY <2>4, <2>7, Appended
  <2>9. RemoveAt(Append(q, x), j) = q
    <3>1. j \in 1 .. Len(q) + 1
      BY <2>4, <2>7
    <3> QED
      BY <2>4, <2>7, <3>1, RemoveAppend
  <2> QED
    BY <2>2, <2>5, <2>6, <2>8, <2>9
<1>8. ASSUME NEW n \in k .. m - 1, Holds(n)
      PROVE  Holds(n + 1)
  <2>1. n + 1 \in 1 .. m /\ (n + 1) - 1 = n /\ n \in 0 .. m /\ n + 1 # k
    BY <1>1
  <2>2. CASE s[n + 1] \in d
    <3>1. f[n + 1] = f[n] /\ g[n + 1] = g[n]
      BY <1>4, <1>5, <2>1, <2>2
    <3> QED
      BY <1>8, <3>1
  <2>3. CASE s[n + 1] \notin d
    <3>1. PICK q : q = f[n]
      OBVIOUS
    <3>2. PICK x : x = s[n + 1]
      OBVIOUS
    <3>3. f[n + 1] = Append(q, x) /\ g[n + 1] = Append(g[n], x)
      BY <1>4, <1>5, <2>1, <2>3, <3>1, <3>2
    <3>4. q \in Seq(S) /\ x \in S /\ Len(q) \in Nat
      BY <1>1, <1>5, <2>1, <3>1, <3>2
    <3>5. j \in 1 .. Len(q) /\ q[j] = s[k] /\ g[n] = RemoveAt(q, j)
      BY <1>8, <3>1
    <3> HIDE DEF j
    <3>6. /\ Len(Append(q, x)) = Len(q) + 1
          /\ Append(q, x)[j] = q[j]
      BY <3>4, <3>5, Appended
    <3>7. RemoveAt(Append(q, x), j) = Append(RemoveAt(q, j), x)
      <4>1. j \in 1 .. Len(q) + 1 /\ j # Len(q) + 1
        BY <3>4, <3>5
      <4> QED
        BY <3>4, <4>1, RemoveAppend
    <3>8. j \in 1 .. Len(Append(q, x)) /\ Append(q, x)[j] = s[k]
      BY <3>4, <3>5, <3>6
    <3> QED
      BY <3>3, <3>5, <3>7, <3>8
  <2> QED
    BY <2>2, <2>3
<1>9. Holds(m)
  <2> DEFINE T == {n \in 0 .. m : n >= k => Holds(n)}
  <2>1. 0 \in T
    BY <1>1
  <2>2. ASSUME NEW n \in 0 .. m - 1, n \in T
        PROVE  n + 1 \in T
    <3> HIDE DEF Holds
    <3>1. CASE n + 1 < k
      BY <1>1, <3>1
    <3>2. CASE n + 1 = k
      BY <1>1, <1>7, <3>2
    <3>3. CASE n + 1 > k
      <4>1. n \in k .. m - 1 /\ Holds(n)
        BY <1>1, <2>2, <3>3
      <4> QED
        BY <1>1, <1>8, <4>1
    <3> QED
      BY <1>1, <3>1, <3>2, <3>3
  <2> HIDE DEF T
  <2>3. \A n \in 0 .. m : n \in T
    BY <1>1, <2>1, <2>2, BoundedInduction
  <2>4. m \in T /\ m >= k
    BY <1>1, <2>3
  <2> QED
    BY <2>4 DEF T
<1> QED
  BY <1>2, <1>3, <1>9 DEF e

-----------------------------------------------------------------------------
(* The lines of the file (CtrlConfigMap).                                  *)

NamesIn(h, q) == [j \in 1 .. Len(q) |-> h[q[j]].name]

EntryIn(h, dead, p) ==
    [name |-> h[p].name, addr |-> h[p].addr, vars |-> NamesIn(h, Alive(h[p].gets, dead))]

LEMMA ConfigIs == Config = [i \in 1 .. Len(clients) |-> EntryIn(heap, freed, clients[i])]
BY DEF Config, Entry, EntryIn, NamesIn

LEMMA ConfigWillBe ==
    Config' = [i \in 1 .. Len(clients') |-> EntryIn(heap', freed', clients'[i])]
BY DEF Config, Entry, EntryIn, NamesIn

LEMMA NamesAppend ==
    ASSUME NEW S, NEW q \in Seq(S), NEW x \in S, NEW h
    PROVE  NamesIn(h, Append(q, x)) = Append(NamesIn(h, q), h[x].name)
<1>1. PICK t : t = Append(q, x)
  OBVIOUS
<1>2. /\ Len(t) = Len(q) + 1 /\ Len(q) \in Nat
      /\ \A i \in 1 .. Len(q) : t[i] = q[i]
      /\ t[Len(q) + 1] = x
  BY <1>1, Appended
<1> DEFINE V == {h[y].name : y \in S}
           a == NamesIn(h, q)
           b == NamesIn(h, t)
<1>3. \A i \in 1 .. Len(q) : h[q[i]].name \in V
  OBVIOUS
<1>4. a \in Seq(V) /\ Len(a) = Len(q) /\ \A i \in 1 .. Len(q) : a[i] = h[q[i]].name
  <2> HIDE DEF V
  <2> QED
    BY <1>2, <1>3 DEF NamesIn
<1>5. h[x].name \in V
  OBVIOUS
<1> HIDE DEF V
<1>6. PICK c : c = Append(a, h[x].name)
  OBVIOUS
<1>7. /\ c \in Seq(V) /\ Len(c) = Len(q) + 1
      /\ \A i \in 1 .. Len(q) : c[i] = a[i]
      /\ c[Len(q) + 1] = h[x].name
  <2> HIDE DEF a
  <2> QED
    BY <1>4, <1>5, <1>6, Appended
<1>8. \A i \in 1 .. Len(q) + 1 : c[i] = h[t[i]].name
  <2> TAKE i \in 1 .. Len(q) + 1
  <2>1. CASE i = Len(q) + 1
    BY <1>2, <1>7, <2>1
  <2>2. CASE i # Len(q) + 1
    <3>1. i \in 1 .. Len(q)
      BY <1>2, <2>2
    <3> QED
      BY <1>2, <1>4, <1>7, <3>1
  <2> QED
    BY <2>1, <2>2
<1>9. c = b
  <2>1. c = [i \in 1 .. Len(q) + 1 |-> c[i]]
    BY <1>7
  <2> QED
    BY <1>2, <1>8, <2>1 DEF NamesIn
<1> QED
  BY <1>1, <1>6, <1>9

LEMMA NamesRemove ==
    ASSUME NEW S, NEW q \in Seq(S), NEW j \in 1 .. Len(q), NEW h
    PROVE  NamesIn(h, RemoveAt(q, j)) = RemoveAt(NamesIn(h, q), j)
<1>1. PICK t : t = RemoveAt(q, j)
  OBVIOUS
<1>2. /\ t \in Seq(S) /\ Len(t) = Len(q) - 1 /\ Len(q) \in Nat
      /\ \A i \in 1 .. Len(q) - 1 : t[i] = IF i < j THEN q[i] ELSE q[i + 1]
  BY <1>1, Removed
<1> DEFINE V == {h[y].name : y \in S}
           a == NamesIn(h, q)
           b == NamesIn(h, t)
<1>3. \A i \in 1 .. Len(q) : h[q[i]].name \in V
  OBVIOUS
<1>4. a \in Seq(V) /\ Len(a) = Len(q) /\ \A i \in 1 .. Len(q) : a[i] = h[q[i]].name
  <2> HIDE DEF V
  <2> QED
    BY <1>2, <1>3 DEF NamesIn
<1> HIDE DEF V
<1>5. PICK c : c = RemoveAt(a, j)
  OBVIOUS
<1>6. /\ c \in Seq(V) /\ Len(c) = Len(q) - 1
      /\ \A i \in 1 .. Len(q) - 1 : c[i] = IF i < j THEN a[i] ELSE a[i + 1]
  <2> HIDE DEF a
  <2> QED
    BY <1>4, <1>5, Removed
<1>7. \A i \in 1 .. Len(q) - 1 : c[i] = h[t[i]].name
  <2> TAKE i \in 1 .. Len(q) - 1
  <2>1. i \in 1 .. Len(q) /\ i + 1 \in 1 .. Len(q)
    BY <1>2
  <2> QED
    BY <1>2, <1>4, <1>6, <2>1
<1>8. c = b
  <2>1. c = [i \in 1 .. Len(q) - 1 |-> c[i]]
    BY <1>6
  <2> QED
    BY <1>2, <1>7, <2>1 DEF NamesIn
<1> QED
  BY <1>1, <1>5, <1>8

\* An entry depends on the client and its variables only.
LEMMA EntryStays ==
    ASSUME NEW p \in Pointers, heap[p].gets \in Seq(Pointers), heap'[p] = heap[p],
           \A x \in Pointers : heap'[x].name = heap[x].name,
           \A j \in 1 .. Len(heap[p].gets) :
                heap[p].gets[j] \in freed <=> heap[p].gets[j] \in freed'
    PROVE  EntryIn(heap', freed', p) = EntryIn(heap, freed, p)
<1> DEFINE gets == heap[p].gets
           a == Alive(gets, freed)
<1>1. Alive(gets, freed') = a
  BY AliveSame
<1>2. a \in Seq(Pointers)
  BY AliveMembers
<1> HIDE DEF a
<1>3. NamesIn(heap', a) = NamesIn(heap, a)
  <2>1. \A j \in 1 .. Len(a) : a[j] \in Pointers
    BY <1>2
  <2> QED
    BY <2>1 DEF NamesIn
<1> QED
  BY <1>1, <1>3 DEF EntryIn, a

LEMMA EntryFields ==
    ASSUME NEW h, NEW d, NEW p
    PROVE  /\ EntryIn(h, d, p).name = h[p].name
           /\ EntryIn(h, d, p).addr = h[p].addr
           /\ EntryIn(h, d, p).vars = NamesIn(h, Alive(h[p].gets, d))
BY DEF EntryIn

LEMMA ConfigFacts ==
    ASSUME TypeInv
    PROVE  /\ clients \in Seq(Pointers) /\ Len(clients) \in Nat
           /\ Len(Config) = Len(clients)
           /\ \A i \in 1 .. Len(clients) :
                /\ clients[i] \in Pointers /\ clients[i] \in Range(clients)
                /\ heap[clients[i]].kind = "client"
                /\ heap[clients[i]].gets \in Seq(Pointers)
                /\ Config[i] = EntryIn(heap, freed, clients[i])
                /\ Config[i].name = heap[clients[i]].name
                /\ Config[i].addr = heap[clients[i]].addr
                /\ Config[i].vars = NamesIn(heap, Alive(heap[clients[i]].gets, freed))
<1>1. clients \in Seq(Pointers) /\ Len(clients) \in Nat
  BY RangeOfList DEF TypeInv, TypeOK
<1>2. \A i \in 1 .. Len(clients) : clients[i] \in Pointers /\ clients[i] \in Range(clients)
  BY <1>1, RangeOfList
<1>3. \A i \in 1 .. Len(clients) :
        heap[clients[i]].kind = "client" /\ heap[clients[i]].gets \in Seq(Pointers)
  BY <1>2 DEF TypeInv, TypeOK, HeapInv
<1>4. Len(Config) = Len(clients)
      /\ \A i \in 1 .. Len(clients) : Config[i] = EntryIn(heap, freed, clients[i])
  BY <1>1, ConfigIs
<1>5. \A i \in 1 .. Len(clients) :
        /\ Config[i].name = heap[clients[i]].name
        /\ Config[i].addr = heap[clients[i]].addr
        /\ Config[i].vars = NamesIn(heap, Alive(heap[clients[i]].gets, freed))
  BY <1>4, EntryFields
<1> QED
  BY <1>1, <1>2, <1>3, <1>4, <1>5

Entries == {EntryIn(heap, freed, p) : p \in Pointers}

LEMMA ConfigSeq ==
    ASSUME TypeInv
    PROVE  Config \in Seq(Entries)
<1>1. \A i \in 1 .. Len(clients) : EntryIn(heap, freed, clients[i]) \in Entries
  BY ConfigFacts DEF Entries
<1> QED
  BY <1>1, ConfigFacts, ConfigIs

LEMMA SectionIs ==
    ASSUME TypeInv
    PROVE  /\ node = "CONFIG_NODE" => Section = Nobody
           /\ node = "CTRL_CLIENT_NODE" => Section = heap[index].name /\ Section # Nobody
<1>1. node = "CONFIG_NODE" => Section = Nobody
  BY DEF Section
<1>2. ASSUME node = "CTRL_CLIENT_NODE"
      PROVE  Section = heap[index].name /\ Section # Nobody
  <2>1. heap[index].name \in Names
    BY <1>2, OpenSection DEF ClientObject
  <2> QED
    BY <1>2, <2>1, BoundAssumption DEF Section, BoundAssumption
<1> QED
  BY <1>1, <1>2

LEMMA ConfigUnchanged ==
    ASSUME UNCHANGED <<heap, freed, clients>>
    PROVE  Config' = Config
BY ConfigIs, ConfigWillBe

LEMMA MapOpen ==
    ASSUME IInv, NEW n \in Names, NEW a \in Addrs, CtrlClient(n, a)
    PROVE  Map!OpenSection(n, a)
<1>0. TypeInv /\ TypeOK /\ clients \in Seq(Pointers) /\ Section = Nobody
  BY ConfigFacts, SectionIs DEF IInv, TypeInv, CtrlClient
<1>1. ASSUME NEW p \in Named(clients, n), heap[p].addr = a, Enter("CTRL_CLIENT_NODE", p),
             UNCHANGED <<heap, clients, freed>>
      PROVE  Map!OpenSection(n, a)
  <2>1. p \in Range(clients) /\ heap[p].name = n
    BY DEF Named
  <2>2. PICK i \in 1 .. Len(clients) : clients[i] = p
    BY <1>0, <2>1, RangeOfList
  <2>3. i \in 1 .. Len(Config) /\ Config[i].name = n /\ Config[i].addr = a
    BY <1>0, <1>1, <2>1, <2>2, ConfigFacts
  <2>4. Config' = Config
    BY <1>1, ConfigUnchanged
  <2>5. Section' = n
    BY <1>1, <2>1 DEF Section, Enter
  <2> QED
    BY <1>0, <2>3, <2>4, <2>5 DEF Map!OpenSection
<1>2. ASSUME Named(clients, n) = {}, CreateClient(n, a), UNCHANGED freed
      PROVE  Map!OpenSection(n, a)
  <2> DEFINE new == Len(heap')
             e == [name |-> n, addr |-> a, vars |-> <<>>]
             V == Entries \cup {e}
  <2>1. /\ \A p \in Pointers : heap'[p] = heap[p]
        /\ heap'[new] = [kind |-> "client", name |-> n, addr |-> a, gets |-> <<>>]
        /\ clients' = Append(clients, new)
        /\ node' = "CTRL_CLIENT_NODE" /\ index' = new
        /\ new \in Nat /\ Pointers \subseteq Nat
    BY <1>0, <1>2, ClientCreated DEF Pointers
  <2>2. Section' = n
    BY <2>1 DEF Section
  <2>3. ~Map!Mentions(n)
    <3>1. \A i \in 1 .. Len(clients) : heap[clients[i]].name # n
      BY <1>0, <1>2, RangeOfList DEF Named
    <3> QED
      BY <1>0, <3>1, ConfigFacts DEF Map!Mentions
  <2>4. EntryIn(heap', freed', new) = e
    <3>1. heap'[new].gets = <<>> /\ heap'[new].name = n /\ heap'[new].addr = a
      BY <2>1
    <3>2. Alive(<<>>, freed') = <<>>
      <4>1. <<>> \in Seq(Nat) /\ Len(<<>>) = 0
        OBVIOUS
      <4>2. PICK f : Walk(f, <<>>, freed', Nat) /\ Alive(<<>>, freed') = f[Len(<<>>)]
        BY <4>1, AliveWalk
      <4> QED
        BY <4>1, <4>2 DEF Walk
    <3>3. NamesIn(heap', <<>>) = <<>>
      BY DEF NamesIn
    <3> QED
      BY <3>1, <3>2, <3>3 DEF EntryIn
  <2>5. \A i \in 1 .. Len(clients) : EntryIn(heap', freed', clients[i]) = Config[i]
    <3> TAKE i \in 1 .. Len(clients)
    <3>1. /\ clients[i] \in Pointers /\ heap[clients[i]].gets \in Seq(Pointers)
          /\ Config[i] = EntryIn(heap, freed, clients[i])
      BY <1>0, ConfigFacts
    <3>2. heap'[clients[i]] = heap[clients[i]] /\ \A x \in Pointers : heap'[x].name = heap[x].name
      BY <2>1, <3>1
    <3>3. \A j \in 1 .. Len(heap[clients[i]].gets) :
            heap[clients[i]].gets[j] \in freed <=> heap[clients[i]].gets[j] \in freed'
      BY <1>2
    <3> QED
      BY <3>1, <3>2, <3>3, EntryStays
  <2>6. Config \in Seq(V) /\ Len(Config) = Len(clients) /\ e \in V
    BY <1>0, ConfigFacts, ConfigSeq, SeqMonotonic
  <2> HIDE DEF V, e, new
  <2>7. /\ Len(clients') = Len(clients) + 1 /\ Len(clients) \in Nat
        /\ \A i \in 1 .. Len(clients) : clients'[i] = clients[i]
        /\ clients'[Len(clients) + 1] = new
    <3>1. clients \in Seq(Nat)
      BY <1>0, <2>1, SeqMonotonic
    <3> QED
      BY <2>1, <3>1, Appended
  <2>8. PICK c : c = Append(Config, e)
    OBVIOUS
  <2>9. /\ c \in Seq(V) /\ Len(c) = Len(clients) + 1
        /\ \A i \in 1 .. Len(clients) : c[i] = Config[i]
        /\ c[Len(clients) + 1] = e
    BY <2>6, <2>8, Appended
  <2>10. Config' = c
    <3>1. c = [i \in 1 .. Len(clients) + 1 |-> c[i]]
      BY <2>9
    <3>2. \A i \in 1 .. Len(clients) + 1 : EntryIn(heap', freed', clients'[i]) = c[i]
      <4> TAKE i \in 1 .. Len(clients) + 1
      <4>1. CASE i = Len(clients) + 1
        BY <2>4, <2>7, <2>9, <4>1
      <4>2. CASE i # Len(clients) + 1
        <5>1. i \in 1 .. Len(clients)
          BY <2>7, <4>2
        <5> QED
          BY <2>5, <2>7, <2>9, <5>1
      <4> QED
        BY <4>1, <4>2
    <3> QED
      BY <2>7, <3>1, <3>2, ConfigWillBe
  <2> QED
    BY <1>0, <2>2, <2>3, <2>8, <2>10 DEF Map!OpenSection, e
<1> QED
  BY <1>1, <1>2 DEF CtrlClient

LEMMA RemoveAtIs == \A s, i : Map!RemoveAt(s, i) = RemoveAt(s, i)
BY DEF Map!RemoveAt, RemoveAt

LEMMA MapRemove ==
    ASSUME IInv, NEW n \in Names, NoCtrlClient(n)
    PROVE  Map!RemoveClient(n)
<1>0. TypeInv /\ TypeOK /\ HeapInv /\ clients \in Seq(Pointers) /\ Section = Nobody
  BY ConfigFacts, SectionIs DEF IInv, TypeInv, NoCtrlClient
<1>1. PICK i \in 1 .. Len(clients) :
        /\ heap[clients[i]].name = n
        /\ clients' = RemoveAt(clients, i)
        /\ freed' = freed \cup Below(clients[i])
  BY DEF NoCtrlClient
<1>2. UNCHANGED <<heap, node, index>> /\ node = "CONFIG_NODE"
  BY DEF NoCtrlClient
<1>3. Section' = Section
  BY <1>0, <1>2 DEF Section
<1>4. /\ clients' \in Seq(Pointers) /\ Len(clients') = Len(clients) - 1 /\ Len(clients) \in Nat
      /\ \A j \in 1 .. Len(clients) - 1 : clients'[j] = IF j < i THEN clients[j] ELSE clients[j + 1]
  BY <1>0, <1>1, ConfigFacts, Removed
<1>5. \A j, k \in 1 .. Len(clients) : clients[j] = clients[k] => j = k
  BY DEF IInv, NamesUnique
<1>6. ASSUME NEW j \in 1 .. Len(clients), j # i
      PROVE  EntryIn(heap', freed', clients[j]) = Config[j]
  <2>1. /\ clients[j] \in Pointers /\ heap[clients[j]].kind = "client"
        /\ heap[clients[j]].gets \in Seq(Pointers) /\ clients[j] # clients[i]
        /\ Config[j] = EntryIn(heap, freed, clients[j])
    BY <1>0, <1>5, <1>6, ConfigFacts
  <2>2. \A k \in 1 .. Len(heap[clients[j]].gets) :
            heap[clients[j]].gets[k] \notin Below(clients[i])
    <3> TAKE k \in 1 .. Len(heap[clients[j]].gets)
    <3>1. /\ heap[heap[clients[j]].gets[k]].kind = "getvar"
          /\ heap[heap[clients[j]].gets[k]].cc = clients[j]
      BY <1>0, <2>1 DEF HeapInv
    <3>2. heap[clients[i]].kind = "client"
      BY <1>0, ConfigFacts
    <3> QED
      BY <2>1, <3>1, <3>2 DEF Below
  <2>3. \A k \in 1 .. Len(heap[clients[j]].gets) :
            heap[clients[j]].gets[k] \in freed <=> heap[clients[j]].gets[k] \in freed'
    BY <1>1, <2>2
  <2> QED
    BY <1>2, <2>1, <2>3, EntryStays
<1>7. PICK c : c = RemoveAt(Config, i)
  OBVIOUS
<1>8. /\ c \in Seq(Entries) /\ Len(c) = Len(clients) - 1
      /\ \A j \in 1 .. Len(clients) - 1 : c[j] = IF j < i THEN Config[j] ELSE Config[j + 1]
  <2>1. Config \in Seq(Entries) /\ Len(Config) = Len(clients)
    BY <1>0, ConfigFacts, ConfigSeq
  <2> QED
    BY <1>7, <2>1, Removed
<1>9. Config' = c
  <2>1. c = [j \in 1 .. Len(clients) - 1 |-> c[j]]
    BY <1>8
  <2>2. \A j \in 1 .. Len(clients) - 1 : EntryIn(heap', freed', clients'[j]) = c[j]
    <3> TAKE j \in 1 .. Len(clients) - 1
    <3>1. CASE j < i
      <4>1. j \in 1 .. Len(clients) /\ j # i /\ clients'[j] = clients[j] /\ c[j] = Config[j]
        BY <1>4, <1>8, <3>1
      <4> QED
        BY <1>6, <4>1
    <3>2. CASE ~(j < i)
      <4>1. /\ j + 1 \in 1 .. Len(clients) /\ j + 1 # i
            /\ clients'[j] = clients[j + 1] /\ c[j] = Config[j + 1]
        BY <1>4, <1>8, <3>2
      <4> QED
        BY <1>6, <4>1
    <3> QED
      BY <3>1, <3>2
  <2> QED
    BY <1>4, <2>1, <2>2, ConfigWillBe
<1>10. i \in 1 .. Len(Config) /\ Config[i].name = n
  BY <1>0, <1>1, ConfigFacts
<1> QED
  BY <1>0, <1>3, <1>7, <1>9, <1>10, RemoveAtIs DEF Map!RemoveClient

\* What the section's client and its variables are.
LEMMA SectionOpen ==
    ASSUME IInv, node = "CTRL_CLIENT_NODE"
    PROVE  \E i \in 1 .. Len(clients) :
                /\ clients[i] = index /\ index \in Pointers /\ Gets \in Seq(Pointers)
                /\ heap[index].kind = "client" /\ heap[index] \in ClientObject
                /\ Section = heap[index].name /\ Section # Nobody
                /\ i \in 1 .. Len(Config) /\ Config[i].name = Section
                /\ Config[i].vars = NamesIn(heap, Alive(Gets, freed))
                /\ Config[i] = EntryIn(heap, freed, index)
                /\ \A k \in 1 .. Len(clients) : k # i => clients[k] # index
<1>1. TypeInv /\ clients \in Seq(Pointers) /\ Section = heap[index].name /\ Section # Nobody
  BY ConfigFacts, SectionIs DEF IInv
<1>2. /\ index \in Range(clients) /\ index \in Pointers /\ Gets \in Seq(Pointers)
      /\ heap[index].kind = "client" /\ heap[index] \in ClientObject
  BY <1>1, OpenSection
<1>3. PICK i \in 1 .. Len(clients) : clients[i] = index
  BY <1>1, <1>2, RangeOfList
<1>4. \A k \in 1 .. Len(clients) : k # i => clients[k] # index
  BY <1>3 DEF IInv, NamesUnique
<1> QED
  BY <1>1, <1>2, <1>3, <1>4, ConfigFacts DEF Gets

\* a is a list of what is alive in s.
Members(a, s, d, S) ==
    /\ a \in Seq(S)
    /\ \A j \in 1 .. Len(a) : \E i \in 1 .. Len(s) : a[j] = s[i] /\ s[i] \notin d
    /\ \A i \in 1 .. Len(s) : s[i] \notin d => \E j \in 1 .. Len(a) : a[j] = s[i]

LEMMA AliveAreMembers ==
    ASSUME NEW S, NEW s \in Seq(S), NEW d
    PROVE  Members(Alive(s, d), s, d, S)
BY AliveMembers DEF Members

Has(q, x) == \E j \in 1 .. Len(q) : q[j] = x
HasAlive(list, dead, h, x) == \E i \in 1 .. Len(list) : list[i] \notin dead /\ h[list[i]].name = x

\* A name is in the entry if an object of that name is alive in the list.
LEMMA AliveNames ==
    ASSUME NEW S, NEW list \in Seq(S), NEW h, NEW dead, NEW v
    PROVE  Has(NamesIn(h, Alive(list, dead)), v) <=> HasAlive(list, dead, h, v)
<1>0. PICK a : a = Alive(list, dead)
  OBVIOUS
<1>1. /\ a \in Seq(S)
      /\ \A j \in 1 .. Len(a) : \E i \in 1 .. Len(list) : a[j] = list[i] /\ list[i] \notin dead
      /\ \A i \in 1 .. Len(list) : list[i] \notin dead => \E j \in 1 .. Len(a) : a[j] = list[i]
  <2>1. Members(a, list, dead, S)
    BY <1>0, AliveAreMembers
  <2> QED
    BY <2>1 DEF Members
<1>2. Len(NamesIn(h, a)) = Len(a) /\ \A j \in 1 .. Len(a) : NamesIn(h, a)[j] = h[a[j]].name
  BY <1>1 DEF NamesIn
<1>3. ASSUME NEW j \in 1 .. Len(a), h[a[j]].name = v
      PROVE  \E i \in 1 .. Len(list) : list[i] \notin dead /\ h[list[i]].name = v
  BY <1>1, <1>3
<1>4. ASSUME NEW i \in 1 .. Len(list), list[i] \notin dead, h[list[i]].name = v
      PROVE  \E j \in 1 .. Len(a) : h[a[j]].name = v
  BY <1>1, <1>4
<1> QED
  BY <1>0, <1>2, <1>3, <1>4 DEF Has, HasAlive

LEMMA FoundNames ==
    ASSUME IInv, node = "CTRL_CLIENT_NODE", NEW v
    PROVE  Has(NamesIn(heap, Alive(Gets, freed)), v) <=> Found(v) # {}
<1>1. PICK g : g = Gets
  OBVIOUS
<1>2. g \in Seq(Pointers)
  BY <1>1, SectionOpen
<1>3. PICK h : h = heap
  OBVIOUS
<1>4. PICK d : d = freed
  OBVIOUS
<1>5. PICK S : S = Pointers
  OBVIOUS
<1>6. g \in Seq(S)
  BY <1>2, <1>5
<1>7. Has(NamesIn(h, Alive(g, d)), v) <=> HasAlive(g, d, h, v)
  BY <1>6, AliveNames
<1>8. Found(v) = {p \in Range(g) : h[p].name = v /\ p \notin d}
  BY <1>1, <1>3, <1>4 DEF Found, Named
<1>9. Range(g) = {g[k] : k \in 1 .. Len(g)}
  BY <1>6, RangeOfList
<1>10. Found(v) # {} <=> HasAlive(g, d, h, v)
  BY <1>8, <1>9 DEF HasAlive
<1> QED
  BY <1>1, <1>3, <1>4, <1>7, <1>10

\* One entry has new variables.
LEMMA EntryChanged ==
    ASSUME TypeInv, NEW i \in 1 .. Len(clients), NEW vs, UNCHANGED clients,
           \A k \in 1 .. Len(clients) : k # i =>
                EntryIn(heap', freed', clients[k]) = EntryIn(heap, freed, clients[k]),
           EntryIn(heap', freed', clients[i]) = [EntryIn(heap, freed, clients[i]) EXCEPT !.vars = vs]
    PROVE  Config' = [Config EXCEPT ![i].vars = vs]
<1>1. /\ Len(Config) = Len(clients) /\ DOMAIN Config = 1 .. Len(clients)
      /\ \A k \in 1 .. Len(clients) : Config[k] = EntryIn(heap, freed, clients[k])
      /\ Config = [k \in 1 .. Len(clients) |-> Config[k]]
  BY ConfigFacts, ConfigIs
<1>2. Config' = [k \in 1 .. Len(clients) |-> EntryIn(heap', freed', clients[k])]
  BY ConfigWillBe
<1>3. [Config EXCEPT ![i].vars = vs]
        = [k \in 1 .. Len(clients) |->
                IF k = i THEN [EntryIn(heap, freed, clients[i]) EXCEPT !.vars = vs]
                         ELSE EntryIn(heap, freed, clients[k])]
  BY <1>1
<1> QED
  BY <1>2, <1>3

LEMMA EntryWith ==
    ASSUME NEW h, NEW d, NEW p, NEW h2, NEW d2, h2[p].name = h[p].name, h2[p].addr = h[p].addr
    PROVE  EntryIn(h2, d2, p)
                = [EntryIn(h, d, p) EXCEPT !.vars = NamesIn(h2, Alive(h2[p].gets, d2))]
BY DEF EntryIn

LEMMA NamesSame ==
    ASSUME NEW S, NEW q \in Seq(S), NEW h, NEW h2, \A x \in S : h2[x].name = h[x].name
    PROVE  NamesIn(h2, q) = NamesIn(h, q)
<1>1. \A j \in 1 .. Len(q) : q[j] \in S
  OBVIOUS
<1> QED
  BY <1>1 DEF NamesIn

\* ctrl_client_get_var_find_or_create adds the name to the client's entry, and
\* to no other; if it is freed at once the entry is as before.
LEMMA EntriesCreate ==
    ASSUME IInv, node = "CTRL_CLIENT_NODE", NEW v \in Vars, CreateGetVar(v), UNCHANGED clients,
           NEW D, D \subseteq {Len(heap')}, freed' = freed \cup D
    PROVE  /\ \A k \in 1 .. Len(clients) : clients[k] # index =>
                EntryIn(heap', freed', clients[k]) = EntryIn(heap, freed, clients[k])
           /\ EntryIn(heap', freed', index)
                = [EntryIn(heap, freed, index) EXCEPT !.vars = IF D = {} THEN Append(@, v) ELSE @]
<1>0. /\ TypeInv /\ freed \subseteq Pointers /\ Pointers \subseteq Nat
      /\ index \in Pointers /\ Gets \in Seq(Pointers) /\ heap[index] \in ClientObject
  BY SectionOpen DEF IInv, TypeInv, TypeOK, Pointers
<1>1. PICK new : new = Len(heap')
  OBVIOUS
<1>2. /\ \A p \in Pointers \ {index} : heap'[p] = heap[p]
      /\ heap'[index] = [heap[index] EXCEPT !.gets = Append(Gets, new)]
      /\ heap'[new] = [kind |-> "getvar", name |-> v, cc |-> index]
      /\ new \notin Pointers
  BY <1>0, <1>1, GetVarCreated
<1>3. /\ heap'[index].gets = Append(Gets, new) /\ heap'[new].name = v
      /\ heap'[index].name = heap[index].name /\ heap'[index].addr = heap[index].addr
  BY <1>0, <1>2 DEF ClientObject
<1>4. \A x \in Pointers : heap'[x].name = heap[x].name
  BY <1>2, <1>3
<1>5. \A x \in Pointers : x \in freed <=> x \in freed'
  BY <1>1, <1>2
<1>6. ASSUME NEW k \in 1 .. Len(clients), clients[k] # index
      PROVE  EntryIn(heap', freed', clients[k]) = EntryIn(heap, freed, clients[k])
  <2>1. clients[k] \in Pointers /\ heap[clients[k]].gets \in Seq(Pointers)
    BY <1>0, ConfigFacts
  <2>2. heap'[clients[k]] = heap[clients[k]]
    BY <1>2, <1>6, <2>1
  <2>3. \A j \in 1 .. Len(heap[clients[k]].gets) :
            heap[clients[k]].gets[j] \in freed <=> heap[clients[k]].gets[j] \in freed'
    BY <1>5, <2>1
  <2> QED
    BY <1>4, <2>1, <2>2, <2>3, EntryStays
<1>7. PICK g : g = Gets
  OBVIOUS
<1>8. PICK S : S = Pointers \cup {new}
  OBVIOUS
<1>9. PICK h : h = heap
  OBVIOUS
<1>10. PICK h2 : h2 = heap'
  OBVIOUS
<1>11. PICK d : d = freed
  OBVIOUS
<1>12. PICK d2 : d2 = freed'
  OBVIOUS
<1>13. PICK P : P = Pointers
  OBVIOUS
<1>14. /\ g \in Seq(P) /\ g \in Seq(S) /\ new \in S /\ new \notin d /\ new \notin P
       /\ \A x \in P : h2[x].name = h[x].name
       /\ h2[index].gets = Append(g, new) /\ h[index].gets = g
       /\ d2 = d \cup D /\ P \subseteq S
  <2>1. g \in Seq(S)
    BY <1>0, <1>7, <1>8, SeqMonotonic
  <2> QED
    BY <1>0, <1>2, <1>3, <1>4, <1>7, <1>8, <1>9, <1>10, <1>11, <1>12, <1>13, <2>1 DEF Gets
<1>15. PICK a : a = Alive(g, d)
  OBVIOUS
<1>16. a \in Seq(P)
  BY <1>14, <1>15, AliveMembers
<1>17. a \in Seq(S)
  BY <1>14, <1>16, SeqMonotonic
<1>18. Alive(g, d2) = a
  <2>1. \A j \in 1 .. Len(g) : g[j] \in P
    BY <1>14
  <2>2. \A j \in 1 .. Len(g) : g[j] \in d <=> g[j] \in d2
    BY <1>1, <1>14, <2>1
  <2> QED
    BY <1>14, <1>15, <2>2, AliveSame
<1>19. NamesIn(h2, a) = NamesIn(h, a)
  BY <1>14, <1>16, NamesSame
<1>20. EntryIn(h2, d2, index) = [EntryIn(h, d, index) EXCEPT !.vars = NamesIn(h2, Alive(h2[index].gets, d2))]
  BY <1>3, <1>9, <1>10, EntryWith
<1>21. EntryIn(h, d, index).vars = NamesIn(h, a)
  BY <1>14, <1>15, EntryFields
<1>22. CASE D = {}
  <2>1. Alive(Append(g, new), d2) = Append(a, new)
    <3>1. new \notin d2
      BY <1>14, <1>22
    <3>2. Alive(Append(g, new), d2) = IF new \in d2 THEN Alive(g, d2) ELSE Append(Alive(g, d2), new)
      BY <1>14, AliveAppend
    <3> QED
      BY <1>18, <3>1, <3>2
  <2>2. NamesIn(h2, Append(a, new)) = Append(NamesIn(h2, a), v)
    <3>1. h2[new].name = v
      BY <1>3, <1>10
    <3> QED
      BY <1>14, <1>17, <3>1, NamesAppend
  <2>3. NamesIn(h2, Alive(h2[index].gets, d2)) = Append(EntryIn(h, d, index).vars, v)
    BY <1>14, <1>19, <1>21, <2>1, <2>2
  <2> QED
    BY <1>6, <1>9, <1>10, <1>11, <1>12, <1>20, <1>22, <2>3
<1>23. CASE D # {}
  <2>1. Alive(Append(g, new), d2) = a
    <3>1. new \in d2
      BY <1>1, <1>14, <1>23
    <3>2. Alive(Append(g, new), d2) = IF new \in d2 THEN Alive(g, d2) ELSE Append(Alive(g, d2), new)
      BY <1>14, AliveAppend
    <3> QED
      BY <1>18, <3>1, <3>2
  <2>2. NamesIn(h2, Alive(h2[index].gets, d2)) = EntryIn(h, d, index).vars
    BY <1>14, <1>19, <1>21, <2>1
  <2> QED
    BY <1>6, <1>9, <1>10, <1>11, <1>12, <1>20, <1>23, <2>2
<1> QED
  BY <1>22, <1>23

LEMMA MapGet ==
    ASSUME IInv, NEW v \in Vars, GetVariable(v)
    PROVE  Map!AddVar(v) \/ UNCHANGED <<Config, Section>>
<1>0. /\ TypeInv /\ node = "CTRL_CLIENT_NODE" /\ UNCHANGED clients
  BY DEF IInv, GetVariable, Undefined
<1>1. PICK i \in 1 .. Len(clients) :
        /\ clients[i] = index /\ index \in Pointers /\ Gets \in Seq(Pointers)
        /\ heap[index].kind = "client" /\ heap[index] \in ClientObject
        /\ Section = heap[index].name /\ Section # Nobody
        /\ i \in 1 .. Len(Config) /\ Config[i].name = Section
        /\ Config[i].vars = NamesIn(heap, Alive(Gets, freed))
        /\ Config[i] = EntryIn(heap, freed, index)
        /\ \A k \in 1 .. Len(clients) : k # i => clients[k] # index
  BY <1>0, SectionOpen
<1>2. Has(Config[i].vars, v) <=> Found(v) # {}
  BY <1>0, <1>1, FoundNames
<1>3. CASE Undefined
  <2>1. UNCHANGED <<heap, freed, clients, node, index>>
    BY <1>3 DEF Undefined
  <2>2. Config' = Config
    BY <2>1, ConfigUnchanged
  <2>3. Section' = Section
    BY <2>1 DEF Section
  <2> QED
    BY <2>2, <2>3
<1>4. ASSUME NEW p \in Found(v), Enter("CTRL_CLIENT_GETVAR_NODE", p), UNCHANGED <<heap, freed>>
      PROVE  Map!AddVar(v)
  <2>1. p \in Range(Gets)
    BY DEF Found, Named
  <2>2. PICK k \in 1 .. Len(Gets) : Gets[k] = p
    BY <1>1, <2>1, RangeOfList
  <2>3. heap[p].cc = index
    BY <1>1, <2>2 DEF IInv, TypeInv, HeapInv, Gets
  <2>4. Section' = Section
    BY <1>1, <1>4, <2>3 DEF Section, Enter
  <2>5. Config' = Config
    BY <1>0, <1>4, ConfigUnchanged
  <2>6. Has(Config[i].vars, v)
    BY <1>2
  <2> QED
    BY <1>1, <2>4, <2>5, <2>6 DEF Map!AddVar, Has
<1>5. ASSUME Found(v) = {}, CreateGetVar(v), Enter("CTRL_CLIENT_GETVAR_NODE", Len(heap')),
             UNCHANGED freed
      PROVE  Map!AddVar(v)
  <2>1. freed' = freed \cup {}
    BY <1>5
  <2>2. /\ \A k \in 1 .. Len(clients) : clients[k] # index =>
                EntryIn(heap', freed', clients[k]) = EntryIn(heap, freed, clients[k])
        /\ EntryIn(heap', freed', index) = [EntryIn(heap, freed, index) EXCEPT !.vars = Append(@, v)]
    BY <1>0, <1>5, <2>1, EntriesCreate
  <2>3. EntryIn(heap', freed', index)
            = [EntryIn(heap, freed, index) EXCEPT !.vars = Append(Config[i].vars, v)]
    BY <1>1, <2>2
  <2>4. Config' = [Config EXCEPT ![i].vars = Append(Config[i].vars, v)]
    <3>1. PICK vs : vs = Append(Config[i].vars, v)
      OBVIOUS
    <3>2. EntryIn(heap', freed', clients[i]) = [EntryIn(heap, freed, clients[i]) EXCEPT !.vars = vs]
      BY <1>1, <2>3, <3>1
    <3>3. \A k \in 1 .. Len(clients) : k # i =>
            EntryIn(heap', freed', clients[k]) = EntryIn(heap, freed, clients[k])
      BY <1>1, <2>2
    <3>4. Config' = [Config EXCEPT ![i].vars = vs]
      BY <1>0, <3>2, <3>3, EntryChanged
    <3> QED
      BY <3>1, <3>4
  <2>5. Section' = Section
    <3>1. heap'[Len(heap')].cc = index /\ heap'[index].name = heap[index].name
      <4>1. /\ heap'[index] = [heap[index] EXCEPT !.gets = Append(Gets, Len(heap'))]
            /\ heap'[Len(heap')] = [kind |-> "getvar", name |-> v, cc |-> index]
        BY <1>0, <1>5, GetVarCreated
      <4> QED
        BY <1>1, <4>1 DEF ClientObject
    <3> QED
      BY <1>1, <1>5, <3>1 DEF Section, Enter
  <2>6. ~Has(Config[i].vars, v)
    BY <1>2, <1>5
  <2>7. Config' = [Config EXCEPT ![i].vars = Append(@, v)]
    BY <2>4
  <2> QED
    BY <1>1, <2>5, <2>6, <2>7 DEF Map!AddVar, Has
<1> QED
  BY <1>3, <1>4, <1>5 DEF GetVariable

LEMMA MapNoGet ==
    ASSUME IInv, NEW v \in Vars, NoGetVariable(v)
    PROVE  Map!RemoveVar(v) \/ UNCHANGED <<Config, Section>>
<1>0. /\ TypeInv /\ node = "CTRL_CLIENT_NODE" /\ UNCHANGED <<clients, node, index>>
  BY DEF IInv, NoGetVariable, Undefined
<1>1. PICK i \in 1 .. Len(clients) :
        /\ clients[i] = index /\ index \in Pointers /\ Gets \in Seq(Pointers)
        /\ heap[index].kind = "client" /\ heap[index] \in ClientObject
        /\ Section = heap[index].name /\ Section # Nobody
        /\ i \in 1 .. Len(Config) /\ Config[i].name = Section
        /\ Config[i].vars = NamesIn(heap, Alive(Gets, freed))
        /\ Config[i] = EntryIn(heap, freed, index)
        /\ \A k \in 1 .. Len(clients) : k # i => clients[k] # index
  BY <1>0, SectionOpen
<1>2. CASE Undefined
  <2>1. UNCHANGED <<heap, freed, clients, node, index>>
    BY <1>2 DEF Undefined
  <2>2. Config' = Config
    BY <2>1, ConfigUnchanged
  <2>3. Section' = Section
    BY <2>1 DEF Section
  <2> QED
    BY <2>2, <2>3
<1>3. ASSUME NEW p \in Found(v), freed' = freed \cup {p}, UNCHANGED heap
      PROVE  Map!RemoveVar(v)
  <2>1. p \in Range(Gets) /\ heap[p].name = v /\ p \notin freed
    BY DEF Found, Named
  <2>2. PICK g : g = Gets
    OBVIOUS
  <2>3. PICK S : S = Pointers
    OBVIOUS
  <2>4. PICK d : d = freed
    OBVIOUS
  <2>5. g \in Seq(S)
    BY <1>1, <2>2, <2>3
  <2>6. PICK k \in 1 .. Len(g) : g[k] = p
    BY <2>1, <2>2, <2>5, RangeOfList
  <2>7. \A x, y \in 1 .. Len(g) : g[x] = g[y] => x = y
    <3>1. index \in Range(clients)
      BY <1>0, OpenSection
    <3> QED
      BY <2>2, <3>1 DEF IInv, NamesUnique, Gets
  <2>8. PICK a : a = Alive(g, d)
    OBVIOUS
  <2>9. a \in Seq(S)
    BY <2>5, <2>8, AliveMembers
  <2>10. PICK j \in 1 .. Len(a) : a[j] = p /\ Alive(g, d \cup {p}) = RemoveAt(a, j)
    <3>1. g[k] \notin d
      BY <2>1, <2>4, <2>6
    <3>2. \E j \in 1 .. Len(Alive(g, d)) :
            Alive(g, d)[j] = g[k] /\ Alive(g, d \cup {g[k]}) = RemoveAt(Alive(g, d), j)
      BY <2>5, <2>7, <3>1, AliveFreed
    <3> QED
      BY <2>6, <2>8, <3>2
  <2>11. NamesIn(heap, RemoveAt(a, j)) = RemoveAt(NamesIn(heap, a), j)
    <3>1. PICK h : h = heap
      OBVIOUS
    <3>2. NamesIn(h, RemoveAt(a, j)) = RemoveAt(NamesIn(h, a), j)
      BY <2>9, NamesRemove
    <3> QED
      BY <3>1, <3>2
  <2>12. /\ Config[i].vars = NamesIn(heap, a)
         /\ j \in 1 .. Len(Config[i].vars) /\ Config[i].vars[j] = v
    <3>1. Config[i].vars = NamesIn(heap, a)
      BY <1>1, <2>2, <2>4, <2>8
    <3>2. j \in 1 .. Len(NamesIn(heap, a)) /\ NamesIn(heap, a)[j] = v
      BY <2>1, <2>9, <2>10 DEF NamesIn
    <3> QED
      BY <3>1, <3>2
  <2>13. PICK vs : vs = RemoveAt(Config[i].vars, j)
    OBVIOUS
  <2>14. EntryIn(heap', freed', clients[i]) = [EntryIn(heap, freed, clients[i]) EXCEPT !.vars = vs]
    <3>1. Alive(heap'[index].gets, freed') = RemoveAt(a, j)
      BY <1>3, <2>2, <2>4, <2>10 DEF Gets
    <3>2. NamesIn(heap', Alive(heap'[index].gets, freed')) = vs
      BY <1>3, <2>11, <2>12, <2>13, <3>1
    <3>3. EntryIn(heap', freed', index)
            = [EntryIn(heap, freed, index) EXCEPT !.vars = NamesIn(heap', Alive(heap'[index].gets, freed'))]
      <4>1. PICK h : h = heap
        OBVIOUS
      <4>2. PICK d2 : d2 = freed'
        OBVIOUS
      <4>3. EntryIn(h, d2, index) = [EntryIn(h, d, index) EXCEPT !.vars = NamesIn(h, Alive(h[index].gets, d2))]
        BY EntryWith
      <4> QED
        BY <1>3, <2>4, <4>1, <4>2, <4>3
    <3> QED
      BY <1>1, <3>2, <3>3
  <2>15. ASSUME NEW m \in 1 .. Len(clients), m # i
         PROVE  EntryIn(heap', freed', clients[m]) = EntryIn(heap, freed, clients[m])
    <3>1. /\ clients[m] \in Pointers /\ heap[clients[m]].gets \in Seq(Pointers)
          /\ heap[clients[m]].kind = "client" /\ clients[m] # index
      BY <1>0, <1>1, <2>15, ConfigFacts
    <3>2. heap[p].cc = index
      BY <1>1, <2>2, <2>6 DEF IInv, TypeInv, HeapInv, Gets
    <3>3. \A x \in 1 .. Len(heap[clients[m]].gets) : heap[clients[m]].gets[x] # p
      BY <3>1, <3>2 DEF IInv, TypeInv, HeapInv
    <3>4. \A x \in 1 .. Len(heap[clients[m]].gets) :
            heap[clients[m]].gets[x] \in freed <=> heap[clients[m]].gets[x] \in freed'
      BY <1>3, <3>3
    <3> QED
      BY <1>3, <3>1, <3>4, EntryStays
  <2>16. Config' = [Config EXCEPT ![i].vars = vs]
    BY <1>0, <2>14, <2>15, EntryChanged
  <2>17. Section' = Section
    BY <1>0, <1>3 DEF Section
  <2>18. Config' = [Config EXCEPT ![i].vars = Map!RemoveAt(@, j)]
    BY <2>13, <2>16, RemoveAtIs
  <2> QED
    BY <1>1, <2>12, <2>17, <2>18 DEF Map!RemoveVar
<1>4. ASSUME CreateGetVar(v), freed' = freed \cup {Len(heap')}
      PROVE  UNCHANGED <<Config, Section>>
  <2>1. PICK D : D = {Len(heap')}
    OBVIOUS
  <2>2. D \subseteq {Len(heap')} /\ freed' = freed \cup D /\ D # {}
    BY <1>4, <2>1
  <2>3. /\ \A k \in 1 .. Len(clients) : clients[k] # index =>
                EntryIn(heap', freed', clients[k]) = EntryIn(heap, freed, clients[k])
        /\ EntryIn(heap', freed', index)
            = [EntryIn(heap, freed, index) EXCEPT !.vars = IF D = {} THEN Append(@, v) ELSE @]
    BY <1>0, <1>4, <2>2, EntriesCreate
  <2>4. EntryIn(heap', freed', index) = EntryIn(heap, freed, index)
    BY <2>2, <2>3 DEF EntryIn
  <2>5. \A k \in 1 .. Len(clients) :
            EntryIn(heap', freed', clients[k]) = EntryIn(heap, freed, clients[k])
    BY <2>3, <2>4
  <2>6. Config' = Config
    BY <1>0, <2>5, ConfigIs, ConfigWillBe
  <2>7. Section' = Section
    <3>1. heap'[index] = [heap[index] EXCEPT !.gets = Append(Gets, Len(heap'))]
      BY <1>0, <1>4, GetVarCreated
    <3>2. heap'[index].name = heap[index].name
      BY <1>1, <3>1 DEF ClientObject
    <3> QED
      BY <1>0, <3>2 DEF Section
  <2> QED
    BY <2>6, <2>7
<1> QED
  BY <1>2, <1>3, <1>4 DEF NoGetVariable

LEMMA MapStep == IInv /\ [Next]_vars => [Map!Next]_(Map!vars)
<1> SUFFICES ASSUME IInv, [Next]_vars
             PROVE  Map!Next \/ UNCHANGED <<Config, Section>>
  BY DEF Map!vars
<1>1. ASSUME NEW n \in Names, NEW a \in Addrs, CtrlClient(n, a)
      PROVE  Map!Next
  BY <1>1, MapOpen DEF Map!Next
<1>2. ASSUME NEW n \in Names, NoCtrlClient(n)
      PROVE  Map!Next
  BY <1>2, MapRemove DEF Map!Next
<1>3. ASSUME NEW v \in Vars, GetVariable(v)
      PROVE  Map!Next \/ UNCHANGED <<Config, Section>>
  BY <1>3, MapGet DEF Map!Next
<1>4. ASSUME NEW v \in Vars, NoGetVariable(v)
      PROVE  Map!Next \/ UNCHANGED <<Config, Section>>
  BY <1>4, MapNoGet DEF Map!Next
<1>5. ASSUME GoParent
      PROVE  Map!Next \/ UNCHANGED <<Config, Section>>
  <2>1. Config' = Config
    BY <1>5, ConfigUnchanged DEF GoParent
  <2>2. ASSUME node = "CTRL_CLIENT_NODE", Enter("CONFIG_NODE", 0)
        PROVE  Map!CloseSection
    <3>1. Section' = Nobody
      BY <2>2 DEF Enter, Section
    <3> QED
      BY <2>1, <3>1 DEF Map!CloseSection
  <2>3. ASSUME node = "CTRL_CLIENT_GETVAR_NODE", Enter("CTRL_CLIENT_NODE", heap[index].cc)
        PROVE  Section' = Section
    BY <1>5, <2>3 DEF Enter, Section, GoParent
  <2> QED
    BY <1>5, <2>1, <2>2, <2>3 DEF GoParent, Map!Next
<1>6. CASE Poll \/ UNCHANGED vars
  <2>1. UNCHANGED <<heap, freed, clients, node, index>>
    BY <1>6 DEF Poll, Undefined, vars
  <2>2. Config' = Config
    BY <2>1, ConfigUnchanged
  <2>3. Section' = Section
    BY <2>1 DEF Section
  <2> QED
    BY <2>2, <2>3
<1> QED
  BY <1>1, <1>2, <1>3, <1>4, <1>5, <1>6 DEF Next

\* The commands do to the clients and variables that are alive what the lines of
\* the file say, in their order: the configuration of osysmon_ctrl.c implements
\* CtrlConfigMap, until a freed object is read.
THEOREM ImplementsMapCorrect == Spec => ImplementsMap
<1>1. Init => Map!Init
  <2> SUFFICES ASSUME Init
               PROVE  Config = <<>> /\ Section = Nobody
    BY DEF Map!Init
  <2>1. clients = <<>> /\ node = "CONFIG_NODE"
    BY DEF Init
  <2> QED
    BY <2>1 DEF Config, Section
<1>2. IInv /\ [Next]_vars => [Map!Next]_(Map!vars)
  BY MapStep
<1> QED
  BY IInvCorrect, <1>1, <1>2, PTL DEF Spec, ImplementsMap, Map!Spec
=============================================================================
