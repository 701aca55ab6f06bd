---------------------------- MODULE SysmonProofs ----------------------------
(***************************************************************************)
(* What is proved of Sysmon for any names, any configuration and any       *)
(* number of reports.                                                      *)
(***************************************************************************)
EXTENDS Sysmon, SetInduction

-----------------------------------------------------------------------------
(* value_node.c                                                            *)

Distinct(list) == \A i, j \in 1 .. Len(list) : list[i].name = list[j].name => i = j

OwnedBy(list, owner) == \A i \in 1 .. Len(list) : list[i].owner = owner

LEMMA AppendTo ==
    ASSUME NEW S, NEW s \in Seq(S), NEW e \in S
    PROVE  /\ Append(s, e) \in Seq(S) /\ Len(s) \in Nat
           /\ Len(Append(s, e)) = Len(s) + 1
           /\ \A i \in 1 .. Len(s) : Append(s, e)[i] = s[i]
           /\ Append(s, e)[Len(s) + 1] = e
           /\ Append(s, e) # s
OBVIOUS

\* A node is added at the end or not at all, and then its name was there.
LEMMA AddType ==
    ASSUME NEW S, NEW s \in Seq(S), NEW e \in S
    PROVE  /\ ValueNodeAdd(s, e) \in Seq(S)
           /\ Named(s, e.name) => ValueNodeAdd(s, e) = s
           /\ ~Named(s, e.name) => ValueNodeAdd(s, e) = Append(s, e) /\ Append(s, e) # s
BY AppendTo DEF ValueNodeAdd

LEMMA AddDistinct ==
    ASSUME NEW S, NEW s \in Seq(S), NEW e \in S, Distinct(s)
    PROVE  Distinct(ValueNodeAdd(s, e))
<1>1. CASE Named(s, e.name)
  BY <1>1, AddType
<1>2. CASE ~Named(s, e.name)
  <2>1. ValueNodeAdd(s, e) = Append(s, e)
    BY <1>2, AddType
  <2>2. \A i \in 1 .. Len(s) : s[i].name # e.name
    BY <1>2 DEF Named
  <2> QED
    BY <2>1, <2>2, AppendTo DEF Distinct
<1> QED
  BY <1>1, <1>2

LEMMA AddOwned ==
    ASSUME NEW S, NEW s \in Seq(S), NEW e \in S, NEW o, OwnedBy(s, o), e.owner = o
    PROVE  OwnedBy(ValueNodeAdd(s, e), o)
<1>1. CASE Named(s, e.name)
  BY <1>1, AddType
<1>2. CASE ~Named(s, e.name)
  <2>1. ValueNodeAdd(s, e) = Append(s, e)
    BY <1>2, AddType
  <2>2. ASSUME NEW i \in 1 .. Len(s) + 1
        PROVE  Append(s, e)[i].owner = o
    <3>1. CASE i = Len(s) + 1
      BY <3>1, AppendTo
    <3>2. CASE i # Len(s) + 1
      BY <3>2, AppendTo DEF OwnedBy
    <3> QED
      BY <3>1, <3>2
  <2>3. OwnedBy(Append(s, e), o)
    BY <2>2, AppendTo DEF OwnedBy
  <2> QED
    BY <2>1, <2>3
<1> QED
  BY <1>1, <1>2

\* The list after each of the nodes.
LEMMA AddAllSteps ==
    ASSUME NEW nodes \in Seq(Node)
    PROVE  \E f \in [0 .. Len(nodes) -> Seq(Node)] :
                /\ f[0] = <<>>
                /\ \A i \in 1 .. Len(nodes) : f[i] = ValueNodeAdd(f[i - 1], nodes[i])
                /\ AddAll(nodes) = f[Len(nodes)]
<1> DEFINE m == Len(nodes)
           step == [i \in 1 .. m |-> [q \in Seq(Node) |-> ValueNodeAdd(q, nodes[i])]]
           g == CHOOSE h : h = [i \in 0 .. m |->
                                    IF i = 0 THEN <<>> ELSE ValueNodeAdd(h[i - 1], nodes[i])]
<1>1. m \in Nat /\ \A i \in 1 .. m : nodes[i] \in Node
  OBVIOUS
<1>2. AddAll(nodes) = g[m]
  BY DEF AddAll
<1> HIDE DEF m
<1>3. step \in [1 .. m -> [Seq(Node) -> Seq(Node)]]
  BY <1>1, AddType
<1>4. \A i \in 1 .. m : \A q \in Seq(Node) : step[i][q] = ValueNodeAdd(q, nodes[i])
  OBVIOUS
<1> HIDE DEF step
<1>5. PICK f \in [0 .. m -> Seq(Node)] : Iterates(f, m, <<>>, step)
  <2>1. <<>> \in Seq(Node)
    OBVIOUS
  <2> QED
    BY <1>1, <1>3, <2>1, IterationExists
<1>6. \A i \in 1 .. m : f[i] = ValueNodeAdd(f[i - 1], nodes[i])
  <2>1. \A i \in 1 .. m : f[i - 1] \in Seq(Node)
    BY <1>1, <1>5
  <2> QED
    BY <1>4, <1>5, <2>1 DEF Iterates
<1>7. f = [i \in 0 .. m |-> IF i = 0 THEN <<>> ELSE ValueNodeAdd(f[i - 1], nodes[i])]
  BY <1>1, <1>5, <1>6 DEF Iterates
<1>8. g = [i \in 0 .. m |-> IF i = 0 THEN <<>> ELSE ValueNodeAdd(g[i - 1], nodes[i])]
  BY <1>7
<1> HIDE DEF g
<1>9. g[0] = <<>> /\ \A i \in 1 .. m : g[i] = ValueNodeAdd(g[i - 1], nodes[i])
  BY <1>1, <1>8
<1>10. \A i \in 0 .. m : g[i] \in Seq(Node)
  <2> DEFINE V == Seq(Node)
             T == {i \in 0 .. m : g[i] \in V}
  <2>1. <<>> \in V /\ \A q \in V : \A i \in 1 .. m : ValueNodeAdd(q, nodes[i]) \in V
    BY <1>1, AddType
  <2> HIDE DEF V
  <2>2. 0 \in T
    BY <1>1, <1>9, <2>1
  <2>3. ASSUME NEW n \in 0 .. m - 1, n \in T
        PROVE  n + 1 \in T
    <3>1. g[n + 1] = ValueNodeAdd(g[n], nodes[n + 1]) /\ n + 1 \in 1 .. m
      BY <1>1, <1>9
    <3> QED
      BY <2>1, <2>3, <3>1
  <2> HIDE DEF T
  <2>4. \A n \in 0 .. m : n \in T
    BY <1>1, <2>2, <2>3, BoundedInduction
  <2> QED
    BY <2>4 DEF T, V
<1>11. g \in [0 .. m -> Seq(Node)]
  BY <1>8, <1>10
<1> QED
  BY <1>2, <1>9, <1>11 DEF m

\* Whatever the names are, siblings differ; nodes whose names differ are all added.
LEMMA AddAllFacts ==
    ASSUME NEW nodes \in Seq(Node), NEW o, OwnedBy(nodes, o)
    PROVE  /\ AddAll(nodes) \in Seq(Node)
           /\ Distinct(AddAll(nodes)) /\ OwnedBy(AddAll(nodes), o)
           /\ Distinct(nodes) => AddAll(nodes) = nodes
<1> DEFINE m == Len(nodes)
<1>1. PICK f \in [0 .. m -> Seq(Node)] :
                /\ f[0] = <<>>
                /\ \A i \in 1 .. m : f[i] = ValueNodeAdd(f[i - 1], nodes[i])
                /\ AddAll(nodes) = f[m]
  BY AddAllSteps
<1>2. m \in Nat /\ \A i \in 1 .. m : nodes[i] \in Node /\ nodes[i].owner = o
  BY DEF OwnedBy
<1> HIDE DEF m
<1>3. \A n \in 0 .. m : Distinct(f[n]) /\ OwnedBy(f[n], o)
  <2> DEFINE T == {i \in 0 .. m : Distinct(f[i]) /\ OwnedBy(f[i], o)}
  <2>1. 0 \in T
    BY <1>1, <1>2 DEF Distinct, OwnedBy
  <2>2. ASSUME NEW n \in 0 .. m - 1, n \in T
        PROVE  n + 1 \in T
    <3>1. f[n + 1] = ValueNodeAdd(f[n], nodes[n + 1]) /\ n + 1 \in 1 .. m /\ f[n] \in Seq(Node)
      BY <1>1, <1>2
    <3>2. Distinct(f[n + 1]) /\ OwnedBy(f[n + 1], o)
      BY <1>2, <2>2, <3>1, AddDistinct, AddOwned
    <3> QED
      BY <1>2, <3>2
  <2> HIDE DEF T
  <2>3. \A n \in 0 .. m : n \in T
    BY <1>2, <2>1, <2>2, BoundedInduction
  <2> QED
    BY <2>3 DEF T
<1>4. ASSUME Distinct(nodes)
      PROVE  f[m] = nodes
  <2> DEFINE T == {i \in 0 .. m : Len(f[i]) = i /\ \A j \in 1 .. i : f[i][j] = nodes[j]}
  <2>1. 0 \in T
    BY <1>1, <1>2
  <2>2. ASSUME NEW n \in 0 .. m - 1, n \in T
        PROVE  n + 1 \in T
    <3>1. f[n + 1] = ValueNodeAdd(f[n], nodes[n + 1]) /\ n + 1 \in 1 .. m /\ f[n] \in Seq(Node)
      BY <1>1, <1>2
    <3>2. Len(f[n]) = n /\ \A j \in 1 .. n : f[n][j] = nodes[j]
      BY <2>2
    <3>3. ~Named(f[n], nodes[n + 1].name)
      BY <1>2, <1>4, <3>1, <3>2 DEF Named, Distinct, m
    <3>4. f[n + 1] = Append(f[n], nodes[n + 1])
      BY <3>1, <3>3 DEF ValueNodeAdd
    <3>5. /\ Len(f[n + 1]) = n + 1 /\ f[n + 1][n + 1] = nodes[n + 1]
          /\ \A j \in 1 .. n : f[n + 1][j] = nodes[j]
      BY <1>2, <3>1, <3>2, <3>4, AppendTo
    <3> QED
      BY <1>2, <3>5
  <2> HIDE DEF T
  <2>3. \A n \in 0 .. m : n \in T
    BY <1>2, <2>1, <2>2, BoundedInduction
  <2>4. Len(f[m]) = m /\ (\A j \in 1 .. m : f[m][j] = nodes[j]) /\ f[m] \in Seq(Node)
    <3>1. m \in T /\ m \in 0 .. m
      BY <1>2, <2>3
    <3>2. f[m] \in Seq(Node)
      BY <1>1, <3>1
    <3> QED
      BY <3>1, <3>2 DEF T
  <2> QED
    BY <2>4 DEF m
<1> QED
  BY <1>1, <1>2, <1>3, <1>4

-----------------------------------------------------------------------------
(* Sections.                                                               *)

GoodRoot(r) ==
    /\ r \in Seq(SectionNode)
    /\ Distinct(r)
    /\ \A i \in 1 .. Len(r) : Distinct(r[i].kids) /\ OwnedBy(r[i].kids, r[i].owner)

GoodTree(m) ==
    /\ m \in [root : Seq(SectionNode), lost : 0 .. MaxLost]
    /\ GoodRoot(m.root)

NewSection(owner, name, names) ==
    [name |-> name, owner |-> owner, kids |-> AddAll(Nodes(owner, names))]

LEMMA NodesFacts ==
    ASSUME NEW owner \in Owners, NEW names \in Seq(Names)
    PROVE  /\ Nodes(owner, names) \in Seq(Node)
           /\ OwnedBy(Nodes(owner, names), owner)
           /\ Len(Nodes(owner, names)) = Len(names)
           /\ \A i \in 1 .. Len(names) : Nodes(owner, names)[i].name = names[i]
<1>1. \A i \in 1 .. Len(names) : names[i] \in Names
  OBVIOUS
<1>2. Nodes(owner, names) \in Seq(Node)
  BY <1>1 DEF Nodes, Node
<1> QED
  BY <1>2 DEF Nodes, OwnedBy

LEMMA NewSectionFacts ==
    ASSUME NEW owner \in Owners, NEW name \in Names, NEW names \in Seq(Names)
    PROVE  LET s == NewSection(owner, name, names)
           IN  /\ s \in SectionNode /\ s.name = name /\ s.owner = owner
               /\ Distinct(s.kids) /\ OwnedBy(s.kids, owner)
               /\ IsInjective(names) => [j \in 1 .. Len(s.kids) |-> s.kids[j].name] = names
<1> DEFINE nodes == Nodes(owner, names)
<1>1. /\ nodes \in Seq(Node) /\ OwnedBy(nodes, owner) /\ Len(nodes) = Len(names)
      /\ \A i \in 1 .. Len(names) : nodes[i].name = names[i]
  BY NodesFacts
<1>2. /\ AddAll(nodes) \in Seq(Node) /\ Distinct(AddAll(nodes)) /\ OwnedBy(AddAll(nodes), owner)
      /\ Distinct(nodes) => AddAll(nodes) = nodes
  BY <1>1, AddAllFacts
<1>3. ASSUME IsInjective(names)
      PROVE  [j \in 1 .. Len(AddAll(nodes)) |-> AddAll(nodes)[j].name] = names
  <2>1. DOMAIN names = 1 .. Len(names)
    OBVIOUS
  <2>2. Distinct(nodes)
    BY <1>1, <1>3, <2>1 DEF Distinct, IsInjective
  <2> HIDE DEF nodes
  <2>3. [j \in 1 .. Len(nodes) |-> nodes[j].name] = names
    BY <1>1, <2>1
  <2> QED
    BY <1>2, <2>2, <2>3
<1> HIDE DEF nodes
<1> QED
  BY <1>2, <1>3 DEF NewSection, SectionNode, nodes

\* The new section comes last, unless its name is there.
LEMMA SectionFacts ==
    ASSUME NEW m, GoodTree(m),
           NEW owner \in Owners, NEW name \in Names, NEW names \in Seq(Names)
    PROVE  /\ GoodTree(Section(m, owner, name, names))
           /\ Named(m.root, name) => Section(m, owner, name, names).root = m.root
           /\ ~Named(m.root, name) =>
                Section(m, owner, name, names).root
                    = Append(m.root, NewSection(owner, name, names))
<1> DEFINE s == NewSection(owner, name, names)
           new == ValueNodeAdd(m.root, s)
           t == Section(m, owner, name, names)
<1>1. /\ s \in SectionNode /\ s.name = name /\ s.owner = owner
      /\ Distinct(s.kids) /\ OwnedBy(s.kids, owner)
  BY NewSectionFacts
<1>2. /\ m \in [root : Seq(SectionNode), lost : 0 .. MaxLost]
      /\ m.root \in Seq(SectionNode) /\ GoodRoot(m.root)
  BY DEF GoodTree
<1>3. t = IF new = m.root
          THEN [m EXCEPT !.lost = Counted(@ + 2 * Len(names))]
          ELSE [m EXCEPT !.root = new]
  BY DEF Section, NewSection
<1>4. /\ new \in Seq(SectionNode)
      /\ Named(m.root, name) => new = m.root
      /\ ~Named(m.root, name) => new = Append(m.root, s) /\ new # m.root
  <2> HIDE DEF s
  <2>1. /\ new \in Seq(SectionNode)
        /\ Named(m.root, s.name) => new = m.root
        /\ ~Named(m.root, s.name) => new = Append(m.root, s) /\ Append(m.root, s) # m.root
    BY <1>1, <1>2, AddType
  <2> QED
    BY <1>1, <2>1
<1>5. Distinct(new)
  BY <1>1, <1>2, AddDistinct DEF GoodRoot
<1> HIDE DEF s, new, t
<1>6. GoodRoot(new)
  <2>1. CASE Named(m.root, name)
    BY <1>2, <1>4, <2>1
  <2>2. CASE ~Named(m.root, name)
    <3>1. ASSUME NEW i \in 1 .. Len(new)
          PROVE  Distinct(new[i].kids) /\ OwnedBy(new[i].kids, new[i].owner)
      <4>1. CASE i = Len(m.root) + 1
        BY <1>1, <1>2, <1>4, <2>2, <4>1, AppendTo
      <4>2. CASE i # Len(m.root) + 1
        BY <1>1, <1>2, <1>4, <2>2, <4>2, AppendTo DEF GoodRoot
      <4> QED
        BY <4>1, <4>2
    <3> QED
      BY <1>4, <1>5, <3>1 DEF GoodRoot
  <2> QED
    BY <2>1, <2>2
<1>7. Counted(m.lost + 2 * Len(names)) \in 0 .. MaxLost
  BY <1>2, SysmonAssumption DEF SysmonAssumption, Counted
<1>8. t \in [root : Seq(SectionNode), lost : 0 .. MaxLost] /\ t.root = new
  BY <1>2, <1>3, <1>4, <1>7
<1> QED
  BY <1>4, <1>6, <1>8 DEF GoodTree, s, t

GoodTrees == {m \in [root : Seq(SectionNode), lost : 0 .. MaxLost] : GoodRoot(m.root)}

LEMMA GoodTreesAre == \A m : m \in GoodTrees <=> GoodTree(m)
BY DEF GoodTrees, GoodTree

ClientSection(m, clients, got, i) ==
    Section(m, "ctrl-client", clients[i], SubSeq(ClientVars, 1, got[clients[i]]))

LEMMA SomeVars ==
    ASSUME NEW n \in 0 .. Len(ClientVars)
    PROVE  SubSeq(ClientVars, 1, n) \in Seq(Names)
<1>1. ClientVars \in Seq(STRING)
  BY SysmonAssumption DEF SysmonAssumption
<1>2. \A i \in 1 .. Len(ClientVars) : ClientVars[i] \in Names
  BY <1>1 DEF Names, Range
<1>3. Len(ClientVars) \in Nat /\ DOMAIN ClientVars = 1 .. Len(ClientVars)
  BY <1>1
<1>4. SubSeq(ClientVars, 1, n) = [i \in 1 .. n |-> ClientVars[i]]
  BY <1>1, <1>3
<1> QED
  BY <1>2, <1>3, <1>4

LEMMA ClientSectionFacts ==
    ASSUME NEW clients \in Seq(Names), NEW got \in [Range(clients) -> 0 .. Len(ClientVars)],
           NEW i \in 1 .. Len(clients), NEW m \in GoodTrees
    PROVE  /\ ClientSection(m, clients, got, i) \in GoodTrees
           /\ Named(m.root, clients[i]) => ClientSection(m, clients, got, i).root = m.root
           /\ ~Named(m.root, clients[i]) =>
                \E s \in SectionNode :
                    /\ s.name = clients[i] /\ s.owner = "ctrl-client"
                    /\ ClientSection(m, clients, got, i).root = Append(m.root, s)
<1> DEFINE c == clients[i]
           names == SubSeq(ClientVars, 1, got[c])
<1>1. c \in Names /\ got[c] \in 0 .. Len(ClientVars)
  BY DEF Range
<1>2. names \in Seq(Names)
  BY <1>1, SomeVars
<1>3. "ctrl-client" \in Owners
  BY DEF Owners, Kinds
<1>4. GoodTree(m)
  BY GoodTreesAre
<1> HIDE DEF c, names
<1>5. /\ GoodTree(Section(m, "ctrl-client", c, names))
      /\ Named(m.root, c) => Section(m, "ctrl-client", c, names).root = m.root
      /\ ~Named(m.root, c) => Section(m, "ctrl-client", c, names).root
                                    = Append(m.root, NewSection("ctrl-client", c, names))
  BY <1>1, <1>2, <1>3, <1>4, SectionFacts
<1>6. LET s == NewSection("ctrl-client", c, names)
      IN  s \in SectionNode /\ s.name = c /\ s.owner = "ctrl-client"
  BY <1>1, <1>2, <1>3, NewSectionFacts
<1>7. ClientSection(m, clients, got, i) = Section(m, "ctrl-client", c, names)
  BY DEF ClientSection, c, names
<1> QED
  BY <1>5, <1>6, <1>7, GoodTreesAre DEF c

\* The tree after each of the clients.
LEMMA ClientSectionsSteps ==
    ASSUME NEW clients \in Seq(Names), NEW got \in [Range(clients) -> 0 .. Len(ClientVars)],
           NEW m0 \in GoodTrees
    PROVE  \E f \in [0 .. Len(clients) -> GoodTrees] :
                /\ f[0] = m0
                /\ \A i \in 1 .. Len(clients) : f[i] = ClientSection(f[i - 1], clients, got, i)
                /\ ClientSections(m0, clients, got) = f[Len(clients)]
<1> DEFINE m == Len(clients)
           step == [i \in 1 .. m |-> [t \in GoodTrees |-> ClientSection(t, clients, got, i)]]
           g == CHOOSE h : h = [i \in 0 .. m |->
                                    IF i = 0 THEN m0 ELSE ClientSection(h[i - 1], clients, got, i)]
<1>1. m \in Nat
  OBVIOUS
<1>2. ClientSections(m0, clients, got) = g[m]
  BY DEF ClientSections, ClientSection
<1>3. \A t \in GoodTrees : \A i \in 1 .. m : ClientSection(t, clients, got, i) \in GoodTrees
  BY ClientSectionFacts
<1> HIDE DEF m
<1>4. step \in [1 .. m -> [GoodTrees -> GoodTrees]]
  BY <1>1, <1>3
<1>5. \A i \in 1 .. m : \A t \in GoodTrees : step[i][t] = ClientSection(t, clients, got, i)
  OBVIOUS
<1> HIDE DEF step
<1>6. PICK f \in [0 .. m -> GoodTrees] : Iterates(f, m, m0, step)
  BY <1>1, <1>4, IterationExists
<1>7. \A i \in 1 .. m : f[i] = ClientSection(f[i - 1], clients, got, i)
  <2>1. \A i \in 1 .. m : f[i - 1] \in GoodTrees
    BY <1>1, <1>6
  <2> QED
    BY <1>5, <1>6, <2>1 DEF Iterates
<1>8. f = [i \in 0 .. m |-> IF i = 0 THEN m0 ELSE ClientSection(f[i - 1], clients, got, i)]
  BY <1>1, <1>6, <1>7 DEF Iterates
<1>9. g = [i \in 0 .. m |-> IF i = 0 THEN m0 ELSE ClientSection(g[i - 1], clients, got, i)]
  BY <1>8
<1> HIDE DEF g
<1>10. g[0] = m0 /\ \A i \in 1 .. m : g[i] = ClientSection(g[i - 1], clients, got, i)
  BY <1>1, <1>9
<1>11. \A i \in 0 .. m : g[i] \in GoodTrees
  <2> DEFINE T == {i \in 0 .. m : g[i] \in GoodTrees}
  <2>1. 0 \in T
    BY <1>1, <1>10
  <2>2. ASSUME NEW n \in 0 .. m - 1, n \in T
        PROVE  n + 1 \in T
    <3>1. g[n + 1] = ClientSection(g[n], clients, got, n + 1) /\ n + 1 \in 1 .. m
      BY <1>1, <1>10
    <3> QED
      BY <1>3, <2>2, <3>1
  <2> HIDE DEF T
  <2>3. \A n \in 0 .. m : n \in T
    BY <1>1, <2>1, <2>2, BoundedInduction
  <2> QED
    BY <2>3 DEF T
<1>12. g \in [0 .. m -> GoodTrees]
  BY <1>9, <1>11
<1> QED
  BY <1>2, <1>10, <1>12 DEF m

\* s is r with sections of clients behind it.
Grown(r, s, clients) ==
    /\ Len(r) <= Len(s) /\ \A i \in 1 .. Len(r) : s[i] = r[i]
    /\ \A i \in Len(r) + 1 .. Len(s) :
            s[i].owner = "ctrl-client" /\ s[i].name \in Range(clients)

LEMMA ClientSectionsFacts ==
    ASSUME NEW clients \in Seq(Names), NEW got \in [Range(clients) -> 0 .. Len(ClientVars)],
           NEW m0 \in GoodTrees
    PROVE  LET t == ClientSections(m0, clients, got)
           IN  /\ t \in GoodTrees
               /\ Grown(m0.root, t.root, clients)
               /\ \A k \in 1 .. Len(clients) : Named(t.root, clients[k])
<1> DEFINE m == Len(clients)
           Done(t, n) == /\ Grown(m0.root, t.root, clients)
                         /\ \A k \in 1 .. n : Named(t.root, clients[k])
<1>1. PICK f \in [0 .. m -> GoodTrees] :
                /\ f[0] = m0
                /\ \A i \in 1 .. m : f[i] = ClientSection(f[i - 1], clients, got, i)
                /\ ClientSections(m0, clients, got) = f[m]
  BY ClientSectionsSteps
<1>2. m \in Nat
  OBVIOUS
<1>3. \A t \in GoodTrees : t.root \in Seq(SectionNode) /\ Len(t.root) \in Nat
  BY DEF GoodTrees
<1>4. ASSUME NEW i \in 1 .. m, NEW t \in GoodTrees, Done(t, i - 1)
      PROVE  Done(ClientSection(t, clients, got, i), i)
  <2> DEFINE u == ClientSection(t, clients, got, i)
  <2>1. CASE Named(t.root, clients[i])
    <3>1. u.root = t.root
      BY <2>1, ClientSectionFacts
    <3> QED
      BY <1>4, <2>1, <3>1
  <2>2. CASE ~Named(t.root, clients[i])
    <3>1. PICK s \in SectionNode : /\ s.name = clients[i] /\ s.owner = "ctrl-client"
                                   /\ u.root = Append(t.root, s)
      BY <2>2, ClientSectionFacts
    <3>2. /\ Len(u.root) = Len(t.root) + 1 /\ Len(t.root) \in Nat /\ Len(m0.root) \in Nat
          /\ \A j \in 1 .. Len(t.root) : u.root[j] = t.root[j]
          /\ u.root[Len(t.root) + 1] = s
      BY <1>3, <3>1, AppendTo
    <3>3. s.name \in Range(clients)
      BY <3>1 DEF Range
    <3> HIDE DEF u, m
    <3>4. Grown(m0.root, u.root, clients)
      BY <1>4, <3>1, <3>2, <3>3 DEF Grown
    <3>5. ASSUME NEW k \in 1 .. i
          PROVE  Named(u.root, clients[k])
      <4>1. CASE k = i
        <5>1. Len(t.root) + 1 \in 1 .. Len(u.root) /\ u.root[Len(t.root) + 1].name = clients[k]
          BY <3>1, <3>2, <4>1
        <5> QED
          BY <5>1 DEF Named
      <4>2. CASE k # i
        <5>1. k \in 1 .. i - 1
          BY <1>2, <4>2
        <5>2. PICK j \in 1 .. Len(t.root) : t.root[j].name = clients[k]
          BY <1>4, <5>1 DEF Named
        <5>3. j \in 1 .. Len(u.root) /\ u.root[j].name = clients[k]
          BY <3>2, <5>2
        <5> QED
          BY <5>3 DEF Named
      <4> QED
        BY <4>1, <4>2
    <3> QED
      BY <3>4, <3>5 DEF u
  <2> QED
    BY <2>1, <2>2
<1>5. Done(m0, 0)
  BY <1>3 DEF Grown
<1> HIDE DEF m, Done
<1>6. Done(f[m], m)
  <2> DEFINE T == {n \in 0 .. m : Done(f[n], n)}
  <2>1. 0 \in T
    BY <1>1, <1>2, <1>5
  <2>2. ASSUME NEW n \in 0 .. m - 1, n \in T
        PROVE  n + 1 \in T
    <3>1. f[n + 1] = ClientSection(f[n], clients, got, n + 1) /\ n + 1 \in 1 .. m
          /\ f[n] \in GoodTrees /\ (n + 1) - 1 = n
      BY <1>1, <1>2
    <3> QED
      BY <1>4, <2>2, <3>1
  <2> HIDE DEF T
  <2>3. \A n \in 0 .. m : n \in T
    BY <1>2, <2>1, <2>2, BoundedInduction
  <2> QED
    BY <1>2, <2>3 DEF T
<1>7. f[m] \in GoodTrees
  BY <1>1, <1>2
<1> QED
  BY <1>1, <1>6, <1>7 DEF Done, m

-----------------------------------------------------------------------------
(* The inductive invariant.                                                *)

\* This report has come past the poll function p.
Past(p) == \E i, j \in 1 .. Len(Polls) : i < j /\ Polls[i] = p /\ Polls[j] = pc

\* Lists of names have no name twice (the parser finds a name that is there).
ConfDistinct == \A k \in Kinds : IsInjective(conf[k])

\* Only what a poll function of this report has returned about has been asked for.
AskedPast ==
    /\ troubled \subseteq {"netdev", "ping"}
    /\ pc \in Range(Polls) => \A k \in queried \cup troubled : Past(k)

NoReport == pc \in {"config", "due", "wait", "exited", "openvpn"} => root = <<>>

\* The heading of a section says who has put it there: a poll function that has
\* been called, under its own name, or a client that is configured.
Heading(p, s) ==
    s.owner = p /\ IF p = "ctrl-client" THEN Taken(s.name) ELSE s.name = SectionName(p)

RootOwners ==
    \A i \in 1 .. Len(root) : \E p \in Owners : Past(p) /\ Heading(p, root[i])

HasSection(owner, name) ==
    \E i \in 1 .. Len(root) : root[i].owner = owner /\ root[i].name = name

HasList(k) ==
    \E i \in 1 .. Len(root) :
        root[i].owner = k /\ root[i].name = SectionName(k) /\ KidNames(root[i].kids) = conf[k]

HasPrefix(k) ==
    \E i \in 1 .. Len(root) :
        root[i].owner = k /\ root[i].name = k /\ IsPrefix(KidNames(root[i].kids), conf[k])

Listed == {"openvpn", "ping", "file", "shellcmd"}

\* What the poll function p has to have done when it returns.
Done(p) ==
    /\ p \in Listed \ troubled /\ conf[p] # <<>> => (p # "openvpn" /\ Taken(p)) \/ HasList(p)
    /\ p = "ctrl-client" =>
            \A c \in Range(conf["ctrl-client"]) :
                HasSection("ctrl-client", c) \/ c \in {"OpenVPN", "sysinfo"}
    /\ p = "sysinfo" /\ sysinfo_enabled => HasSection("sysinfo", "sysinfo")
    /\ p \in Kinds \ troubled /\ conf[p] # <<>> =>
            p \in queried \/ (IF p = "openvpn" THEN ~vpn_up ELSE Taken(p))
    /\ p \in troubled => p \notin queried /\ (Taken(p) \/ HasPrefix(p))

AllDone == \A p \in Owners : Past(p) => Done(p)

IInv ==
    /\ TypeOK
    /\ ConfDistinct
    /\ GoodRoot(root)
    /\ NoReport
    /\ pc \notin {"crashed", "failed"} => RootOwners
    /\ AskedPast
    /\ AllDone

-----------------------------------------------------------------------------
(* The order of the poll functions.                                        *)

LEMMA PollsAre ==
    /\ Len(Polls) = 8 /\ DOMAIN Polls = 1 .. 8
    /\ Polls[1] = "openvpn" /\ Polls[2] = "sysinfo" /\ Polls[3] = "ctrl-client"
    /\ Polls[4] = "netdev" /\ Polls[5] = "ping" /\ Polls[6] = "file"
    /\ Polls[7] = "shellcmd" /\ Polls[8] = "print"
BY DEF Polls

LEMMA PollsRange ==
    Range(Polls) = {"openvpn", "sysinfo", "ctrl-client", "netdev", "ping", "file",
                    "shellcmd", "print"}
<1>1. Range(Polls) = {Polls[i] : i \in 1 .. 8}
  BY PollsAre DEF Range
<1>2. \A i \in 1 .. 8 : i \in {1, 2, 3, 4, 5, 6, 7, 8}
  OBVIOUS
<1> QED
  BY <1>1, <1>2, PollsAre

LEMMA PollsDiffer == \A i, j \in 1 .. 8 : Polls[i] = Polls[j] => i = j
<1>1. \A i \in 1 .. 8 : i \in {1, 2, 3, 4, 5, 6, 7, 8}
  OBVIOUS
<1> QED
  BY <1>1, PollsAre

LEMMA AfterIs ==
    ASSUME NEW i \in 1 .. 7
    PROVE  After(Polls[i]) = Polls[i + 1]
<1> DEFINE j == CHOOSE k \in 2 .. Len(Polls) : Polls[k - 1] = Polls[i]
<1>1. i + 1 \in 2 .. Len(Polls) /\ Polls[(i + 1) - 1] = Polls[i]
  BY PollsAre
<1>2. j \in 2 .. Len(Polls) /\ Polls[j - 1] = Polls[i]
  BY <1>1
<1> HIDE DEF j
<1>3. j - 1 = i
  <2>1. Len(Polls) = 8
    BY PollsAre
  <2>2. j - 1 \in 1 .. 8 /\ i \in 1 .. 8
    BY <1>2, <2>1
  <2> QED
    BY <1>2, <2>2, PollsDiffer
<1>4. j = i + 1
  BY <1>2, <1>3
<1> QED
  BY <1>4 DEF After, j

\* A poll function that returns is past, and nothing else changes.
LEMMA PastAfter ==
    ASSUME pc \in Range(Polls), pc # "print", pc' = After(pc)
    PROVE  /\ pc' \in Range(Polls) /\ pc' # "openvpn"
           /\ \A q : Past(q)' <=> Past(q) \/ q = pc
<1>1. PICK i \in 1 .. 7 : pc = Polls[i]
  <2>1. PICK i \in 1 .. 8 : pc = Polls[i]
    BY PollsAre DEF Range
  <2>2. i # 8
    BY <2>1, PollsAre
  <2> QED
    BY <2>1, <2>2
<1>2. pc' = Polls[i + 1]
  BY <1>1, AfterIs
<1>3. i \in 1 .. 8 /\ i + 1 \in 1 .. 8 /\ i + 1 # 1
  OBVIOUS
<1>4. ASSUME NEW q
      PROVE  /\ Past(q) <=> \E a \in 1 .. i - 1 : Polls[a] = q
             /\ Past(q)' <=> \E a \in 1 .. i : Polls[a] = q
  <2>1. \A a, b \in 1 .. 8 : Polls[b] = pc <=> b = i
    BY <1>1, <1>3, PollsDiffer
  <2>2. \A a, b \in 1 .. 8 : Polls[b] = pc' <=> b = i + 1
    BY <1>2, <1>3, PollsDiffer
  <2>3. Past(q) <=> \E a, b \in 1 .. 8 : a < b /\ Polls[a] = q /\ Polls[b] = pc
    BY PollsAre DEF Past
  <2>4. Past(q)' <=> \E a, b \in 1 .. 8 : a < b /\ Polls[a] = q /\ Polls[b] = pc'
    BY PollsAre DEF Past, Polls
  <2>5. Past(q) <=> \E a \in 1 .. i - 1 : Polls[a] = q
    BY <1>1, <1>3, <2>1, <2>3
  <2>6. Past(q)' <=> \E a \in 1 .. i : Polls[a] = q
    BY <1>2, <1>3, <2>2, <2>4
  <2> QED
    BY <2>5, <2>6
<1>5. \A q : Past(q)' <=> Past(q) \/ q = pc
  BY <1>1, <1>4
<1>6. pc' \in Range(Polls) /\ pc' # "openvpn"
  BY <1>2, <1>3, PollsAre, PollsDiffer DEF Range
<1> QED
  BY <1>5, <1>6

LEMMA NotPastItself == ~Past(pc)
BY PollsAre, PollsDiffer DEF Past

LEMMA PastAt ==
    /\ pc \notin Range(Polls) \/ pc = "openvpn" => \A q : ~Past(q)
    /\ pc = "sysinfo" => \A q : Past(q) => q = "openvpn"
    /\ pc = "ctrl-client" => \A q : Past(q) => q \in {"openvpn", "sysinfo"}
    /\ pc = "print" => \A q \in Owners : Past(q)
<1>1. \A q : Past(q) <=> \E i, j \in 1 .. 8 : i < j /\ Polls[i] = q /\ Polls[j] = pc
  BY PollsAre DEF Past
<1>2. pc \notin Range(Polls) => \A q : ~Past(q)
  BY <1>1, PollsAre DEF Range
<1>3. pc = "openvpn" => \A q : ~Past(q)
  <2>1. \A j \in 1 .. 8 : Polls[j] = "openvpn" => j = 1
    BY PollsAre, PollsDiffer
  <2> QED
    BY <1>1, <2>1
<1>4. pc = "sysinfo" => \A q : Past(q) => q = "openvpn"
  <2>1. \A j \in 1 .. 8 : Polls[j] = "sysinfo" => j = 2
    BY PollsAre, PollsDiffer
  <2>2. \A i, j \in 1 .. 8 : i < j /\ j = 2 => i = 1
    OBVIOUS
  <2> QED
    BY <1>1, <2>1, <2>2, PollsAre
<1>5. pc = "ctrl-client" => \A q : Past(q) => q \in {"openvpn", "sysinfo"}
  <2>1. \A j \in 1 .. 8 : Polls[j] = "ctrl-client" => j = 3
    BY PollsAre, PollsDiffer
  <2>2. \A i, j \in 1 .. 8 : i < j /\ j = 3 => i = 1 \/ i = 2
    OBVIOUS
  <2> QED
    BY <1>1, <2>1, <2>2, PollsAre
<1>6. pc = "print" => \A q \in Owners : Past(q)
  <2>1. ASSUME NEW q \in Owners
        PROVE  \E i \in 1 .. 7 : Polls[i] = q
    <3>1. \A i \in {1, 2, 3, 4, 5, 6, 7} : i \in 1 .. 7
      OBVIOUS
    <3> QED
      BY <3>1, PollsAre DEF Owners, Kinds
  <2>2. \A i \in 1 .. 7 : i < 8 /\ i \in 1 .. 8 /\ 8 \in 1 .. 8
    OBVIOUS
  <2> QED
    BY <1>1, <2>1, <2>2, PollsAre
<1> QED
  BY <1>2, <1>3, <1>4, <1>5, <1>6

-----------------------------------------------------------------------------
(* What the poll functions have in common.                                 *)

\* r is still there, in front of what has been added.
Prolongs(r, s) == Len(r) <= Len(s) /\ \A i \in 1 .. Len(r) : s[i] = r[i]

\* What has been done is not undone by a later poll function.
LEMMA DoneStays ==
    ASSUME NEW q, Done(q), UNCHANGED <<conf, sysinfo_enabled, vpn_up>>,
           root \in Seq(SectionNode), root' \in Seq(SectionNode), Prolongs(root, root'),
           q \in queried' <=> q \in queried, q \in troubled' <=> q \in troubled
    PROVE  Done(q)'
<1>1. \A i \in 1 .. Len(root) : i \in 1 .. Len(root') /\ root'[i] = root[i]
  BY DEF Prolongs
<1>2. \A n : Taken(n)' <=> Taken(n)
  BY DEF Taken
<1>3. (HasList(q) => HasList(q)') /\ (HasPrefix(q) => HasPrefix(q)')
  BY <1>1 DEF HasList, HasPrefix
<1>4. \A o, n : HasSection(o, n) => HasSection(o, n)'
  BY <1>1 DEF HasSection
<1>5. (q \in Listed \ troubled /\ conf[q] # <<>> => (q # "openvpn" /\ Taken(q)) \/ HasList(q))'
  BY <1>2, <1>3 DEF Done, Listed
<1>6. (q = "ctrl-client" =>
            \A c \in Range(conf["ctrl-client"]) :
                HasSection("ctrl-client", c) \/ c \in {"OpenVPN", "sysinfo"})'
  BY <1>4 DEF Done
<1>7. (q = "sysinfo" /\ sysinfo_enabled => HasSection("sysinfo", "sysinfo"))'
  BY <1>4 DEF Done
<1>8. (q \in Kinds \ troubled /\ conf[q] # <<>> =>
            q \in queried \/ (IF q = "openvpn" THEN ~vpn_up ELSE Taken(q)))'
  BY <1>2 DEF Done, Kinds
<1>9. (q \in troubled => q \notin queried /\ (Taken(q) \/ HasPrefix(q)))'
  BY <1>2, <1>3 DEF Done
<1> QED
  BY <1>5, <1>6, <1>7, <1>8, <1>9 DEF Done

\* A poll function asks for its own kind of things only, and gets errors about these.
Asks(p) ==
    /\ rcs' \in BOOLEAN
    /\ queried \subseteq queried' /\ queried' \subseteq queried \cup ({p} \cap Kinds)
    /\ troubled \subseteq troubled'
    /\ troubled' \subseteq troubled \cup ({p} \cap {"netdev", "ping"})

LEMMA PolledAsks ==
    ASSUME IInv, NEW p, NEW m, NEW ks \in SUBSET ({p} \cap Kinds), Polled(p, m, ks)
    PROVE  Asks(p) /\ queried' = queried \cup ks /\ troubled' = troubled
BY DEF Polled, Leaves, Asks, IInv, TypeOK

LEMMA NotAskedYet ==
    ASSUME IInv, NEW p \in Owners, pc = p
    PROVE  p \notin queried /\ p \notin troubled
<1>1. p \in Range(Polls) /\ ~Past(p)
  BY PollsRange, NotPastItself DEF Owners, Kinds
<1> QED
  BY <1>1 DEF IInv, AskedPast

\* A poll function that adds sections under its own heading and has done what it
\* has to do keeps the invariant.
LEMMA PolledKeeps ==
    ASSUME IInv, NEW p, pc = p, p \in Range(Polls), p # "print", p \in Owners,
           pc' = After(p), UNCHANGED <<oneshot, conf, sysinfo_enabled, vpn_up>>,
           GoodTree(Tree)', Prolongs(root, root'),
           Asks(p),
           \A i \in Len(root) + 1 .. Len(root') : Heading(p, root'[i]),
           Done(p)'
    PROVE  IInv'
<1>1. pc' \in Range(Polls) /\ pc' # "openvpn" /\ \A q : Past(q)' <=> Past(q) \/ q = p
  BY PastAfter
<1>2. /\ root \in Seq(SectionNode) /\ root' \in Seq(SectionNode) /\ lost' \in 0 .. MaxLost
      /\ GoodRoot(root')
  BY DEF IInv, TypeOK, GoodTree, Tree
<1>3. TypeOK'
  <2>1. rcs' \in BOOLEAN /\ queried' \subseteq Kinds /\ troubled' \subseteq Kinds
    BY DEF IInv, TypeOK, Asks, Kinds
  <2> QED
    BY <1>1, <1>2, <2>1 DEF IInv, TypeOK
<1>4. ConfDistinct'
  BY DEF IInv, ConfDistinct
<1>5. GoodRoot(root)'
  BY <1>2
<1>6. NoReport'
  BY <1>1, PollsRange DEF NoReport
<1>7. RootOwners'
  <2>1. RootOwners
    BY PollsRange DEF IInv
  <2>2. \A o, s : Heading(o, s)' <=> Heading(o, s)
    BY DEF Heading, Taken
  <2>3. ASSUME NEW i \in 1 .. Len(root')
        PROVE  \E o \in Owners : Past(o)' /\ Heading(o, root'[i])
    <3>1. CASE i \in 1 .. Len(root)
      <4>1. PICK o \in Owners : Past(o) /\ Heading(o, root[i])
        BY <2>1, <3>1 DEF RootOwners
      <4>2. Past(o)' /\ root'[i] = root[i]
        BY <1>1, <3>1, <4>1 DEF Prolongs
      <4> QED
        BY <4>1, <4>2
    <3>2. CASE i \in Len(root) + 1 .. Len(root')
      BY <1>1, <3>2
    <3> QED
      BY <1>2, <3>1, <3>2
  <2> QED
    BY <2>2, <2>3 DEF RootOwners, Heading, Taken
<1>8. AllDone'
  <2>1. ASSUME NEW q, q # p, Done(q)
        PROVE  Done(q)'
    <3>1. (q \in queried' <=> q \in queried) /\ (q \in troubled' <=> q \in troubled)
      BY <2>1 DEF Asks
    <3> QED
      BY <1>2, <2>1, <3>1, DoneStays
  <2> QED
    BY <1>1, <2>1 DEF AllDone, IInv
<1>9. AskedPast'
  <2>1. \A k \in queried' \cup troubled' : k \in queried \cup troubled \/ k = p
    BY DEF Asks
  <2>2. troubled' \subseteq {"netdev", "ping"}
    BY DEF Asks, IInv, AskedPast
  <2>3. \A k \in queried' \cup troubled' : Past(k)'
    BY <1>1, <2>1 DEF IInv, AskedPast
  <2> QED
    BY <2>2, <2>3 DEF AskedPast
<1> QED
  BY <1>3, <1>4, <1>5, <1>6, <1>7, <1>8, <1>9 DEF IInv

LEMMA TreeIsGood ==
    ASSUME IInv
    PROVE  GoodTree(Tree) /\ Tree \in GoodTrees /\ Tree.root = root
BY GoodTreesAre DEF IInv, TypeOK, GoodTree, Tree

\* At the call of a poll function, only a client can have taken its heading.
LEMMA HeadingTaken ==
    ASSUME IInv, NEW p \in Owners, pc = p, p # "ctrl-client", Named(root, SectionName(p))
    PROVE  Taken(SectionName(p)) /\ p \notin {"openvpn", "sysinfo"}
<1>1. PICK i \in 1 .. Len(root) : root[i].name = SectionName(p)
  BY DEF Named
<1>2. p \in Range(Polls) /\ p # "print" /\ p \notin {"crashed", "failed"}
  BY PollsRange DEF Owners, Kinds
<1>3. PICK o \in Owners : Past(o) /\ Heading(o, root[i])
  BY <1>1, <1>2 DEF IInv, RootOwners
<1>4. o # p
  <2>1. ~Past(pc)
    BY <1>2, NotPastItself
  <2> QED
    BY <1>3, <2>1
<1>5. o = "ctrl-client"
  BY <1>1, <1>3, <1>4 DEF Heading, SectionName, Owners, Kinds
<1>6. Taken(SectionName(p))
  BY <1>1, <1>3, <1>5 DEF Heading
<1>7. p \notin {"openvpn", "sysinfo"}
  BY <1>3, <1>5, PastAt
<1> QED
  BY <1>6, <1>7

\* A poll function that adds its section, unless the heading is taken.
LEMMA SectionPolled ==
    ASSUME IInv, NEW p \in Owners, pc = p, p # "ctrl-client", NEW names \in Seq(Names),
           Becomes(Section(Tree, p, SectionName(p), names))
    PROVE  /\ GoodTree(Tree)' /\ Prolongs(root, root')
           /\ \A i \in Len(root) + 1 .. Len(root') : Heading(p, root'[i])
           /\ \/ Taken(SectionName(p)) /\ p \notin {"openvpn", "sysinfo"}
              \/ \E i \in 1 .. Len(root') :
                    /\ root'[i].owner = p /\ root'[i].name = SectionName(p)
                    /\ IsInjective(names) => KidNames(root'[i].kids) = names
<1> DEFINE name == SectionName(p)
           t == Section(Tree, p, name, names)
           s == NewSection(p, name, names)
<1>1. name \in Names
  BY DEF SectionName, Owners, Kinds, Names, Headings
<1>2. /\ GoodTree(t)
      /\ Named(root, name) => t.root = root
      /\ ~Named(root, name) => t.root = Append(root, s)
  BY <1>1, TreeIsGood, SectionFacts
<1>3. /\ s \in SectionNode /\ s.name = name /\ s.owner = p
      /\ IsInjective(names) => KidNames(s.kids) = names
  BY <1>1, NewSectionFacts DEF KidNames
<1>4. root' = t.root /\ lost' = t.lost
  BY DEF Becomes
<1>5. root \in Seq(SectionNode) /\ Len(root) \in Nat
  BY DEF IInv, TypeOK
<1> HIDE DEF t, s
<1>6. GoodTree(Tree)'
  BY <1>2, <1>4 DEF Tree, GoodTree
<1>7. CASE Named(root, name)
  BY <1>2, <1>4, <1>5, <1>6, <1>7, HeadingTaken DEF Prolongs
<1>8. CASE ~Named(root, name)
  <2>1. /\ Len(root') = Len(root) + 1
        /\ \A i \in 1 .. Len(root) : root'[i] = root[i]
        /\ root'[Len(root) + 1] = s
    BY <1>2, <1>3, <1>4, <1>5, <1>8, AppendTo
  <2>2. Prolongs(root, root')
    BY <1>5, <2>1 DEF Prolongs
  <2>3. \A i \in Len(root) + 1 .. Len(root') : Heading(p, root'[i])
    BY <1>3, <1>5, <2>1 DEF Heading
  <2>4. Len(root) + 1 \in 1 .. Len(root')
    BY <1>5, <2>1
  <2> QED
    BY <1>3, <1>6, <2>1, <2>2, <2>3, <2>4
<1> QED
  BY <1>7, <1>8

-----------------------------------------------------------------------------
(* The poll functions.                                                     *)

LEMMA ConfFacts ==
    ASSUME IInv, NEW k \in Kinds
    PROVE  conf[k] \in Seq(Names) /\ IsInjective(conf[k])
<1>1. conf[k] \in Seq(NamesOf(k)) /\ NamesOf(k) \subseteq Names
  BY DEF IInv, TypeOK, NamesOf, Names
<1>2. conf[k] \in Seq(Names)
  BY <1>1
<1> QED
  BY <1>2 DEF IInv, ConfDistinct

LEMMA PollNames ==
    /\ Owners = {"openvpn", "ctrl-client", "netdev", "ping", "file", "shellcmd", "sysinfo"}
    /\ \A p \in Owners : p \in Range(Polls) /\ p # "print" /\ p \notin {"crashed", "failed"}
    /\ \A p \in Kinds : p \in Owners
    /\ Listed \subseteq Kinds /\ "ctrl-client" \notin Listed /\ "sysinfo" \notin Listed
BY PollsRange DEF Owners, Kinds, Listed

\* Nothing to report: the tree stays as it is.
LEMMA NothingPolled ==
    ASSUME IInv, NEW p \in Owners, Polled(p, Tree, {}), Done(p)'
    PROVE  IInv'
<1>1. root' = root /\ lost' = lost
  BY DEF Polled, Leaves, Becomes, Tree
<1>2. GoodTree(Tree)'
  BY <1>1, TreeIsGood DEF Tree, GoodTree
<1>3. root \in Seq(SectionNode)
  BY DEF IInv, TypeOK
<1>4. Prolongs(root, root') /\ \A i \in Len(root) + 1 .. Len(root') : Heading(p, root'[i])
  BY <1>1, <1>3 DEF Prolongs
<1>5. Asks(p)
  BY PolledAsks
<1> QED
  BY <1>2, <1>4, <1>5, PolledKeeps, PollNames DEF Polled, Leaves, optionVars

LEMMA ListPolled ==
    ASSUME IInv, NEW p \in Listed, NEW ks \in SUBSET {p},
           p \in ks \/ (p = "openvpn" /\ ~vpn_up),
           PolledIfAny(p, SectionName(p), conf[p], ks)
    PROVE  IInv'
<1>1. p \in Kinds /\ p \in Owners /\ p # "ctrl-client" /\ p # "sysinfo"
  BY PollNames
<1>2. UNCHANGED <<conf, vpn_up, oneshot, sysinfo_enabled>>
  BY DEF PolledIfAny, Polled, Leaves, optionVars
<1>3. CASE conf[p] = <<>>
  <2>1. Polled(p, Tree, {})
    BY <1>3 DEF PolledIfAny
  <2>2. p \notin troubled'
    BY <1>1, <2>1, NotAskedYet DEF Polled, Leaves
  <2>3. Done(p)'
    BY <1>1, <1>2, <1>3, <2>2 DEF Done
  <2> QED
    BY <1>1, <2>1, <2>3, NothingPolled
<1>4. CASE conf[p] # <<>>
  <2>1. /\ Polled(p, Section(Tree, p, SectionName(p), conf[p]), ks)
        /\ conf[p] \in Seq(Names) /\ IsInjective(conf[p])
    BY <1>1, <1>4, ConfFacts DEF PolledIfAny
  <2>2. /\ pc = p /\ pc' = After(p) /\ queried' = queried \cup ks
        /\ Becomes(Section(Tree, p, SectionName(p), conf[p]))
    BY <2>1 DEF Polled, Leaves
  <2>3. /\ GoodTree(Tree)' /\ Prolongs(root, root')
        /\ \A i \in Len(root) + 1 .. Len(root') : Heading(p, root'[i])
        /\ \/ Taken(SectionName(p)) /\ p \notin {"openvpn", "sysinfo"}
           \/ \E i \in 1 .. Len(root') :
                /\ root'[i].owner = p /\ root'[i].name = SectionName(p)
                /\ KidNames(root'[i].kids) = conf[p]
    BY <1>1, <2>1, <2>2, SectionPolled
  <2>4. (p # "openvpn" /\ Taken(p))' \/ HasList(p)'
    BY <1>2, <2>3 DEF HasList, Taken, SectionName
  <2>5. p \in queried' \/ (IF p = "openvpn" THEN ~vpn_up' ELSE Taken(p)')
    BY <1>2, <2>2
  <2>6. p \notin troubled'
    BY <1>1, <2>1, <2>2, NotAskedYet DEF Polled, Leaves
  <2>7. Done(p)'
    BY <1>1, <2>4, <2>5, <2>6 DEF Done
  <2>8. ks \in SUBSET ({p} \cap Kinds)
    BY <1>1
  <2>9. Asks(p)
    BY <2>1, <2>8, PolledAsks
  <2> QED
    BY <1>1, <1>2, <2>2, <2>3, <2>7, <2>9, PolledKeeps, PollNames
<1> QED
  BY <1>3, <1>4

LEMMA OpenvpnKeeps == ASSUME IInv, OpenvpnPoll PROVE IInv'
<1> DEFINE ks == IF vpn_up THEN {"openvpn"} ELSE {}
<1>1. "openvpn" \in Listed /\ SectionName("openvpn") = "OpenVPN" /\ ks \in SUBSET {"openvpn"}
  BY DEF Listed, SectionName, Kinds
<1>2. "openvpn" \in ks \/ ~vpn_up
  OBVIOUS
<1>3. PolledIfAny("openvpn", SectionName("openvpn"), conf["openvpn"], ks)
  BY <1>1 DEF OpenvpnPoll
<1> QED
  BY <1>1, <1>2, <1>3, ListPolled

LEMMA FileKeeps == ASSUME IInv, FilePoll PROVE IInv'
<1>1. "file" \in Listed /\ SectionName("file") = "file" /\ {"file"} \in SUBSET {"file"}
  BY DEF Listed, SectionName, Kinds
<1> QED
  BY <1>1, ListPolled DEF FilePoll

LEMMA ShellcmdKeeps == ASSUME IInv, ShellcmdPoll PROVE IInv'
<1>1. /\ "shellcmd" \in Listed /\ SectionName("shellcmd") = "shellcmd"
      /\ {"shellcmd"} \in SUBSET {"shellcmd"}
  BY DEF Listed, SectionName, Kinds
<1> QED
  BY <1>1, ListPolled DEF ShellcmdPoll

LEMMA PrefixFacts ==
    ASSUME NEW S, NEW s \in Seq(S), IsInjective(s), NEW n \in 0 .. Len(s)
    PROVE  LET t == SubSeq(s, 1, n)
           IN  t \in Seq(S) /\ IsInjective(t) /\ IsPrefix(t, s)
<1> DEFINE t == SubSeq(s, 1, n)
<1>1. /\ t \in Seq(S) /\ Len(t) = n /\ DOMAIN t = 1 .. n
      /\ \A i \in 1 .. n : t[i] = s[i]
  OBVIOUS
<1>2. \A i, j \in 1 .. Len(s) : s[i] = s[j] => i = j
  BY DEF IsInjective
<1>3. Len(s) \in Nat /\ DOMAIN s = 1 .. Len(s) /\ n <= Len(s) /\ n \in Nat
  OBVIOUS
<1> HIDE DEF t
<1>4. IsInjective(t)
  BY <1>1, <1>2, <1>3 DEF IsInjective
<1>5. IsPrefix(t, s)
  BY <1>1, <1>3 DEF IsPrefix
<1> QED
  BY <1>1, <1>4, <1>5 DEF t

\* A section of the first of what is configured, after an error.
LEMMA PrefixPolled ==
    ASSUME IInv, NEW p \in {"netdev", "ping"}, conf[p] # <<>>, NEW n \in 0 .. Len(conf[p]),
           Leaves(p, Section(Tree, p, p, SubSeq(conf[p], 1, n)), {}, {p}), UNCHANGED rcs
    PROVE  IInv'
<1>1. /\ p \in Owners /\ p # "ctrl-client" /\ p \in Kinds /\ p # "sysinfo" /\ p # "openvpn"
      /\ SectionName(p) = p
  BY PollNames DEF SectionName, Kinds
<1>2. PICK names : names = SubSeq(conf[p], 1, n)
  OBVIOUS
<1>3. names \in Seq(Names) /\ IsInjective(names) /\ IsPrefix(names, conf[p])
  BY <1>1, <1>2, ConfFacts, PrefixFacts
<1>4. /\ pc = p /\ pc' = After(p) /\ queried' = queried /\ troubled' = troubled \cup {p}
      /\ Becomes(Section(Tree, p, SectionName(p), names))
      /\ UNCHANGED <<oneshot, conf, sysinfo_enabled, vpn_up>>
  BY <1>1, <1>2 DEF Leaves, optionVars
<1>5. /\ GoodTree(Tree)' /\ Prolongs(root, root')
      /\ \A i \in Len(root) + 1 .. Len(root') : Heading(p, root'[i])
      /\ \/ Taken(SectionName(p))
         \/ \E i \in 1 .. Len(root') :
                /\ root'[i].owner = p /\ root'[i].name = SectionName(p)
                /\ KidNames(root'[i].kids) = names
  BY <1>1, <1>3, <1>4, SectionPolled
<1>6. Taken(p)' \/ HasPrefix(p)'
  BY <1>1, <1>3, <1>4, <1>5 DEF HasPrefix, Taken
<1>7. p \notin queried'
  BY <1>1, <1>4, NotAskedYet
<1>8. Done(p)'
  BY <1>1, <1>4, <1>6, <1>7 DEF Done
<1>9. Asks(p)
  BY <1>4 DEF Asks, IInv, TypeOK
<1> QED
  BY <1>1, <1>4, <1>5, <1>8, <1>9, PolledKeeps, PollNames

LEMMA PingKeeps == ASSUME IInv, PingPoll PROVE IInv'
<1>1. /\ "ping" \in Listed /\ SectionName("ping") = "ping"
      /\ "ping" \in Owners /\ "ping" # "ctrl-client" /\ "ping" # "sysinfo"
      /\ "ping" # "openvpn" /\ {"ping"} \in SUBSET {"ping"}
  BY PollNames DEF Listed, SectionName, Kinds
<1>2. CASE Named(root, "ping")
  <2>1. Polled("ping", Tree, {})
    BY <1>2 DEF PingPoll
  <2>2. pc = "ping" /\ UNCHANGED conf /\ troubled' = troubled
    BY <2>1 DEF Polled, Leaves, optionVars
  <2>3. Taken("ping") /\ "ping" \notin troubled
    BY <1>1, <1>2, <2>2, HeadingTaken, NotAskedYet
  <2>4. Done("ping")'
    BY <1>1, <2>2, <2>3 DEF Done, Taken
  <2> QED
    BY <1>1, <2>1, <2>4, NothingPolled
<1>3. CASE PolledIfAny("ping", "ping", conf["ping"], {"ping"})
  <2>1. PolledIfAny("ping", SectionName("ping"), conf["ping"], {"ping"})
    BY <1>1, <1>3
  <2> QED
    BY <1>1, <2>1, ListPolled
<1>4. CASE \E n \in 0 .. Len(conf["ping"]) :
            /\ conf["ping"] # <<>>
            /\ Leaves("ping", Section(Tree, "ping", "ping", SubSeq(conf["ping"], 1, n)),
                      {}, {"ping"})
            /\ UNCHANGED rcs
  BY <1>4, PrefixPolled
<1> QED
  BY <1>2, <1>3, <1>4 DEF PingPoll

LEMMA SysinfoKeeps == ASSUME IInv, SysinfoPoll PROVE IInv'
<1>1. PICK names \in {<<>>, <<"load", "ram", "uptime">>} :
        Polled("sysinfo",
               IF sysinfo_enabled THEN Section(Tree, "sysinfo", "sysinfo", names) ELSE Tree,
               {})
  BY DEF SysinfoPoll
<1>2. /\ "sysinfo" \in Owners /\ "sysinfo" # "ctrl-client" /\ "sysinfo" \notin Kinds
      /\ SectionName("sysinfo") = "sysinfo" /\ "sysinfo" \notin Listed
      /\ {} \in SUBSET Kinds
  BY PollNames DEF SectionName, Kinds
<1>3. names \in Seq(Names)
  <2>1. "load" \in Names /\ "ram" \in Names /\ "uptime" \in Names
    BY DEF Names
  <2> HIDE DEF Names
  <2>2. <<"load", "ram", "uptime">> \in Seq(Names) /\ <<>> \in Seq(Names)
    BY <2>1
  <2> QED
    BY <2>2
<1>4. /\ pc = "sysinfo" /\ pc' = After("sysinfo")
      /\ UNCHANGED <<oneshot, conf, sysinfo_enabled, vpn_up, rcs, troubled>>
      /\ "sysinfo" \notin troubled
  BY <1>1, <1>2, NotAskedYet DEF Polled, Leaves, optionVars
<1>5. CASE sysinfo_enabled
  <2>1. Becomes(Section(Tree, "sysinfo", SectionName("sysinfo"), names))
    BY <1>1, <1>2, <1>5 DEF Polled, Leaves
  <2>2. /\ GoodTree(Tree)' /\ Prolongs(root, root')
        /\ \A i \in Len(root) + 1 .. Len(root') : Heading("sysinfo", root'[i])
        /\ \E i \in 1 .. Len(root') : root'[i].owner = "sysinfo" /\ root'[i].name = "sysinfo"
    BY <1>2, <1>3, <1>4, <2>1, SectionPolled
  <2>3. HasSection("sysinfo", "sysinfo")'
    BY <2>2 DEF HasSection
  <2>4. Done("sysinfo")'
    BY <1>2, <1>4, <2>3 DEF Done
  <2>5. Asks("sysinfo")
    <3>1. {} \in SUBSET ({"sysinfo"} \cap Kinds)
      OBVIOUS
    <3> QED
      BY <1>1, <3>1, PolledAsks
  <2> QED
    BY <1>2, <1>4, <2>2, <2>4, <2>5, PolledKeeps, PollNames
<1>6. CASE ~sysinfo_enabled
  <2>1. Polled("sysinfo", Tree, {})
    BY <1>1, <1>6
  <2>2. Done("sysinfo")'
    BY <1>2, <1>4, <1>6 DEF Done
  <2> QED
    BY <1>2, <2>1, <2>2, NothingPolled
<1> QED
  BY <1>5, <1>6

LEMMA RtnlNames ==
    /\ "netdev" \in Owners /\ "netdev" # "ctrl-client" /\ "netdev" \in Kinds
    /\ "netdev" # "sysinfo" /\ SectionName("netdev") = "netdev" /\ "netdev" \notin Listed
    /\ "netdev" # "openvpn"
BY PollNames DEF SectionName, Kinds, Listed

LEMMA InitFailsKeeps == ASSUME IInv, RtnlInitFails PROVE IInv'
<1>1. conf["netdev"] \in Seq(Names)
  BY RtnlNames, ConfFacts
<1>2. SubSeq(conf["netdev"], 1, 0) = <<>> /\ 0 \in 0 .. Len(conf["netdev"])
  BY <1>1
<1> QED
  BY <1>2, PrefixPolled DEF RtnlInitFails

\* Also after an error that leaves a part of the interfaces.
LEMMA ShownKeeps == ASSUME IInv, InterfacesShown PROVE IInv'
<1> PICK n \in 0 .. Len(conf["netdev"]) :
        \E present \in [1 .. n -> Range(conf["netdev"])] :
            /\ conf["netdev"] # <<>>
            /\ Leaves("netdev", Section(Tree, "netdev", "netdev", present), {"netdev"}, {})
            /\ rcs' = TRUE
  BY DEF InterfacesShown
<1>1. PICK present \in [1 .. n -> Range(conf["netdev"])] :
            /\ conf["netdev"] # <<>>
            /\ Leaves("netdev", Section(Tree, "netdev", "netdev", present), {"netdev"}, {})
            /\ rcs' = TRUE
  OBVIOUS
<1>2. present \in Seq(Names)
  <2>1. conf["netdev"] \in Seq(Names)
    BY RtnlNames, ConfFacts
  <2>2. n \in Nat /\ Range(conf["netdev"]) \subseteq Names
    BY <2>1 DEF Range
  <2> QED
    BY <1>1, <2>2
<1>3. /\ pc = "netdev" /\ pc' = After("netdev") /\ queried' = queried \cup {"netdev"}
      /\ Becomes(Section(Tree, "netdev", SectionName("netdev"), present))
      /\ UNCHANGED <<oneshot, conf, sysinfo_enabled, vpn_up>> /\ troubled' = troubled
  BY <1>1, RtnlNames DEF Leaves, optionVars
<1>4. /\ GoodTree(Tree)' /\ Prolongs(root, root')
      /\ \A i \in Len(root) + 1 .. Len(root') : Heading("netdev", root'[i])
  BY <1>2, <1>3, RtnlNames, SectionPolled
<1>5. "netdev" \notin troubled'
  BY <1>3, RtnlNames, NotAskedYet
<1>6. Done("netdev")'
  BY <1>3, <1>5, RtnlNames DEF Done
<1>7. Asks("netdev")
  BY <1>1, <1>3, RtnlNames DEF Asks
<1> QED
  BY <1>3, <1>4, <1>6, <1>7, RtnlNames, PolledKeeps, PollNames

LEMMA NoNetdevKeeps ==
    ASSUME IInv, conf["netdev"] = <<>>, Polled("netdev", Tree, {})
    PROVE  IInv'
<1>1. pc = "netdev" /\ UNCHANGED conf /\ troubled' = troubled
  BY DEF Polled, Leaves, optionVars
<1>2. "netdev" \notin troubled'
  BY <1>1, RtnlNames, NotAskedYet
<1>3. Done("netdev")'
  BY <1>1, <1>2, RtnlNames DEF Done
<1> QED
  BY <1>3, RtnlNames, NothingPolled

\* Each client has its section, or another component's section has its name: those of
\* the poll functions that come before.
LEMMA CtrlKeeps == ASSUME IInv, CtrlPoll PROVE IInv'
<1> DEFINE clients == conf["ctrl-client"]
           ks == IF clients # <<>> THEN {"ctrl-client"} ELSE {}
<1>1. PICK got \in [Range(clients) -> 0 .. Len(ClientVars)] :
        Polled("ctrl-client", ClientSections(Tree, clients, got), ks)
  BY DEF CtrlPoll
<1>2. /\ "ctrl-client" \in Owners /\ "ctrl-client" \in Kinds /\ "ctrl-client" \notin Listed
      /\ "ctrl-client" # "sysinfo" /\ "ctrl-client" # "openvpn" /\ ks \in SUBSET ({"ctrl-client"} \cap Kinds)
  BY PollNames DEF Kinds
<1>3. /\ pc = "ctrl-client" /\ pc' = After("ctrl-client") /\ queried' = queried \cup ks
      /\ Becomes(ClientSections(Tree, clients, got))
      /\ UNCHANGED <<oneshot, conf, sysinfo_enabled, vpn_up, troubled>>
      /\ "ctrl-client" \notin troubled
  BY <1>1, <1>2, NotAskedYet DEF Polled, Leaves, optionVars
<1>4. clients \in Seq(Names)
  BY <1>2, ConfFacts
<1> DEFINE t == ClientSections(Tree, clients, got)
<1>5. /\ t \in GoodTrees /\ Grown(root, t.root, clients)
      /\ \A k \in 1 .. Len(clients) : Named(t.root, clients[k])
  BY <1>4, ClientSectionsFacts, TreeIsGood
<1>6. root' = t.root /\ lost' = t.lost
  BY <1>3 DEF Becomes
<1> HIDE DEF t
<1>7. GoodTree(Tree)'
  <2>1. GoodTree(t)
    BY <1>5, GoodTreesAre
  <2> QED
    BY <1>6, <2>1 DEF GoodTree, Tree
<1>8. Prolongs(root, root')
  BY <1>5, <1>6 DEF Grown, Prolongs
<1>9. \A i \in Len(root) + 1 .. Len(root') : Heading("ctrl-client", root'[i])
  BY <1>5, <1>6 DEF Grown, Heading, Taken
<1>10. ASSUME NEW c \in Range(clients)
       PROVE  HasSection("ctrl-client", c)' \/ c \in {"OpenVPN", "sysinfo"}
  <2>1. PICK k \in 1 .. Len(clients) : c = clients[k]
    BY <1>4 DEF Range
  <2>2. PICK i \in 1 .. Len(root') : root'[i].name = c
    BY <1>5, <1>6, <2>1 DEF Named
  <2>3. root \in Seq(SectionNode) /\ root' \in Seq(SectionNode)
    BY <1>7 DEF IInv, TypeOK, GoodTree, Tree
  <2>4. CASE i \in Len(root) + 1 .. Len(root')
    <3>1. root'[i].owner = "ctrl-client"
      BY <1>9, <2>4 DEF Heading
    <3> QED
      BY <2>2, <3>1 DEF HasSection
  <2>5. CASE i \in 1 .. Len(root)
    <3>1. root'[i] = root[i]
      BY <1>8, <2>5 DEF Prolongs
    <3>2. PICK o \in Owners : Past(o) /\ Heading(o, root[i])
      BY <1>3, <2>5 DEF IInv, RootOwners
    <3>3. o \in {"openvpn", "sysinfo"}
      BY <1>3, <3>2, PastAt
    <3> QED
      BY <2>2, <3>1, <3>2, <3>3 DEF Heading, SectionName
  <2> QED
    BY <2>3, <2>4, <2>5
<1>11. Done("ctrl-client")'
  <2>1. clients' = clients
    BY <1>3
  <2>2. \A c \in Range(clients') : HasSection("ctrl-client", c)' \/ c \in {"OpenVPN", "sysinfo"}
    BY <1>10, <2>1
  <2>3. clients' # <<>> => "ctrl-client" \in queried'
    BY <1>3, <2>1
  <2> QED
    BY <1>2, <1>3, <2>2, <2>3 DEF Done
<1>12. Asks("ctrl-client")
  BY <1>1, <1>2, PolledAsks
<1> QED
  BY <1>2, <1>3, <1>7, <1>8, <1>9, <1>11, <1>12, PolledKeeps, PollNames

-----------------------------------------------------------------------------
(* The other steps.                                                        *)

LEMMA InitHolds == Init => IInv
<1> SUFFICES ASSUME Init PROVE IInv
  OBVIOUS
<1>1. pc \notin Range(Polls) /\ pc = "config"
  BY PollsRange DEF Init
<1>2. TypeOK
  <2>1. DOMAIN conf = Kinds /\ \A k \in Kinds : conf[k] \in Seq(NamesOf(k))
    <3>1. \A k \in Kinds : <<>> \in Seq(NamesOf(k))
      OBVIOUS
    <3> QED
      BY <3>1 DEF Init
  <2>2. root \in Seq(SectionNode)
    <3>1. <<>> \in Seq(SectionNode)
      OBVIOUS
    <3> QED
      BY <3>1 DEF Init
  <2>3. lost \in 0 .. MaxLost
    BY SysmonAssumption DEF Init, SysmonAssumption
  <2> QED
    BY <2>1, <2>2, <2>3 DEF Init, TypeOK
<1>3. ConfDistinct
  BY DEF Init, ConfDistinct, IsInjective
<1>4. GoodRoot(root)
  BY DEF Init, GoodRoot, Distinct
<1>5. NoReport /\ RootOwners
  BY DEF Init, NoReport, RootOwners
<1>6. AllDone /\ AskedPast
  BY <1>1, PastAt DEF AllDone, AskedPast, Init
<1> QED
  BY <1>2, <1>3, <1>4, <1>5, <1>6 DEF IInv

\* A step outside of a report keeps the invariant.
LEMMA QuietKeeps ==
    ASSUME IInv, TypeOK', ConfDistinct', root' = <<>>,
           \/ pc' \notin Range(Polls)
           \/ pc' = "openvpn" /\ queried' = {} /\ troubled' = {},
           troubled' \subseteq {"netdev", "ping"}
    PROVE  IInv'
<1>1. \A q : ~Past(q)'
  <2>1. CASE pc' \notin Range(Polls)
    BY <2>1, PollsAre DEF Past, Range
  <2>2. CASE pc' = "openvpn"
    BY <2>2, PollsAre, PollsDiffer DEF Past
  <2> QED
    BY <2>1, <2>2
<1>2. AllDone' /\ AskedPast'
  BY <1>1 DEF AllDone, AskedPast
<1>3. GoodRoot(root)' /\ RootOwners' /\ NoReport'
  BY DEF GoodRoot, Distinct, RootOwners, NoReport
<1> QED
  BY <1>2, <1>3 DEF IInv

LEMMA EndsKeeps ==
    ASSUME IInv, NEW how \in {"crashed", "failed"}, Ends(how)
    PROVE  IInv'
<1>1. pc' = how /\ rcs' = TRUE /\ UNCHANGED <<oneshot, conf, sysinfo_enabled, root, lost,
                                             vpn_up, queried, troubled>>
  BY DEF Ends, optionVars
<1>2. pc' \notin Range(Polls)
  BY <1>1, PollsRange
<1>3. AllDone'
  BY <1>2, PollsAre DEF AllDone, Past, Range
<1>4. TypeOK' /\ ConfDistinct'
  BY <1>1 DEF IInv, TypeOK, ConfDistinct
<1>5. GoodRoot(root)' /\ NoReport' /\ AskedPast'
  BY <1>1, <1>2 DEF IInv, GoodRoot, NoReport, AskedPast
<1> QED
  BY <1>1, <1>3, <1>4, <1>5 DEF IInv

LEMMA LongerInjective ==
    ASSUME NEW S, NEW s \in Seq(S), NEW e, IsInjective(s), e \notin Range(s),
           NEW t \in Seq(S), Len(t) = Len(s) + 1,
           \A i \in 1 .. Len(s) : t[i] = s[i], t[Len(s) + 1] = e
    PROVE  IsInjective(t)
<1>1. \A i \in 1 .. Len(s) : s[i] # e
  BY DEF Range
<1>2. \A i, j \in 1 .. Len(s) : s[i] = s[j] => i = j
  BY DEF IsInjective
<1>3. Len(s) \in Nat /\ DOMAIN t = 1 .. Len(s) + 1
  OBVIOUS
<1>4. ASSUME NEW i \in 1 .. Len(s) + 1, NEW j \in 1 .. Len(s) + 1, t[i] = t[j]
      PROVE  i = j
  <2>1. \A k \in 1 .. Len(s) + 1 : k = Len(s) + 1 \/ k \in 1 .. Len(s)
    BY <1>3
  <2> QED
    BY <1>1, <1>2, <1>3, <1>4, <2>1
<1> QED
  BY <1>3, <1>4 DEF IsInjective

LEMMA ConcatFacts ==
    ASSUME NEW S, NEW a \in Seq(S), NEW b \in Seq(S)
    PROVE  /\ a \o b \in Seq(S) /\ Len(a \o b) = Len(a) + Len(b)
           /\ \A j \in 1 .. Len(a) : (a \o b)[j] = a[j]
           /\ \A j \in Len(a) + 1 .. Len(a) + Len(b) : (a \o b)[j] = b[j - Len(a)]
<1>1. a \o b \in Seq(S) /\ Len(a \o b) = Len(a) + Len(b)
  OBVIOUS
<1>2. \A j \in 1 .. Len(a) : (a \o b)[j] = a[j]
  OBVIOUS
<1>3. \A j \in Len(a) + 1 .. Len(a) + Len(b) : (a \o b)[j] = b[j - Len(a)]
  OBVIOUS
<1> QED
  BY <1>1, <1>2, <1>3

LEMMA RemoveInjective ==
    ASSUME NEW S, NEW s \in Seq(S), NEW i \in 1 .. Len(s), IsInjective(s)
    PROVE  RemoveAt(s, i) \in Seq(S) /\ IsInjective(RemoveAt(s, i))
<1> DEFINE a == SubSeq(s, 1, i - 1)
           b == SubSeq(s, i + 1, Len(s))
           r == RemoveAt(s, i)
<1>1. /\ a \in Seq(S) /\ Len(a) = i - 1
      /\ \A j \in 1 .. i - 1 : a[j] = s[j]
  OBVIOUS
<1>2. /\ b \in Seq(S) /\ Len(b) = Len(s) - i
      /\ \A j \in 1 .. Len(s) - i : b[j] = s[j + i]
  OBVIOUS
<1>3. r = a \o b
  BY DEF RemoveAt
<1> HIDE DEF a, b, r
<1>4. /\ r \in Seq(S) /\ Len(r) = Len(a) + Len(b)
      /\ \A j \in 1 .. Len(a) : r[j] = a[j]
      /\ \A j \in Len(a) + 1 .. Len(a) + Len(b) : r[j] = b[j - Len(a)]
  BY <1>1, <1>2, <1>3, ConcatFacts
<1>5. \A j \in 1 .. Len(s) - 1 : r[j] = s[IF j < i THEN j ELSE j + 1]
  <2> TAKE j \in 1 .. Len(s) - 1
  <2>1. CASE j < i
    <3>1. j \in 1 .. i - 1
      BY <2>1
    <3> QED
      BY <1>1, <1>4, <2>1, <3>1
  <2>2. CASE ~(j < i)
    <3>1. /\ j \in Len(a) + 1 .. Len(a) + Len(b) /\ j - Len(a) \in 1 .. Len(s) - i
          /\ (j - Len(a)) + i = j + 1
      BY <1>1, <1>2, <2>2
    <3>2. r[j] = b[j - Len(a)] /\ b[j - Len(a)] = s[(j - Len(a)) + i]
      BY <1>2, <1>4, <3>1
    <3> QED
      BY <2>2, <3>1, <3>2
  <2> QED
    BY <2>1, <2>2
<1>6. \A j, k \in 1 .. Len(s) : s[j] = s[k] => j = k
  BY DEF IsInjective
<1>7. DOMAIN r = 1 .. Len(s) - 1
  BY <1>1, <1>2, <1>4
<1>8. ASSUME NEW j \in 1 .. Len(s) - 1, NEW k \in 1 .. Len(s) - 1, r[j] = r[k]
      PROVE  j = k
  BY <1>5, <1>6, <1>8
<1> QED
  BY <1>4, <1>7, <1>8 DEF IsInjective, r

LEMMA ConfigureKeeps ==
    ASSUME IInv, NEW k \in Kinds, NEW list \in Seq(NamesOf(k)), IsInjective(list),
           Configure(k, list)
    PROVE  IInv'
<1>1. /\ pc = "config" /\ pc' = pc /\ conf' = [conf EXCEPT ![k] = list]
      /\ UNCHANGED <<oneshot, sysinfo_enabled, root, lost, vpn_up, rcs, queried, troubled>>
  BY DEF Configure
<1>2. root' = <<>> /\ pc' \notin Range(Polls)
  BY <1>1, PollsRange DEF IInv, NoReport
<1>3. \A j \in Kinds : conf'[j] = IF j = k THEN list ELSE conf[j]
  BY <1>1 DEF IInv, TypeOK
<1>4. ConfDistinct'
  BY <1>3 DEF IInv, ConfDistinct
<1>5. DOMAIN conf' = Kinds /\ \A j \in Kinds : conf'[j] \in Seq(NamesOf(j))
  BY <1>1, <1>3 DEF IInv, TypeOK
<1>6. TypeOK'
  BY <1>1, <1>5 DEF IInv, TypeOK
<1> QED
  BY <1>1, <1>2, <1>4, <1>6, QuietKeeps DEF IInv, AskedPast

LEMMA PutKeeps ==
    ASSUME IInv, NEW k \in Kinds, NEW n \in NamesOf(k), Put(k, n)
    PROVE  IInv'
<1>1. conf[k] \in Seq(NamesOf(k)) /\ IsInjective(conf[k])
  BY DEF IInv, TypeOK, ConfDistinct
<1>2. n \notin Range(conf[k]) /\ Configure(k, Append(conf[k], n))
  BY DEF Put
<1>3. PICK list : list = Append(conf[k], n)
  OBVIOUS
<1>4. /\ list \in Seq(NamesOf(k)) /\ Len(list) = Len(conf[k]) + 1
      /\ \A i \in 1 .. Len(conf[k]) : list[i] = conf[k][i]
      /\ list[Len(conf[k]) + 1] = n
  BY <1>1, <1>3, AppendTo
<1>5. IsInjective(list)
  BY <1>1, <1>2, <1>4, LongerInjective
<1>6. Configure(k, list)
  BY <1>2, <1>3
<1> QED
  BY <1>4, <1>5, <1>6, ConfigureKeeps

LEMMA DropKeeps ==
    ASSUME IInv, NEW k \in Kinds, NEW n, Drop(k, n)
    PROVE  IInv'
<1>1. PICK i \in 1 .. Len(conf[k]) : Configure(k, RemoveAt(conf[k], i))
  BY DEF Drop
<1>2. conf[k] \in Seq(NamesOf(k)) /\ IsInjective(conf[k])
  BY DEF IInv, TypeOK, ConfDistinct
<1>3. RemoveAt(conf[k], i) \in Seq(NamesOf(k)) /\ IsInjective(RemoveAt(conf[k], i))
  BY <1>2, RemoveInjective
<1> QED
  BY <1>1, <1>3, ConfigureKeeps

LEMMA ConfigKeeps ==
    ASSUME IInv,
           \/ \E n \in ClientNames : CfgCtrlClient(n) \/ CfgNoCtrlClient(n)
           \/ \E n \in Items :
                \/ CfgOpenvpn(n) \/ CfgNoOpenvpn(n)
                \/ CfgFile(n) \/ CfgNoFile(n)
                \/ CfgShellcmd(n) \/ CfgNoShellcmd(n)
                \/ CfgNetdev(n) \/ CfgNoNetdev(n)
                \/ CfgPing(n) \/ CfgNoPing(n)
    PROVE  IInv'
<1>1. /\ NamesOf("ctrl-client") = ClientNames
      /\ \A k \in Kinds : k # "ctrl-client" => NamesOf(k) = Items
  BY DEF NamesOf
<1>2. PICK k \in Kinds : \E n \in NamesOf(k) : Put(k, n) \/ Drop(k, n)
  <2>1. CASE \E n \in ClientNames : CfgCtrlClient(n) \/ CfgNoCtrlClient(n)
    BY <1>1, <2>1 DEF CfgCtrlClient, CfgNoCtrlClient, Kinds
  <2>2. CASE \E n \in Items : \/ CfgOpenvpn(n) \/ CfgNoOpenvpn(n)
                              \/ CfgFile(n) \/ CfgNoFile(n)
                              \/ CfgShellcmd(n) \/ CfgNoShellcmd(n)
                              \/ CfgNetdev(n) \/ CfgNoNetdev(n)
                              \/ CfgPing(n) \/ CfgNoPing(n)
    <3>1. PICK n \in Items : \E k \in Kinds : k # "ctrl-client" /\ (Put(k, n) \/ Drop(k, n))
      BY <2>2 DEF CfgOpenvpn, CfgNoOpenvpn, CfgFile, CfgNoFile, CfgShellcmd, CfgNoShellcmd,
                  CfgNetdev, CfgNoNetdev, CfgPing, CfgNoPing, Kinds
    <3> QED
      BY <1>1, <3>1
  <2> QED
    BY <2>1, <2>2
<1> QED
  BY <1>2, PutKeeps, DropKeeps

LEMMA IInvStep == IInv /\ [Next]_vars => IInv'
<1> SUFFICES ASSUME IInv, [Next]_vars PROVE IInv'
  OBVIOUS
<1> USE DEF optionVars
<1>0. troubled \subseteq {"netdev", "ping"}
  BY DEF IInv, AskedPast
<1>1. CASE \/ \E n \in ClientNames : CfgCtrlClient(n) \/ CfgNoCtrlClient(n)
           \/ \E n \in Items :
                \/ CfgOpenvpn(n) \/ CfgNoOpenvpn(n)
                \/ CfgFile(n) \/ CfgNoFile(n)
                \/ CfgShellcmd(n) \/ CfgNoShellcmd(n)
                \/ CfgNetdev(n) \/ CfgNoNetdev(n)
                \/ CfgPing(n) \/ CfgNoPing(n)
  BY <1>1, ConfigKeeps
<1>2. ASSUME NEW on \in BOOLEAN, CfgSysinfo(on) PROVE IInv'
  <2>1. root' = <<>> /\ pc' \notin Range(Polls) /\ troubled' = troubled
    BY <1>2, PollsRange DEF CfgSysinfo, IInv, NoReport
  <2>2. TypeOK' /\ ConfDistinct'
    BY <1>2 DEF CfgSysinfo, IInv, TypeOK, ConfDistinct
  <2> QED
    BY <1>0, <2>1, <2>2, QuietKeeps
<1>3. CASE Run \/ PrintTimer
  <2>1. root' = <<>> /\ pc' \notin Range(Polls) /\ troubled' = troubled
    BY <1>3, PollsRange DEF Run, PrintTimer, IInv, NoReport
  <2>2. TypeOK' /\ ConfDistinct'
    BY <1>3 DEF Run, PrintTimer, IInv, TypeOK, ConfDistinct
  <2> QED
    BY <1>0, <2>1, <2>2, QuietKeeps
<1>4. CASE PrintNodes
  <2>1. root' = <<>> /\ pc' = "openvpn" /\ lost' = Counted(lost + 1)
        /\ UNCHANGED <<oneshot, conf, sysinfo_enabled, vpn_up, rcs>>
        /\ queried' = {} /\ troubled' = {}
    BY <1>4 DEF PrintNodes
  <2>2. lost' \in 0 .. MaxLost
    BY <2>1, SysmonAssumption DEF IInv, TypeOK, Counted, SysmonAssumption
  <2>3. root' \in Seq(SectionNode)
    BY <2>1
  <2>4. TypeOK' /\ ConfDistinct'
    BY <2>1, <2>2, <2>3, PollsRange DEF IInv, TypeOK, ConfDistinct
  <2> QED
    BY <2>1, <2>4, QuietKeeps
<1>5. CASE OpenvpnPoll
  BY <1>5, OpenvpnKeeps
<1>6. CASE SysinfoPoll
  BY <1>6, SysinfoKeeps
<1>7. CASE CtrlPoll
  BY <1>7, CtrlKeeps
<1>8. CASE RtnlPoll
  BY <1>8, NoNetdevKeeps, InitFailsKeeps, ShownKeeps, EndsKeeps
     DEF RtnlPoll, RtnlCrashes, RtnlExits
<1>9. CASE PingPoll
  BY <1>9, PingKeeps
<1>10. CASE FilePoll
  BY <1>10, FileKeeps
<1>11. CASE ShellcmdPoll
  BY <1>11, ShellcmdKeeps
<1>12. CASE DisplayUpdate
  <2>1. root' = <<>> /\ pc' \in {"exited", "wait"}
        /\ UNCHANGED <<oneshot, conf, sysinfo_enabled, lost, vpn_up, rcs, queried, troubled>>
    BY <1>12 DEF DisplayUpdate
  <2>2. root' \in Seq(SectionNode)
    BY <2>1
  <2>3. TypeOK' /\ ConfDistinct' /\ pc' \notin Range(Polls)
    BY <2>1, <2>2, PollsRange DEF IInv, TypeOK, ConfDistinct
  <2> QED
    BY <1>0, <2>1, <2>3, QuietKeeps
<1>13. CASE VpnCallback
  <2>1. root' = <<>> /\ pc' \notin Range(Polls) /\ troubled' = troubled
    BY <1>13, PollsRange DEF VpnCallback, IInv, NoReport
  <2>2. TypeOK' /\ ConfDistinct'
    BY <1>13 DEF VpnCallback, IInv, TypeOK, ConfDistinct
  <2> QED
    BY <1>0, <2>1, <2>2, QuietKeeps
<1>14. CASE UNCHANGED vars
  <2>1. UNCHANGED <<oneshot, conf, sysinfo_enabled, pc, root, lost, vpn_up, rcs, queried, troubled>>
    BY <1>14 DEF vars
  <2> QED
    BY <2>1 DEF IInv, TypeOK, ConfDistinct, GoodRoot, NoReport, RootOwners, Heading, Taken,
                AllDone, AskedPast, Past, Done, HasList, HasPrefix, HasSection
<1> QED
  BY <1>1, <1>2, <1>3, <1>4, <1>5, <1>6, <1>7, <1>8, <1>9, <1>10, <1>11, <1>12, <1>13, <1>14
     DEF Next, Process

-----------------------------------------------------------------------------
(* The theorems.                                                           *)

\* Every state of every run satisfies the inductive invariant.
THEOREM IInvCorrect == Spec => []IInv
<1>1. Init => IInv
  BY InitHolds
<1>2. IInv /\ [Next]_vars => IInv'
  BY IInvStep
<1> QED
  BY <1>1, <1>2, PTL DEF Spec

\* Every variable keeps its type: the tree has no node but sections and the values
\* below them, whatever is configured.
THEOREM TypeCorrect == Spec => []TypeOK
<1>1. IInv => TypeOK
  BY DEF IInv
<1> QED
  BY <1>1, IInvCorrect, PTL

\* value_node_add refuses a name that is there, so siblings have different names,
\* whatever names clients, interfaces, hosts, files and commands have.
THEOREM SiblingsDifferCorrect == Spec => []SiblingsDiffer
<1>1. IInv => SiblingsDiffer
  BY DEF IInv, GoodRoot, SiblingsDiffer, Distinct
<1> QED
  BY <1>1, IInvCorrect, PTL

\* No poll function puts a value below the section of another one.
THEOREM SectionsUnmixedCorrect == Spec => []SectionsUnmixed
<1>1. IInv => SectionsUnmixed
  BY DEF IInv, GoodRoot, SectionsUnmixed, OwnedBy
<1> QED
  BY <1>1, IInvCorrect, PTL

\* When a report is printed, all that is configured has been asked for and is in it,
\* but for what a ctrl-client's name keeps out and what a library refused to tell; of the
\* hosts, those before the one that is refused are in it.
THEOREM ConfiguredIsPrintedCorrect == Spec => []ConfiguredIsPrinted
<1>1. ASSUME IInv, pc = "print"
      PROVE  \A p \in Owners : Done(p)
  BY <1>1, PastAt DEF IInv, AllDone
<1>2. \A o, n : HasSection(o, n) => Printed(o, n) # {}
  BY DEF HasSection, Printed
<1>3. \A k : HasList(k) => \E kids \in Printed(k, SectionName(k)) : KidNames(kids) = conf[k]
  BY DEF HasList, Printed
<1>4. \A k : HasPrefix(k) => \E kids \in Printed(k, k) : IsPrefix(KidNames(kids), conf[k])
  BY DEF HasPrefix, Printed
<1>5. ASSUME IInv, pc = "print"
      PROVE  ConfiguredIsPrinted
  <2>1. \A p \in Owners : Done(p)
    BY <1>1, <1>5
  <2>2. ASSUME NEW k \in Listed \ troubled, conf[k] # <<>>
        PROVE  \/ k # "openvpn" /\ Taken(k)
               \/ \E kids \in Printed(k, SectionName(k)) : KidNames(kids) = conf[k]
    BY <1>3, <2>1, <2>2, PollNames DEF Done
  <2>3. ASSUME NEW c \in Range(conf["ctrl-client"])
        PROVE  Printed("ctrl-client", c) # {} \/ c \in {"OpenVPN", "sysinfo"}
    BY <1>2, <2>1, PollNames DEF Done
  <2>4. sysinfo_enabled => Printed("sysinfo", "sysinfo") # {}
    BY <1>2, <2>1, PollNames DEF Done
  <2>5. ASSUME NEW k \in Kinds \ troubled, conf[k] # <<>>
        PROVE  k \in queried \/ (IF k = "openvpn" THEN ~vpn_up ELSE Taken(k))
    BY <2>1, <2>5, PollNames DEF Done
  <2>6. troubled \subseteq {"netdev", "ping"}
    BY <1>5 DEF IInv, AskedPast
  <2>7. ASSUME NEW k \in troubled
        PROVE  /\ k \notin queried
               /\ Taken(k) \/ \E kids \in Printed(k, k) : IsPrefix(KidNames(kids), conf[k])
    BY <1>4, <2>1, <2>6, PollNames DEF Done, Kinds
  <2> QED
    BY <2>2, <2>3, <2>4, <2>5, <2>6, <2>7 DEF ConfiguredIsPrinted, Listed
<1>6. IInv => ConfiguredIsPrinted
  BY <1>5 DEF ConfiguredIsPrinted
<1> QED
  BY <1>6, IInvCorrect, PTL
=============================================================================
