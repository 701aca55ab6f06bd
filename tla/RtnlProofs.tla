----------------------------- MODULE RtnlProofs -----------------------------
(***************************************************************************)
(* What is proved of Rtnl for any interfaces, any size of the buffer and   *)
(* any number of changes.                                                  *)
(***************************************************************************)
EXTENDS Rtnl, SequenceTheorems, TLAPS

\* Whoever receives has been answered, and a dump that goes on fills the buffer
\* again: TypeOK, which bounds the buffer, is inductive with it.
WaitInv ==
    /\ Receiving => queue # <<>> /\ (dump.running \/ Ended(queue[Len(queue)]))
    /\ ~Receiving => Len(queue) <= HalfBuffer + 1

TypeInv == TypeOK /\ WaitInv

\* Replies remain only behind one that was given up.
TidyInv ==
    ~aborted =>
        /\ ~Receiving /\ pc # "exited" => queue = <<>> /\ ~dump.running
        /\ Receiving => \A k \in 1 .. Len(queue) :
                            queue[k].what = "done" => k = Len(queue) /\ ~dump.running

\* History is true of the present, and of all that this poll may yet be told.
SeenNow ==
    /\ links \in seen.links
    /\ \A i \in links : <<i, up[i]>> \in seen.up
    /\ \A i \in links : \A k \in 1 .. Len(addrs[i]) : <<i, addrs[i][k]>> \in seen.ip

Held(d, s) ==
    d.current => \A m \in d.msgs :
        /\ d.what = "link" => <<m.idx, m.up>> \in s.up
        /\ d.what = "addr" => \A k \in 1 .. Len(m.addrs) : <<m.idx, m.addrs[k]>> \in s.ip

SeenInv ==
    /\ pc \notin {"idle", "exited"} => SeenNow
    /\ pc \in {"link_recv", "addr_send", "addr_recv"} => \A k \in 1 .. Len(queue) : Held(queue[k], seen)

\* The datagrams that will be looked at: none before is refused.
CleanTo(k) == \A j \in 1 .. k : ~Refused(queue[j])
Whole == CleanTo(Len(queue)) /\ ~(dump.running /\ dump.dirty)

Unique(S) == \A i, j \in S : NameOf[i] = NameOf[j] => i = j

\* All that is shown of links, and will be, is one set S of links; as long as the
\* dump is whole nothing of it has been left out.
Announced(i) ==
    \E k \in 1 .. Len(queue) : queue[k].what = "link" /\ \E m \in queue[k].msgs : m.idx = i

OneSet(S) ==
    /\ \A k \in 1 .. Len(queue) : CleanTo(k) =>
        /\ queue[k].what = "link" => \A m \in queue[k].msgs : m.idx \in S
        /\ queue[k].what = "done" => k = Len(queue) /\ ~dump.running
    /\ Whole /\ dump.running => S = links /\ dump.kind = "link"
    /\ Whole => \A i \in S : NameOf[i] \in Configured =>
            \/ NameOf[i] \in DOMAIN shown
            \/ Announced(i)
            \/ dump.running /\ i \notin dump.at

SetInv(S) ==
    /\ S \in seen.links
    /\ Unique(S)
    /\ \A n \in DOMAIN shown : shown[n].idx \in S
    /\ pc = "link_recv" => OneSet(S)
    /\ link_ret = "ok" => \A i \in S : NameOf[i] \in Configured => NameOf[i] \in DOMAIN shown

LinksInv ==
    /\ Unique(links)
    /\ pc # "idle" => \E S \in seen.links : SetInv(S)
    /\ pc \in {"idle", "link_send"} => DOMAIN shown = {} /\ link_ret = "none"
    /\ pc = "link_recv" => link_ret = "none"

Inv == TypeInv /\ TidyInv /\ SeenInv /\ LinksInv /\ ShownHeld
-----------------------------------------------------------------------------
(* Sequences of datagrams, and what the kernel writes.                     *)

LEMMA TailProps ==
    ASSUME NEW q \in Seq(Datagrams), q # <<>>
    PROVE  /\ Head(q) = q[1] /\ Head(q) \in Datagrams
           /\ Tail(q) \in Seq(Datagrams)
           /\ Len(q) \in Nat /\ Len(q) >= 1
           /\ Len(Tail(q)) = Len(q) - 1
           /\ \A k \in 1 .. Len(q) - 1 : Tail(q)[k] = q[k + 1]
BY HeadTailProperties

LEMMA AppendProps ==
    ASSUME NEW q \in Seq(Datagrams), NEW d \in Datagrams
    PROVE  /\ Append(q, d) \in Seq(Datagrams)
           /\ Len(q) \in Nat
           /\ Len(Append(q, d)) = Len(q) + 1
           /\ Append(q, d)[Len(q) + 1] = d
           /\ \A k \in 1 .. Len(q) : Append(q, d)[k] = q[k]
           /\ Append(q, d) # <<>>
BY AppendProperties

LEMMA AgedProps ==
    ASSUME NEW q \in Seq(Datagrams)
    PROVE  /\ Aged(q) \in Seq(Datagrams)
           /\ Len(Aged(q)) = Len(q)
           /\ \A k \in 1 .. Len(q) : ~Aged(q)[k].current
<1>1. \A k \in 1 .. Len(q) : [q[k] EXCEPT !.current = FALSE, !.intr = FALSE] \in Datagrams
  <2> TAKE k \in 1 .. Len(q)
  <2>1. q[k] \in Datagrams
    OBVIOUS
  <2> QED
    BY <2>1 DEF Datagrams
<1>2. Len(q) \in Nat
  OBVIOUS
<1>3. Aged(q) \in [1 .. Len(q) -> Datagrams]
  BY <1>1 DEF Aged
<1>4. Aged(q) \in Seq(Datagrams) /\ Len(Aged(q)) = Len(q)
  BY <1>2, <1>3, IsASeq
<1>5. \A k \in 1 .. Len(q) : ~Aged(q)[k].current
  <2> TAKE k \in 1 .. Len(q)
  <2>1. q[k] \in Datagrams
    OBVIOUS
  <2>2. Aged(q)[k] = [q[k] EXCEPT !.current = FALSE, !.intr = FALSE]
    BY DEF Aged
  <2> QED
    BY <2>1, <2>2 DEF Datagrams
<1> QED
  BY <1>4, <1>5

\* The error that a refused request gets.
Busy == Datagram(TRUE, "error", FALSE, {})

LEMMA BusyType == Busy \in Datagrams /\ Refused(Busy)
BY DEF Busy, Datagram, Datagrams, Refused

LEMMA AgedDumpType ==
    ASSUME NEW d \in Dumps
    PROVE  /\ AgedDump(d) \in Dumps
           /\ AgedDump(d).running = d.running /\ ~AgedDump(d).current
           /\ AgedDump(d).dirty = d.dirty /\ AgedDump(d).kind = d.kind /\ AgedDump(d).at = d.at
BY DEF AgedDump, Dumps

KernelType ==
    /\ links \subseteq Index
    /\ up \in [Index -> BOOLEAN]
    /\ addrs \in [Index -> Seq(Addrs)]

LEMMA WrittenType ==
    ASSUME KernelType, NEW d \in Dumps, NEW batch \in SUBSET Pending(d)
    PROVE  /\ Written(d, batch) \in Datagrams
           /\ Advanced(d, batch) \in Dumps
<1>1. batch \subseteq Index
  BY DEF KernelType, Pending
<1>2. Advanced(d, batch) \in Dumps
  BY <1>1 DEF Advanced, Dumps, NoDump
<1>3. CASE batch = {}
  BY <1>2, <1>3 DEF Written, Datagram, Datagrams, Dumps
<1>4. CASE batch # {} /\ d.kind = "link"
  <2>1. \A i \in batch : Message(d.kind, i) \in LinkMessage
    BY <1>1, <1>4 DEF KernelType, Message, LinkMessage
  <2> QED
    BY <1>2, <1>4, <2>1 DEF Written, Datagram, Datagrams, Dumps
<1>5. CASE batch # {} /\ d.kind = "addr"
  <2>1. \A i \in batch : Message(d.kind, i) \in AddrMessage
    BY <1>1, <1>5 DEF KernelType, Message, AddrMessage, Pending
  <2> QED
    BY <1>2, <1>5, <2>1 DEF Written, Datagram, Datagrams, Dumps
<1> QED
  BY <1>3, <1>4, <1>5 DEF Dumps

\* Datagram w of dump d has been written to q.
Wrote(d, q, w) ==
    /\ queue' = Append(q, w)
    /\ w \in Datagrams /\ dump' \in Dumps
    /\ w.current = d.current /\ w.intr = d.dirty
    /\ \/ w.what = "done" /\ w.msgs = {} /\ dump' = NoDump /\ Pending(d) = {}
       \/ /\ w.what = d.kind
          /\ w.msgs \subseteq {Message(d.kind, i) : i \in links}
          /\ dump'.running = d.running /\ dump'.kind = d.kind /\ dump'.current = d.current
          /\ ~dump'.dirty
          /\ \A i \in dump'.at : i \in d.at \/ Message(d.kind, i) \in w.msgs

LEMMA WroteEnd ==
    ASSUME NEW d \in Dumps, NEW q, NEW w, Wrote(d, q, w), w.what = "done"
    PROVE  ~dump'.running /\ Pending(d) = {}
<1>1. d.kind # "done"
  BY DEF Dumps
<1>2. dump' = NoDump /\ Pending(d) = {}
  BY <1>1 DEF Wrote
<1> QED
  BY <1>2 DEF NoDump

LEMMA WriteProps ==
    ASSUME KernelType, NEW d \in Dumps, NEW q, Write(d, q)
    PROVE  \E w : Wrote(d, q, w)
<1>1. PICK batch \in IF Pending(d) = {} THEN {{}} ELSE Batches(d) :
        queue' = Append(q, Written(d, batch)) /\ dump' = Advanced(d, batch)
  BY DEF Write
<1>2. batch \subseteq Pending(d)
  BY <1>1 DEF Batches
<1>3. batch = {} => Pending(d) = {}
  <2> SUFFICES ASSUME Pending(d) # {} PROVE batch # {}
    OBVIOUS
  <2>1. PICK k \in Pending(d) : batch = {i \in Pending(d) : i <= k}
    BY <1>1 DEF Batches
  <2>2. k \in Nat
    BY RtnlAssumption DEF RtnlAssumption, KernelType, Pending
  <2> QED
    BY <2>1, <2>2
<1>4. Written(d, batch) \in Datagrams /\ dump' \in Dumps
  BY <1>1, <1>2, WrittenType
<1>5. CASE batch = {}
  BY <1>1, <1>3, <1>4, <1>5 DEF Wrote, Written, Advanced, Datagram
<1>6. CASE batch # {}
  <2> DEFINE w == Written(d, batch)
  <2>1. /\ w.what = d.kind /\ w.current = d.current /\ w.intr = d.dirty
        /\ w.msgs = {Message(d.kind, i) : i \in batch}
    BY <1>6 DEF Written, Datagram
  <2>2. /\ dump'.at = d.at \cup batch
        /\ dump'.running = d.running /\ dump'.kind = d.kind /\ dump'.current = d.current
        /\ ~dump'.dirty
    BY <1>1, <1>6 DEF Advanced, Dumps
  <2>3. batch \subseteq links
    BY <1>2 DEF Pending
  <2> QED
    BY <1>1, <1>4, <2>1, <2>2, <2>3 DEF Wrote
<1> QED
  BY <1>5, <1>6

\* A request: refused, or the first datagram of a new dump.
LEMMA RequestProps ==
    ASSUME KernelType, NEW kind \in {"link", "addr"}, NEW d \in Dumps, NEW q, Request(kind, d, q)
    PROVE  \/ d.running /\ queue' = Append(q, Busy) /\ dump' = d
           \/ /\ ~d.running
              /\ \E w : Wrote([NoDump EXCEPT !.running = TRUE, !.kind = kind, !.current = TRUE], q, w)
<1>1. [NoDump EXCEPT !.running = TRUE, !.kind = kind, !.current = TRUE] \in Dumps
  BY DEF NoDump, Dumps
<1> QED
  BY <1>1, WriteProps DEF Request, Busy

LEMMA TakeProps ==
    ASSUME KernelType, dump \in Dumps, Take
    PROVE  \/ /\ dump.running /\ Len(queue) - 1 <= HalfBuffer
              /\ \E w : Wrote(dump, Tail(queue), w)
           \/ /\ ~(dump.running /\ Len(queue) - 1 <= HalfBuffer)
              /\ queue' = Tail(queue) /\ dump' = dump
BY WriteProps DEF Take

\* What every change of the kernel's lists does.
LEMMA KernelStep ==
    ASSUME TypeOK, Kernel
    PROVE  /\ UNCHANGED <<opened, queue, pc, shown, link_ret, aborted>>
           /\ pc # "exited"
           /\ KernelType' /\ changes' \in 0 .. MaxChanges
           /\ dump' \in Dumps
           /\ dump'.running = dump.running /\ dump'.kind = dump.kind /\ dump'.at = dump.at
           /\ dump'.current = dump.current
           /\ dump.dirty => dump'.dirty
           /\ dump.running /\ links' # links => dump'.dirty
           /\ seen' = IF pc = "idle" THEN Nothing ELSE Both(seen, Snapshot')
           /\ Unique(links) => Unique(links')
<1> PICK i \in Index : \/ LinkAppears(i) \/ LinkVanishes(i) \/ LinkFlaps(i) \/ AddrRemoved(i)
                       \/ \E a \in Addrs : AddrAdded(i, a)
  BY DEF Kernel
<1> USE RtnlAssumption DEF RtnlAssumption, TypeOK, KernelType
<1>0. ASSUME NEW ofLinks \in BOOLEAN, NEW ofAddrs \in BOOLEAN, Changed(ofLinks, ofAddrs)
      PROVE  /\ UNCHANGED <<opened, queue, pc, shown, link_ret, aborted>>
             /\ pc # "exited"
             /\ changes' \in 0 .. MaxChanges
             /\ dump' \in Dumps
             /\ dump'.running = dump.running /\ dump'.kind = dump.kind /\ dump'.at = dump.at
             /\ dump'.current = dump.current
             /\ dump.dirty => dump'.dirty
             /\ dump.running /\ ofLinks => dump'.dirty
             /\ seen' = IF pc = "idle" THEN Nothing ELSE Both(seen, Snapshot')
  <2> DEFINE dirty == dump.dirty \/ (dump.running /\ (ofLinks \/ (ofAddrs /\ dump.kind = "addr")))
  <2>1. /\ UNCHANGED <<opened, queue, pc, shown, link_ret, aborted>>
        /\ pc # "exited"
        /\ changes' = changes + 1 /\ changes < MaxChanges
        /\ seen' = IF pc = "idle" THEN Nothing ELSE Both(seen, Snapshot')
    BY <1>0 DEF Changed
  <2>2. dump' = [dump EXCEPT !.dirty = dirty]
    BY <1>0 DEF Changed
  <2>3. dirty \in BOOLEAN
    OBVIOUS
  <2>4. (dump.dirty => dirty) /\ (dump.running /\ ofLinks => dirty)
    OBVIOUS
  <2> HIDE DEF dirty
  <2>5. /\ dump' \in Dumps /\ dump'.dirty = dirty
        /\ dump'.running = dump.running /\ dump'.kind = dump.kind /\ dump'.at = dump.at
        /\ dump'.current = dump.current
    BY <2>2, <2>3 DEF Dumps
  <2> QED
    BY <2>1, <2>4, <2>5
<1>1. CASE LinkAppears(i)
  BY <1>0, <1>1 DEF LinkAppears, Unique
<1>2. CASE LinkVanishes(i)
  <2>1. <<>> \in Seq(Addrs)
    OBVIOUS
  <2>2. Changed(TRUE, TRUE) /\ KernelType' /\ links' \subseteq links
    BY <1>2, <2>1 DEF LinkVanishes
  <2> QED
    BY <1>0, <2>2 DEF Unique
<1>3. CASE LinkFlaps(i)
  BY <1>0, <1>3 DEF LinkFlaps, Unique
<1>4. CASE AddrRemoved(i)
  <2>1. Tail(addrs[i]) \in Seq(Addrs)
    BY <1>4, HeadTailProperties DEF AddrRemoved
  <2> QED
    BY <1>0, <1>4, <2>1 DEF AddrRemoved, Unique
<1>5. ASSUME NEW a \in Addrs, AddrAdded(i, a)
      PROVE  /\ Changed(FALSE, TRUE) /\ links' = links /\ KernelType'
  BY <1>5, AppendProperties DEF AddrAdded
<1> QED
  BY <1>0, <1>1, <1>2, <1>3, <1>4, <1>5 DEF Unique

-----------------------------------------------------------------------------
(* TypeOK and WaitInv.                                                     *)

LEMMA TypeInit == Init => TypeInv
<1> SUFFICES ASSUME Init PROVE TypeInv
  OBVIOUS
<1> USE RtnlAssumption DEF RtnlAssumption, Init
<1>1. addrs \in [Index -> Seq(Addrs)]
  <2>1. \A i \in Index : addrs[i] \in {<<>>} \cup {<<a>> : a \in Addrs}
    OBVIOUS
  <2>2. \A a \in Addrs : <<a>> \in Seq(Addrs)
    OBVIOUS
  <2>3. \A i \in Index : addrs[i] \in Seq(Addrs)
    <3> TAKE i \in Index
    <3>1. CASE addrs[i] = <<>>
      BY <3>1
    <3>2. CASE addrs[i] # <<>>
      <4>1. PICK a \in Addrs : addrs[i] = <<a>>
        BY <2>1, <3>2
      <4> QED
        BY <2>2, <4>1
    <3> QED
      BY <3>1, <3>2
  <2> QED
    BY <2>3
<1>2. dump \in Dumps
  BY DEF NoDump, Dumps
<1>3. queue \in Seq(Datagrams) /\ Len(queue) = 0
  OBVIOUS
<1> QED
  <2>1. links \subseteq Index /\ up \in [Index -> BOOLEAN] /\ changes \in 0 .. MaxChanges
    OBVIOUS
  <2>2. DOMAIN shown = {} /\ shown \in [DOMAIN shown -> Interface]
    OBVIOUS
  <2>3. TypeOK
    <3>1. opened \in BOOLEAN /\ link_ret \in {"none", "ok", "failed"} /\ aborted \in BOOLEAN
      OBVIOUS
    <3>2. Len(queue) <= HalfBuffer + 2
      BY <1>3
    <3>3. DOMAIN shown \subseteq Configured /\ pc = "idle"
      OBVIOUS
    <3> HIDE DEF Init
    <3> QED
      BY <1>1, <1>2, <1>3, <2>1, <2>2, <3>1, <3>2, <3>3 DEF TypeOK
  <2> QED
    BY <1>3, <2>3 DEF TypeInv, WaitInv, Receiving

\* The queue after a request.
LEMMA RequestType ==
    ASSUME TypeInv, ~Receiving, NEW kind \in {"link", "addr"}, NEW d \in Dumps,
           NEW q \in Seq(Datagrams), Len(q) = Len(queue), Request(kind, d, q)
    PROVE  /\ queue' \in Seq(Datagrams) /\ Len(queue') <= HalfBuffer + 2
           /\ dump' \in Dumps
           /\ queue' # <<>> /\ (dump'.running \/ Ended(queue'[Len(queue')]))
<1> USE RtnlAssumption DEF RtnlAssumption
<1>0. KernelType /\ Len(q) \in Nat /\ Len(q) <= HalfBuffer + 1
  BY DEF TypeInv, TypeOK, WaitInv, KernelType
<1>1. CASE d.running /\ queue' = Append(q, Busy) /\ dump' = d
  BY <1>0, <1>1, BusyType, AppendProps DEF Ended
<1>2. ASSUME NEW e \in Dumps, NEW w, e.running, Wrote(e, q, w)
      PROVE  /\ queue' \in Seq(Datagrams) /\ Len(queue') <= HalfBuffer + 2
             /\ dump' \in Dumps
             /\ queue' # <<>> /\ (dump'.running \/ Ended(queue'[Len(queue')]))
  <2>1. w \in Datagrams /\ queue' = Append(q, w) /\ dump' \in Dumps
    BY <1>2 DEF Wrote
  <2>2. Len(queue') = Len(q) + 1 /\ queue'[Len(queue')] = w
    BY <1>0, <2>1, AppendProps
  <2>3. dump'.running \/ Ended(w)
    BY <1>2 DEF Wrote, Ended
  <2> QED
    BY <1>0, <2>1, <2>2, <2>3, AppendProps
<1>3. [NoDump EXCEPT !.running = TRUE, !.kind = kind, !.current = TRUE] \in Dumps
  BY DEF NoDump, Dumps
<1>4. [NoDump EXCEPT !.running = TRUE, !.kind = kind, !.current = TRUE].running
  BY DEF NoDump
<1> QED
  BY <1>0, <1>1, <1>2, <1>3, <1>4, RequestProps

\* The queue after a datagram has been received.
LEMMA TakeType ==
    ASSUME TypeInv, queue # <<>>, Take
    PROVE  /\ queue' \in Seq(Datagrams) /\ Len(queue') <= HalfBuffer + 1
           /\ dump' \in Dumps
           /\ Receiving /\ ~Ended(Head(queue)) =>
                queue' # <<>> /\ (dump'.running \/ Ended(queue'[Len(queue')]))
<1> USE RtnlAssumption DEF RtnlAssumption
<1>0. KernelType /\ dump \in Dumps /\ queue \in Seq(Datagrams) /\ Len(queue) <= HalfBuffer + 2
  BY DEF TypeInv, TypeOK, KernelType
<1>1. ASSUME NEW w, dump.running, Len(queue) - 1 <= HalfBuffer, Wrote(dump, Tail(queue), w)
      PROVE  /\ queue' \in Seq(Datagrams) /\ Len(queue') <= HalfBuffer + 1
             /\ dump' \in Dumps
             /\ queue' # <<>> /\ (dump'.running \/ Ended(queue'[Len(queue')]))
  <2>1. Tail(queue) \in Seq(Datagrams) /\ Len(Tail(queue)) = Len(queue) - 1
    BY <1>0, TailProps
  <2> QED
    <3>1. w \in Datagrams /\ queue' = Append(Tail(queue), w) /\ dump' \in Dumps
      BY <1>1 DEF Wrote
    <3>2. Len(queue') = Len(Tail(queue)) + 1 /\ queue'[Len(queue')] = w
      BY <2>1, <3>1, AppendProps
    <3>3. dump'.running \/ Ended(w)
      BY <1>1 DEF Wrote, Ended
    <3> QED
      BY <1>0, <1>1, <2>1, <3>1, <3>2, <3>3, AppendProps
<1>2. CASE /\ ~(dump.running /\ Len(queue) - 1 <= HalfBuffer)
           /\ queue' = Tail(queue) /\ dump' = dump
  <2>1. queue' \in Seq(Datagrams) /\ Len(queue') <= HalfBuffer + 1 /\ dump' \in Dumps
    BY <1>0, <1>2, TailProps
  <2>2. ASSUME Receiving, ~Ended(Head(queue))
        PROVE  queue' # <<>> /\ (dump'.running \/ Ended(queue'[Len(queue')]))
    <3>1. dump.running \/ Ended(queue[Len(queue)])
      BY <2>2 DEF TypeInv, WaitInv
    <3>2. Len(queue) # 1
      <4> SUFFICES ASSUME Len(queue) = 1 PROVE FALSE
        OBVIOUS
      <4>1. Head(queue) = queue[Len(queue)]
        BY <1>0, TailProps
      <4>2. dump.running
        BY <2>2, <3>1, <4>1
      <4> QED
        BY <1>2, <4>2
    <3>3. queue'[Len(queue')] = queue[Len(queue)] /\ queue' # <<>>
      <4>0. Len(queue) \in Nat /\ Len(queue) >= 1
        BY <1>0, TailProps
      <4>1. Len(queue) \in Nat /\ Len(queue) > 1
        BY <3>2, <4>0
      <4>2. queue' \in Seq(Datagrams) /\ queue' = Tail(queue) /\ Len(queue') = Len(queue) - 1
        BY <1>0, <1>2, <2>1, TailProps
      <4>3. \A n \in 1 .. Len(queue) - 1 : queue'[n] = queue[n + 1]
        BY <1>0, <4>2, TailProps
      <4>4. Len(queue') \in 1 .. Len(queue) - 1 /\ Len(queue') + 1 = Len(queue)
        BY <4>1, <4>2
      <4>5. queue'[Len(queue')] = queue[Len(queue)]
        BY <4>3, <4>4
      <4>6. queue' # <<>>
        <5>1. Len(<<>>) = 0
          OBVIOUS
        <5>2. Len(queue') # 0
          BY <4>4
        <5> QED
          BY <5>1, <5>2
      <4> QED
        BY <4>5, <4>6
    <3> QED
      BY <1>2, <3>1, <3>3
  <2> QED
    BY <2>1, <2>2
<1> QED
  BY <1>0, <1>1, <1>2, TakeProps

LEMMA LinkShownType ==
    ASSUME TypeOK, NEW d \in Datagrams
    PROVE  /\ DOMAIN DataCb(d) \subseteq Configured
           /\ DataCb(d) \in [DOMAIN DataCb(d) -> Interface]
<1> DEFINE msgs == {m \in d.msgs : d.what = "link" /\ NameOf[m.idx] \in Configured}
           names == {NameOf[m.idx] : m \in msgs}
<1>1. DataCb(d) = [n \in DOMAIN shown \cup names |->
            IF n \in names THEN LinkShown(CHOOSE m \in msgs : NameOf[m.idx] = n) ELSE shown[n]]
  BY DEF DataCb
<1>2. \A m \in msgs : LinkShown(m) \in Interface
  BY DEF TypeOK, LinkShown, Datagrams, LinkMessage, Interface
<1>3. \A n \in names : LinkShown(CHOOSE m \in msgs : NameOf[m.idx] = n) \in Interface
  BY <1>2
<1>4. names \subseteq Configured
  OBVIOUS
<1>5. DOMAIN shown \subseteq Configured /\ \A n \in DOMAIN shown : shown[n] \in Interface
  BY DEF TypeOK
<1> HIDE DEF msgs, names
<1>6. DOMAIN DataCb(d) = DOMAIN shown \cup names
  BY <1>1
<1>7. \A n \in DOMAIN DataCb(d) : DataCb(d)[n] \in Interface
  BY <1>1, <1>3, <1>5, <1>6
<1> QED
  BY <1>1, <1>4, <1>5, <1>6, <1>7

LEMMA InetDataCbType ==
    ASSUME TypeOK, NEW d \in Datagrams
    PROVE  /\ DOMAIN InetDataCb(d) \subseteq Configured
           /\ InetDataCb(d) \in [DOMAIN InetDataCb(d) -> Interface]
<1>1. \A n \in DOMAIN shown : InetDataCb(d)[n] \in Interface
  <2> TAKE n \in DOMAIN shown
  <2> DEFINE own == {m \in d.msgs : m.idx = shown[n].idx}
  <2>1. shown[n] \in Interface
    BY DEF TypeOK
  <2>2. CASE d.what = "addr" /\ own # {} /\ shown[n].ip = {}
    <3>1. (CHOOSE m \in own : TRUE) \in AddrMessage
      BY <2>2 DEF Datagrams
    <3>2. (CHOOSE m \in own : TRUE).addrs[1] \in Addrs
      BY <3>1 DEF AddrMessage
    <3>3. InetDataCb(d)[n] = [shown[n] EXCEPT !.ip = {(CHOOSE m \in own : TRUE).addrs[1]}]
      BY <2>2 DEF InetDataCb
    <3> QED
      BY <2>1, <3>2, <3>3 DEF Interface
  <2>3. CASE ~(d.what = "addr" /\ own # {} /\ shown[n].ip = {})
    BY <2>1, <2>3 DEF InetDataCb
  <2> QED
    BY <2>2, <2>3
<1> QED
  BY <1>1 DEF TypeOK, InetDataCb

LEMMA TypeNext == TypeInv /\ [Next]_vars => TypeInv'
<1> SUFFICES ASSUME TypeInv, [Next]_vars PROVE TypeInv'
  OBVIOUS
<1> USE RtnlAssumption DEF RtnlAssumption, Receiving
<1>0. TypeOK /\ WaitInv /\ KernelType
  BY DEF TypeInv, TypeOK, KernelType
<1>1. CASE Open
  BY <1>0, <1>1 DEF Open, TypeInv, TypeOK, WaitInv, kernelVars
<1>2. CASE LinkSend
  <2>1. Len(Aged(queue)) = Len(queue) /\ Aged(queue) \in Seq(Datagrams) /\ AgedDump(dump) \in Dumps
    BY <1>0, AgedProps, AgedDumpType DEF TypeOK
  <2>2. /\ queue' \in Seq(Datagrams) /\ Len(queue') <= HalfBuffer + 2
        /\ dump' \in Dumps
        /\ queue' # <<>> /\ (dump'.running \/ Ended(queue'[Len(queue')]))
    BY <1>2, <2>1, RequestType DEF LinkSend
  <2>3. pc' = "link_recv" /\ UNCHANGED <<kernelVars, opened, shown, link_ret, historyVars>>
    BY <1>2 DEF LinkSend, Sent
  <2> QED
    BY <1>0, <2>2, <2>3 DEF TypeInv, TypeOK, WaitInv, kernelVars, historyVars
<1>3. CASE AddrSend
  <2>1. Len(Aged(queue)) = Len(queue) /\ Aged(queue) \in Seq(Datagrams) /\ AgedDump(dump) \in Dumps
    BY <1>0, AgedProps, AgedDumpType DEF TypeOK
  <2>2. /\ queue' \in Seq(Datagrams) /\ Len(queue') <= HalfBuffer + 2
        /\ dump' \in Dumps
        /\ queue' # <<>> /\ (dump'.running \/ Ended(queue'[Len(queue')]))
    BY <1>0, <1>3, <2>1, RequestType DEF AddrSend, TypeOK
  <2>3. pc' = "addr_recv" /\ UNCHANGED <<kernelVars, opened, shown, link_ret, historyVars>>
    BY <1>3 DEF AddrSend, Sent
  <2> QED
    BY <1>0, <2>2, <2>3 DEF TypeInv, TypeOK, WaitInv, kernelVars, historyVars
<1>4. CASE SendFails
  BY <1>0, <1>4 DEF SendFails, TypeInv, TypeOK, WaitInv, kernelVars, socketVars, historyVars
<1>5. CASE LinkRecv
  <2>1. Head(queue) \in Datagrams
    BY <1>0, <1>5, TailProps DEF LinkRecv, TypeOK
  <2>2. /\ queue' \in Seq(Datagrams) /\ Len(queue') <= HalfBuffer + 1
        /\ dump' \in Dumps
        /\ ~Ended(Head(queue)) => queue' # <<>> /\ (dump'.running \/ Ended(queue'[Len(queue')]))
    BY <1>5, TakeType DEF LinkRecv
  <2>3. DOMAIN shown' \subseteq Configured /\ shown' \in [DOMAIN shown' -> Interface]
    BY <1>0, <1>5, <2>1, LinkShownType DEF LinkRecv, TypeOK
  <2>4. /\ pc' = IF Ended(Head(queue)) THEN "addr_send" ELSE "link_recv"
        /\ link_ret' \in {"none", "ok", "failed"}
        /\ aborted' \in BOOLEAN
        /\ UNCHANGED <<kernelVars, opened, seen>>
    BY <1>0, <1>5 DEF LinkRecv, After, TypeOK
  <2> QED
    BY <1>0, <2>2, <2>3, <2>4 DEF TypeInv, TypeOK, WaitInv, kernelVars
<1>6. CASE AddrRecv
  <2>1. Head(queue) \in Datagrams
    BY <1>0, <1>6, TailProps DEF AddrRecv, TypeOK
  <2>2. /\ queue' \in Seq(Datagrams) /\ Len(queue') <= HalfBuffer + 1
        /\ dump' \in Dumps
        /\ ~Ended(Head(queue)) => queue' # <<>> /\ (dump'.running \/ Ended(queue'[Len(queue')]))
    BY <1>6, TakeType DEF AddrRecv
  <2>3. DOMAIN shown' \subseteq Configured /\ shown' \in [DOMAIN shown' -> Interface]
    BY <1>0, <1>6, <2>1, InetDataCbType DEF AddrRecv, TypeOK
  <2>4. /\ pc' = IF Ended(Head(queue)) THEN "print" ELSE "addr_recv"
        /\ aborted' \in BOOLEAN
        /\ UNCHANGED <<kernelVars, opened, link_ret, seen>>
    BY <1>0, <1>6 DEF AddrRecv, After, TypeOK
  <2> QED
    BY <1>0, <2>2, <2>3, <2>4 DEF TypeInv, TypeOK, WaitInv, kernelVars
<1>7. CASE DisplayUpdate
  BY <1>0, <1>7 DEF DisplayUpdate, TypeInv, TypeOK, WaitInv, kernelVars, socketVars
<1>8. CASE Kernel
  BY <1>0, <1>8, KernelStep DEF TypeInv, TypeOK, WaitInv, KernelType
<1>9. CASE UNCHANGED vars
  BY <1>0, <1>9 DEF vars, kernelVars, socketVars, historyVars, TypeInv, TypeOK, WaitInv, Ended, Refused
<1> QED
  BY <1>1, <1>2, <1>3, <1>4, <1>5, <1>6, <1>7, <1>8, <1>9 DEF Next, Process

-----------------------------------------------------------------------------
(* Where datagrams are after a request, and after one has been received.   *)

LEMMA RequestIndex ==
    ASSUME KernelType, NEW kind \in {"link", "addr"}, NEW d \in Dumps,
           NEW q \in Seq(Datagrams), Request(kind, d, q)
    PROVE  /\ Len(queue') = Len(q) + 1
           /\ \A k \in 1 .. Len(q) : queue'[k] = q[k]
           /\ \/ d.running /\ dump' = d /\ queue'[Len(q) + 1] = Busy
              \/ /\ ~d.running
                 /\ \E e \in Dumps :
                        /\ e.kind = kind /\ e.current /\ ~e.dirty /\ e.running /\ e.at = {}
                        /\ Wrote(e, q, queue'[Len(q) + 1])
<1> DEFINE e == [NoDump EXCEPT !.running = TRUE, !.kind = kind, !.current = TRUE]
<1>1. e \in Dumps /\ e.kind = kind /\ e.current /\ ~e.dirty /\ e.running /\ e.at = {}
  BY DEF NoDump, Dumps
<1>2. CASE d.running /\ queue' = Append(q, Busy) /\ dump' = d
  BY <1>2, BusyType, AppendProps
<1>3. ASSUME ~d.running, NEW w, Wrote(e, q, w)
      PROVE  /\ Len(queue') = Len(q) + 1
             /\ \A k \in 1 .. Len(q) : queue'[k] = q[k]
             /\ queue'[Len(q) + 1] = w
  <2>1. queue' = Append(q, w) /\ w \in Datagrams
    BY <1>3 DEF Wrote
  <2> QED
    BY <2>1, AppendProps
<1> HIDE DEF e
<1>4. \/ d.running /\ queue' = Append(q, Busy) /\ dump' = d
      \/ ~d.running /\ \E w : Wrote(e, q, w)
  BY RequestProps DEF e
<1> QED
  BY <1>1, <1>2, <1>3, <1>4

LEMMA TakeIndex ==
    ASSUME TypeInv, queue # <<>>, Take
    PROVE  /\ Len(queue) \in Nat /\ Len(queue) >= 1 /\ Head(queue) = queue[1]
           /\ \A k \in 1 .. Len(queue) - 1 : queue'[k] = queue[k + 1]
           /\ \/ /\ dump.running
                 /\ Len(queue') = Len(queue)
                 /\ Wrote(dump, Tail(queue), queue'[Len(queue)])
              \/ /\ Len(queue') = Len(queue) - 1
                 /\ queue' = Tail(queue) /\ dump' = dump
<1>0. KernelType /\ dump \in Dumps /\ queue \in Seq(Datagrams)
  BY DEF TypeInv, TypeOK, KernelType
<1>1. Len(queue) \in Nat /\ Len(queue) >= 1 /\ Head(queue) = queue[1]
  BY <1>0, TailProps
<1>2. /\ Tail(queue) \in Seq(Datagrams) /\ Len(Tail(queue)) = Len(queue) - 1
      /\ \A k \in 1 .. Len(queue) - 1 : Tail(queue)[k] = queue[k + 1]
  BY <1>0, TailProps
<1>3. ASSUME NEW w, dump.running, Wrote(dump, Tail(queue), w)
      PROVE  /\ Len(queue') = Len(queue) /\ queue'[Len(queue)] = w
             /\ \A k \in 1 .. Len(queue) - 1 : queue'[k] = queue[k + 1]
  <2>1. queue' = Append(Tail(queue), w) /\ w \in Datagrams
    BY <1>3 DEF Wrote
  <2>2. /\ Len(queue') = Len(Tail(queue)) + 1 /\ queue'[Len(Tail(queue)) + 1] = w
        /\ \A k \in 1 .. Len(Tail(queue)) : queue'[k] = Tail(queue)[k]
    BY <1>2, <2>1, AppendProps
  <2>3. Len(Tail(queue)) + 1 = Len(queue)
    BY <1>1, <1>2
  <2> QED
    BY <1>2, <2>2, <2>3
<1>4. CASE queue' = Tail(queue) /\ dump' = dump
  BY <1>1, <1>2, <1>4
<1> QED
  BY <1>0, <1>1, <1>3, <1>4, TakeProps

-----------------------------------------------------------------------------
(* TidyInv.                                                                *)

LEMMA TidySend ==
    ASSUME TypeInv, ~Receiving, queue = <<>>, ~dump.running,
           NEW kind \in {"link", "addr"}, NEW d \in Dumps, ~d.running,
           NEW q \in Seq(Datagrams), Len(q) = 0, Request(kind, d, q)
    PROVE  \A k \in 1 .. Len(queue') :
                queue'[k].what = "done" => k = Len(queue') /\ ~dump'.running
<1>0. KernelType
  BY DEF TypeInv, TypeOK, KernelType
<1>1. /\ Len(queue') = Len(q) + 1
      /\ \E e \in Dumps : e.kind = kind /\ Wrote(e, q, queue'[Len(q) + 1])
  BY <1>0, RequestIndex
<1>2. Len(queue') = 1 /\ Len(q) + 1 = 1
  BY <1>1
<1>3. queue'[1].what = "done" => ~dump'.running
  BY <1>1, <1>2 DEF Wrote, NoDump
<1> QED
  BY <1>2, <1>3

LEMMA TidyTake ==
    ASSUME TypeInv, queue # <<>>, Take,
           \A k \in 1 .. Len(queue) : queue[k].what = "done" => k = Len(queue) /\ ~dump.running
    PROVE  /\ \A k \in 1 .. Len(queue') :
                    queue'[k].what = "done" => k = Len(queue') /\ ~dump'.running
           /\ Head(queue).what = "done" => queue' = <<>> /\ ~dump'.running
<1>0. /\ Len(queue) \in Nat /\ Len(queue) >= 1 /\ Head(queue) = queue[1]
      /\ \A k \in 1 .. Len(queue) - 1 : queue'[k] = queue[k + 1]
  BY TakeIndex
<1>1. CASE /\ dump.running /\ Len(queue') = Len(queue)
           /\ Wrote(dump, Tail(queue), queue'[Len(queue)])
  <2>1. \A k \in 1 .. Len(queue) : queue[k].what # "done"
    BY <1>1
  <2>2. \A k \in 1 .. Len(queue) - 1 : queue'[k].what # "done"
    BY <1>0, <2>1
  <2>3. queue'[Len(queue)].what = "done" => ~dump'.running
    <3>1. dump \in Dumps
      BY DEF TypeInv, TypeOK
    <3> QED
      BY <1>1, <3>1, WroteEnd
  <2> QED
    BY <1>0, <1>1, <2>1, <2>2, <2>3
<1>2. CASE Len(queue') = Len(queue) - 1 /\ queue' = Tail(queue) /\ dump' = dump
  <2>1. Head(queue).what = "done" => Len(queue) = 1 /\ ~dump.running
    <3>1. 1 \in 1 .. Len(queue)
      BY <1>0
    <3> QED
      BY <1>0, <3>1
  <2>2. Len(queue) = 1 => queue' = <<>>
    <3>1. queue' \in Seq(Datagrams)
      BY TakeType
    <3> QED
      BY <1>2, <3>1, EmptySeq
  <2>3. \A k \in 1 .. Len(queue') :
            queue'[k].what = "done" => k = Len(queue') /\ ~dump'.running
    <3> TAKE k \in 1 .. Len(queue')
    <3>0. Len(queue') = Len(queue) - 1 /\ dump' = dump
      BY <1>2
    <3>1. k + 1 \in 1 .. Len(queue) /\ k \in 1 .. Len(queue) - 1
      BY <1>0, <3>0
    <3>2. queue'[k] = queue[k + 1]
      BY <1>0, <3>1
    <3>3. queue[k + 1].what = "done" => k + 1 = Len(queue) /\ ~dump.running
      BY <3>1
    <3> QED
      BY <1>0, <3>0, <3>1, <3>2, <3>3
  <2> QED
    BY <1>2, <2>1, <2>2, <2>3
<1> QED
  BY <1>1, <1>2, TakeIndex

LEMMA TidyNext == TypeInv /\ TidyInv /\ [Next]_vars => TidyInv'
<1> SUFFICES ASSUME TypeInv, TidyInv, [Next]_vars, ~aborted'
             PROVE  /\ ~Receiving' /\ pc' # "exited" => queue' = <<>> /\ ~dump'.running
                    /\ Receiving' => \A k \in 1 .. Len(queue') :
                            queue'[k].what = "done" => k = Len(queue') /\ ~dump'.running
  BY DEF TidyInv
<1> USE DEF Receiving
<1>0. TypeOK /\ queue \in Seq(Datagrams) /\ dump \in Dumps
  BY DEF TypeInv, TypeOK
<1>1. CASE Open \/ DisplayUpdate \/ SendFails
  BY <1>1 DEF Open, DisplayUpdate, SendFails, TidyInv, socketVars, historyVars
<1>2. CASE LinkSend
  <2>1. /\ pc = "link_send" /\ pc' = "link_recv" /\ ~aborted
        /\ Request("link", AgedDump(dump), Aged(queue))
    BY <1>2 DEF LinkSend, Sent, historyVars
  <2>2. queue = <<>> /\ ~dump.running
    BY <2>1 DEF TidyInv
  <2>3. Len(Aged(queue)) = 0 /\ Aged(queue) \in Seq(Datagrams)
    BY <1>0, <2>2, AgedProps
  <2>4. AgedDump(dump) \in Dumps /\ ~AgedDump(dump).running
    BY <1>0, <2>2, AgedDumpType
  <2> QED
    BY <2>1, <2>2, <2>3, <2>4, TidySend
<1>3. CASE AddrSend
  <2>1. /\ pc = "addr_send" /\ pc' = "addr_recv" /\ ~aborted
        /\ \/ Request("addr", dump, queue)
           \/ Request("addr", AgedDump(dump), Aged(queue))
    BY <1>3 DEF AddrSend, Sent, historyVars
  <2>2. queue = <<>> /\ ~dump.running
    BY <2>1 DEF TidyInv
  <2>3. Len(Aged(queue)) = 0 /\ Aged(queue) \in Seq(Datagrams) /\ Len(queue) = 0
    BY <1>0, <2>2, AgedProps
  <2>4. AgedDump(dump) \in Dumps /\ ~AgedDump(dump).running
    BY <1>0, <2>2, AgedDumpType
  <2> QED
    BY <1>0, <2>1, <2>2, <2>3, <2>4, TidySend
<1>4. CASE LinkRecv \/ AddrRecv
  <2>1. /\ Receiving /\ queue # <<>> /\ Take
        /\ ~aborted /\ ~Refused(Head(queue))
        /\ pc' = IF Ended(Head(queue)) THEN pc' ELSE pc
        /\ Ended(Head(queue)) => ~Receiving'
    BY <1>4 DEF LinkRecv, AddrRecv, After
  <2>2. Ended(Head(queue)) => Head(queue).what = "done"
    BY <2>1 DEF Ended
  <2>3. \A k \in 1 .. Len(queue) : queue[k].what = "done" => k = Len(queue) /\ ~dump.running
    BY <2>1 DEF TidyInv
  <2>4. /\ \A k \in 1 .. Len(queue') :
                    queue'[k].what = "done" => k = Len(queue') /\ ~dump'.running
        /\ Head(queue).what = "done" => queue' = <<>> /\ ~dump'.running
    BY <2>1, <2>3, TidyTake
  <2> QED
    BY <2>1, <2>2, <2>4
<1>5. CASE Kernel
  BY <1>0, <1>5, KernelStep DEF TidyInv
<1>6. CASE UNCHANGED vars
  BY <1>6 DEF TidyInv, vars, socketVars, historyVars
<1> QED
  BY <1>1, <1>2, <1>3, <1>4, <1>5, <1>6 DEF Next, Process

-----------------------------------------------------------------------------
(* SeenInv.                                                                *)

\* What the kernel writes is what is seen now.
LEMMA WroteHeld ==
    ASSUME SeenNow, UNCHANGED <<links, up, addrs, seen>>,
           NEW d, NEW q, NEW w, Wrote(d, q, w)
    PROVE  Held(w, seen')
<1>1. w.msgs = {} \/ w.msgs \subseteq {Message(w.what, i) : i \in links}
  BY DEF Wrote
<1>2. ASSUME NEW m \in w.msgs
      PROVE  /\ w.what = "link" => <<m.idx, m.up>> \in seen.up
             /\ w.what = "addr" =>
                    \A k \in 1 .. Len(m.addrs) : <<m.idx, m.addrs[k]>> \in seen.ip
  <2>1. PICK i \in links : m = Message(w.what, i)
    BY <1>1
  <2>2. CASE w.what = "link"
    BY <2>1, <2>2 DEF Message, SeenNow
  <2>3. CASE w.what = "addr"
    BY <2>1, <2>3 DEF Message, SeenNow
  <2> QED
    BY <2>2, <2>3
<1> QED
  BY <1>2 DEF Held

LEMMA SeenSend ==
    ASSUME TypeInv, SeenNow, UNCHANGED <<links, up, addrs, seen>>,
           NEW kind \in {"link", "addr"}, NEW d \in Dumps, NEW q \in Seq(Datagrams),
           \A k \in 1 .. Len(q) : Held(q[k], seen),
           Request(kind, d, q)
    PROVE  \A k \in 1 .. Len(queue') : Held(queue'[k], seen')
<1>0. KernelType /\ Len(q) \in Nat
  BY DEF TypeInv, TypeOK, KernelType
<1>1. /\ Len(queue') = Len(q) + 1
      /\ \A k \in 1 .. Len(q) : queue'[k] = q[k]
      /\ \/ queue'[Len(q) + 1] = Busy
         \/ \E e \in Dumps : Wrote(e, q, queue'[Len(q) + 1])
  BY <1>0, RequestIndex
<1>2. Held(queue'[Len(q) + 1], seen')
  <2>1. CASE queue'[Len(q) + 1] = Busy
    BY <2>1 DEF Held, Busy, Datagram
  <2>2. CASE \E e \in Dumps : Wrote(e, q, queue'[Len(q) + 1])
    BY <2>2, WroteHeld
  <2> QED
    BY <1>1, <2>1, <2>2
<1>3. \A k \in 1 .. Len(q) : Held(queue'[k], seen')
  BY <1>1 DEF Held
<1> QED
  BY <1>0, <1>1, <1>2, <1>3

LEMMA SeenTake ==
    ASSUME TypeInv, SeenNow, UNCHANGED <<links, up, addrs, seen>>, queue # <<>>, Take,
           \A k \in 1 .. Len(queue) : Held(queue[k], seen)
    PROVE  \A k \in 1 .. Len(queue') : Held(queue'[k], seen')
<1>1. /\ Len(queue) \in Nat /\ Len(queue) >= 1
      /\ \A k \in 1 .. Len(queue) - 1 : queue'[k] = queue[k + 1]
  BY TakeIndex
<1>2. \A k \in 1 .. Len(queue) - 1 : Held(queue'[k], seen')
  <2> TAKE k \in 1 .. Len(queue) - 1
  <2>1. k + 1 \in 1 .. Len(queue) /\ queue'[k] = queue[k + 1]
    BY <1>1
  <2>2. Held(queue[k + 1], seen)
    BY <2>1
  <2> QED
    BY <2>1, <2>2 DEF Held
<1>3. CASE Len(queue') = Len(queue) /\ Wrote(dump, Tail(queue), queue'[Len(queue)])
  <2>1. Held(queue'[Len(queue)], seen')
    BY <1>3, WroteHeld
  <2> QED
    BY <1>1, <1>2, <1>3, <2>1
<1>4. CASE Len(queue') = Len(queue) - 1
  BY <1>2, <1>4
<1> QED
  BY <1>3, <1>4, TakeIndex

LEMMA SeenNext == TypeInv /\ SeenInv /\ [Next]_vars => SeenInv'
<1> SUFFICES ASSUME TypeInv, SeenInv, [Next]_vars PROVE SeenInv'
  OBVIOUS
<1>0. TypeOK /\ KernelType /\ queue \in Seq(Datagrams) /\ dump \in Dumps
  BY DEF TypeInv, TypeOK, KernelType
<1>1. CASE Open
  <2>1. UNCHANGED <<links, up, addrs>> /\ seen' = Snapshot /\ pc' \in {"link_send", "print"}
    BY <1>1 DEF Open, kernelVars
  <2>2. SeenNow'
    BY <2>1 DEF SeenNow, Snapshot
  <2> QED
    BY <2>1, <2>2 DEF SeenInv
<1>2. CASE LinkSend
  <2>1. /\ pc = "link_send" /\ pc' = "link_recv" /\ UNCHANGED <<links, up, addrs, seen>>
        /\ Request("link", AgedDump(dump), Aged(queue))
    BY <1>2 DEF LinkSend, Sent, kernelVars, historyVars
  <2>2. Aged(queue) \in Seq(Datagrams) /\ \A k \in 1 .. Len(Aged(queue)) : Held(Aged(queue)[k], seen)
    BY <1>0, AgedProps DEF Held
  <2>3. SeenNow /\ SeenNow'
    BY <2>1 DEF SeenInv, SeenNow
  <2>4. \A k \in 1 .. Len(queue') : Held(queue'[k], seen')
    BY <1>0, <2>1, <2>2, <2>3, SeenSend, AgedDumpType
  <2> QED
    BY <2>3, <2>4 DEF SeenInv
<1>3. CASE AddrSend
  <2>1. /\ pc = "addr_send" /\ pc' = "addr_recv" /\ UNCHANGED <<links, up, addrs, seen>>
        /\ \/ Request("addr", dump, queue)
           \/ Request("addr", AgedDump(dump), Aged(queue))
    BY <1>3 DEF AddrSend, Sent, kernelVars, historyVars
  <2>2. Aged(queue) \in Seq(Datagrams) /\ \A k \in 1 .. Len(Aged(queue)) : Held(Aged(queue)[k], seen)
    BY <1>0, AgedProps DEF Held
  <2>3. SeenNow /\ SeenNow' /\ \A k \in 1 .. Len(queue) : Held(queue[k], seen)
    BY <2>1 DEF SeenInv, SeenNow
  <2>4. AgedDump(dump) \in Dumps
    BY <1>0, AgedDumpType
  <2>5. \A k \in 1 .. Len(queue') : Held(queue'[k], seen')
    BY <1>0, <2>1, <2>2, <2>3, <2>4, SeenSend
  <2> QED
    BY <2>3, <2>5 DEF SeenInv
<1>4. CASE LinkRecv \/ AddrRecv
  <2>1. /\ pc \in {"link_recv", "addr_recv"} /\ queue # <<>> /\ Take
        /\ UNCHANGED <<links, up, addrs, seen>>
    BY <1>4 DEF LinkRecv, AddrRecv, kernelVars
  <2>2. SeenNow /\ SeenNow' /\ \A k \in 1 .. Len(queue) : Held(queue[k], seen)
    BY <2>1 DEF SeenInv, SeenNow
  <2>3. \A k \in 1 .. Len(queue') : Held(queue'[k], seen')
    BY <2>1, <2>2, SeenTake
  <2> QED
    BY <2>2, <2>3 DEF SeenInv
<1>5. CASE DisplayUpdate \/ SendFails
  BY <1>5 DEF DisplayUpdate, SendFails, SeenInv
<1>6. CASE Kernel
  <2>1. CASE pc = "idle"
    BY <1>0, <1>6, <2>1, KernelStep DEF SeenInv
  <2>2. CASE pc # "idle"
    <3>1. pc' = pc /\ queue' = queue /\ pc # "exited" /\ seen' = Both(seen, Snapshot')
      BY <1>0, <1>6, <2>2, KernelStep
    <3>2. SeenNow'
      BY <3>1 DEF SeenNow, Both, Snapshot
    <3>3. \A d : Held(d, seen) => Held(d, seen')
      BY <3>1 DEF Held, Both
    <3> QED
      BY <3>1, <3>2, <3>3 DEF SeenInv, Held
  <2> QED
    BY <2>1, <2>2
<1>7. CASE UNCHANGED vars
  BY <1>7 DEF vars, kernelVars, socketVars, historyVars, SeenInv, SeenNow, Held
<1> QED
  BY <1>1, <1>2, <1>3, <1>4, <1>5, <1>6, <1>7 DEF Next, Process

-----------------------------------------------------------------------------
(* LinksInv.                                                               *)

\* The request for links: the dump is of the links there are, or all is refused.
LEMMA OneSetSend ==
    ASSUME TypeInv, DOMAIN shown = {}, UNCHANGED <<links, shown>>,
           NEW d \in Dumps, NEW q \in Seq(Datagrams), Len(q) = Len(queue),
           \A k \in 1 .. Len(q) : ~q[k].current,
           Request("link", d, q), NEW S, S = links
    PROVE  OneSet(S)'
<1>0. TypeOK /\ KernelType /\ queue \in Seq(Datagrams) /\ dump \in Dumps /\ Len(q) \in Nat
  BY DEF TypeInv, TypeOK, KernelType
<1>3. /\ Len(queue') = Len(q) + 1
      /\ \A k \in 1 .. Len(q) : queue'[k] = q[k]
      /\ \/ queue'[Len(q) + 1] = Busy
         \/ \E e \in Dumps :
                /\ e.kind = "link" /\ e.current /\ ~e.dirty /\ e.running /\ e.at = {}
                /\ Wrote(e, q, queue'[Len(q) + 1])
  <2>1. /\ Len(queue') = Len(q) + 1
        /\ \A k \in 1 .. Len(q) : queue'[k] = q[k]
        /\ \/ d.running /\ dump' = d /\ queue'[Len(q) + 1] = Busy
           \/ /\ ~d.running
              /\ \E e \in Dumps :
                     /\ e.kind = "link" /\ e.current /\ ~e.dirty /\ e.running /\ e.at = {}
                     /\ Wrote(e, q, queue'[Len(q) + 1])
    BY <1>0, RequestIndex
  <2> QED
    BY <2>1
<1>4. CASE q # <<>> \/ queue'[Len(q) + 1] = Busy
  <2>1. 1 \in 1 .. Len(queue') /\ Refused(queue'[1])
    <3>1. CASE q # <<>>
      <4>1. 1 \in 1 .. Len(q)
        BY <1>0, <3>1, TailProps
      <4> QED
        BY <1>3, <4>1 DEF Refused
    <3>2. CASE q = <<>>
      <4>1. Len(q) + 1 = 1 /\ Len(queue') = 1
        BY <1>3, <3>2
      <4> QED
        BY <1>4, <3>2, <4>1, BusyType
    <3> QED
      BY <3>1, <3>2
  <2>2. \A k \in 1 .. Len(queue') : ~CleanTo(k)'
    BY <1>0, <1>3, <2>1 DEF CleanTo
  <2>3. ~Whole'
    BY <1>0, <1>3, <2>1 DEF CleanTo, Whole
  <2> QED
    BY <2>2, <2>3 DEF OneSet
<1>5. CASE q = <<>> /\ queue'[Len(q) + 1] # Busy
  <2> DEFINE w == queue'[1]
  <2>1. Len(queue') = 1
    BY <1>3, <1>5
  <2>2. PICK e \in Dumps : /\ e.kind = "link" /\ e.current /\ ~e.dirty /\ e.running /\ e.at = {}
                           /\ Wrote(e, q, w)
    BY <1>3, <1>5
  <2>3. w.what = "link" => \A m \in w.msgs : m.idx \in links
    BY <2>2 DEF Wrote, Message
  <2>4. w.what = "done" => ~dump'.running /\ Pending(e) = {}
    BY <2>2, WroteEnd
  <2>5. w.what # "done" =>
            /\ w.what = "link" /\ dump'.kind = "link" /\ dump'.running
            /\ \A i \in dump'.at : Message("link", i) \in w.msgs
    BY <2>2 DEF Wrote
  <2> HIDE DEF w
  <2>6. \A i \in links : Announced(i)' \/ (dump'.running /\ i \notin dump'.at)
    <3> TAKE i \in links
    <3>1. CASE w.what = "done"
      BY <2>2, <2>4, <3>1 DEF Pending
    <3>2. CASE w.what # "done" /\ i \in dump'.at
      <4>1. Message("link", i) \in w.msgs /\ Message("link", i).idx = i
        BY <2>5, <3>2 DEF Message
      <4>2. 1 \in 1 .. Len(queue') /\ queue'[1].what = "link"
        BY <2>1, <2>5, <3>2 DEF w
      <4> QED
        BY <4>1, <4>2 DEF Announced, w
    <3> QED
      BY <2>5, <3>1, <3>2
  <2>7. \A k \in 1 .. Len(queue') :
            /\ queue'[k].what = "link" => \A m \in queue'[k].msgs : m.idx \in links
            /\ queue'[k].what = "done" => k = Len(queue') /\ ~dump'.running
    BY <2>1, <2>3, <2>4 DEF w
  <2>8. dump'.running => dump'.kind = "link"
    BY <2>4, <2>5
  <2> QED
    BY <2>6, <2>7, <2>8 DEF OneSet
<1> QED
  BY <1>4, <1>5

\* Receiving a datagram of links that is not the last one.
LEMMA OneSetTake ==
    ASSUME TypeInv, queue # <<>>, Take, UNCHANGED links,
           NEW S, OneSet(S), ~Ended(Head(queue)), shown' = DataCb(Head(queue))
    PROVE  OneSet(S)'
<1> DEFINE head == Head(queue)
           L == Len(queue)
           CleanNext(k) == \A j \in 1 .. k : ~Refused(queue'[j])
<1>0. /\ L \in Nat /\ L >= 1 /\ head = queue[1] /\ dump \in Dumps
      /\ \A k \in 1 .. L - 1 : queue'[k] = queue[k + 1]
  BY TakeIndex DEF TypeInv, TypeOK
<1>1. ~Refused(head) /\ head.what # "done"
  BY DEF Ended
<1>2. \A k \in 0 .. L - 1 : CleanNext(k) => CleanTo(k + 1)
  <2> SUFFICES ASSUME NEW k \in 0 .. L - 1, CleanNext(k), NEW j \in 1 .. k + 1
               PROVE  ~Refused(queue[j])
    BY DEF CleanTo
  <2>1. CASE j = 1
    BY <1>0, <1>1, <2>1
  <2>2. CASE j # 1
    <3>1. j - 1 \in 1 .. k /\ j - 1 \in 1 .. L - 1 /\ (j - 1) + 1 = j
      BY <1>0, <2>2
    <3>2. queue'[j - 1] = queue[(j - 1) + 1]
      BY <1>0, <3>1
    <3>3. ~Refused(queue'[j - 1])
      BY <3>1 DEF CleanTo
    <3> QED
      BY <3>1, <3>2, <3>3
  <2> QED
    BY <2>1, <2>2
<1>3. \A i : /\ NameOf[i] \in DOMAIN shown => NameOf[i] \in DOMAIN shown'
             /\ NameOf[i] \in Configured /\ head.what = "link" /\ (\E m \in head.msgs : m.idx = i)
                    => NameOf[i] \in DOMAIN shown'
  BY DEF DataCb
<1>4. \A i : Announced(i) /\ NameOf[i] \in Configured =>
                Announced(i)' \/ NameOf[i] \in DOMAIN shown'
  <2> SUFFICES ASSUME NEW i, NameOf[i] \in Configured, NEW k \in 1 .. L,
                      queue[k].what = "link", \E m \in queue[k].msgs : m.idx = i
               PROVE  Announced(i)' \/ NameOf[i] \in DOMAIN shown'
    BY DEF Announced
  <2>1. CASE k = 1
    BY <1>0, <1>3, <2>1
  <2>2. CASE k # 1
    <3>1. k - 1 \in 1 .. L - 1 /\ (k - 1) + 1 = k
      BY <1>0, <2>2
    <3>2. queue'[k - 1] = queue[k]
      BY <1>0, <3>1
    <3>3. k - 1 \in 1 .. Len(queue')
      BY <1>0, <3>1, TakeIndex
    <3> QED
      BY <3>2, <3>3 DEF Announced
  <2> QED
    BY <2>1, <2>2
<1>5. CASE /\ dump.running /\ Len(queue') = L
           /\ Wrote(dump, Tail(queue), queue'[L])
  <2> DEFINE w == queue'[L]
  <2>0. Wrote(dump, Tail(queue), w) /\ w.intr = dump.dirty
    BY <1>5 DEF Wrote
  <2>1. CleanNext(L) => Whole /\ S = links /\ dump.kind = "link"
    <3> SUFFICES ASSUME CleanNext(L) PROVE Whole /\ S = links /\ dump.kind = "link"
      OBVIOUS
    <3>1. CleanNext(L - 1)
      BY <1>0 DEF CleanTo
    <3>2. CleanTo(L)
      <4>1. L - 1 \in 0 .. L - 1 /\ (L - 1) + 1 = L
        BY <1>0
      <4>2. CleanNext(L - 1) => CleanTo((L - 1) + 1)
        BY <1>2, <4>1
      <4> QED
        BY <3>1, <4>1, <4>2
    <3>3. ~dump.dirty
      <4>0. L \in 1 .. L
        BY <1>0
      <4>1. ~Refused(queue'[L])
        BY <4>0 DEF CleanTo
      <4> QED
        BY <2>0, <4>1 DEF Refused, w
    <3>4. Whole
      BY <3>2, <3>3 DEF Whole
    <3> QED
      BY <1>5, <3>4 DEF OneSet
  <2>2. Whole' => CleanNext(L)
    BY <1>5 DEF Whole, CleanTo
  <2>3. w.what = "done" => ~dump'.running /\ Pending(dump) = {}
    BY <1>0, <2>0, WroteEnd
  <2>4. w.what # "done" =>
            /\ w.what = dump.kind /\ dump'.kind = dump.kind /\ dump'.running
            /\ w.msgs \subseteq {Message(dump.kind, i) : i \in links}
            /\ \A i \in dump'.at : i \in dump.at \/ Message(dump.kind, i) \in w.msgs
    BY <1>5 DEF Wrote
  <2> HIDE DEF w
  <2>5. ASSUME NEW k \in 1 .. L, CleanNext(k)
        PROVE  /\ queue'[k].what = "link" => \A m \in queue'[k].msgs : m.idx \in S
               /\ queue'[k].what = "done" => k = L /\ ~dump'.running
    <3>1. CASE k = L
      <4>0. CleanNext(L)
        BY <2>5, <3>1 DEF CleanTo
      <4>1. S = links /\ dump.kind = "link"
        BY <2>1, <4>0
      <4>2. w.what = "link" => \A m \in w.msgs : m.idx \in links
        BY <2>4, <4>1 DEF Message
      <4> QED
        BY <2>3, <3>1, <4>1, <4>2 DEF w
    <3>2. CASE k # L
      <4>1. k \in 1 .. L - 1 /\ k \in 0 .. L - 1 /\ k + 1 \in 1 .. L
        BY <1>0, <3>2
      <4>2. CleanTo(k + 1) /\ queue'[k] = queue[k + 1]
        BY <1>0, <1>2, <2>5, <4>1
      <4>3. /\ queue[k + 1].what = "link" => \A m \in queue[k + 1].msgs : m.idx \in S
            /\ queue[k + 1].what = "done" => ~dump.running
        BY <4>1, <4>2 DEF OneSet
      <4> QED
        BY <1>5, <4>2, <4>3
    <3> QED
      BY <3>1, <3>2
  <2>6. Whole' /\ dump'.running => S = links' /\ dump'.kind = "link"
    BY <2>1, <2>2, <2>3, <2>4
  <2>7. ASSUME Whole', NEW i \in S, NameOf[i] \in Configured
        PROVE  \/ NameOf[i] \in DOMAIN shown'
               \/ Announced(i)'
               \/ dump'.running /\ i \notin dump'.at
    <3>1. Whole /\ S = links /\ dump.kind = "link"
      BY <2>1, <2>2, <2>7
    <3>2. NameOf[i] \in DOMAIN shown \/ Announced(i) \/ (dump.running /\ i \notin dump.at)
      BY <2>7, <3>1 DEF OneSet
    <3>3. CASE dump.running /\ i \notin dump.at
      <4>1. w.what # "done"
        <5>1. i \in Pending(dump)
          BY <2>7, <3>1, <3>3 DEF Pending
        <5> QED
          BY <2>3, <5>1
      <4>2. CASE i \in dump'.at
        <5>1. Message("link", i) \in w.msgs /\ Message("link", i).idx = i /\ w.what = "link"
          BY <2>4, <3>1, <3>3, <4>1, <4>2 DEF Message
        <5>2. L \in 1 .. Len(queue')
          BY <1>0, <1>5
        <5> QED
          BY <5>1, <5>2 DEF Announced, w
      <4> QED
        BY <2>4, <4>1, <4>2
    <3> QED
      BY <1>3, <1>4, <2>7, <3>2, <3>3
  <2> QED
    <3>1. \A k \in 1 .. Len(queue') : CleanTo(k)' => CleanNext(k)
      BY DEF CleanTo
    <3>2. \A k \in 1 .. Len(queue') : CleanTo(k)' =>
            /\ queue'[k].what = "link" => \A m \in queue'[k].msgs : m.idx \in S
            /\ queue'[k].what = "done" => k = Len(queue') /\ ~dump'.running
      BY <1>5, <2>5, <3>1
    <3> HIDE DEF CleanNext, L, head
    <3> QED
      BY <2>6, <2>7, <3>2 DEF OneSet
<1>6. CASE Len(queue') = L - 1 /\ dump' = dump
  <2>1. Whole' => Whole
    <3>1. L - 1 \in 0 .. L - 1 /\ (L - 1) + 1 = L
      BY <1>0
    <3> QED
      BY <1>2, <1>6, <3>1 DEF Whole, CleanTo
  <2>2. ASSUME NEW k \in 1 .. L - 1, CleanNext(k)
        PROVE  /\ queue'[k].what = "link" => \A m \in queue'[k].msgs : m.idx \in S
               /\ queue'[k].what = "done" => k = L - 1 /\ ~dump'.running
    <3>1. k \in 0 .. L - 1 /\ k + 1 \in 1 .. L
      BY <1>0
    <3>2. CleanTo(k + 1) /\ queue'[k] = queue[k + 1]
      BY <1>0, <1>2, <2>2, <3>1
    <3>3. /\ queue[k + 1].what = "link" => \A m \in queue[k + 1].msgs : m.idx \in S
          /\ queue[k + 1].what = "done" => k + 1 = L /\ ~dump.running
      BY <3>1, <3>2 DEF OneSet
    <3> QED
      BY <1>0, <1>6, <3>2, <3>3
  <2>3. Whole' /\ dump'.running => S = links' /\ dump'.kind = "link"
    BY <1>6, <2>1 DEF OneSet
  <2>4. ASSUME Whole', NEW i \in S, NameOf[i] \in Configured
        PROVE  \/ NameOf[i] \in DOMAIN shown'
               \/ Announced(i)'
               \/ dump'.running /\ i \notin dump'.at
    <3>1. NameOf[i] \in DOMAIN shown \/ Announced(i) \/ (dump.running /\ i \notin dump.at)
      BY <2>1, <2>4 DEF OneSet
    <3> QED
      BY <1>3, <1>4, <1>6, <2>4, <3>1
  <2> QED
    <3>1. \A k \in 1 .. Len(queue') : CleanTo(k)' => CleanNext(k)
      BY DEF CleanTo
    <3>2. \A k \in 1 .. Len(queue') : CleanTo(k)' =>
            /\ queue'[k].what = "link" => \A m \in queue'[k].msgs : m.idx \in S
            /\ queue'[k].what = "done" => k = Len(queue') /\ ~dump'.running
      BY <1>6, <2>2, <3>1
    <3> HIDE DEF CleanNext, L, head
    <3> QED
      BY <2>3, <2>4, <3>2 DEF OneSet
<1> QED
  BY <1>5, <1>6, TakeIndex

\* What a datagram of links does to the section.
LEMMA DataCbProps ==
    ASSUME NEW d, NEW n \in DOMAIN DataCb(d)
    PROVE  \/ n \in DOMAIN shown /\ DataCb(d)[n] = shown[n]
           \/ \E m \in d.msgs : /\ d.what = "link" /\ NameOf[m.idx] = n
                               /\ DataCb(d)[n] = LinkShown(m)
<1> DEFINE msgs == {m \in d.msgs : d.what = "link" /\ NameOf[m.idx] \in Configured}
           names == {NameOf[m.idx] : m \in msgs}
<1>1. DataCb(d) = [j \in DOMAIN shown \cup names |->
            IF j \in names THEN LinkShown(CHOOSE m \in msgs : NameOf[m.idx] = j) ELSE shown[j]]
  BY DEF DataCb
<1>2. CASE n \in names
  <2>1. (CHOOSE m \in msgs : NameOf[m.idx] = n) \in msgs
    BY <1>2
  <2>2. NameOf[(CHOOSE m \in msgs : NameOf[m.idx] = n).idx] = n
    BY <1>2
  <2>3. DataCb(d)[n] = LinkShown(CHOOSE m \in msgs : NameOf[m.idx] = n)
    BY <1>1, <1>2
  <2> QED
    BY <2>1, <2>2, <2>3
<1>3. CASE n \notin names
  <2> HIDE DEF names
  <2> QED
    BY <1>1, <1>3
<1> QED
  BY <1>2, <1>3

LEMMA LinksNext == TypeInv /\ SeenInv /\ LinksInv /\ [Next]_vars => LinksInv'
<1> SUFFICES ASSUME TypeInv, SeenInv, LinksInv, [Next]_vars PROVE LinksInv'
  OBVIOUS
<1>0. TypeOK /\ KernelType /\ queue \in Seq(Datagrams) /\ dump \in Dumps
  BY DEF TypeInv, TypeOK, KernelType
<1>1. CASE Open
  <2>1. /\ links' = links /\ seen' = Snapshot /\ pc' \in {"link_send", "print"}
        /\ DOMAIN shown' = {} /\ link_ret' = "none"
    BY <1>1 DEF Open, kernelVars
  <2>2. Unique(links') /\ links \in seen'.links /\ Unique(links)
    BY <2>1 DEF LinksInv, Snapshot
  <2>3. ASSUME NEW S, S = links PROVE SetInv(S)'
    BY <2>1, <2>2, <2>3 DEF SetInv, Unique
  <2> QED
    BY <2>1, <2>2, <2>3 DEF LinksInv
<1>2. CASE LinkSend
  <2>1. /\ pc = "link_send" /\ pc' = "link_recv"
        /\ UNCHANGED <<links, shown, link_ret, seen>>
        /\ Request("link", AgedDump(dump), Aged(queue))
    BY <1>2 DEF LinkSend, Sent, kernelVars, historyVars
  <2>2. links \in seen.links /\ Unique(links) /\ DOMAIN shown = {} /\ link_ret = "none"
    BY <2>1 DEF SeenInv, SeenNow, LinksInv
  <2>3. /\ Aged(queue) \in Seq(Datagrams) /\ Len(Aged(queue)) = Len(queue)
        /\ \A k \in 1 .. Len(Aged(queue)) : ~Aged(queue)[k].current
    BY <1>0, AgedProps
  <2>4. ASSUME NEW S, S = links PROVE OneSet(S)'
    BY <1>0, <2>1, <2>2, <2>3, <2>4, AgedDumpType, OneSetSend
  <2>5. ASSUME NEW S, S = links PROVE SetInv(S)'
    BY <2>1, <2>2, <2>4, <2>5 DEF SetInv, Unique
  <2> QED
    BY <2>1, <2>2, <2>5 DEF LinksInv, Unique
<1>3. CASE AddrSend \/ SendFails
  <2>1. /\ pc \in {"link_send", "addr_send"} /\ pc' \in {"addr_recv", "exited"}
        /\ UNCHANGED <<links, shown, link_ret, seen>>
    BY <1>3 DEF AddrSend, SendFails, Sent, kernelVars, historyVars
  <2>2. PICK S \in seen.links : SetInv(S)
    BY <2>1 DEF LinksInv
  <2>3. SetInv(S)'
    BY <2>1, <2>2 DEF SetInv, Unique
  <2> QED
    BY <2>1, <2>2, <2>3 DEF LinksInv, Unique
<1>4. CASE LinkRecv
  <2> DEFINE head == Head(queue)
  <2>1. /\ pc = "link_recv" /\ queue # <<>> /\ Take /\ UNCHANGED <<links, seen>>
        /\ shown' = IF Ended(head) THEN shown ELSE DataCb(head)
        /\ pc' = IF Ended(head) THEN "addr_send" ELSE "link_recv"
        /\ link_ret' \in {"none", "failed", "ok"}
        /\ ~Ended(head) => link_ret' = "none"
        /\ link_ret' = "ok" => ~Refused(head) /\ head.what = "done"
    BY <1>4 DEF LinkRecv, After, Ended, kernelVars
  <2>2. PICK S \in seen.links : SetInv(S)
    BY <2>1 DEF LinksInv
  <2>3. OneSet(S) /\ Unique(S) /\ \A n \in DOMAIN shown : shown[n].idx \in S
    BY <2>1, <2>2 DEF SetInv
  <2>4. Len(queue) \in Nat /\ Len(queue) >= 1 /\ head = queue[1] /\ 1 \in 1 .. Len(queue)
    BY <1>0, <2>1, TailProps
  <2>5. ~Refused(head) => CleanTo(1)
    BY <2>4 DEF CleanTo
  <2>6. \A n \in DOMAIN shown' : shown'[n].idx \in S
    <3>1. CASE Ended(head)
      BY <2>1, <2>3, <3>1
    <3>2. CASE ~Ended(head)
      <4> SUFFICES ASSUME NEW n \in DOMAIN DataCb(head) PROVE DataCb(head)[n].idx \in S
        BY <2>1, <3>2
      <4>1. head.what = "link" => \A m \in head.msgs : m.idx \in S
        BY <2>3, <2>4, <2>5, <3>2 DEF OneSet, Ended
      <4>2. \A m : NameOf[m.idx] = n => LinkShown(m).idx = m.idx
        BY <1>0 DEF LinkShown, TypeOK, Interface
      <4> HIDE DEF head
      <4> QED
        BY <2>3, <4>1, <4>2, DataCbProps
    <3> QED
      BY <3>1, <3>2
  <2>7. pc' = "link_recv" => OneSet(S)'
    BY <2>1, <2>3, OneSetTake
  <2>8. link_ret' = "ok" => \A i \in S : NameOf[i] \in Configured => NameOf[i] \in DOMAIN shown'
    <3> SUFFICES ASSUME link_ret' = "ok"
                 PROVE  \A i \in S : NameOf[i] \in Configured => NameOf[i] \in DOMAIN shown
      BY <2>1
    <3>1. CleanTo(1) /\ head.what = "done"
      BY <2>1, <2>5
    <3>2. Len(queue) = 1 /\ ~dump.running
      BY <2>3, <2>4, <3>1 DEF OneSet
    <3>3. Whole
      BY <3>1, <3>2 DEF Whole
    <3>4. \A i : ~Announced(i)
      BY <2>4, <3>1, <3>2 DEF Announced
    <3> QED
      BY <2>3, <3>2, <3>3, <3>4 DEF OneSet
  <2> HIDE DEF head
  <2>9. SetInv(S)'
    BY <2>1, <2>2, <2>3, <2>6, <2>7, <2>8 DEF SetInv, Unique
  <2> QED
    BY <2>1, <2>2, <2>9 DEF LinksInv, Unique
<1>5. CASE AddrRecv
  <2>1. /\ pc = "addr_recv" /\ UNCHANGED <<links, seen, link_ret>>
        /\ shown' = shown \/ shown' = InetDataCb(Head(queue))
        /\ pc' \in {"addr_recv", "print"}
    BY <1>5 DEF AddrRecv, After, kernelVars
  <2>2. DOMAIN shown' = DOMAIN shown /\ \A n \in DOMAIN shown : shown'[n].idx = shown[n].idx
    BY <1>0, <2>1 DEF InetDataCb, TypeOK, Interface
  <2>3. PICK S \in seen.links : SetInv(S)
    BY <2>1 DEF LinksInv
  <2>4. SetInv(S)'
    BY <2>1, <2>2, <2>3 DEF SetInv, Unique
  <2> QED
    BY <2>1, <2>3, <2>4 DEF LinksInv, Unique
<1>6. CASE DisplayUpdate
  BY <1>6 DEF DisplayUpdate, LinksInv, Unique, kernelVars
<1>7. CASE Kernel
  <2>1. /\ UNCHANGED <<queue, pc, shown, link_ret>>
        /\ dump'.running = dump.running /\ dump'.kind = dump.kind /\ dump'.at = dump.at
        /\ dump.dirty => dump'.dirty
        /\ dump.running /\ links' # links => dump'.dirty
        /\ seen' = IF pc = "idle" THEN Nothing ELSE Both(seen, Snapshot')
        /\ Unique(links')
    BY <1>0, <1>7, KernelStep DEF LinksInv
  <2>2. ASSUME pc # "idle", NEW S \in seen.links, SetInv(S) PROVE S \in seen'.links /\ SetInv(S)'
    <3>1. S \in seen'.links /\ Unique(S)
      BY <2>1, <2>2 DEF Both, SetInv
    <3>2. \A k : CleanTo(k)' <=> CleanTo(k)
      BY <2>1 DEF CleanTo
    <3>3. Whole' => Whole /\ (dump.running => links' = links)
      BY <2>1 DEF Whole, CleanTo
    <3>4. \A i : Announced(i)' <=> Announced(i)
      BY <2>1 DEF Announced
    <3>5. OneSet(S) => OneSet(S)'
      BY <2>1, <3>2, <3>3, <3>4 DEF OneSet
    <3> QED
      BY <2>1, <2>2, <3>1, <3>5 DEF SetInv, Unique
  <2> QED
    BY <2>1, <2>2 DEF LinksInv, Unique
<1>8. CASE UNCHANGED vars
  BY <1>8 DEF vars, kernelVars, socketVars, historyVars, LinksInv, SetInv, OneSet,
              Unique, Announced, Whole, CleanTo, Refused
<1> QED
  BY <1>1, <1>2, <1>3, <1>4, <1>5, <1>6, <1>7, <1>8 DEF Next, Process

-----------------------------------------------------------------------------
(* ShownHeld.                                                              *)

LEMMA HeldNext ==
    TypeInv /\ SeenInv /\ LinksInv /\ ShownHeld /\ [Next]_vars => ShownHeld'
<1> SUFFICES ASSUME TypeInv, SeenInv, LinksInv, ShownHeld, [Next]_vars PROVE ShownHeld'
  OBVIOUS
<1>0. TypeOK /\ queue \in Seq(Datagrams)
  BY DEF TypeInv, TypeOK
<1>1. CASE Open \/ DisplayUpdate
  <2>1. DOMAIN shown' = {}
    BY <1>1 DEF Open, DisplayUpdate
  <2> QED
    BY <2>1 DEF ShownHeld
<1>2. CASE LinkSend \/ AddrSend \/ SendFails
  BY <1>2 DEF LinkSend, AddrSend, SendFails, Sent, historyVars, ShownHeld
<1>3. CASE LinkRecv
  <2> DEFINE head == Head(queue)
  <2>1. /\ pc = "link_recv" /\ queue # <<>> /\ UNCHANGED seen
        /\ shown' = IF Ended(head) THEN shown ELSE DataCb(head)
    BY <1>3 DEF LinkRecv
  <2>2. CASE Ended(head)
    BY <2>1, <2>2 DEF ShownHeld
  <2>3. CASE ~Ended(head)
    <3>1. PICK S \in seen.links : SetInv(S)
      BY <2>1 DEF LinksInv
    <3>2. OneSet(S) /\ Unique(S) /\ \A n \in DOMAIN shown : shown[n].idx \in S
      BY <2>1, <3>1 DEF SetInv
    <3>3. Len(queue) \in Nat /\ Len(queue) >= 1 /\ head = queue[1] /\ 1 \in 1 .. Len(queue)
      BY <1>0, <2>1, TailProps
    <3>4. CleanTo(1) /\ head.current
      BY <2>3, <3>3 DEF CleanTo, Ended, Refused
    <3>5. ASSUME NEW m \in head.msgs, head.what = "link"
          PROVE  m.idx \in S /\ <<m.idx, m.up>> \in seen.up
      <4>1. m.idx \in S
        BY <3>2, <3>3, <3>4, <3>5 DEF OneSet
      <4>2. Held(head, seen)
        BY <2>1, <3>3 DEF SeenInv
      <4> QED
        BY <3>4, <3>5, <4>1, <4>2 DEF Held
    <3> HIDE DEF head
    <3>6. ASSUME NEW n \in DOMAIN DataCb(head), n \in DOMAIN shown, DataCb(head)[n] = shown[n]
          PROVE  /\ NameOf[DataCb(head)[n].idx] = n
                 /\ <<DataCb(head)[n].idx, DataCb(head)[n].up>> \in seen.up
                 /\ \A a \in DataCb(head)[n].ip : <<DataCb(head)[n].idx, a>> \in seen.ip
      BY <3>6 DEF ShownHeld
    <3>7. ASSUME NEW n, NEW m \in head.msgs, head.what = "link", NameOf[m.idx] = n
          PROVE  LET s == LinkShown(m) IN
                    /\ NameOf[s.idx] = n
                    /\ <<s.idx, s.up>> \in seen.up
                    /\ \A a \in s.ip : <<s.idx, a>> \in seen.ip
      <4>1. m.idx \in S /\ <<m.idx, m.up>> \in seen.up
        BY <3>5, <3>7
      <4>2. CASE n \in DOMAIN shown
        <5>1. shown[n] \in Interface /\ shown[n].idx \in S /\ NameOf[shown[n].idx] = n
          BY <1>0, <3>2, <4>2 DEF TypeOK, ShownHeld
        <5>2. shown[n].idx = m.idx
          BY <3>2, <3>7, <4>1, <5>1 DEF Unique
        <5>3. LinkShown(m) = shown[n]
          BY <3>7, <4>2, <5>1, <5>2 DEF LinkShown, Interface
        <5> QED
          BY <4>2, <5>3 DEF ShownHeld
      <4>3. CASE n \notin DOMAIN shown
        <5>1. LinkShown(m) = [idx |-> m.idx, up |-> m.up, ip |-> {}]
          BY <3>7, <4>3 DEF LinkShown
        <5> QED
          BY <3>7, <4>1, <5>1
      <4> QED
        BY <4>2, <4>3
    <3> SUFFICES ASSUME NEW n \in DOMAIN DataCb(head)
                 PROVE  /\ NameOf[DataCb(head)[n].idx] = n
                        /\ <<DataCb(head)[n].idx, DataCb(head)[n].up>> \in seen.up
                        /\ \A a \in DataCb(head)[n].ip : <<DataCb(head)[n].idx, a>> \in seen.ip
      BY <2>1, <2>3 DEF ShownHeld
    <3> QED
      BY <3>6, <3>7, DataCbProps
  <2> QED
    BY <2>2, <2>3
<1>4. CASE AddrRecv
  <2> DEFINE head == Head(queue)
  <2>1. /\ pc = "addr_recv" /\ queue # <<>> /\ UNCHANGED seen
        /\ shown' = IF Ended(head) THEN shown ELSE InetDataCb(head)
    BY <1>4 DEF AddrRecv
  <2>2. CASE Ended(head)
    BY <2>1, <2>2 DEF ShownHeld
  <2>3. CASE ~Ended(head)
    <3>1. Len(queue) \in Nat /\ Len(queue) >= 1 /\ head = queue[1] /\ head \in Datagrams
      BY <1>0, <2>1, TailProps
    <3>2. Held(head, seen) /\ head.current
      <4>1. 1 \in 1 .. Len(queue)
        BY <3>1
      <4> QED
        BY <2>1, <2>3, <3>1, <4>1 DEF SeenInv, Ended, Refused
    <3> HIDE DEF head
    <3>3. ASSUME NEW n \in DOMAIN shown
          PROVE  LET s == InetDataCb(head)[n] IN
                    /\ s.idx = shown[n].idx /\ s.up = shown[n].up
                    /\ \A a \in s.ip : <<s.idx, a>> \in seen.ip
      <4> DEFINE own == {m \in head.msgs : m.idx = shown[n].idx}
                 m == CHOOSE x \in own : TRUE
      <4>1. shown[n] \in Interface
        BY <1>0 DEF TypeOK
      <4>2. CASE head.what = "addr" /\ own # {} /\ shown[n].ip = {}
        <5>1. m \in own
          BY <4>2
        <5>2. InetDataCb(head)[n] = [shown[n] EXCEPT !.ip = {m.addrs[1]}]
          BY <4>2 DEF InetDataCb
        <5> HIDE DEF m
        <5>3. m \in AddrMessage /\ m \in head.msgs /\ m.idx = shown[n].idx
          BY <3>1, <4>2, <5>1 DEF Datagrams
        <5>4. 1 \in 1 .. Len(m.addrs)
          <6>1. m.addrs \in Seq(Addrs) /\ m.addrs # <<>>
            BY <5>3 DEF AddrMessage
          <6> QED
            BY <6>1
        <5>5. <<m.idx, m.addrs[1]>> \in seen.ip
          BY <3>2, <4>2, <5>3, <5>4 DEF Held
        <5> HIDE DEF own
        <5> QED
          BY <4>1, <5>2, <5>3, <5>5 DEF Interface
      <4>3. CASE ~(head.what = "addr" /\ own # {} /\ shown[n].ip = {})
        <5>1. InetDataCb(head)[n] = shown[n]
          BY <4>3 DEF InetDataCb
        <5> QED
          BY <5>1 DEF ShownHeld
      <4> QED
        BY <4>2, <4>3
    <3>4. DOMAIN shown' = DOMAIN shown /\ shown' = InetDataCb(head)
      BY <2>1, <2>3 DEF InetDataCb
    <3> QED
      BY <2>1, <3>3, <3>4 DEF ShownHeld
  <2> QED
    BY <2>2, <2>3
<1>5. CASE Kernel
  <2>1. UNCHANGED <<pc, shown>> /\ seen' = IF pc = "idle" THEN Nothing ELSE Both(seen, Snapshot')
    BY <1>0, <1>5, KernelStep
  <2>2. CASE pc = "idle"
    BY <2>1, <2>2 DEF ShownHeld, LinksInv
  <2>3. CASE pc # "idle"
    BY <2>1, <2>3 DEF ShownHeld, Both
  <2> QED
    BY <2>2, <2>3
<1>6. CASE UNCHANGED vars
  BY <1>6 DEF vars, historyVars, ShownHeld
<1> QED
  BY <1>1, <1>2, <1>3, <1>4, <1>5, <1>6 DEF Next, Process

-----------------------------------------------------------------------------
(* The theorems.                                                           *)

LEMMA InvInit == Init => Inv
<1> SUFFICES ASSUME Init PROVE Inv
  OBVIOUS
<1>1. TypeInv
  BY TypeInit
<1>2. pc = "idle" /\ DOMAIN shown = {} /\ link_ret = "none" /\ queue = <<>> /\ ~dump.running
  BY DEF Init, NoDump
<1>3. Unique(links)
  BY DEF Init, Unique
<1> QED
  BY <1>1, <1>2, <1>3 DEF Inv, TidyInv, Receiving, SeenInv, LinksInv, ShownHeld

LEMMA InvNext == Inv /\ [Next]_vars => Inv'
BY TypeNext, TidyNext, SeenNext, LinksNext, HeldNext DEF Inv

\* Inv is inductive: polls, and the changes of links between and during their two
\* requests (osysmon_rtnl.c:229-352), keep it.
THEOREM InvCorrect == Spec => []Inv
BY InvInit, InvNext, PTL DEF Spec

\* The section holds configured interfaces, and replies that polls leave unread
\* never fill the socket's buffer, however large it is (osysmon_rtnl.c:368-414).
THEOREM TypeCorrect == Spec => []TypeOK
<1>1. Inv => TypeOK
  BY DEF Inv, TypeInv
<1> QED
  BY <1>1, InvCorrect, PTL

\* The loops at osysmon_rtnl.c:251 and :339, which have no timeout, never wait for
\* a datagram that nobody will send.
THEOREM RecvNeverHangsCorrect == Spec => []RecvNeverHangs
<1>1. Inv => RecvNeverHangs
  BY DEF Inv, TypeInv, WaitInv, RecvNeverHangs
<1> QED
  BY <1>1, InvCorrect, PTL

\* The interfaces of one section existed together at a moment of its poll: data_cb
\* (osysmon_rtnl.c:188) never shows two states of the list of links side by side.
THEOREM ShownCoexistedCorrect == Spec => []ShownCoexisted
<1>1. Inv => ShownCoexisted
  BY DEF Inv, LinksInv, SetInv, ShownCoexisted
<1> QED
  BY <1>1, InvCorrect, PTL

\* State and address of an interface (osysmon_rtnl.c:206, :311) were its own during
\* this poll, whatever earlier polls left in the buffer.
THEOREM ShownHeldCorrect == Spec => []ShownHeld
<1>1. Inv => ShownHeld
  BY DEF Inv
<1> QED
  BY <1>1, InvCorrect, PTL

\* A request for links that is answered to its end (osysmon_rtnl.c:251-263) has
\* shown every configured interface that was there, and only an answer that was
\* given up leaves replies behind.
THEOREM CompleteOrFailedCorrect == Spec => []CompleteOrFailed
<1>1. Inv => CompleteOrFailed
  <2> SUFFICES ASSUME Inv PROVE CompleteOrFailed
    OBVIOUS
  <2>1. link_ret = "ok" =>
            \A i \in Index : NameOf[i] \in Configured /\ (\A S \in seen.links : i \in S) =>
                NameOf[i] \in DOMAIN shown
    BY DEF Inv, LinksInv, SetInv
  <2>2. pc \in {"idle", "print"} /\ queue # <<>> => aborted
    BY DEF Inv, TidyInv, Receiving
  <2> QED
    BY <2>1, <2>2 DEF CompleteOrFailed
<1> QED
  BY <1>1, InvCorrect, PTL
=============================================================================
