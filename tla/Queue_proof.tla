----------------------------- MODULE Queue_proof -----------------------------
(***************************************************************************)
(* What the link assignments of queue.c do to well-formed queues.          *)
(***************************************************************************)
EXTENDS Queue, SequencesExt, SequenceTheorems, TLAPS

(* A handle of newqueue(): a head above the processes, the tail behind it. *)
GoodHandle(q) == /\ q \in Nat
                 /\ queuehead(q) \in NPROC .. NQENT - 2
                 /\ queuetail(q) = queuehead(q) + 1

(* Packing a head and the tail behind it into a word loses neither. *)
LEMMA PackArithmetic ==
    ASSUME NEW h \in Nat, h <= 65534
    PROVE  /\ (h + 1) % 65536 = h + 1
           /\ (h * 65536) + (h + 1) \in Nat
           /\ (((h * 65536) + (h + 1)) \div 65536) % 65536 = h
           /\ ((h * 65536) + (h + 1)) % 65536 = h + 1
PROOF
  <1>1. (h + 1) % 65536 = h + 1 /\ h % 65536 = h
    OBVIOUS
  <1>2. ((h * 65536) + (h + 1)) \div 65536 = h /\ ((h * 65536) + (h + 1)) % 65536 = h + 1
    OBVIOUS
  <1> QED
    BY <1>1, <1>2

(* A handle unpacks to the two indices it was made of. *)
LEMMA HandleUnpacks ==
    ASSUME NEW h \in NPROC .. NQENT - 2
    PROVE  /\ GoodHandle(qid_typ(h, h + 1))
           /\ queuehead(qid_typ(h, h + 1)) = h
           /\ ~isbadqueue(qid_typ(h, h + 1))
PROOF
  <1>1. h \in Nat /\ h <= 65534 /\ NQENT \in Int /\ h + 1 < NQENT
    BY TableSizes
  <1>2. qid_typ(h, h + 1) = (h * 65536) + (h + 1)
    BY <1>1, PackArithmetic DEF qid_typ, Halfword
  <1>3. /\ qid_typ(h, h + 1) \in Nat
        /\ queuehead(qid_typ(h, h + 1)) = h
        /\ queuetail(qid_typ(h, h + 1)) = h + 1
    BY <1>1, <1>2, PackArithmetic DEF queuehead, queuetail, Halfword
  <1> QED
    BY <1>1, <1>3 DEF GoodHandle, isbadqueue

(* The nodes of a queue are table entries: the ends are no processes, the *)
(* places between them are.                                               *)
LEMMA Nodes ==
    ASSUME NEW q, GoodHandle(q), NEW s \in Seq(Pid)
    PROVE  /\ Len(s) \in Nat
           /\ Node(s, q, 0) = queuehead(q)
           /\ Node(s, q, Len(s) + 1) = queuetail(q)
           /\ \A i \in 1 .. Len(s) : Node(s, q, i) = s[i] /\ s[i] \in Pid
           /\ queuehead(q) \in Entry /\ queuehead(q) \notin Pid
           /\ queuetail(q) \in Entry /\ queuetail(q) \notin Pid
           /\ queuehead(q) # queuetail(q)
           /\ Pid \subseteq Entry
           /\ \A i \in 0 .. Len(s) + 1 : Node(s, q, i) \in Entry
PROOF
  <1>1. /\ queuehead(q) \in Entry /\ queuehead(q) \notin Pid
        /\ queuetail(q) \in Entry /\ queuetail(q) \notin Pid
        /\ queuehead(q) # queuetail(q)
        /\ Pid \subseteq Entry
    BY TableSizes DEF GoodHandle, Entry, Pid
  <1>2. /\ Len(s) \in Nat
        /\ Node(s, q, 0) = queuehead(q)
        /\ Node(s, q, Len(s) + 1) = queuetail(q)
        /\ \A i \in 1 .. Len(s) : Node(s, q, i) = s[i] /\ s[i] \in Pid
    BY DEF Node
  <1>3. \A i \in 0 .. Len(s) + 1 : i = 0 \/ i = Len(s) + 1 \/ i \in 1 .. Len(s)
    BY <1>2
  <1> QED
    BY <1>1, <1>2, <1>3

OffQueue(pid, s) == \A i \in 1 .. Len(s) : s[i] # pid

(* What the four assignments of enqueue() write, in a well-formed queue. *)
LEMMA LinkEffect ==
    ASSUME NEW qt \in QueueTab, NEW q, GoodHandle(q), NEW s \in Seq(Pid),
           NEW pid \in Pid, OffQueue(pid, s), Linked(qt, s, q)
    PROVE  LET tail == queuetail(q)
               last == Node(s, q, Len(s))
               new  == link(qt, pid, tail)
           IN  /\ new \in QueueTab
               /\ last \in Entry /\ last # pid /\ last # tail /\ tail # pid
               /\ new.next[pid] = tail /\ new.next[last] = pid
               /\ new.prev[pid] = last /\ new.prev[tail] = pid
               /\ \A e \in Entry : e # pid /\ e # last => new.next[e] = qt.next[e]
               /\ \A e \in Entry : e # pid /\ e # tail => new.prev[e] = qt.prev[e]
PROOF
  <1> DEFINE tail == queuetail(q)
             last == Node(s, q, Len(s))
             new  == link(qt, pid, tail)
  <1>1. /\ tail \in Entry /\ pid \in Entry /\ tail # pid
        /\ last \in Entry /\ last # tail /\ last # pid
    <2>1. CASE Len(s) = 0
      BY <2>1, Nodes
    <2>2. CASE Len(s) # 0
      <3>1. Len(s) \in 1 .. Len(s)
        BY <2>2, Nodes
      <3> QED
        BY <3>1, Nodes DEF OffQueue
    <2> QED
      BY <2>1, <2>2
  <1>2. qt.prev[tail] = last
    <2>1. Len(s) \in 0 .. Len(s)
      BY Nodes
    <2> QED
      BY <2>1, Nodes DEF Linked
  <1>3. /\ new.next = [[qt.next EXCEPT ![pid] = tail] EXCEPT ![last] = pid]
        /\ new.prev = [[qt.prev EXCEPT ![pid] = last] EXCEPT ![tail] = pid]
    BY <1>1, <1>2 DEF link, QueueTab
  <1>4. new = [next |-> new.next, prev |-> new.prev]
    BY DEF link
  <1>5. new \in QueueTab
    BY <1>1, <1>3, <1>4 DEF QueueTab
  <1> HIDE DEF new, last, tail
  <1>6. /\ new.next[pid] = tail /\ new.next[last] = pid
        /\ new.prev[pid] = last /\ new.prev[tail] = pid
        /\ \A e \in Entry : e # pid /\ e # last => new.next[e] = qt.next[e]
        /\ \A e \in Entry : e # pid /\ e # tail => new.prev[e] = qt.prev[e]
    BY <1>1, <1>3 DEF QueueTab
  <1> QED
    BY <1>1, <1>5, <1>6 DEF new, last, tail

(* The four assignments of enqueue() append the process to the queue. *)
LEMMA LinkAppends ==
    ASSUME NEW qt \in QueueTab, NEW q, GoodHandle(q), NEW s \in Seq(Pid),
           NEW pid \in Pid, OffQueue(pid, s),
           NoDuplicates(s), Linked(qt, s, q)
    PROVE  Linked(link(qt, pid, queuetail(q)), Append(s, pid), q)
PROOF
  <1> DEFINE tail == queuetail(q)
             last == Node(s, q, Len(s))
             new  == link(qt, pid, tail)
             t    == Append(s, pid)
  <1>1. /\ Len(t) = Len(s) + 1
        /\ \A i \in 0 .. Len(s) : Node(t, q, i) = Node(s, q, i)
        /\ Node(t, q, Len(s) + 1) = pid
        /\ Node(t, q, Len(s) + 2) = tail
    BY DEF Node
  <1>2. \A i \in 0 .. Len(s) : /\ Node(s, q, i) \in Entry
                               /\ Node(s, q, i) # pid
                               /\ Node(s, q, i) # tail
                               /\ i # Len(s) => Node(s, q, i) # last
    BY Nodes DEF Node, NoDuplicates, OffQueue
  <1>3. \A i \in 0 .. Len(s) - 1 : /\ new.next[Node(s, q, i)] = Node(s, q, i + 1)
                                   /\ new.prev[Node(s, q, i + 1)] = Node(s, q, i)
    BY <1>2, LinkEffect DEF Linked
  <1>4. /\ new.next[pid] = tail /\ new.next[last] = pid
        /\ new.prev[pid] = last /\ new.prev[tail] = pid
    BY LinkEffect
  <1> HIDE DEF new, last, tail, t
  <1>5. SUFFICES ASSUME NEW i \in 0 .. Len(t)
                 PROVE  /\ new.next[Node(t, q, i)] = Node(t, q, i + 1)
                        /\ new.prev[Node(t, q, i + 1)] = Node(t, q, i)
    BY DEF Linked, new, t, tail
  <1>6. CASE i < Len(s)
    BY <1>1, <1>3, <1>6
  <1>7. CASE i = Len(s)
    BY <1>1, <1>4, <1>7 DEF last
  <1>8. CASE i = Len(s) + 1
    BY <1>1, <1>4, <1>8
  <1> QED
    BY <1>1, <1>6, <1>7, <1>8

(* Two queues that share no entry. *)
Apart(s, q, t, r) == \A i \in 0 .. Len(s) + 1, j \in 0 .. Len(t) + 1 :
                        Node(s, q, i) # Node(t, r, j)

(* enqueue() leaves every queue apart from its own alone. *)
LEMMA LinkFrame ==
    ASSUME NEW qt \in QueueTab, NEW pid \in Pid,
           NEW q, GoodHandle(q), NEW s \in Seq(Pid), Linked(qt, s, q), OffQueue(pid, s),
           NEW r, GoodHandle(r), NEW t \in Seq(Pid), Linked(qt, t, r), OffQueue(pid, t),
           Apart(s, q, t, r)
    PROVE  Linked(link(qt, pid, queuetail(q)), t, r)
PROOF
  <1>1. \A j \in 0 .. Len(t) + 1 : /\ Node(t, r, j) \in Entry
                                   /\ Node(t, r, j) # pid
                                   /\ Node(t, r, j) # queuetail(q)
                                   /\ Node(t, r, j) # Node(s, q, Len(s))
    <2>1. \A j \in 0 .. Len(t) + 1 : Node(t, r, j) \in Entry /\ Node(t, r, j) # pid
      BY Nodes DEF Node, OffQueue
    <2>2. Len(s) \in 0 .. Len(s) + 1 /\ Len(s) + 1 \in 0 .. Len(s) + 1
      BY Nodes
    <2> QED
      BY <2>1, <2>2, Nodes DEF Apart
  <1>2. \A j \in 0 .. Len(t) : j \in 0 .. Len(t) + 1 /\ j + 1 \in 0 .. Len(t) + 1
    BY Nodes
  <1>3. ASSUME NEW j \in 0 .. Len(t)
        PROVE  LET new == link(qt, pid, queuetail(q))
               IN  /\ new.next[Node(t, r, j)] = qt.next[Node(t, r, j)]
                   /\ new.prev[Node(t, r, j + 1)] = qt.prev[Node(t, r, j + 1)]
    BY <1>1, <1>2, LinkEffect
  <1> QED
    BY <1>3 DEF Linked

(* Taking the k-th element out of a sequence. *)
LEMMA RemoveAtElements ==
    ASSUME NEW S, NEW s \in Seq(S), NEW k \in 1 .. Len(s)
    PROVE  /\ RemoveAt(s, k) \in Seq(S)
           /\ Len(RemoveAt(s, k)) = Len(s) - 1
           /\ \A i \in 1 .. Len(s) - 1 :
                 RemoveAt(s, k)[i] = IF i < k THEN s[i] ELSE s[i + 1]
PROOF
  <1> DEFINE a == SubSeq(s, 1, k - 1)
             b == SubSeq(s, k + 1, Len(s))
  <1>1. /\ a \in Seq(S) /\ Len(a) = k - 1
        /\ \A i \in 1 .. k - 1 : a[i] = s[i]
    OBVIOUS
  <1>2. /\ b \in Seq(S) /\ Len(b) = Len(s) - k
        /\ \A i \in 1 .. Len(s) - k : b[i] = s[k + i]
    OBVIOUS
  <1> HIDE DEF a, b
  <1>3. /\ a \o b \in Seq(S) /\ Len(a \o b) = Len(a) + Len(b)
        /\ \A i \in 1 .. Len(a) + Len(b) :
              (a \o b)[i] = IF i <= Len(a) THEN a[i] ELSE b[i - Len(a)]
    BY <1>1, <1>2, ConcatProperties
  <1>4. Len(s) \in Nat /\ Len(a) + Len(b) = Len(s) - 1
    BY <1>1, <1>2
  <1>5. ASSUME NEW i \in 1 .. Len(s) - 1
        PROVE  (a \o b)[i] = IF i < k THEN s[i] ELSE s[i + 1]
    <2>1. CASE i < k
      BY <1>1, <1>3, <1>4, <2>1
    <2>2. CASE i >= k
      <3>1. i - (k - 1) \in 1 .. Len(s) - k /\ k + (i - (k - 1)) = i + 1
        BY <1>4, <2>2
      <3>2. i \in 1 .. Len(a) + Len(b) /\ ~(i <= Len(a)) /\ ~(i < k)
        BY <1>1, <1>4, <2>2
      <3>3. (a \o b)[i] = b[i - (k - 1)]
        BY <1>1, <1>3, <3>2
      <3> QED
        BY <1>2, <3>1, <3>2, <3>3
    <2> QED
      BY <1>4, <2>1, <2>2
  <1> QED
    BY <1>3, <1>4, <1>5 DEF RemoveAt, a, b
(* What the two assignments of remove() write, in a well-formed queue. *)
LEMMA UnlinkEffect ==
    ASSUME NEW qt \in QueueTab, NEW q, GoodHandle(q), NEW s \in Seq(Pid),
           NEW k \in 1 .. Len(s), NoDuplicates(s), Linked(qt, s, q)
    PROVE  LET before == Node(s, q, k - 1)
               after  == Node(s, q, k + 1)
               new    == unlink(qt, s[k])
           IN  /\ new \in QueueTab
               /\ before \in Entry /\ after \in Entry
               /\ new.next[before] = after /\ new.prev[after] = before
               /\ \A e \in Entry : e # before => new.next[e] = qt.next[e]
               /\ \A e \in Entry : e # after => new.prev[e] = qt.prev[e]
PROOF
  <1> DEFINE before == Node(s, q, k - 1)
             after  == Node(s, q, k + 1)
             new    == unlink(qt, s[k])
  <1>1. /\ k - 1 \in 0 .. Len(s) + 1 /\ k - 1 \in 0 .. Len(s) /\ k - 1 # k
        /\ k \in 0 .. Len(s) + 1 /\ k \in 0 .. Len(s)
        /\ k + 1 \in 0 .. Len(s) + 1 /\ (k - 1) + 1 = k
    BY Nodes
  <1>2. before \in Entry /\ after \in Entry /\ s[k] \in Entry /\ Node(s, q, k) = s[k]
    BY <1>1, Nodes
  <1>3. before # s[k]
    <2>1. CASE k = 1
      BY <2>1, Nodes
    <2>2. CASE k # 1
      BY <2>2, Nodes DEF Node, NoDuplicates
    <2> QED
      BY <2>1, <2>2
  <1>4. qt.prev[s[k]] = before /\ qt.next[s[k]] = after
    BY <1>1, <1>2 DEF Linked
  <1>5. /\ new.next = [qt.next EXCEPT ![before] = after]
        /\ new.prev = [qt.prev EXCEPT ![after] = before]
        /\ new = [next |-> new.next, prev |-> new.prev]
    <2>1. [qt.next EXCEPT ![before] = after][s[k]] = after
      BY <1>2, <1>3, <1>4 DEF QueueTab
    <2> QED
      BY <1>4, <2>1 DEF unlink
  <1> HIDE DEF before, after, new
  <1>6. new \in QueueTab
    BY <1>2, <1>5 DEF QueueTab
  <1>7. /\ new.next[before] = after /\ new.prev[after] = before
        /\ \A e \in Entry : e # before => new.next[e] = qt.next[e]
        /\ \A e \in Entry : e # after => new.prev[e] = qt.prev[e]
    BY <1>2, <1>5 DEF QueueTab
  <1> QED
    BY <1>2, <1>6, <1>7 DEF before, after, new

(* The two assignments of remove() take the process out of its queue. *)
LEMMA UnlinkRemoves ==
    ASSUME NEW qt \in QueueTab, NEW q, GoodHandle(q), NEW s \in Seq(Pid),
           NEW k \in 1 .. Len(s), NoDuplicates(s), Linked(qt, s, q)
    PROVE  Linked(unlink(qt, s[k]), RemoveAt(s, k), q)
PROOF
  <1> DEFINE before == Node(s, q, k - 1)
             after  == Node(s, q, k + 1)
             new    == unlink(qt, s[k])
             t      == RemoveAt(s, k)
  <1>1. Len(s) \in Nat /\ k \in Nat
    BY Nodes
  <1>2. Len(t) = Len(s) - 1 /\ t \in Seq(Pid)
    BY RemoveAtElements
  <1>3. \A i \in 0 .. Len(s) : Node(t, q, i) = Node(s, q, IF i < k THEN i ELSE i + 1)
    BY <1>1, <1>2, RemoveAtElements, SMTT(30) DEF Node
  <1>4. /\ \A i \in 0 .. Len(s) : i # k - 1 => Node(s, q, i) # before
        /\ \A i \in 1 .. Len(s) + 1 : i # k + 1 => Node(s, q, i) # after
    <2>1. ASSUME NEW i \in 0 .. Len(s) + 1, NEW j \in 0 .. Len(s) + 1, i # j
          PROVE  Node(s, q, i) # Node(s, q, j)
      BY <2>1, Nodes DEF Node, NoDuplicates
    <2>2. k - 1 \in 0 .. Len(s) + 1 /\ k + 1 \in 0 .. Len(s) + 1
      BY <1>1
    <2>3. /\ \A i \in 0 .. Len(s) : i \in 0 .. Len(s) + 1
          /\ \A i \in 1 .. Len(s) + 1 : i \in 0 .. Len(s) + 1
      BY <1>1
    <2> QED
      BY <2>1, <2>2, <2>3
  <1>5. /\ new.next[before] = after /\ new.prev[after] = before
        /\ \A i \in 0 .. Len(s) : i # k - 1 =>
              new.next[Node(s, q, i)] = Node(s, q, i + 1)
        /\ \A i \in 0 .. Len(s) : i # k =>
              new.prev[Node(s, q, i + 1)] = Node(s, q, i)
    <2>1. new.next[before] = after /\ new.prev[after] = before
      BY UnlinkEffect
    <2>2. ASSUME NEW i \in 0 .. Len(s), i # k - 1
          PROVE  new.next[Node(s, q, i)] = Node(s, q, i + 1)
      <3>1. Node(s, q, i) \in Entry /\ Node(s, q, i) # before
        BY <1>1, <1>4, <2>2, Nodes
      <3> QED
        BY <3>1, UnlinkEffect DEF Linked
    <2>3. ASSUME NEW i \in 0 .. Len(s), i # k
          PROVE  new.prev[Node(s, q, i + 1)] = Node(s, q, i)
      <3>1. i + 1 \in 1 .. Len(s) + 1 /\ i + 1 \in 0 .. Len(s) + 1 /\ i + 1 # k + 1
        BY <1>1, <2>3
      <3>2. Node(s, q, i + 1) \in Entry /\ Node(s, q, i + 1) # after
        BY <1>4, <3>1, Nodes
      <3> QED
        BY <3>2, UnlinkEffect, SMTT(30) DEF Linked
    <2> QED
      BY <2>1, <2>2, <2>3
  <1>6. SUFFICES ASSUME NEW i \in 0 .. Len(t)
                 PROVE  /\ new.next[Node(t, q, i)] = Node(t, q, i + 1)
                        /\ new.prev[Node(t, q, i + 1)] = Node(t, q, i)
    BY DEF Linked
  <1>7. i \in 0 .. Len(s) /\ i + 1 \in 0 .. Len(s)
    BY <1>1, <1>2
  <1>8. CASE i < k - 1
    <2>1. Node(t, q, i) = Node(s, q, i) /\ Node(t, q, i + 1) = Node(s, q, i + 1)
      BY <1>1, <1>3, <1>7, <1>8
    <2> QED
      BY <1>1, <1>5, <1>7, <1>8, <2>1
  <1>9. CASE i = k - 1
    <2>1. Node(t, q, i) = before /\ Node(t, q, i + 1) = after
      BY <1>1, <1>3, <1>7, <1>9
    <2> QED
      BY <1>5, <2>1
  <1>10. CASE i > k - 1
    <2>1. Node(t, q, i) = Node(s, q, i + 1) /\ Node(t, q, i + 1) = Node(s, q, (i + 1) + 1)
      BY <1>1, <1>3, <1>7, <1>10
    <2>2. i + 1 # k - 1 /\ i + 1 # k
      BY <1>1, <1>7, <1>10
    <2> QED
      BY <1>5, <1>7, <2>1, <2>2
  <1> QED
    BY <1>1, <1>7, <1>8, <1>9, <1>10

(* remove() leaves every queue apart from that of the process alone. *)
LEMMA UnlinkFrame ==
    ASSUME NEW qt \in QueueTab,
           NEW q, GoodHandle(q), NEW s \in Seq(Pid), Linked(qt, s, q),
           NEW k \in 1 .. Len(s), NoDuplicates(s),
           NEW r, GoodHandle(r), NEW t \in Seq(Pid), Linked(qt, t, r),
           Apart(s, q, t, r)
    PROVE  Linked(unlink(qt, s[k]), t, r)
PROOF
  <1>1. /\ k - 1 \in 0 .. Len(s) + 1 /\ k + 1 \in 0 .. Len(s) + 1
        /\ \A j \in 0 .. Len(t) : j \in 0 .. Len(t) + 1 /\ j + 1 \in 0 .. Len(t) + 1
    BY Nodes
  <1>2. \A j \in 0 .. Len(t) + 1 : /\ Node(t, r, j) \in Entry
                                   /\ Node(t, r, j) # Node(s, q, k - 1)
                                   /\ Node(t, r, j) # Node(s, q, k + 1)
    BY <1>1, Nodes DEF Apart
  <1>3. ASSUME NEW j \in 0 .. Len(t)
        PROVE  LET new == unlink(qt, s[k])
               IN  /\ new.next[Node(t, r, j)] = qt.next[Node(t, r, j)]
                   /\ new.prev[Node(t, r, j + 1)] = qt.prev[Node(t, r, j + 1)]
    BY <1>1, <1>2, UnlinkEffect
  <1> QED
    BY <1>3 DEF Linked

(* A process linked to itself: remove() has no effect, and linking it so    *)
(* disturbs no queue it is not in.                                          *)
selflink(qt, pid) == [next |-> [qt.next EXCEPT ![pid] = pid],
                      prev |-> [qt.prev EXCEPT ![pid] = pid]]

LEMMA UnlinkSelfLinked ==
    ASSUME NEW qt \in QueueTab, NEW pid \in Pid,
           qt.next[pid] = pid, qt.prev[pid] = pid
    PROVE  unlink(qt, pid) = qt
PROOF
  <1>1. pid \in Entry
    BY TableSizes DEF Pid, Entry
  <1>2. [qt.next EXCEPT ![pid] = pid] = qt.next /\ [qt.prev EXCEPT ![pid] = pid] = qt.prev
    BY <1>1 DEF QueueTab
  <1>3. qt = [next |-> qt.next, prev |-> qt.prev]
    BY DEF QueueTab
  <1> QED
    BY <1>2, <1>3 DEF unlink

LEMMA SelfLinkFrame ==
    ASSUME NEW qt \in QueueTab, NEW pid \in Pid,
           NEW r, GoodHandle(r), NEW t \in Seq(Pid), Linked(qt, t, r), OffQueue(pid, t)
    PROVE  selflink(qt, pid) \in QueueTab /\ Linked(selflink(qt, pid), t, r)
PROOF
  <1>1. pid \in Entry
    BY TableSizes DEF Pid, Entry
  <1>2. \A j \in 0 .. Len(t) + 1 : Node(t, r, j) \in Entry /\ Node(t, r, j) # pid
    BY Nodes DEF Node, OffQueue
  <1>3. \A j \in 0 .. Len(t) : j \in 0 .. Len(t) + 1 /\ j + 1 \in 0 .. Len(t) + 1
    BY Nodes
  <1>4. selflink(qt, pid) \in QueueTab
    BY <1>1 DEF selflink, QueueTab
  <1>5. \A e \in Entry : e # pid => /\ selflink(qt, pid).next[e] = qt.next[e]
                                    /\ selflink(qt, pid).prev[e] = qt.prev[e]
    BY <1>1 DEF selflink, QueueTab
  <1> QED
    BY <1>2, <1>3, <1>4, <1>5 DEF Linked
(* Dropping the first element is taking out the one at place 1. *)
LEMMA TailIsRemoveFirst ==
    ASSUME NEW S, NEW s \in Seq(S), s # << >>
    PROVE  Tail(s) = RemoveAt(s, 1) /\ 1 \in 1 .. Len(s) /\ Head(s) = s[1]
PROOF
  <1>1. Tail(s) = SubSeq(s, 2, Len(s)) /\ Tail(s) \in Seq(S)
    BY TailIsSubSeq, HeadTailProperties
  <1>2. SubSeq(s, 1, 0) = << >>
    BY SubSeqEmpty
  <1>3. << >> \o Tail(s) = Tail(s)
    BY <1>1, ConcatEmptySeq
  <1>4. RemoveAt(s, 1) = SubSeq(s, 1, 0) \o SubSeq(s, 2, Len(s))
    BY DEF RemoveAt
  <1> QED
    BY <1>1, <1>2, <1>3, <1>4

(* newqueue() makes an empty queue of two fresh entries. *)
LEMMA NewqueueLinks ==
    ASSUME NEW qt \in QueueTab, NEW h \in NPROC .. NQENT - 2
    PROVE  /\ newqueue(qt, h) \in QueueTab
           /\ Linked(newqueue(qt, h), << >>, qid_typ(h, h + 1))
           /\ \A e \in Entry : e # h /\ e # h + 1 =>
                 /\ newqueue(qt, h).next[e] = qt.next[e]
                 /\ newqueue(qt, h).prev[e] = qt.prev[e]
PROOF
  <1> DEFINE new == newqueue(qt, h)
  <1>1. h \in Entry /\ h + 1 \in Entry /\ h # h + 1
    BY TableSizes DEF Entry
  <1>2. /\ new \in QueueTab
        /\ new.next[h] = h + 1 /\ new.prev[h + 1] = h
        /\ \A e \in Entry : e # h /\ e # h + 1 =>
              new.next[e] = qt.next[e] /\ new.prev[e] = qt.prev[e]
    BY <1>1 DEF newqueue, QueueTab
  <1>3. /\ queuehead(qid_typ(h, h + 1)) = h
        /\ queuetail(qid_typ(h, h + 1)) = h + 1
    BY HandleUnpacks DEF GoodHandle
  <1> QED
    BY <1>2, <1>3 DEF Linked, Node
==============================================================================
