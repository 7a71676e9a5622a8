--------------------------- MODULE QueueTable_proof --------------------------
(***************************************************************************)
(* The queue table keeps every queue well linked, and implements the FIFO  *)
(* queues of include/queue.h, for any number of processes and queues.      *)
(***************************************************************************)
EXTENDS QueueTable, Queue_proof

(* The inductive invariant.  AllLinked alone is not inductive: that a call  *)
(* for one queue spares the others needs Separate, and that dequeue() gets  *)
(* its process unlinked needs QueuedAreLive.                                *)
Sound == TypeOK /\ AllLinked /\ Separate /\ QueuedAreLive

(* What the invariant says of one queue. *)
LEMMA OneQueue ==
    ASSUME TypeOK, AllLinked, Separate, NEW q \in DOMAIN order
    PROVE  /\ GoodHandle(q) /\ ~isbadqueue(q)
           /\ order[q] \in Seq(Pid)
           /\ NoDuplicates(order[q])
           /\ Linked(queuetab, order[q], q)
PROOF
  <1>1. GoodHandle(q) /\ ~isbadqueue(q)
    BY TableSizes DEF TypeOK, Separate, GoodHandle, isbadqueue
  <1>2. order[q] \in Seq(Pid) /\ NoDuplicates(order[q])
    BY DEF TypeOK, Separate, NoDuplicates
  <1> QED
    BY <1>1, <1>2 DEF AllLinked

(* Two queues share no entry. *)
LEMMA QueuesApart ==
    ASSUME TypeOK, AllLinked, Separate,
           NEW q \in DOMAIN order, NEW r \in DOMAIN order, q # r
    PROVE  Apart(order[q], q, order[r], r)
PROOF
  <1>1. /\ queuehead(q) # queuehead(r) /\ queuehead(q) # queuetail(r)
        /\ queuetail(q) # queuehead(r) /\ queuetail(q) # queuetail(r)
    BY OneQueue, TableSizes DEF Separate, GoodHandle
  <1>2. \A i \in 1 .. Len(order[q]), j \in 1 .. Len(order[r]) : order[q][i] # order[r][j]
    BY DEF Separate
  <1>3. /\ GoodHandle(q) /\ order[q] \in Seq(Pid)
        /\ GoodHandle(r) /\ order[r] \in Seq(Pid)
    BY OneQueue
  <1>4. ASSUME NEW i \in 0 .. Len(order[q]) + 1, NEW j \in 0 .. Len(order[r]) + 1
        PROVE  Node(order[q], q, i) # Node(order[r], r, j)
    <2>1. /\ i = 0 \/ i = Len(order[q]) + 1 \/ i \in 1 .. Len(order[q])
          /\ j = 0 \/ j = Len(order[r]) + 1 \/ j \in 1 .. Len(order[r])
      BY <1>3, Nodes
    <2>2. /\ queuehead(q) \notin Pid /\ queuetail(q) \notin Pid
          /\ queuehead(r) \notin Pid /\ queuetail(r) \notin Pid
          /\ i \in 1 .. Len(order[q]) => Node(order[q], q, i) = order[q][i] /\ order[q][i] \in Pid
          /\ j \in 1 .. Len(order[r]) => Node(order[r], r, j) = order[r][j] /\ order[r][j] \in Pid
          /\ i = 0 => Node(order[q], q, i) = queuehead(q)
          /\ j = 0 => Node(order[r], r, j) = queuehead(r)
          /\ i = Len(order[q]) + 1 => Node(order[q], q, i) = queuetail(q)
          /\ j = Len(order[r]) + 1 => Node(order[r], r, j) = queuetail(r)
      BY <1>3, Nodes
    <2> QED
      BY <1>1, <1>2, <2>1, <2>2
  <1> QED
    BY <1>4 DEF Apart

(* A process is queued when some queue holds it at some place. *)
LEMMA QueuedPlace ==
    ASSUME TypeOK, NEW pid
    PROVE  /\ Queued(pid) <=> \E q \in DOMAIN order : ~OffQueue(pid, order[q])
           /\ \A q \in DOMAIN order :
                 pid \in ToSet(order[q]) <=> \E i \in 1 .. Len(order[q]) : order[q][i] = pid
PROOF
  <1>1. ASSUME NEW q \in DOMAIN order
        PROVE  pid \in ToSet(order[q]) <=> \E i \in 1 .. Len(order[q]) : order[q][i] = pid
    <2>1. DOMAIN order[q] = 1 .. Len(order[q])
      BY DEF TypeOK
    <2> QED
      BY <2>1 DEF ToSet
  <1> QED
    BY <1>1 DEF Queued, OffQueue

(* Nothing is queued before the first queue is made. *)
LEMMA InitSound == Init => Sound
PROOF
  <1> SUFFICES ASSUME Init PROVE Sound
    OBVIOUS
  <1>1. DOMAIN order = {} /\ order \in [DOMAIN order -> Seq(Pid)]
    BY DEF Init
  <1>2. queuetab \in QueueTab
    BY TableSizes DEF Init, ClearedTab, QueueTab, Entry
  <1>3. nextqueue \in NPROC .. NQENT + 2
    BY TableSizes DEF Init
  <1> QED
    BY <1>1, <1>2, <1>3
       DEF Init, Sound, TypeOK, AllLinked, Separate, QueuedAreLive

(* Past the table the queues made before stay as they are. *)
LEMMA NewqueueBeyond ==
    ASSUME Sound, CallNewqueue, nextqueue <= NQENT, ~ (nextqueue + 2 <= NQENT)
    PROVE  Sound' /\ UNCHANGED <<order, live, ret>>
PROOF
  <1>1. /\ UNCHANGED <<queuetab, ret, order, live>>
        /\ nextqueue' = nextqueue + 2 /\ nextqueue \in Int
    BY DEF CallNewqueue, Sound, TypeOK
  <1>2. nextqueue' \in NPROC .. NQENT + 2
    BY <1>1, TableSizes DEF Sound, TypeOK
  <1>3. TypeOK'
    BY <1>1, <1>2 DEF Sound, TypeOK
  <1>4. AllLinked' /\ QueuedAreLive'
    BY <1>1 DEF Sound, AllLinked, QueuedAreLive
  <1>5. \A q \in DOMAIN order : queuehead(q) \in NPROC .. nextqueue' - 2
    BY <1>1, TableSizes DEF Sound, Separate
  <1>6. Separate'
    BY <1>1, <1>5 DEF Sound, Separate
  <1> QED
    BY <1>1, <1>3, <1>4, <1>6 DEF Sound

(* newqueue(): the pair it takes lies above every pair taken before. *)
LEMMA NewqueueSound == Sound /\ CallNewqueue /\ nextqueue + 2 <= NQENT => Sound'
PROOF
  <1> SUFFICES ASSUME Sound, CallNewqueue, nextqueue + 2 <= NQENT PROVE Sound'
    OBVIOUS
  <1> USE DEF Sound
  <1> DEFINE h == nextqueue
             n == qid_typ(h, h + 1)
  <1>1. h \in NPROC .. NQENT - 2
    BY TableSizes DEF CallNewqueue, TypeOK
  <1>2. GoodHandle(n) /\ queuehead(n) = h /\ queuetail(n) = h + 1 /\ ~isbadqueue(n)
    BY <1>1, HandleUnpacks DEF GoodHandle
  <1>3. n \notin DOMAIN order
    BY <1>1, <1>2, TableSizes DEF Separate, TypeOK
  <1>3a. order' = [x \in DOMAIN order \cup {n} |-> IF x = n THEN << >> ELSE order[x]]
    BY <1>1, TableSizes DEF CallNewqueue
  <1>4. /\ DOMAIN order' = DOMAIN order \cup {n}
        /\ order'[n] = << >>
        /\ \A q \in DOMAIN order : order'[q] = order[q]
        /\ order' \in [DOMAIN order' -> Seq(Pid)]
    BY <1>3, <1>3a DEF TypeOK
  <1>5. queuetab' = newqueue(queuetab, h) /\ nextqueue' = h + 2 /\ live' = live
    BY <1>1, TableSizes DEF CallNewqueue
  <1>6. TypeOK'
    <2>1. queuetab' \in QueueTab
      BY <1>1, <1>5, NewqueueLinks DEF TypeOK
    <2>2. nextqueue' \in NPROC .. NQENT + 2
      BY <1>1, <1>5, TableSizes
    <2>3. n \in Int /\ n \in Nat /\ ret' = n
      BY <1>2 DEF CallNewqueue, GoodHandle
    <2> QED
      BY <1>4, <1>5, <2>1, <2>2, <2>3 DEF TypeOK
  <1>7. AllLinked'
    <2>1. Linked(queuetab', << >>, n)
      BY <1>1, <1>5, NewqueueLinks DEF TypeOK
    <2>2. ASSUME NEW q \in DOMAIN order
          PROVE  Linked(queuetab', order[q], q)
      <3>1. GoodHandle(q) /\ order[q] \in Seq(Pid) /\ Linked(queuetab, order[q], q)
        BY OneQueue
      <3>2. \A i \in 0 .. Len(order[q]) + 1 : /\ Node(order[q], q, i) \in Entry
                                              /\ Node(order[q], q, i) # h
                                              /\ Node(order[q], q, i) # h + 1
        <4>1. h \notin Pid /\ h + 1 \notin Pid
          BY <1>1, TableSizes DEF Pid
        <4>2. /\ queuehead(q) # h /\ queuehead(q) # h + 1
              /\ queuetail(q) # h /\ queuetail(q) # h + 1
          BY <1>1, TableSizes DEF Separate
        <4> QED
          BY <3>1, <4>1, <4>2, Nodes DEF Node
      <3>3. \A i \in 0 .. Len(order[q]) : /\ i \in 0 .. Len(order[q]) + 1
                                          /\ i + 1 \in 0 .. Len(order[q]) + 1
        BY <3>1, Nodes
      <3>4. \A e \in Entry : e # h /\ e # h + 1 =>
                 queuetab'.next[e] = queuetab.next[e] /\ queuetab'.prev[e] = queuetab.prev[e]
        BY <1>1, <1>5, NewqueueLinks DEF TypeOK
      <3> QED
        BY <3>1, <3>2, <3>3, <3>4 DEF Linked
    <2> QED
      BY <1>4, <2>1, <2>2 DEF AllLinked
  <1>8. Separate'
    <2>1. \A q \in DOMAIN order : queuehead(q) \in NPROC .. h - 2 /\ queuetail(q) = queuehead(q) + 1
      BY DEF Separate
    <2>2. \A q \in DOMAIN order' : /\ queuehead(q) \in NPROC .. nextqueue' - 2
                                   /\ queuetail(q) = queuehead(q) + 1
                                   /\ ~isbadqueue(q)
      BY <1>1, <1>2, <1>4, <1>5, TableSizes DEF Separate
    <2>3. \A q, r \in DOMAIN order' : q # r => /\ queuehead(q) # queuehead(r)
                                               /\ queuehead(q) # queuetail(r)
      BY <1>1, <1>2, <1>4, <2>1, TableSizes DEF Separate
    <2>4. Len(order'[n]) = 0
      BY <1>4
    <2>5. \A q, r \in DOMAIN order' :
             \A i \in 1 .. Len(order'[q]), j \in 1 .. Len(order'[r]) :
                order'[q][i] = order'[r][j] => q = r /\ i = j
      BY <1>4, <2>4, SMTT(30) DEF Separate
    <2> QED
      BY <2>2, <2>3, <2>5 DEF Separate
  <1>9. QueuedAreLive'
    BY <1>4, <1>5 DEF QueuedAreLive
  <1> QED
    BY <1>6, <1>7, <1>8, <1>9
(* A step that replaces the contents of one queue by t keeps the invariant  *)
(* if the links follow and t holds live processes of no other queue.        *)
LEMMA OneQueueChanged ==
    ASSUME Sound, NEW q \in DOMAIN order, NEW t \in Seq(Pid),
           order' = [order EXCEPT ![q] = t],
           UNCHANGED <<nextqueue, live>>,
           queuetab' \in QueueTab, ret' \in Int,
           Linked(queuetab', t, q), NoDuplicates(t),
           \A r \in DOMAIN order : r # q => Linked(queuetab', order[r], r),
           \A i \in 1 .. Len(t) : t[i] \in live,
           \A i \in 1 .. Len(t) : \A r \in DOMAIN order : r # q => OffQueue(t[i], order[r])
    PROVE  Sound'
PROOF
  <1> USE DEF Sound
  <1>1. /\ DOMAIN order' = DOMAIN order
        /\ order'[q] = t
        /\ \A r \in DOMAIN order : r # q => order'[r] = order[r]
        /\ order' \in [DOMAIN order' -> Seq(Pid)]
    BY DEF TypeOK
  <1>2. TypeOK'
    BY <1>1 DEF TypeOK
  <1>3. AllLinked'
    BY <1>1 DEF AllLinked
  <1>4. QueuedAreLive'
    BY <1>1 DEF QueuedAreLive
  <1>5. Separate'
    <2>1. /\ \A r \in DOMAIN order' : /\ queuehead(r) \in NPROC .. nextqueue' - 2
                                      /\ queuetail(r) = queuehead(r) + 1
                                      /\ ~isbadqueue(r)
          /\ \A r, u \in DOMAIN order' : r # u => /\ queuehead(r) # queuehead(u)
                                                  /\ queuehead(r) # queuetail(u)
      BY <1>1 DEF Separate
    <2>2. ASSUME NEW r \in DOMAIN order, NEW u \in DOMAIN order,
                 NEW i \in 1 .. Len(order'[r]), NEW j \in 1 .. Len(order'[u]),
                 order'[r][i] = order'[u][j]
          PROVE  r = u /\ i = j
      <3>1. CASE r = q /\ u = q
        BY <1>1, <2>2, <3>1 DEF NoDuplicates
      <3>2. CASE r = q /\ u # q
        BY <1>1, <2>2, <3>2 DEF OffQueue
      <3>3. CASE r # q /\ u = q
        BY <1>1, <2>2, <3>3 DEF OffQueue
      <3>4. CASE r # q /\ u # q
        BY <1>1, <2>2, <3>4 DEF Separate
      <3> QED
        BY <3>1, <3>2, <3>3, <3>4
    <2> QED
      BY <1>1, <2>1, <2>2, SMTT(30) DEF Separate
  <1> QED
    BY <1>2, <1>3, <1>4, <1>5

(* A call that only answers keeps the invariant. *)
LEMMA NothingChanged ==
    ASSUME Sound, UNCHANGED <<queuetab, nextqueue, live, order>>, ret' \in Int
    PROVE  Sound'
PROOF
  <1>1. TypeOK'
    BY DEF Sound, TypeOK
  <1>2. AllLinked'
    BY DEF Sound, AllLinked
  <1>3. Separate'
    BY DEF Sound, Separate
  <1>4. QueuedAreLive'
    BY DEF Sound, QueuedAreLive
  <1> QED
    BY <1>1, <1>2, <1>3, <1>4 DEF Sound

(* enqueue(): refused with a bad argument, else the process goes last. *)
LEMMA EnqueueRefused ==
    ASSUME Sound, NEW pid, NEW q, CallEnqueue(pid, q),
           isbadqueue(q) \/ isbadpid(pid, live)
    PROVE  UNCHANGED <<queuetab, nextqueue, live, order>> /\ ret' = SYSERR
  BY DEF CallEnqueue, enqueue

LEMMA EnqueueEffect ==
    ASSUME Sound, NEW pid, NEW q \in KnownHandle, CallEnqueue(pid, q),
           ~isbadqueue(q), ~isbadpid(pid, live)
    PROVE  /\ q \in DOMAIN order /\ pid \in Pid /\ pid \in live
           /\ ~Queued(pid)
           /\ \A r \in DOMAIN order : OffQueue(pid, order[r])
           /\ queuetab' = link(queuetab, pid, queuetail(q)) /\ ret' = pid
           /\ order' = [order EXCEPT ![q] = Append(@, pid)]
           /\ UNCHANGED <<nextqueue, live>>
PROOF
  <1>1. q \in DOMAIN order
    BY StrayInputs DEF KnownHandle
  <1>2. pid \in Pid /\ pid \in live /\ pid # SYSERR
    BY TableSizes DEF isbadpid, Pid, SYSERR
  <1>3. ~Queued(pid)
    BY DEF CallEnqueue
  <1>4. \A r \in DOMAIN order : OffQueue(pid, order[r])
    BY <1>3, QueuedPlace DEF Sound
  <1> QED
    BY <1>1, <1>2, <1>3, <1>4 DEF CallEnqueue, enqueue

LEMMA EnqueueSound ==
    ASSUME Sound, NEW pid, NEW q \in KnownHandle, CallEnqueue(pid, q)
    PROVE  Sound'
PROOF
  <1>1. CASE isbadqueue(q) \/ isbadpid(pid, live)
    <2>1. UNCHANGED <<queuetab, nextqueue, live, order>> /\ ret' \in Int
      BY <1>1, EnqueueRefused DEF SYSERR
    <2> QED
      BY <2>1, NothingChanged
  <1>2. CASE ~isbadqueue(q) /\ ~isbadpid(pid, live)
    <2> DEFINE s == order[q]
               t == Append(s, pid)
    <2>1. /\ q \in DOMAIN order /\ pid \in Pid /\ pid \in live
          /\ \A r \in DOMAIN order : OffQueue(pid, order[r])
          /\ queuetab' = link(queuetab, pid, queuetail(q)) /\ ret' = pid
          /\ order' = [order EXCEPT ![q] = t]
          /\ UNCHANGED <<nextqueue, live>>
      BY <1>2, EnqueueEffect
    <2>2. /\ GoodHandle(q) /\ s \in Seq(Pid) /\ NoDuplicates(s)
          /\ Linked(queuetab, s, q) /\ OffQueue(pid, s) /\ queuetab \in QueueTab
      BY <2>1, OneQueue DEF Sound, TypeOK
    <2>3. Linked(queuetab', t, q) /\ queuetab' \in QueueTab
      BY <2>1, <2>2, LinkAppends, LinkEffect
    <2>4. \A r \in DOMAIN order : r # q => Linked(queuetab', order[r], r)
      BY <2>1, <2>2, OneQueue, QueuesApart, LinkFrame DEF Sound
    <2>5. /\ t \in Seq(Pid) /\ Len(t) = Len(s) + 1 /\ Len(s) \in Nat
          /\ \A i \in 1 .. Len(s) : t[i] = s[i]
          /\ t[Len(s) + 1] = pid
      BY <2>1, <2>2
    <2> HIDE DEF t
    <2>6. \A i \in 1 .. Len(t) : i \in 1 .. Len(s) \/ i = Len(s) + 1
      BY <2>5
    <2>7. NoDuplicates(t)
      BY <2>2, <2>5, <2>6 DEF NoDuplicates, OffQueue
    <2>8. \A i \in 1 .. Len(t) : t[i] \in live
      BY <2>1, <2>5, <2>6 DEF Sound, QueuedAreLive
    <2>9. \A i \in 1 .. Len(t) : \A r \in DOMAIN order : r # q => OffQueue(t[i], order[r])
      BY <2>1, <2>5, <2>6 DEF Sound, Separate, OffQueue
    <2>10. ret' \in Int
      BY <2>1, TableSizes DEF Pid
    <2> QED
      BY <2>1, <2>3, <2>4, <2>5, <2>7, <2>8, <2>9, <2>10, OneQueueChanged
  <1> QED
    BY <1>1, <1>2
(* remove(): refused for a bad process, no effect on one linked to itself,  *)
(* else the process leaves the place it has.                                *)
LEMMA RemoveKeepsOthers ==
    ASSUME Sound, NEW q \in DOMAIN order, NEW k \in 1 .. Len(order[q])
    PROVE  LET s   == order[q]
               new == unlink(queuetab, s[k])
           IN  /\ new \in QueueTab
               /\ Linked(new, RemoveAt(s, k), q)
               /\ RemoveAt(s, k) \in Seq(Pid) /\ NoDuplicates(RemoveAt(s, k))
               /\ OffQueue(s[k], RemoveAt(s, k))
               /\ \A r \in DOMAIN order : r # q => /\ Linked(new, order[r], r)
                                                    /\ OffQueue(s[k], order[r])
               /\ \A i \in 1 .. Len(RemoveAt(s, k)) : RemoveAt(s, k)[i] \in live
               /\ \A i \in 1 .. Len(RemoveAt(s, k)) : \A r \in DOMAIN order :
                      r # q => OffQueue(RemoveAt(s, k)[i], order[r])
PROOF
  <1> DEFINE s   == order[q]
             t   == RemoveAt(s, k)
             new == unlink(queuetab, s[k])
  <1>1. /\ GoodHandle(q) /\ s \in Seq(Pid) /\ NoDuplicates(s)
        /\ Linked(queuetab, s, q) /\ queuetab \in QueueTab
    BY OneQueue DEF Sound, TypeOK
  <1>2. new \in QueueTab /\ Linked(new, t, q)
    BY <1>1, UnlinkEffect, UnlinkRemoves
  <1>3. \A r \in DOMAIN order : r # q => Linked(new, order[r], r)
    BY <1>1, OneQueue, QueuesApart, UnlinkFrame DEF Sound
  <1>4. /\ t \in Seq(Pid) /\ Len(t) = Len(s) - 1 /\ Len(s) \in Nat
        /\ \A i \in 1 .. Len(s) - 1 : t[i] = IF i < k THEN s[i] ELSE s[i + 1]
    BY <1>1, RemoveAtElements
  <1> HIDE DEF t, new, s
  <1>5. \A i \in 1 .. Len(t) : /\ i \in 1 .. Len(s) /\ i + 1 \in 1 .. Len(s)
                               /\ i \in 1 .. Len(s) - 1
    BY <1>4
  <1>6. NoDuplicates(t) /\ OffQueue(s[k], t)
    <2> DEFINE place(i) == IF i < k THEN i ELSE i + 1
    <2>1. \A i \in 1 .. Len(t) : place(i) \in 1 .. Len(s) /\ t[i] = s[place(i)]
      BY <1>4, <1>5
    <2>2. k \in 1 .. Len(s)
      BY DEF s
    <2>3. /\ \A i, j \in 1 .. Len(t) : place(i) = place(j) => i = j
          /\ \A i \in 1 .. Len(t) : place(i) # k
      BY <1>4, <2>2
    <2> HIDE DEF place
    <2> QED
      BY <1>1, <2>1, <2>2, <2>3 DEF NoDuplicates, OffQueue
  <1>7. \A i \in 1 .. Len(t) : t[i] = s[i] \/ t[i] = s[i + 1]
    BY <1>4, <1>5
  <1>8. \A j \in 1 .. Len(s) : /\ s[j] \in live
                               /\ \A r \in DOMAIN order : r # q => OffQueue(s[j], order[r])
    BY DEF Sound, QueuedAreLive, Separate, OffQueue, s
  <1>9. /\ \A i \in 1 .. Len(t) : t[i] \in live
        /\ \A i \in 1 .. Len(t) : \A r \in DOMAIN order : r # q => OffQueue(t[i], order[r])
    BY <1>5, <1>7, <1>8
  <1> QED
    BY <1>2, <1>3, <1>4, <1>6, <1>8, <1>9 DEF t, new, s

(* The place of a queued process, as the history of remove() looks it up. *)
LEMMA PlaceOf ==
    ASSUME Sound, NEW q \in DOMAIN order, NEW k \in 1 .. Len(order[q])
    PROVE  /\ (CHOOSE i \in 1 .. Len(order[q]) : order[q][i] = order[q][k]) = k
           /\ \A r \in DOMAIN order : order[q][k] \in ToSet(order[r]) <=> r = q
PROOF
  <1>1. \A i \in 1 .. Len(order[q]) : order[q][i] = order[q][k] => i = k
    BY DEF Sound, Separate
  <1>2. ASSUME NEW r \in DOMAIN order
        PROVE  order[q][k] \in ToSet(order[r]) <=> r = q
    <2>1. order[q][k] \in ToSet(order[r])
             <=> \E i \in 1 .. Len(order[r]) : order[r][i] = order[q][k]
      BY QueuedPlace DEF Sound
    <2> QED
      BY <2>1 DEF Sound, Separate
  <1> QED
    BY <1>1, <1>2

LEMMA RemoveRefused ==
    ASSUME Sound, NEW pid, CallRemove(pid), isbadpid(pid, live) \/ ~Queued(pid)
    PROVE  /\ UNCHANGED <<queuetab, nextqueue, live, order>>
           /\ ret' = IF isbadpid(pid, live) THEN SYSERR ELSE pid
           /\ ~isbadpid(pid, live) => pid \in Pid /\ pid \in live /\ ~Queued(pid)
PROOF
  <1>1. ~Queued(pid)
    BY QueuedPlace DEF Sound, QueuedAreLive, isbadpid, TypeOK, OffQueue
  <1>2. order' = order
    BY <1>1 DEF CallRemove, Queued, Sound, TypeOK
  <1>3. queuetab' = queuetab
    BY <1>1, UnlinkSelfLinked
       DEF CallRemove, remove, isbadpid, SelfLinked, Sound, TypeOK
  <1>4. UNCHANGED <<nextqueue, live>> /\ ret' = IF isbadpid(pid, live) THEN SYSERR ELSE pid
    BY DEF CallRemove, remove
  <1> QED
    BY <1>1, <1>2, <1>3, <1>4 DEF isbadpid

LEMMA RemoveEffect ==
    ASSUME Sound, NEW pid, CallRemove(pid), ~isbadpid(pid, live), Queued(pid)
    PROVE  \E q \in DOMAIN order : \E k \in 1 .. Len(order[q]) :
              /\ order[q][k] = pid /\ pid \in Pid /\ pid \in live
              /\ queuetab' = unlink(queuetab, order[q][k]) /\ ret' = pid
              /\ order' = [order EXCEPT ![q] = RemoveAt(@, k)]
              /\ UNCHANGED <<nextqueue, live>>
PROOF
  <1>0. PICK q \in DOMAIN order : ~OffQueue(pid, order[q])
    BY QueuedPlace DEF Sound
  <1>1. PICK k \in 1 .. Len(order[q]) : order[q][k] = pid
    BY <1>0 DEF OffQueue
  <1>2. order' = [order EXCEPT ![q] = RemoveAt(@, k)]
    BY <1>1, PlaceOf DEF CallRemove, Sound, TypeOK
  <1>3. pid \in Pid /\ pid \in live
    BY DEF isbadpid
  <1> QED
    BY <1>1, <1>2, <1>3 DEF CallRemove, remove

LEMMA RemoveSound ==
    ASSUME Sound, NEW pid, CallRemove(pid)
    PROVE  Sound'
PROOF
  <1>1. CASE isbadpid(pid, live) \/ ~Queued(pid)
    <2>1. UNCHANGED <<queuetab, nextqueue, live, order>> /\ ret' \in Int
      BY <1>1, RemoveRefused, TableSizes DEF SYSERR, Pid
    <2> QED
      BY <2>1, NothingChanged
  <1>2. CASE ~isbadpid(pid, live) /\ Queued(pid)
    <2>0. PICK q \in DOMAIN order : \E k \in 1 .. Len(order[q]) :
              /\ order[q][k] = pid /\ pid \in Pid
              /\ queuetab' = unlink(queuetab, order[q][k]) /\ ret' = pid
              /\ order' = [order EXCEPT ![q] = RemoveAt(@, k)]
              /\ UNCHANGED <<nextqueue, live>>
      BY <1>2, RemoveEffect
    <2>1. PICK k \in 1 .. Len(order[q]) :
              /\ order[q][k] = pid /\ pid \in Pid
              /\ queuetab' = unlink(queuetab, order[q][k]) /\ ret' = pid
              /\ order' = [order EXCEPT ![q] = RemoveAt(@, k)]
              /\ UNCHANGED <<nextqueue, live>>
      BY <2>0
    <2>2. ret' \in Int
      BY <2>1, TableSizes DEF Pid
    <2> QED
      BY <2>1, <2>2, RemoveKeepsOthers, OneQueueChanged
  <1> QED
    BY <1>1, <1>2
(* dequeue(): refused for a bad handle, EMPTY for an empty queue, else the  *)
(* first process leaves and is linked to itself.                            *)
LEMMA DequeueRefused ==
    ASSUME Sound, NEW q \in KnownHandle, CallDequeue(q),
           isbadqueue(q) \/ order[q] = << >>
    PROVE  /\ UNCHANGED <<queuetab, nextqueue, live, order>>
           /\ ret' = IF isbadqueue(q) THEN SYSERR ELSE EMPTY
           /\ ~isbadqueue(q) => q \in DOMAIN order /\ order[q] = << >>
PROOF
  <1>1. CASE isbadqueue(q)
    BY <1>1 DEF CallDequeue, dequeue
  <1>2. CASE ~isbadqueue(q)
    <2>1. q \in DOMAIN order /\ order[q] = << >>
      BY <1>2, StrayInputs DEF KnownHandle
    <2>2. GoodHandle(q) /\ Linked(queuetab, << >>, q)
      BY <2>1, OneQueue DEF Sound
    <2>3. firstid(queuetab, q) = queuetail(q)
      BY <2>2 DEF Linked, Node, firstid
    <2>4. ~(queuetail(q) < NPROC)
      BY <2>2, TableSizes DEF GoodHandle
    <2> QED
      BY <1>2, <2>1, <2>3, <2>4 DEF CallDequeue, dequeue
  <1> QED
    BY <1>1, <1>2

LEMMA DequeueEffect ==
    ASSUME Sound, NEW q \in KnownHandle, CallDequeue(q),
           ~isbadqueue(q), order[q] # << >>
    PROVE  /\ q \in DOMAIN order /\ 1 \in 1 .. Len(order[q])
           /\ order[q][1] \in Pid /\ ret' = order[q][1]
           /\ queuetab' = selflink(unlink(queuetab, order[q][1]), order[q][1])
           /\ order' = [order EXCEPT ![q] = RemoveAt(@, 1)]
           /\ order' = [order EXCEPT ![q] = Tail(@)] /\ Head(order[q]) = order[q][1]
           /\ UNCHANGED <<nextqueue, live>>
PROOF
  <1> DEFINE s == order[q]
  <1>1. q \in DOMAIN order
    BY StrayInputs DEF KnownHandle
  <1>2. GoodHandle(q) /\ s \in Seq(Pid) /\ Linked(queuetab, s, q)
    BY <1>1, OneQueue DEF Sound
  <1>3. Tail(s) = RemoveAt(s, 1) /\ 1 \in 1 .. Len(s) /\ Head(s) = s[1] /\ s[1] \in Pid
    <2>1. s \in Seq(Pid) /\ s # << >>
      BY <1>2
    <2> HIDE DEF s
    <2>2. Tail(s) = RemoveAt(s, 1) /\ 1 \in 1 .. Len(s) /\ Head(s) = s[1]
      BY <2>1, TailIsRemoveFirst
    <2> QED
      BY <2>1, <2>2
  <1>4. s[1] \in live /\ ~isbadpid(s[1], live)
    BY <1>1, <1>3 DEF Sound, QueuedAreLive, isbadpid
  <1>5. firstid(queuetab, q) = s[1]
    BY <1>2, <1>3, Nodes DEF Linked, firstid
  <1>6. s[1] < NPROC /\ s[1] \notin {SYSERR, EMPTY}
    BY <1>3, TableSizes DEF Pid, SYSERR, EMPTY
  <1>7. /\ queuetab' = selflink(unlink(queuetab, s[1]), s[1])
        /\ ret' = s[1]
    BY <1>4, <1>5, <1>6 DEF CallDequeue, dequeue, remove, selflink
  <1>8. order' = [order EXCEPT ![q] = Tail(@)] /\ UNCHANGED <<nextqueue, live>>
    BY <1>6, <1>7 DEF CallDequeue
  <1> QED
    BY <1>1, <1>3, <1>7, <1>8

LEMMA DequeueSound ==
    ASSUME Sound, NEW q \in KnownHandle, CallDequeue(q)
    PROVE  Sound'
PROOF
  <1>1. CASE isbadqueue(q) \/ order[q] = << >>
    <2>1. UNCHANGED <<queuetab, nextqueue, live, order>> /\ ret' \in Int
      BY <1>1, DequeueRefused DEF SYSERR, EMPTY
    <2> QED
      BY <2>1, NothingChanged
  <1>2. CASE ~isbadqueue(q) /\ order[q] # << >>
    <2> DEFINE s   == order[q]
               t   == RemoveAt(s, 1)
               cut == unlink(queuetab, s[1])
    <2>1. /\ q \in DOMAIN order /\ 1 \in 1 .. Len(s) /\ s[1] \in Pid /\ ret' = s[1]
          /\ queuetab' = selflink(cut, s[1])
          /\ order' = [order EXCEPT ![q] = t]
          /\ UNCHANGED <<nextqueue, live>>
      BY <1>2, DequeueEffect
    <2>2. /\ cut \in QueueTab /\ Linked(cut, t, q) /\ t \in Seq(Pid)
          /\ NoDuplicates(t) /\ OffQueue(s[1], t)
          /\ \A r \in DOMAIN order : r # q => /\ Linked(cut, order[r], r)
                                               /\ OffQueue(s[1], order[r])
          /\ \A i \in 1 .. Len(t) : t[i] \in live
          /\ \A i \in 1 .. Len(t) : \A r \in DOMAIN order :
                 r # q => OffQueue(t[i], order[r])
      BY <2>1, RemoveKeepsOthers
    <2> HIDE DEF cut, t, s
    <2>3. \A r \in DOMAIN order : GoodHandle(r) /\ order[r] \in Seq(Pid)
      BY OneQueue DEF Sound
    <2>4. queuetab' \in QueueTab /\ Linked(queuetab', t, q)
      BY <2>1, <2>2, <2>3, SelfLinkFrame
    <2>5. \A r \in DOMAIN order : r # q => Linked(queuetab', order[r], r)
      BY <2>1, <2>2, <2>3, SelfLinkFrame
    <2>6. ret' \in Int
      BY <2>1, TableSizes DEF Pid
    <2> QED
      BY <2>1, <2>2, <2>4, <2>5, <2>6, OneQueueChanged
  <1> QED
    BY <1>1, <1>2

(* Taking a slot, or freeing that of a process in no queue. *)
LEMMA SlotSound ==
    ASSUME Sound, NEW pid \in Pid, TakeSlot(pid) \/ FreeSlot(pid)
    PROVE  Sound'
PROOF
  <1>1. UNCHANGED <<queuetab, nextqueue, ret, order>>
    BY DEF TakeSlot, FreeSlot
  <1>2. TypeOK'
    BY <1>1 DEF TakeSlot, FreeSlot, Sound, TypeOK
  <1>3. AllLinked'
    BY <1>1 DEF Sound, AllLinked
  <1>4. Separate'
    BY <1>1 DEF Sound, Separate
  <1>5. QueuedAreLive'
    <2>1. CASE TakeSlot(pid)
      BY <2>1 DEF TakeSlot, Sound, QueuedAreLive
    <2>2. CASE FreeSlot(pid)
      <3>1. \A q \in DOMAIN order : OffQueue(pid, order[q])
        BY <2>2, QueuedPlace DEF FreeSlot, Sound
      <3> QED
        BY <2>2, <3>1 DEF FreeSlot, Sound, QueuedAreLive, OffQueue
    <2> QED
      BY <2>1, <2>2
  <1> QED
    BY <1>2, <1>3, <1>4, <1>5 DEF Sound

(* Every step keeps the invariant. *)
LEMMA NextSound == Sound /\ [Next]_vars => Sound'
PROOF
  <1> SUFFICES ASSUME Sound, [Next]_vars PROVE Sound'
    OBVIOUS
  <1>1. CASE CallNewqueue /\ nextqueue <= NQENT
    BY <1>1, NewqueueSound, NewqueueBeyond
  <1>2. CASE \E pid \in Pid \cup StrayPid, q \in KnownHandle : CallEnqueue(pid, q)
    BY <1>2, EnqueueSound
  <1>3. CASE \E pid \in Pid \cup StrayPid : CallRemove(pid)
    BY <1>3, RemoveSound
  <1>4. CASE \E q \in KnownHandle : CallDequeue(q)
    BY <1>4, DequeueSound
  <1>5. CASE \E pid \in Pid : TakeSlot(pid) \/ FreeSlot(pid)
    BY <1>5, SlotSound
  <1>6. CASE UNCHANGED vars
    <2>1. UNCHANGED <<queuetab, nextqueue, live, order>> /\ ret' \in Int
      BY <1>6 DEF vars, Sound, TypeOK
    <2> QED
      BY <2>1, NothingChanged
  <1> QED
    BY <1>1, <1>2, <1>3, <1>4, <1>5, <1>6 DEF Next

(* In every reachable state the invariant holds. *)
THEOREM SoundAlways == Spec => []Sound
PROOF
  <1>1. Init => Sound
    BY InitSound
  <1>2. Sound /\ [Next]_vars => Sound'
    BY NextSound
  <1> QED
    BY <1>1, <1>2, PTL DEF Spec

(* queuetab, nextqueue and the history keep their types. *)
THEOREM TypesKept == Spec => []TypeOK
PROOF
  <1>1. Sound => TypeOK
    BY DEF Sound
  <1> QED
    BY <1>1, SoundAlways, PTL

(* However enqueue, remove, dequeue and newqueue are called, next and prev  *)
(* lead through exactly the queued processes in the order of their arrival. *)
THEOREM LinksKept == Spec => []AllLinked
PROOF
  <1>1. Sound => AllLinked
    BY DEF Sound
  <1> QED
    BY <1>1, SoundAlways, PTL

(* No two queues share an entry, and no process is queued twice. *)
THEOREM QueuesSeparate == Spec => []Separate
PROOF
  <1>1. Sound => Separate
    BY DEF Sound
  <1> QED
    BY <1>1, SoundAlways, PTL

(* No queue holds a process whose slot is free: what dequeue() hands out    *)
(* has been taken off the queue, although it ignores remove()'s answer.     *)
THEOREM QueuedStayLive == Spec => []QueuedAreLive
PROOF
  <1>1. Sound => QueuedAreLive
    BY DEF Sound
  <1> QED
    BY <1>1, SoundAlways, PTL

(***************************************************************************)
(* Refinement.                                                             *)
(***************************************************************************)
LEMMA InitRefines == Init => Fifo!Init
  BY DEF Init, Fifo!Init

LEMMA StepRefines == Sound /\ [Next]_vars => [Fifo!Next]_(Fifo!vars)
PROOF
  <1> SUFFICES ASSUME Sound, [Next]_vars PROVE [Fifo!Next]_(Fifo!vars)
    OBVIOUS
  <1> USE DEF Fifo!vars
  <1>0. \A p : Fifo!Queued(p) <=> Queued(p)
    BY DEF Fifo!Queued, Fifo!ToSet, Queued, ToSet
  <1>0a. CASE CallNewqueue /\ nextqueue <= NQENT /\ ~ (nextqueue + 2 <= NQENT)
    BY <1>0a, NewqueueBeyond
  <1>1. CASE CallNewqueue /\ nextqueue + 2 <= NQENT
    <2> DEFINE n == qid_typ(nextqueue, nextqueue + 1)
    <2>1. nextqueue \in NPROC .. NQENT - 2
      BY <1>1, TableSizes DEF CallNewqueue, Sound, TypeOK
    <2>2. queuehead(n) = nextqueue /\ nextqueue \in Entry
      BY <2>1, HandleUnpacks, TableSizes DEF Entry
    <2>3. n \notin DOMAIN order
      BY <2>1, <2>2, TableSizes DEF Sound, Separate, TypeOK
    <2>4. n \in {qid_typ(e, e + 1) : e \in Entry}
      BY <2>2
    <2> QED
      BY <1>1, <2>3, <2>4 DEF CallNewqueue, Fifo!Next, Fifo!New
  <1>2. ASSUME NEW pid, NEW q \in KnownHandle, CallEnqueue(pid, q)
        PROVE  Fifo!Refuse \/ Fifo!Insert
    <2>1. CASE isbadqueue(q) \/ isbadpid(pid, live)
      BY <1>2, <2>1, EnqueueRefused DEF Fifo!Refuse
    <2>2. CASE ~isbadqueue(q) /\ ~isbadpid(pid, live)
      BY <1>0, <1>2, <2>2, EnqueueEffect DEF Fifo!Insert
    <2> QED
      BY <2>1, <2>2
  <1>3. ASSUME NEW pid, CallRemove(pid)
        PROVE  Fifo!Refuse \/ Fifo!ExtractNone \/ Fifo!Extract
    <2>1. CASE isbadpid(pid, live)
      BY <1>3, <2>1, RemoveRefused DEF Fifo!Refuse
    <2>2. CASE ~isbadpid(pid, live) /\ ~Queued(pid)
      BY <1>0, <1>3, <2>2, RemoveRefused DEF Fifo!ExtractNone
    <2>3. CASE ~isbadpid(pid, live) /\ Queued(pid)
      BY <1>3, <2>3, RemoveEffect DEF Fifo!Extract, Fifo!RemoveAt, RemoveAt
    <2> QED
      BY <2>1, <2>2, <2>3
  <1>4. ASSUME NEW q \in KnownHandle, CallDequeue(q)
        PROVE  Fifo!Refuse \/ Fifo!TakeNone \/ Fifo!TakeFirst
    <2>1. CASE isbadqueue(q)
      BY <1>4, <2>1, DequeueRefused DEF Fifo!Refuse
    <2>2. CASE ~isbadqueue(q) /\ order[q] = << >>
      BY <1>4, <2>2, DequeueRefused DEF Fifo!TakeNone
    <2>3. CASE ~isbadqueue(q) /\ order[q] # << >>
      BY <1>4, <2>3, DequeueEffect DEF Fifo!TakeFirst
    <2> QED
      BY <2>1, <2>2, <2>3
  <1>5. ASSUME NEW pid \in Pid, TakeSlot(pid) \/ FreeSlot(pid)
        PROVE  Fifo!Live
    BY <1>0, <1>5 DEF TakeSlot, FreeSlot, Fifo!Live
  <1>6. CASE UNCHANGED vars
    BY <1>6 DEF vars
  <1> QED
    BY <1>0a, <1>1, <1>2, <1>3, <1>4, <1>5, <1>6 DEF Next, Fifo!Next

(* The linked table implements the FIFO queues of queue.h: every call has a *)
(* result and an effect that the abstract queues allow.                     *)
THEOREM ImplementsFifo == Spec => FifoSpec
PROOF
  <1>1. Init => Fifo!Init
    BY InitRefines
  <1>2. Sound /\ [Next]_vars => [Fifo!Next]_(Fifo!vars)
    BY StepRefines
  <1> QED
    BY <1>1, <1>2, SoundAlways, PTL DEF Spec, FifoSpec, Fifo!Spec
==============================================================================
