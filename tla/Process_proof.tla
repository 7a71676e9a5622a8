---------------------------- MODULE Process_proof -----------------------------
(***************************************************************************)
(* The process manager keeps its process table, its ready list, its        *)
(* quantum and its counters in step, for any number of slots, any quantum  *)
(* and any sequence of calls and ticks.                                    *)
(***************************************************************************)
EXTENDS Process, Queue_proof, FiniteSetTheorems

(* The links that enqueue() and remove() follow stay in the table. *)
Inside(qt) ==
    /\ \A e \in Pid \cup {queuehead(readylist)} : qt.next[e] \in Entry
    /\ \A e \in Pid \cup {queuetail(readylist)} : qt.prev[e] \in Entry

(* The ready list and the states agree: st are the states, ord the history  *)
(* of the list, req how often the running process was requeued.             *)
Listed(st, qt, ord, req) ==
    /\ qt \in QueueTab /\ Inside(qt)
    /\ ord \in Seq(Pid) /\ NoDuplicates(ord)
    /\ ToSet(ord) = {p \in Pid : st[p] = PRREADY} \cup (IF req > 0 THEN {currpid} ELSE {})
    /\ req < 2 => Linked(qt, ord, readylist)

(* The inductive invariant: the properties hold up one another.  That      *)
(* remove() finds its victim on the list needs ReadyListMembers, that       *)
(* resched() requeues no ready process needs OneRunning.                    *)
Kept == /\ TypeOK /\ OneRunning /\ QuantumKept /\ ClockExact
        /\ ReadyListSound /\ ReadyListMembers /\ NoWildLinks

------------------------------------------------------------------------------
(* A set of natural numbers has a least element. *)
LEMMA LeastNatural ==
    ASSUME NEW S, S \subseteq Nat, S # {}
    PROVE  Min(S) \in S /\ \A y \in S : Min(S) =< y
PROOF
  <1> DEFINE T == {0 .. x : x \in S}
             R == StrictSubsetOrdering(Nat)
  <1>1. T \subseteq FiniteSubsetsOf(Nat) /\ T # {}
    <2>1. ASSUME NEW x \in S PROVE IsFiniteSet(0 .. x) /\ 0 .. x \subseteq Nat
      BY FS_Interval
    <2> QED
      BY <2>1 DEF FiniteSubsetsOf
  <1>2. IsWellFoundedOn(R, FiniteSubsetsOf(Nat))
    BY FS_StrictSubsetOrderingWellFounded
  <1> HIDE DEF R
  <1>3. PICK t \in T : \A u \in T : ~ (<<u, t>> \in R)
    BY <1>1, <1>2, WFMin
  <1>4. PICK x \in S : t = 0 .. x
    BY <1>3
  <1>5. ASSUME NEW y \in S, y < x PROVE FALSE
    <2>1. 0 .. y \in T /\ x \in Nat /\ y \in Nat
      OBVIOUS
    <2>2. /\ 0 .. y \subseteq 0 .. x /\ x \in 0 .. x /\ x \notin 0 .. y
          /\ 0 .. y \in SUBSET Nat /\ 0 .. x \in SUBSET Nat
      BY <2>1, <1>5
    <2>3. <<0 .. y, 0 .. x>> \in R
      BY <2>2 DEF R, StrictSubsetOrdering
    <2> QED
      BY <1>3, <1>4, <2>1, <2>3
  <1>6. \A y \in S : x =< y
    BY <1>5
  <1> QED
    BY <1>6 DEF Min

LEMMA RemainderRange ==
    ASSUME NEW x \in Int, NEW n \in Nat \ {0}
    PROVE  x % n \in 0 .. n - 1
  OBVIOUS

(* newpid() answers SYSERR or a free slot. *)
LEMMA NewpidFree ==
    ASSUME nextpid \in Pid, newpid # SYSERR
    PROVE  newpid \in Pid /\ state[newpid] = PRFREE
PROOF
  <1> DEFINE free == {k \in 1 .. NPROC : state[(nextpid + k) % NPROC] = PRFREE}
  <1>1. free # {} /\ newpid = (nextpid + Min(free)) % NPROC
    BY DEF newpid
  <1>2. free \subseteq Nat
    BY TableSizes
  <1>3. Min(free) \in free
    BY <1>1, <1>2, LeastNatural
  <1>4. Min(free) \in 1 .. NPROC /\ state[newpid] = PRFREE
    BY <1>1, <1>3
  <1>5. nextpid + Min(free) \in Int
    BY <1>4, TableSizes DEF Pid
  <1> HIDE DEF free
  <1>6. NPROC \in Nat \ {0}
    BY TableSizes
  <1>7. (nextpid + Min(free)) % NPROC \in 0 .. NPROC - 1
    BY <1>5, <1>6, RemainderRange, Zenon
  <1>8. newpid \in Pid
    BY <1>1, <1>7 DEF Pid
  <1> QED
    BY <1>4, <1>8

(* The lottery answers a slot or BADPID. *)
LEMMA WinnerIsSlot ==
    ASSUME NEW st, NEW tk, NEW ticket, NEW start
    PROVE  selected_pid(st, tk, ticket, start) \in Pid \cup {BADPID}
PROOF
  <1> DEFINE stops == passed(st, tk, ticket, start)
  <1>1. stops \subseteq Pid /\ stops \subseteq Nat
    BY TableSizes DEF passed, Pid
  <1>2. stops # {} => Min(stops) \in Pid
    BY <1>1, LeastNatural
  <1> QED
    BY <1>2 DEF selected_pid

(* The ready list is the queue of the first pair of entries. *)
LEMMA ReadyHandle ==
    /\ GoodHandle(readylist) /\ ~isbadqueue(readylist)
    /\ queuehead(readylist) = NPROC /\ queuetail(readylist) = NPROC + 1
    /\ Pid \subseteq Entry /\ NPROC \in Entry /\ NPROC + 1 \in Entry
    /\ NPROC \notin Pid /\ NPROC + 1 \notin Pid /\ NPROC # NPROC + 1
PROOF
  <1>1. NPROC \in NPROC .. NQENT - 2
    BY TableSizes
  <1>2. /\ GoodHandle(readylist) /\ ~isbadqueue(readylist)
        /\ queuehead(readylist) = NPROC /\ queuetail(readylist) = NPROC + 1
    BY <1>1, HandleUnpacks DEF readylist, GoodHandle
  <1> QED
    BY <1>2, TableSizes DEF Pid, Entry

------------------------------------------------------------------------------
(* Appending a process that a sequence does not hold. *)
LEMMA AppendMember ==
    ASSUME NEW s \in Seq(Pid), NoDuplicates(s), NEW p \in Pid, p \notin ToSet(s)
    PROVE  /\ Append(s, p) \in Seq(Pid) /\ NoDuplicates(Append(s, p))
           /\ ToSet(Append(s, p)) = ToSet(s) \cup {p}
           /\ OffQueue(p, s)
PROOF
  <1> DEFINE t == Append(s, p)
  <1>1. OffQueue(p, s)
    BY DEF OffQueue, ToSet
  <1>2. /\ t \in Seq(Pid) /\ Len(t) = Len(s) + 1 /\ Len(s) \in Nat
        /\ \A i \in 1 .. Len(s) : t[i] = s[i]
        /\ t[Len(s) + 1] = p
    OBVIOUS
  <1> HIDE DEF t
  <1>3. \A i \in 1 .. Len(t) : i \in 1 .. Len(s) \/ i = Len(s) + 1
    BY <1>2
  <1>4. NoDuplicates(t)
    BY <1>1, <1>2, <1>3 DEF NoDuplicates, OffQueue
  <1>5. DOMAIN t = 1 .. Len(t) /\ DOMAIN s = 1 .. Len(s)
    BY <1>2
  <1>6. ToSet(t) \subseteq ToSet(s) \cup {p}
    BY <1>2, <1>3, <1>5 DEF ToSet
  <1>7. \A i \in 1 .. Len(s) : i \in 1 .. Len(t)
    BY <1>2
  <1>8. Len(s) + 1 \in 1 .. Len(t)
    BY <1>2
  <1>9. ToSet(s) \cup {p} \subseteq ToSet(t)
    BY <1>2, <1>5, <1>7, <1>8 DEF ToSet
  <1> QED
    BY <1>1, <1>2, <1>4, <1>6, <1>9 DEF t

(* Removing a process from the place it has. *)
LEMMA RemoveMember ==
    ASSUME NEW s \in Seq(Pid), NoDuplicates(s), NEW p \in ToSet(s)
    PROVE  LET k == CHOOSE i \in 1 .. Len(s) : s[i] = p
           IN  /\ k \in 1 .. Len(s) /\ s[k] = p
               /\ RemoveAt(s, k) \in Seq(Pid) /\ NoDuplicates(RemoveAt(s, k))
               /\ ToSet(RemoveAt(s, k)) = ToSet(s) \ {p}
PROOF
  <1> DEFINE k == CHOOSE i \in 1 .. Len(s) : s[i] = p
             t == RemoveAt(s, k)
  <1>1. \E i \in 1 .. Len(s) : s[i] = p
    BY DEF ToSet
  <1>2. k \in 1 .. Len(s) /\ s[k] = p
    BY <1>1
  <1> HIDE DEF k
  <1>3. /\ t \in Seq(Pid) /\ Len(t) = Len(s) - 1 /\ Len(s) \in Nat
        /\ \A i \in 1 .. Len(s) - 1 : t[i] = IF i < k THEN s[i] ELSE s[i + 1]
    BY <1>2, RemoveAtElements
  <1> HIDE DEF t
  <1> DEFINE from(i) == IF i < k THEN i ELSE i + 1
  <1>4. \A i \in 1 .. Len(t) : from(i) \in 1 .. Len(s) /\ from(i) # k /\ t[i] = s[from(i)]
    BY <1>2, <1>3
  <1>5. \A i, j \in 1 .. Len(t) : from(i) = from(j) => i = j
    BY <1>2, <1>3
  <1>6. ASSUME NEW j \in 1 .. Len(s), j # k
        PROVE  \E i \in 1 .. Len(t) : t[i] = s[j]
    <2>1. CASE j < k
      <3>1. j \in 1 .. Len(t) /\ t[j] = s[j]
        BY <1>2, <1>3, <2>1
      <3> QED
        BY <3>1
    <2>2. CASE j > k
      <3>1. j - 1 \in 1 .. Len(t) /\ t[j - 1] = s[j]
        BY <1>2, <1>3, <2>2
      <3> QED
        BY <3>1
    <2> QED
      BY <1>2, <1>3, <1>6, <2>1, <2>2
  <1> HIDE DEF from
  <1>7. NoDuplicates(t)
    BY <1>4, <1>5 DEF NoDuplicates
  <1>8. DOMAIN t = 1 .. Len(t) /\ DOMAIN s = 1 .. Len(s)
    BY <1>3
  <1>9. ToSet(t) \subseteq ToSet(s) \ {p}
    BY <1>2, <1>4, <1>8 DEF ToSet, NoDuplicates
  <1>10. ToSet(s) \ {p} \subseteq ToSet(t)
    BY <1>2, <1>6, <1>8 DEF ToSet
  <1> QED
    BY <1>2, <1>3, <1>7, <1>9, <1>10 DEF t, k

(* Linking and unlinking a process whose links are inside keeps them so. *)
LEMMA LinkInside ==
    ASSUME NEW qt \in QueueTab, Inside(qt), NEW p \in Pid
    PROVE  link(qt, p, queuetail(readylist)) \in QueueTab
           /\ Inside(link(qt, p, queuetail(readylist)))
PROOF
  <1> DEFINE tail == queuetail(readylist)
             new  == link(qt, p, tail)
             last == qt.prev[tail]
  <1>1. /\ p \in Entry /\ tail \in Entry /\ p # tail
        /\ queuehead(readylist) = NPROC /\ tail = NPROC + 1
    BY ReadyHandle
  <1>2. last \in Entry
    BY DEF Inside
  <1>3. /\ qt.next \in [Entry -> Entry \cup {EMPTY}]
        /\ qt.prev \in [Entry -> Entry \cup {EMPTY}]
    BY DEF QueueTab
  <1>4. [qt.prev EXCEPT ![p] = last][tail] = last
    BY <1>1, <1>3
  <1>5. /\ new.next = [[qt.next EXCEPT ![p] = tail] EXCEPT ![last] = p]
        /\ new.prev = [[qt.prev EXCEPT ![p] = last] EXCEPT ![tail] = p]
        /\ new = [next |-> new.next, prev |-> new.prev]
    BY <1>4 DEF link
  <1> HIDE DEF new, last, tail
  <1>6. new \in QueueTab
    BY <1>1, <1>2, <1>3, <1>5 DEF QueueTab
  <1>7. /\ \A e \in Entry : qt.next[e] \in Entry => new.next[e] \in Entry
        /\ \A e \in Entry : qt.prev[e] \in Entry => new.prev[e] \in Entry
    BY <1>1, <1>2, <1>3, <1>5
  <1>8. \A e \in Pid \cup {NPROC, NPROC + 1} : e \in Entry
    BY ReadyHandle
  <1> QED
    BY <1>1, <1>6, <1>7, <1>8 DEF Inside, new, tail

LEMMA UnlinkInside ==
    ASSUME NEW qt \in QueueTab, Inside(qt), NEW p \in Pid
    PROVE  unlink(qt, p) \in QueueTab /\ Inside(unlink(qt, p))
PROOF
  <1> DEFINE new  == unlink(qt, p)
             mid  == [qt.next EXCEPT ![qt.prev[p]] = qt.next[p]]
  <1>1. p \in Entry /\ qt.next[p] \in Entry /\ qt.prev[p] \in Entry
    BY ReadyHandle DEF Inside
  <1>2. /\ qt.next \in [Entry -> Entry \cup {EMPTY}]
        /\ qt.prev \in [Entry -> Entry \cup {EMPTY}]
    BY DEF QueueTab
  <1>3. mid[p] \in Entry
    BY <1>1, <1>2
  <1>4. /\ new.next = mid
        /\ new.prev = [qt.prev EXCEPT ![mid[p]] = qt.prev[p]]
        /\ new = [next |-> new.next, prev |-> new.prev]
    BY DEF unlink
  <1>5. /\ mid \in [Entry -> Entry \cup {EMPTY}]
        /\ \A e \in Entry : qt.next[e] \in Entry => mid[e] \in Entry
    BY <1>1, <1>2
  <1> HIDE DEF new, mid
  <1>6. new \in QueueTab
    BY <1>1, <1>2, <1>3, <1>4, <1>5 DEF QueueTab
  <1>7. /\ \A e \in Entry : qt.next[e] \in Entry => new.next[e] \in Entry
        /\ \A e \in Entry : qt.prev[e] \in Entry => new.prev[e] \in Entry
    BY <1>1, <1>2, <1>3, <1>4, <1>5
  <1>8. \A e \in Pid \cup {NPROC, NPROC + 1} : e \in Entry
    BY ReadyHandle
  <1> QED
    BY <1>6, <1>7, <1>8, ReadyHandle DEF Inside, new

------------------------------------------------------------------------------
(* What the invariant says of the ready list, and how it is put together    *)
(* again after a step.                                                      *)
LEMMA KeptListed == Kept => Listed(state, queuetab, order, requeued)
  BY DEF Kept, TypeOK, ReadyListSound, ReadyListMembers, NoWildLinks, Listed, Inside

LEMMA KeptAgain ==
    ASSUME TypeOK', OneRunning', QuantumKept', ClockExact', currpid' = currpid,
           Listed(state', queuetab', order', requeued')
    PROVE  Kept'
  BY DEF Kept, ReadyListSound, ReadyListMembers, NoWildLinks, Listed, Inside

(* The list does not depend on which of the other states a process is in.   *)
LEMMA SameReady ==
    ASSUME NEW st, NEW su, NEW qt, NEW ord, NEW req,
           Listed(st, qt, ord, req),
           \A p \in Pid : st[p] = PRREADY <=> su[p] = PRREADY
    PROVE  Listed(su, qt, ord, req)
PROOF
  <1>1. {p \in Pid : st[p] = PRREADY} = {p \in Pid : su[p] = PRREADY}
    OBVIOUS
  <1> QED
    BY <1>1 DEF Listed

(* A suspended process put on the ready list. *)
LEMMA SuspendedListed ==
    ASSUME Kept, NEW pid \in Pid, state[pid] = PRSUSP
    PROVE  LET st == [state EXCEPT ![pid] = PRREADY]
               qt == enqueue(queuetab, pid, readylist, Live(state)).tab
           IN  /\ st \in [Pid -> PState]
               /\ \A p \in Pid : st[p] = PRCURR <=> p = currpid
               /\ Listed(st, qt, Append(order, pid), requeued)
PROOF
  <1> DEFINE st == [state EXCEPT ![pid] = PRREADY]
             qt == enqueue(queuetab, pid, readylist, Live(state)).tab
             t  == Append(order, pid)
  <1>1. Listed(state, queuetab, order, requeued)
    BY KeptListed
  <1>2. /\ state \in [Pid -> PState] /\ currpid \in Pid
        /\ \A p \in Pid : state[p] = PRCURR <=> p = currpid
    BY DEF Kept, TypeOK, OneRunning
  <1>3. /\ st \in [Pid -> PState] /\ st[pid] = PRREADY /\ pid # currpid
        /\ \A p \in Pid : p # pid => st[p] = state[p]
        /\ \A p \in Pid : st[p] = PRCURR <=> p = currpid
    BY <1>2 DEF PState, PRREADY, PRSUSP, PRCURR
  <1>4. ~isbadpid(pid, Live(state))
    BY DEF isbadpid, Live, PRSUSP, PRFREE
  <1>5. qt = link(queuetab, pid, queuetail(readylist))
    BY <1>4, ReadyHandle DEF enqueue
  <1>6. pid \notin ToSet(order)
    BY <1>1, <1>3 DEF Listed, PRSUSP, PRREADY
  <1>7. /\ t \in Seq(Pid) /\ NoDuplicates(t) /\ OffQueue(pid, order)
        /\ ToSet(t) = ToSet(order) \cup {pid}
    BY <1>1, <1>6, AppendMember DEF Listed
  <1>8. qt \in QueueTab /\ Inside(qt)
    BY <1>1, <1>5, LinkInside DEF Listed
  <1>9. requeued < 2 => Linked(qt, t, readylist)
    BY <1>1, <1>5, <1>7, ReadyHandle, LinkAppends DEF Listed
  <1> HIDE DEF st, qt, t
  <1>10. {p \in Pid : st[p] = PRREADY} = {p \in Pid : state[p] = PRREADY} \cup {pid}
    BY <1>3
  <1>11. ToSet(t) = {p \in Pid : st[p] = PRREADY} \cup (IF requeued > 0 THEN {currpid} ELSE {})
    BY <1>1, <1>7, <1>10 DEF Listed
  <1>12. Listed(st, qt, t, requeued)
    BY <1>7, <1>8, <1>9, <1>11 DEF Listed
  <1> QED
    BY <1>3, <1>12 DEF st, qt, t

(* resched() leaves the running process running with a new quantum, and the *)
(* ready list as good as it found it, or requeued is counted up to two.     *)
LEMMA ReschedKeeps ==
    ASSUME TypeOK, NEW st \in [Pid -> PState], NEW qt, NEW ord,
           \A p \in Pid : st[p] = PRCURR => p = currpid, st[currpid] # PRREADY,
           Listed(st, qt, ord, requeued),
           resched(st, qt, ord)
    PROVE  /\ state' = [st EXCEPT ![currpid] = PRCURR]
           /\ currpid' = currpid /\ preempt' = QUANTUM /\ held' = 0
           /\ draw'.winner \in Pid \cup {BADPID}
           /\ requeued' \in 0 .. 2
           /\ Listed(state', queuetab', order', requeued')
PROOF
  <1> DEFINE ready == IF st[currpid] = PRCURR THEN [st EXCEPT ![currpid] = PRREADY] ELSE st
  <1>1. currpid \in Pid /\ requeued \in 0 .. 2
    BY DEF TypeOK
  <1>2. /\ state' = [ready EXCEPT ![currpid] = PRCURR]
        /\ currpid' = currpid /\ preempt' = QUANTUM /\ held' = 0
    BY DEF resched
  <1>3. state' = [st EXCEPT ![currpid] = PRCURR]
    BY <1>1, <1>2
  <1> HIDE DEF ready
  <1>4. draw'.winner \in Pid \cup {BADPID}
    <2>1. PICK ticket, start : draw'.winner = selected_pid(ready, tickets, ticket, start)
      BY DEF resched, ready
    <2> QED
      BY <2>1, WinnerIsSlot
  <1>5. Listed(state', qt, ord, requeued)
    <2>1. \A p \in Pid : st[p] = PRREADY <=> state'[p] = PRREADY
      BY <1>1, <1>3 DEF PRREADY, PRCURR
    <2> QED
      BY <2>1, SameReady
  <1>6. CASE st[currpid] # PRCURR
    <2>1. queuetab' = qt /\ order' = ord /\ requeued' = requeued
      BY <1>6 DEF resched
    <2> QED
      BY <1>1, <1>2, <1>3, <1>4, <1>5, <2>1
  <1>7. CASE st[currpid] = PRCURR
    <2>1. ~isbadpid(currpid, Live(ready))
      BY <1>1, <1>7 DEF isbadpid, Live, PRREADY, PRFREE, ready
    <2>2. queuetab' = enqueue(qt, currpid, readylist, Live(ready)).tab
      BY <1>7 DEF resched, ready
    <2>3. queuetab' = link(qt, currpid, queuetail(readylist))
      BY <2>1, <2>2, ReadyHandle DEF enqueue
    <2>4. queuetab' \in QueueTab /\ Inside(queuetab')
      BY <1>1, <1>5, <2>3, LinkInside DEF Listed
    <2>5. CASE requeued = 0
      <3>1. order' = Append(ord, currpid) /\ requeued' = 1
        BY <1>7, <2>5 DEF resched
      <3>2. currpid \notin ToSet(ord)
        BY <2>5 DEF Listed
      <3>3. /\ order' \in Seq(Pid) /\ NoDuplicates(order') /\ OffQueue(currpid, ord)
            /\ ToSet(order') = ToSet(ord) \cup {currpid}
        BY <1>1, <1>5, <3>1, <3>2, AppendMember DEF Listed
      <3>4. Linked(queuetab', order', readylist)
        BY <1>1, <1>5, <2>3, <2>5, <3>1, <3>3, ReadyHandle, LinkAppends DEF Listed
      <3>5. ToSet(ord) = {p \in Pid : state'[p] = PRREADY}
        BY <1>5, <2>5 DEF Listed
      <3>6. ToSet(order') = {p \in Pid : state'[p] = PRREADY}
                            \cup (IF requeued' > 0 THEN {currpid} ELSE {})
        BY <3>1, <3>3, <3>5
      <3>7. Listed(state', queuetab', order', requeued')
        BY <2>4, <3>3, <3>4, <3>6 DEF Listed
      <3>8. requeued' \in 0 .. 2
        BY <3>1
      <3> QED
        BY <1>2, <1>3, <1>4, <3>7, <3>8
    <2>6. CASE requeued > 0
      <3>1. order' = ord /\ requeued' = 2
        BY <1>1, <1>7, <2>6 DEF resched
      <3>2. ToSet(order') = {p \in Pid : state'[p] = PRREADY}
                            \cup (IF requeued' > 0 THEN {currpid} ELSE {})
        BY <1>5, <2>6, <3>1 DEF Listed
      <3>3. Listed(state', queuetab', order', requeued')
        BY <1>5, <2>4, <3>1, <3>2 DEF Listed
      <3>4. requeued' \in 0 .. 2
        BY <3>1
      <3> QED
        BY <1>2, <1>3, <1>4, <3>3, <3>4
    <2> QED
      BY <1>1, <2>5, <2>6
  <1> QED
    BY <1>6, <1>7

------------------------------------------------------------------------------
(* The variables that neither resched() nor the ready list touches.         *)
OtherTypes == /\ tickets \in [Pid -> Nat] /\ numproc \in Int /\ nextpid \in Pid
              /\ clkticks \in Nat /\ clktime \in Nat /\ ticks \in Nat
              /\ freepages \in 0 .. PAGES /\ halted \in BOOLEAN
              /\ suicides \in Nat /\ waited \in [Pid -> Nat]

(* A call that ends in resched() keeps the invariant. *)
LEMMA AfterResched ==
    ASSUME Kept, NEW st \in [Pid -> PState], NEW qt, NEW ord,
           \A p \in Pid : st[p] = PRCURR => p = currpid, st[currpid] # PRREADY,
           Listed(st, qt, ord, requeued),
           resched(st, qt, ord), OtherTypes', ClockExact'
    PROVE  Kept'
PROOF
  <1>1. /\ state' = [st EXCEPT ![currpid] = PRCURR]
        /\ currpid' = currpid /\ preempt' = QUANTUM /\ held' = 0
        /\ draw'.winner \in Pid \cup {BADPID}
        /\ requeued' \in 0 .. 2
        /\ Listed(state', queuetab', order', requeued')
    BY ReschedKeeps DEF Kept
  <1>2. currpid \in Pid
    BY DEF Kept, TypeOK
  <1>3. state' \in [Pid -> PState]
    BY <1>1, <1>2 DEF PState, PRCURR
  <1>4. preempt' \in 0 .. ULONG - 1 /\ held' \in Nat
    BY <1>1, ProcessSizes
  <1>5. TypeOK'
    BY <1>1, <1>2, <1>3, <1>4 DEF TypeOK, OtherTypes, Listed
  <1>6. OneRunning'
    BY <1>1, <1>2 DEF OneRunning
  <1>7. QuantumKept'
    BY <1>1, ProcessSizes DEF QuantumKept
  <1> QED
    BY <1>1, <1>5, <1>6, <1>7, KeptAgain

(* The states as they are can be handed to resched(). *)
LEMMA StatesAsTheyAre ==
    ASSUME Kept
    PROVE  /\ state \in [Pid -> PState] /\ currpid \in Pid
           /\ \A p \in Pid : state[p] = PRCURR <=> p = currpid
           /\ state[currpid] # PRREADY
           /\ Listed(state, queuetab, order, requeued)
           /\ OtherTypes /\ ClockExact
PROOF
  <1>1. /\ state \in [Pid -> PState] /\ currpid \in Pid
        /\ \A p \in Pid : state[p] = PRCURR <=> p = currpid
    BY DEF Kept, TypeOK, OneRunning
  <1>2. state[currpid] # PRREADY
    BY <1>1 DEF PRCURR, PRREADY
  <1>3. OtherTypes /\ ClockExact
    BY DEF Kept, TypeOK, OtherTypes
  <1> QED
    BY <1>1, <1>2, <1>3, KeptListed

(* A call that leaves the list, the running process and its quantum alone,  *)
(* and every process that is running or ready.                              *)
LEMMA ListUntouched ==
    ASSUME Kept, state' \in [Pid -> PState], OtherTypes',
           \A p \in Pid : /\ state[p] = PRREADY <=> state'[p] = PRREADY
                          /\ state[p] = PRCURR <=> state'[p] = PRCURR,
           UNCHANGED <<queuetab, currpid, preempt, clock, draw, order, requeued, held>>
    PROVE  Kept'
PROOF
  <1>1. TypeOK'
    BY DEF Kept, TypeOK, OtherTypes, clock
  <1>2. OneRunning'
    BY StatesAsTheyAre DEF OneRunning
  <1>3. QuantumKept' /\ ClockExact'
    BY DEF Kept, QuantumKept, ClockExact, clock
  <1>4. Listed(state', queuetab', order', requeued')
    BY KeptListed, SameReady
  <1> QED
    BY <1>1, <1>2, <1>3, <1>4, KeptAgain

(* The program starts with an empty ready list and the first process.       *)
LEMMA InitKept == Init => Kept
PROOF
  <1> SUFFICES ASSUME Init PROVE Kept
    OBVIOUS
  <1>1. NULLPROC \in Pid /\ 0 \in Pid
    BY TableSizes DEF Pid, NULLPROC
  <1>2. queuetab \in QueueTab /\ Linked(queuetab, << >>, readylist)
    <2>1. ClearedTab \in QueueTab
      BY TableSizes DEF ClearedTab, QueueTab, Entry
    <2>2. NPROC \in NPROC .. NQENT - 2
      BY TableSizes
    <2> QED
      BY <2>1, <2>2, NewqueueLinks DEF Init, readylist
  <1>3. Inside(queuetab)
    <2>1. \A e \in Entry : e # NPROC /\ e # NPROC + 1 =>
             queuetab.next[e] = 0 /\ queuetab.prev[e] = 0
      <3>1. NPROC \in NPROC .. NQENT - 2 /\ ClearedTab \in QueueTab
        BY TableSizes DEF ClearedTab, QueueTab, Entry
      <3>2. \A e \in Entry : ClearedTab.next[e] = 0 /\ ClearedTab.prev[e] = 0
        BY DEF ClearedTab
      <3> QED
        BY <3>1, <3>2, NewqueueLinks DEF Init
    <2>2. queuetab.next[NPROC] = NPROC + 1 /\ queuetab.prev[NPROC + 1] = NPROC
      BY ReadyHandle DEF Init, newqueue, ClearedTab
    <2>3. 0 \in Entry /\ \A e \in Pid : e # NPROC /\ e # NPROC + 1
      BY <1>1, ReadyHandle
    <2> QED
      BY <2>1, <2>2, <2>3, ReadyHandle DEF Inside
  <1>4. /\ state \in [Pid -> PState]
        /\ \A p \in Pid : state[p] = PRCURR <=> p = currpid
        /\ \A p \in Pid : state[p] # PRREADY
    BY <1>1 DEF Init, PState, PRCURR, PRFREE, PRREADY
  <1>5. TypeOK
    <2>1. preempt \in 0 .. ULONG - 1 /\ freepages \in 0 .. PAGES
      BY ProcessSizes DEF Init
    <2>2. order \in Seq(Pid)
      BY DEF Init
    <2> QED
      BY <1>1, <1>2, <1>4, <2>1, <2>2 DEF Init, TypeOK
  <1>6. OneRunning
    BY <1>1, <1>4 DEF OneRunning, Init
  <1>7. QuantumKept /\ ClockExact
    BY ProcessSizes DEF Init, QuantumKept, ClockExact
  <1>8. order = << >> /\ requeued = 0
    BY DEF Init
  <1>9. ReadyListMembers
    BY <1>4, <1>8 DEF ReadyListMembers, NoDuplicates, ToSet
  <1> QED
    BY <1>2, <1>3, <1>5, <1>6, <1>7, <1>8, <1>9
       DEF Kept, ReadyListSound, NoWildLinks, Inside

------------------------------------------------------------------------------
(* Each operation keeps the invariant: create() in its three outcomes. *)
LEMMA CreateKept ==
    ASSUME Kept, \/ CreateRefused \/ CreateFaults
                 \/ \E priority \in Priorities : CreateDone(priority)
    PROVE  Kept'
PROOF
  <1>1. OtherTypes /\ state \in [Pid -> PState] /\ nextpid \in Pid
    BY StatesAsTheyAre DEF OtherTypes
  <1>2. newpid # SYSERR => newpid \in Pid /\ state[newpid] = PRFREE
    BY <1>1, NewpidFree
  <1>3. CASE CreateRefused
    <2>1. OtherTypes'
      BY <1>1, <1>2, <1>3, ProcessSizes DEF OtherTypes, CreateRefused, clock, history
    <2> QED
      BY <1>1, <1>3, <2>1, ListUntouched DEF CreateRefused, history
  <1>4. CASE CreateFaults
    <2>1. OtherTypes'
      BY <1>1, <1>2, <1>4, ProcessSizes DEF OtherTypes, CreateFaults, clock, history
    <2> QED
      BY <1>1, <1>4, <2>1, ListUntouched DEF CreateFaults, history
  <1>5. ASSUME NEW priority \in Priorities, CreateDone(priority)
        PROVE  Kept'
    <2>1. newpid \in Pid /\ state[newpid] = PRFREE
      BY <1>2, <1>5 DEF CreateDone
    <2>2. /\ state' \in [Pid -> PState]
          /\ \A p \in Pid : /\ state[p] = PRREADY <=> state'[p] = PRREADY
                            /\ state[p] = PRCURR <=> state'[p] = PRCURR
      BY <1>1, <1>5, <2>1 DEF CreateDone, PState, PRFREE, PRSUSP, PRREADY, PRCURR
    <2>3. freepages' \in 0 .. PAGES /\ numproc' \in Int /\ nextpid' \in Pid
      BY <1>1, <1>5, <2>1, ProcessSizes DEF CreateDone, OtherTypes
    <2>4. tickets' \in [Pid -> Nat]
      BY <1>1, <1>5, <2>1, ProcessSizes DEF CreateDone, OtherTypes
    <2>5. waited' \in [Pid -> Nat]
      BY <1>1, <1>5 DEF CreateDone, OtherTypes
    <2>6. OtherTypes'
      BY <1>1, <1>5, <2>3, <2>4, <2>5 DEF CreateDone, OtherTypes, clock
    <2> QED
      BY <1>5, <2>2, <2>6, ListUntouched DEF CreateDone
  <1> QED
    BY <1>3, <1>4, <1>5

(* ready(), with and without resched(). *)
LEMMA ReadyKept ==
    ASSUME Kept, NEW pid \in Pid, ReadyOnly(pid) \/ ReadyResched(pid)
    PROVE  Kept'
PROOF
  <1> DEFINE st == [state EXCEPT ![pid] = PRREADY]
             qt == enqueue(queuetab, pid, readylist, Live(state)).tab
             t  == Append(order, pid)
  <1>1. state[pid] = PRSUSP
    BY DEF ReadyOnly, ReadyResched
  <1>2. /\ st \in [Pid -> PState]
        /\ \A p \in Pid : st[p] = PRCURR <=> p = currpid
        /\ Listed(st, qt, t, requeued)
    BY <1>1, SuspendedListed
  <1>3. OtherTypes' /\ ClockExact'
    BY StatesAsTheyAre DEF ReadyOnly, ReadyResched, OtherTypes, ClockExact, clock
  <1>4. CASE ReadyResched(pid)
    <2>1. resched(st, qt, t)
      BY <1>4 DEF ReadyResched
    <2>2. st[currpid] # PRREADY
      BY <1>2, StatesAsTheyAre DEF PRCURR, PRREADY
    <2> HIDE DEF st, qt, t
    <2> QED
      BY <1>2, <1>3, <2>1, <2>2, AfterResched
  <1>5. CASE ReadyOnly(pid)
    <2>1. /\ state' = st /\ queuetab' = qt /\ order' = t
          /\ UNCHANGED <<currpid, preempt, clock, draw, requeued, held>>
      BY <1>5 DEF ReadyOnly
    <2> HIDE DEF st, qt, t
    <2>2. TypeOK'
      BY <1>2, <1>3, <2>1 DEF Kept, TypeOK, OtherTypes, Listed
    <2>3. OneRunning'
      BY <1>2, <2>1, StatesAsTheyAre DEF OneRunning
    <2>4. QuantumKept'
      BY <2>1 DEF Kept, QuantumKept
    <2>5. Listed(state', queuetab', order', requeued')
      BY <1>2, <2>1
    <2> QED
      BY <1>3, <2>1, <2>2, <2>3, <2>4, <2>5, KeptAgain
  <1> QED
    BY <1>4, <1>5

(* kill() of the running process. *)
LEMMA KillRunningKept ==
    ASSUME Kept, NEW pid \in Pid, KillRunning(pid)
    PROVE  Kept'
PROOF
  <1> DEFINE st == [state EXCEPT ![pid] = PRFREE]
  <1>1. pid = currpid /\ state \in [Pid -> PState]
    BY StatesAsTheyAre DEF KillRunning
  <1>2. /\ st \in [Pid -> PState] /\ st[currpid] # PRREADY
        /\ \A p \in Pid : st[p] = PRCURR => p = currpid
        /\ \A p \in Pid : state[p] = PRREADY <=> st[p] = PRREADY
    BY <1>1, StatesAsTheyAre DEF PState, PRFREE, PRREADY, PRCURR
  <1>3. Listed(st, queuetab, order, requeued)
    BY <1>2, KeptListed, SameReady
  <1>4. OtherTypes' /\ ClockExact'
    BY StatesAsTheyAre DEF KillRunning, OtherTypes, ClockExact, clock
  <1>5. resched(st, queuetab, order)
    BY DEF KillRunning
  <1> HIDE DEF st
  <1> QED
    BY <1>2, <1>3, <1>4, <1>5, AfterResched

(* kill() of a ready process: remove() finds it on the list. *)
LEMMA KillReadyKept ==
    ASSUME Kept, NEW pid \in Pid, KillReady(pid)
    PROVE  Kept'
PROOF
  <1> DEFINE k == CHOOSE i \in 1 .. Len(order) : order[i] = pid
             t == RemoveAt(order, k)
  <1>1. Listed(state, queuetab, order, requeued)
    BY KeptListed
  <1>2. /\ state[pid] = PRREADY /\ pid # currpid /\ state \in [Pid -> PState]
        /\ state' = [state EXCEPT ![pid] = PRFREE]
        /\ order' = t
        /\ UNCHANGED <<currpid, preempt, clock, draw, requeued, held>>
    BY StatesAsTheyAre DEF KillReady
  <1>3. pid \in ToSet(order)
    BY <1>1, <1>2 DEF Listed
  <1>4. /\ k \in 1 .. Len(order) /\ order[k] = pid
        /\ t \in Seq(Pid) /\ NoDuplicates(t) /\ ToSet(t) = ToSet(order) \ {pid}
    BY <1>1, <1>3, RemoveMember DEF Listed
  <1>5. queuetab' = unlink(queuetab, pid)
    <2>1. ~isbadpid(pid, Live(state))
      BY <1>2 DEF isbadpid, Live, PRREADY, PRFREE
    <2> QED
      BY <2>1 DEF KillReady, remove
  <1>6. queuetab' \in QueueTab /\ Inside(queuetab')
    BY <1>1, <1>5, UnlinkInside DEF Listed
  <1> HIDE DEF k
  <1>7. requeued < 2 => Linked(queuetab', t, readylist)
    BY <1>1, <1>4, <1>5, ReadyHandle, UnlinkRemoves DEF Listed
  <1> HIDE DEF t
  <1>8. /\ state' \in [Pid -> PState]
        /\ \A p \in Pid : p # pid => state'[p] = state[p]
        /\ state'[pid] = PRFREE
    BY <1>2 DEF PState
  <1>9. {p \in Pid : state'[p] = PRREADY} = {p \in Pid : state[p] = PRREADY} \ {pid}
    BY <1>8 DEF PRFREE, PRREADY
  <1>10. ToSet(t) = {p \in Pid : state'[p] = PRREADY}
                    \cup (IF requeued > 0 THEN {currpid} ELSE {})
    BY <1>1, <1>2, <1>4, <1>9 DEF Listed
  <1>11. Listed(state', queuetab', order', requeued')
    BY <1>2, <1>4, <1>6, <1>7, <1>10 DEF Listed
  <1>12. OtherTypes' /\ ClockExact'
    <2>1. /\ UNCHANGED <<tickets, nextpid, clock, freepages, halted, suicides, waited>>
          /\ numproc' = numproc - 1
      BY DEF KillReady
    <2> QED
      BY <2>1, StatesAsTheyAre DEF OtherTypes, ClockExact, clock
  <1>13. TypeOK'
    BY <1>2, <1>4, <1>6, <1>8, <1>12 DEF Kept, TypeOK, OtherTypes
  <1>14. OneRunning'
    BY <1>2, <1>8, StatesAsTheyAre DEF OneRunning, PRFREE, PRCURR
  <1>15. QuantumKept'
    BY <1>2 DEF Kept, QuantumKept
  <1> QED
    BY <1>2, <1>11, <1>12, <1>13, <1>14, <1>15, KeptAgain

(* kill() of a suspended process. *)
LEMMA KillSuspendedKept ==
    ASSUME Kept, NEW pid \in Pid, KillSuspended(pid)
    PROVE  Kept'
PROOF
  <1>1. /\ state' \in [Pid -> PState]
        /\ \A p \in Pid : /\ state[p] = PRREADY <=> state'[p] = PRREADY
                          /\ state[p] = PRCURR <=> state'[p] = PRCURR
    BY StatesAsTheyAre DEF KillSuspended, PState, PRFREE, PRSUSP, PRREADY, PRCURR
  <1>2. OtherTypes'
    BY StatesAsTheyAre DEF KillSuspended, OtherTypes, clock, history
  <1> QED
    BY <1>1, <1>2, ListUntouched DEF KillSuspended, history

LEMMA YieldKept == Kept /\ Yield => Kept'
PROOF
  <1> SUFFICES ASSUME Kept, Yield PROVE Kept'
    OBVIOUS
  <1>1. OtherTypes' /\ ClockExact'
    BY StatesAsTheyAre DEF Yield, OtherTypes, ClockExact, clock
  <1>2. resched(state, queuetab, order)
    BY DEF Yield
  <1> QED
    BY <1>1, <1>2, StatesAsTheyAre, AfterResched

(* The clock: the carry into the seconds, and the countdown that stays      *)
(* above zero until the tick that calls resched().                          *)
LEMMA CarryArithmetic ==
    ASSUME NEW a \in Nat, NEW b \in Nat PROVE (a + 1) * b = a * b + b
  OBVIOUS

LEMMA NoWrap == ASSUME NEW n \in Nat, NEW x \in 0 .. n - 1 PROVE x % n = x
  OBVIOUS

LEMMA AdvanceExact ==
    ASSUME Kept, AdvanceClock
    PROVE  /\ clkticks' \in Nat /\ clktime' \in Nat /\ ticks' \in Nat
           /\ ClockExact'
PROOF
  <1>1. /\ clkticks \in Nat /\ clktime \in Nat /\ ticks \in Nat
        /\ clkticks < CLKTICKS_PER_SEC /\ CLKTICKS_PER_SEC \in Nat
        /\ ticks = clktime * CLKTICKS_PER_SEC + clkticks
        /\ ticks' = ticks + 1
    BY ProcessSizes DEF Kept, TypeOK, ClockExact, AdvanceClock
  <1>2. CASE clkticks + 1 = CLKTICKS_PER_SEC
    <2>1. clktime' = clktime + 1 /\ clkticks' = 0
      BY <1>2 DEF AdvanceClock
    <2>2. (clktime + 1) * CLKTICKS_PER_SEC = clktime * CLKTICKS_PER_SEC + CLKTICKS_PER_SEC
      BY <1>1, CarryArithmetic
    <2>3. clktime * CLKTICKS_PER_SEC \in Nat
      BY <1>1
    <2> QED
      BY <1>1, <1>2, <2>1, <2>2, <2>3 DEF ClockExact
  <1>3. CASE clkticks + 1 # CLKTICKS_PER_SEC
    <2>1. clktime' = clktime /\ clkticks' = clkticks + 1
      BY <1>3 DEF AdvanceClock
    <2>2. clktime * CLKTICKS_PER_SEC \in Nat
      BY <1>1
    <2> QED
      BY <1>1, <1>3, <2>1, <2>2 DEF ClockExact
  <1> QED
    BY <1>2, <1>3

LEMMA TickKept ==
    ASSUME Kept, TickRuns \/ TickPreempts
    PROVE  Kept'
PROOF
  <1>1. /\ clkticks' \in Nat /\ clktime' \in Nat /\ ticks' \in Nat
        /\ ClockExact'
    BY AdvanceExact DEF TickRuns, TickPreempts
  <1>2. OtherTypes'
    BY <1>1, StatesAsTheyAre DEF OtherTypes, TickRuns, TickPreempts
  <1>3. CASE TickPreempts
    <2>1. resched(state, queuetab, order)
      BY <1>3 DEF TickPreempts
    <2> QED
      BY <1>1, <1>2, <2>1, StatesAsTheyAre, AfterResched
  <1>4. CASE TickRuns
    <2>1. /\ held \in Nat /\ held < QUANTUM /\ preempt = QUANTUM - held
          /\ QUANTUM \in Nat /\ ULONG \in Nat /\ QUANTUM < ULONG
      BY ProcessSizes DEF Kept, TypeOK, QuantumKept
    <2>2. preempt - 1 \in 0 .. ULONG - 1
      BY <2>1
    <2>3. countdown = preempt - 1
      BY <2>1, <2>2, NoWrap DEF countdown
    <2>4. /\ preempt' = preempt - 1 /\ preempt - 1 > 0 /\ held' = held + 1
          /\ UNCHANGED <<state, queuetab, currpid, draw, order, requeued>>
      BY <1>4, <2>3 DEF TickRuns
    <2>5. QuantumKept' /\ held' \in Nat /\ preempt' \in 0 .. ULONG - 1
      BY <2>1, <2>2, <2>4 DEF QuantumKept
    <2>6. TypeOK'
      BY <1>2, <2>4, <2>5 DEF Kept, TypeOK, OtherTypes
    <2>7. OneRunning'
      BY <2>4 DEF Kept, OneRunning
    <2>8. Listed(state', queuetab', order', requeued')
      BY <2>4, KeptListed
    <2> QED
      BY <1>1, <2>4, <2>5, <2>6, <2>7, <2>8, KeptAgain
  <1> QED
    BY <1>3, <1>4

LEMMA NextKept == Kept /\ [Next]_vars => Kept'
PROOF
  <1> SUFFICES ASSUME Kept, [Next]_vars PROVE Kept'
    OBVIOUS
  <1>1. CASE \/ CreateRefused \/ CreateFaults
             \/ \E priority \in Priorities : CreateDone(priority)
    BY <1>1, CreateKept
  <1>2. CASE \E pid \in Pid : ReadyOnly(pid) \/ ReadyResched(pid)
    BY <1>2, ReadyKept
  <1>3. CASE \E pid \in Pid : KillRunning(pid) \/ KillReady(pid) \/ KillSuspended(pid)
    BY <1>3, KillRunningKept, KillReadyKept, KillSuspendedKept
  <1>4. CASE Yield
    BY <1>4, YieldKept
  <1>5. CASE TickRuns \/ TickPreempts
    BY <1>5, TickKept
  <1>6. CASE UNCHANGED vars
    <2>1. OtherTypes' /\ state' \in [Pid -> PState]
      BY <1>6, StatesAsTheyAre DEF vars, OtherTypes
    <2> QED
      BY <1>6, <2>1, ListUntouched DEF vars, clock
  <1> QED
    BY <1>1, <1>2, <1>3, <1>4, <1>5, <1>6 DEF Next

------------------------------------------------------------------------------
(* The invariant holds at every step of every run. *)
THEOREM KeptAlways == Spec => []Kept
  BY InitKept, NextKept, PTL DEF Spec

(* Every variable of the process manager keeps its type: no call stores a   *)
(* state, an id or a link that is none.                                     *)
THEOREM TypesKept == Spec => []TypeOK
PROOF
  <1>1. Kept => TypeOK
    BY DEF Kept
  <1> QED
    BY <1>1, KeptAlways, PTL

(* Between two calls one process is running, the one currpid names. *)
THEOREM RunningIsOne == Spec => []OneRunning
PROOF
  <1>1. Kept => OneRunning
    BY DEF Kept
  <1> QED
    BY <1>1, KeptAlways, PTL

(* No process runs for QUANTUM ticks without a call of resched(), and       *)
(* preempt never counts down through zero.                                  *)
THEOREM QuantumIsKept == Spec => []QuantumKept
PROOF
  <1>1. Kept => QuantumKept
    BY DEF Kept
  <1> QED
    BY <1>1, KeptAlways, PTL

(* The clock loses no tick when it carries into the seconds. *)
THEOREM ClockIsExact == Spec => []ClockExact
PROOF
  <1>1. Kept => ClockExact
    BY DEF Kept
  <1> QED
    BY <1>1, KeptAlways, PTL

(* Until the running process is requeued a second time the ready list is    *)
(* well linked in the order in which the processes became ready.            *)
THEOREM ReadyListIsSound == Spec => []ReadyListSound
PROOF
  <1>1. Kept => ReadyListSound
    BY DEF Kept
  <1> QED
    BY <1>1, KeptAlways, PTL

(* The list was given the ready processes and, once requeued, the running   *)
(* one: kill() leaves no free slot on it.                                   *)
THEOREM ReadyListIsReady == Spec => []ReadyListMembers
PROOF
  <1>1. Kept => ReadyListMembers
    BY DEF Kept
  <1> QED
    BY <1>1, KeptAlways, PTL

(* No link that enqueue() and remove() use as an index leads out of the     *)
(* queue table, not even after requeuing has spoilt the ready list.         *)
THEOREM LinksStayInside == Spec => []NoWildLinks
PROOF
  <1>1. Kept => NoWildLinks
    BY DEF Kept
  <1> QED
    BY <1>1, KeptAlways, PTL

------------------------------------------------------------------------------
(* What a step does to the state of a slot. *)
LEMMA StepOfStates ==
    ASSUME Kept, Next
    PROVE  \/ state' = state
           \/ newpid \in Pid /\ state[newpid] = PRFREE /\ state' = [state EXCEPT ![newpid] = PRSUSP]
           \/ \E pid \in Pid : state[pid] = PRSUSP /\ state' = [state EXCEPT ![pid] = PRREADY]
           \/ \E pid \in Pid : /\ state[pid] \in {PRSUSP, PRREADY}
                               /\ state' = [state EXCEPT ![pid] = PRFREE]
PROOF
  <1>1. /\ state \in [Pid -> PState] /\ currpid \in Pid /\ state[currpid] = PRCURR
        /\ \A p \in Pid : state[p] = PRCURR <=> p = currpid
        /\ nextpid \in Pid
    BY StatesAsTheyAre DEF OtherTypes
  <1>2. ASSUME NEW qt, NEW ord, resched(state, qt, ord)
        PROVE  state' = state
    BY <1>1, <1>2 DEF resched
  <1>3. CASE CreateRefused \/ CreateFaults
    BY <1>3 DEF CreateRefused, CreateFaults
  <1>4. CASE \E priority \in Priorities : CreateDone(priority)
    <2>1. newpid # SYSERR /\ state' = [state EXCEPT ![newpid] = PRSUSP]
      BY <1>4 DEF CreateDone
    <2> QED
      BY <1>1, <2>1, NewpidFree
  <1>5. ASSUME NEW pid \in Pid, ReadyOnly(pid)
        PROVE  state[pid] = PRSUSP /\ state' = [state EXCEPT ![pid] = PRREADY]
    BY <1>5 DEF ReadyOnly
  <1>6. ASSUME NEW pid \in Pid, ReadyResched(pid)
        PROVE  state[pid] = PRSUSP /\ state' = [state EXCEPT ![pid] = PRREADY]
    <2> DEFINE st == [state EXCEPT ![pid] = PRREADY]
    <2>1. /\ state[pid] = PRSUSP /\ pid # currpid
          /\ st[currpid] = PRCURR /\ st \in [Pid -> PState]
      BY <1>1, <1>6 DEF ReadyResched, PRSUSP, PRCURR, PRREADY, PState
    <2>2. PICK qt, ord : resched(st, qt, ord)
      BY <1>6 DEF ReadyResched
    <2> HIDE DEF st
    <2>3. state' = [[st EXCEPT ![currpid] = PRREADY] EXCEPT ![currpid] = PRCURR]
      BY <2>1, <2>2 DEF resched
    <2>4. state' = st
      BY <1>1, <2>1, <2>3
    <2> QED
      BY <2>1, <2>4 DEF st
  <1>7. ASSUME NEW pid \in Pid, KillRunning(pid)
        PROVE  state' = state
    <2> DEFINE st == [state EXCEPT ![pid] = PRFREE]
    <2>1. pid = currpid /\ st[currpid] = PRFREE
      BY <1>1, <1>7 DEF KillRunning
    <2>2. resched(st, queuetab, order)
      BY <1>7 DEF KillRunning
    <2>3. state' = [st EXCEPT ![currpid] = PRCURR]
      BY <2>1, <2>2 DEF resched, PRFREE, PRCURR
    <2> QED
      BY <1>1, <2>1, <2>3
  <1>8. ASSUME NEW pid \in Pid, KillReady(pid) \/ KillSuspended(pid)
        PROVE  state[pid] \in {PRSUSP, PRREADY} /\ state' = [state EXCEPT ![pid] = PRFREE]
    BY <1>8 DEF KillReady, KillSuspended
  <1>9. CASE Yield \/ TickRuns \/ TickPreempts
    BY <1>2, <1>9 DEF Yield, TickRuns, TickPreempts
  <1> QED
    BY <1>3, <1>4, <1>5, <1>6, <1>7, <1>8, <1>9 DEF Next

(* The life of a slot is free, suspended, ready, free: resched() runs on    *)
(* the state of the running process and ends where it began.                *)
THEOREM SlotsLive == Spec => LifeCycle
PROOF
  <1> DEFINE Legal == \A p \in Pid :
                         \/ state'[p] = state[p]
                         \/ state[p] = PRFREE  /\ state'[p] = PRSUSP
                         \/ state[p] = PRSUSP  /\ state'[p] \in {PRREADY, PRFREE}
                         \/ state[p] = PRREADY /\ state'[p] = PRFREE
  <1>1. Kept /\ [Next]_vars => [Legal]_vars
    <2> SUFFICES ASSUME Kept, Next PROVE Legal
      OBVIOUS
    <2>1. state \in [Pid -> PState]
      BY StatesAsTheyAre
    <2> QED
      BY <2>1, StepOfStates
  <1> QED
    BY <1>1, KeptAlways, PTL DEF Spec, LifeCycle

(* create() and kill() keep numproc in step with the slots in use on every  *)
(* path but one, the suicide.                                               *)
LEMMA CountKept == Kept /\ CountDrift /\ [Next]_vars => CountDrift'
PROOF
  <1> SUFFICES ASSUME Kept, CountDrift, [Next]_vars PROVE CountDrift'
    OBVIOUS
  <1>1. /\ state \in [Pid -> PState] /\ numproc \in Int /\ suicides \in Nat
        /\ halted \in BOOLEAN /\ currpid \in Pid
        /\ \A p \in Pid : state[p] = PRCURR <=> p = currpid
        /\ nextpid \in Pid
    BY StatesAsTheyAre DEF OtherTypes
  <1>2. IsFiniteSet(Live(state)) /\ Cardinality(Live(state)) \in Nat
    <2>1. IsFiniteSet(Pid)
      BY TableSizes, FS_Interval DEF Pid
    <2> QED
      BY <2>1, FS_Subset, FS_CardinalityType DEF Live
  <1>3. CASE numproc' = numproc /\ suicides' = suicides /\ halted' = halted
             /\ Live(state') = Live(state)
    BY <1>3 DEF CountDrift
  <1>4. CASE CreateRefused \/ Yield \/ TickRuns \/ TickPreempts
             \/ (\E pid \in Pid : ReadyOnly(pid) \/ ReadyResched(pid)) \/ UNCHANGED vars
    <2>1. numproc' = numproc /\ suicides' = suicides /\ halted' = halted
      BY <1>4 DEF CreateRefused, Yield, TickRuns, TickPreempts, ReadyOnly, ReadyResched,
                  vars, history
    <2>2. Live(state') = Live(state)
      <3>1. \A p \in Pid : state'[p] = PRFREE <=> state[p] = PRFREE
        <4>1. CASE UNCHANGED vars \/ CreateRefused
          BY <4>1 DEF vars, CreateRefused
        <4>2. CASE Yield \/ TickRuns \/ TickPreempts
          <5>1. ASSUME resched(state, queuetab, order) PROVE state' = state
            BY <1>1, <5>1 DEF resched
          <5> QED
            BY <4>2, <5>1 DEF Yield, TickRuns, TickPreempts
        <4>3. ASSUME NEW pid \in Pid, ReadyOnly(pid) \/ ReadyResched(pid)
              PROVE  \A p \in Pid : state'[p] = PRFREE <=> state[p] = PRFREE
          <5> DEFINE st == [state EXCEPT ![pid] = PRREADY]
          <5>1. state[pid] = PRSUSP
            BY <4>3 DEF ReadyOnly, ReadyResched
          <5>2. state' = st \/ state' = [st EXCEPT ![currpid] = PRCURR]
                \/ state' = [[st EXCEPT ![currpid] = PRREADY] EXCEPT ![currpid] = PRCURR]
            BY <4>3 DEF ReadyOnly, ReadyResched, resched
          <5> QED
            BY <1>1, <5>1, <5>2 DEF PRFREE, PRSUSP, PRREADY, PRCURR
        <4> QED
          BY <1>4, <4>1, <4>2, <4>3
      <3> QED
        BY <3>1 DEF Live
    <2> QED
      BY <1>3, <2>1, <2>2
  <1>5. CASE CreateFaults
    BY <1>1, <1>2, <1>5 DEF CreateFaults, CountDrift, history
  <1>6. CASE \E priority \in Priorities : CreateDone(priority)
    <2>1. newpid \in Pid /\ state[newpid] = PRFREE
      BY <1>1, <1>6, NewpidFree DEF CreateDone
    <2>2. /\ state' = [state EXCEPT ![newpid] = PRSUSP] /\ numproc' = numproc + 1
          /\ suicides' = suicides /\ halted' = halted
      BY <1>6 DEF CreateDone
    <2>3. Live(state') = Live(state) \cup {newpid} /\ newpid \notin Live(state)
      BY <1>1, <2>1, <2>2 DEF Live, PRFREE, PRSUSP
    <2>4. Cardinality(Live(state')) = Cardinality(Live(state)) + 1
      BY <1>2, <2>3, FS_AddElement
    <2> QED
      BY <1>1, <1>2, <2>2, <2>4 DEF CountDrift
  <1>7. ASSUME NEW pid \in Pid, KillRunning(pid)
        PROVE  CountDrift'
    <2>1. /\ numproc' = numproc - 1 /\ suicides' = suicides + 1 /\ halted' = halted
          /\ pid = currpid
      BY <1>1, <1>7 DEF KillRunning
    <2>2. state' = [[state EXCEPT ![currpid] = PRFREE] EXCEPT ![currpid] = PRCURR]
      BY <1>1, <1>7, <2>1 DEF KillRunning, resched, PRFREE, PRCURR
    <2>3. state' = state
      BY <1>1, <2>2
    <2> QED
      BY <1>1, <1>2, <2>1, <2>3 DEF CountDrift
  <1>8. ASSUME NEW pid \in Pid, KillReady(pid) \/ KillSuspended(pid)
        PROVE  CountDrift'
    <2>1. /\ state[pid] \in {PRSUSP, PRREADY} /\ state' = [state EXCEPT ![pid] = PRFREE]
          /\ numproc' = numproc - 1 /\ suicides' = suicides /\ halted' = halted
      BY <1>8 DEF KillReady, KillSuspended, history
    <2>2. Live(state') = Live(state) \ {pid} /\ pid \in Live(state)
      BY <1>1, <2>1 DEF Live, PRFREE, PRSUSP, PRREADY
    <2>3. Cardinality(Live(state')) = Cardinality(Live(state)) - 1
      BY <1>2, <2>2, FS_RemoveElement
    <2> QED
      BY <1>1, <1>2, <2>1, <2>3 DEF CountDrift
  <1> QED
    BY <1>4, <1>5, <1>6, <1>7, <1>8 DEF Next

(* numproc plus the suicides is at all times the number of slots in use. *)
THEOREM CountDrifts == Spec => []CountDrift
PROOF
  <1>1. Init => CountDrift
    <2> SUFFICES ASSUME Init PROVE CountDrift
      OBVIOUS
    <2>1. /\ state = [p \in Pid |-> IF p = NULLPROC THEN PRCURR ELSE PRFREE]
          /\ numproc = 1 /\ suicides = 0 /\ halted = FALSE
      BY DEF Init
    <2>2. NULLPROC \in Pid
      BY TableSizes DEF Pid, NULLPROC
    <2>3. \A p \in Pid : state[p] # PRFREE <=> p = NULLPROC
      BY <2>1 DEF PRCURR, PRFREE
    <2>4. Live(state) = {NULLPROC}
      BY <2>2, <2>3 DEF Live
    <2>5. Cardinality(Live(state)) = 1
      BY <2>4, FS_Singleton
    <2> QED
      BY <2>1, <2>5 DEF CountDrift
  <1> QED
    BY <1>1, CountKept, KeptAlways, PTL DEF Spec

(* How many slots newpid() goes on to reach p, and the turn each slot has:  *)
(* while create() can still succeed, a free slot is passed over no more     *)
(* often than slots lie before it.  Without a page nothing is created, but  *)
(* newpid() still moves nextpid.                                            *)
Far(p) == IF p > nextpid THEN p - nextpid ELSE p - nextpid + NPROC
Turn   == /\ \A p \in Pid : state[p] # PRFREE => waited[p] = 0
          /\ freepages > 0 => \A p \in Pid : waited[p] + Far(p) <= NPROC
          /\ SlotsInTurn

(* Going round the table. *)
LEMMA Round ==
    ASSUME NEW n \in Nat \ {0}, NEW a \in 0 .. n - 1, NEW k \in 1 .. n
    PROVE  (a + k) % n = IF a + k < n THEN a + k ELSE a + k - n
PROOF
  <1>1. CASE a + k < n
    <2>1. a + k \in 0 .. n - 1
      BY <1>1
    <2> QED
      BY <1>1, <2>1, NoWrap
  <1>2. CASE ~ (a + k < n)
    <2>1. a + k - n \in 0 .. n - 1
      BY <1>2
    <2>2. a + k = 1 * n + (a + k - n)
      OBVIOUS
    <2> QED
      BY <1>2, <2>1, <2>2
  <1> QED
    BY <1>1, <1>2

(* newpid() stops at the free slot that is reached first. *)
LEMMA NewpidFirst ==
    ASSUME nextpid \in Pid, newpid # SYSERR
    PROVE  /\ newpid \in Pid /\ state[newpid] = PRFREE
           /\ \A p \in Pid : state[p] = PRFREE => Far(newpid) <= Far(p)
PROOF
  <1> DEFINE free == {k \in 1 .. NPROC : state[(nextpid + k) % NPROC] = PRFREE}
  <1>1. free # {} /\ newpid = (nextpid + Min(free)) % NPROC
    BY DEF newpid
  <1>2. free \subseteq Nat /\ NPROC \in Nat \ {0}
    BY TableSizes
  <1>3. Min(free) \in free /\ \A k \in free : Min(free) <= k
    BY <1>1, <1>2, LeastNatural
  <1>4. PICK m \in 1 .. NPROC : m = Min(free)
    BY <1>3
  <1>5. newpid = IF nextpid + m < NPROC THEN nextpid + m ELSE nextpid + m - NPROC
    BY <1>1, <1>2, <1>4, Round DEF Pid
  <1>6. Far(newpid) = m
    BY <1>2, <1>5 DEF Far, Pid
  <1>7. ASSUME NEW p \in Pid, state[p] = PRFREE PROVE m <= Far(p)
    <2>0. Far(p) \in 1 .. NPROC
      BY <1>2 DEF Far, Pid
    <2>1. PICK k \in 1 .. NPROC : k = Far(p)
      BY <2>0
    <2>2. (nextpid + k) % NPROC = p
      <3>1. (nextpid + k) % NPROC = IF nextpid + k < NPROC THEN nextpid + k ELSE nextpid + k - NPROC
        BY <1>2, Round DEF Pid
      <3> QED
        BY <1>2, <2>1, <3>1 DEF Far, Pid
    <2>3. k \in free
      BY <1>7, <2>2
    <2> QED
      BY <1>3, <1>4, <2>1, <2>3
  <1> QED
    BY <1>6, <1>7, NewpidFree

(* No other call takes a free slot, or counts one as passed over. *)
LEMMA OthersTakeNone ==
    ASSUME Kept, [Next]_vars, ~ \E priority \in Priorities : CreateDone(priority)
    PROVE  /\ waited' = waited
           /\ \A p \in Pid : state[p] = PRFREE => state'[p] = PRFREE
           /\ freepages' > 0 => freepages > 0 /\ nextpid' = nextpid
PROOF
  <1>1. state \in [Pid -> PState] /\ freepages \in Nat /\ currpid \in Pid
        /\ state[currpid] = PRCURR
    BY StatesAsTheyAre, ProcessSizes DEF OtherTypes
  <1>2. ASSUME NEW st, NEW qt, NEW ord, resched(st, qt, ord), st \in [Pid -> PState],
               \A p \in Pid : state[p] = PRFREE => st[p] = PRFREE
        PROVE  \A p \in Pid : state[p] = PRFREE => state'[p] = PRFREE
    <2>1. state' = [st EXCEPT ![currpid] = PRCURR]
          \/ state' = [[st EXCEPT ![currpid] = PRREADY] EXCEPT ![currpid] = PRCURR]
      BY <1>2 DEF resched
    <2> QED
      BY <1>1, <1>2, <2>1 DEF PRFREE, PRCURR
  <1>3. CASE UNCHANGED vars \/ CreateRefused \/ CreateFaults
    BY <1>1, <1>3 DEF vars, CreateRefused, CreateFaults, history
  <1>4. CASE Yield \/ TickRuns \/ TickPreempts
    <2>1. waited' = waited /\ freepages' = freepages /\ nextpid' = nextpid
      BY <1>4 DEF Yield, TickRuns, TickPreempts
    <2>2. state' = state \/ resched(state, queuetab, order)
      BY <1>4 DEF Yield, TickRuns, TickPreempts
    <2> QED
      BY <1>1, <1>2, <2>1, <2>2
  <1>5. ASSUME NEW pid \in Pid, ReadyOnly(pid) \/ ReadyResched(pid)
        PROVE  /\ waited' = waited /\ freepages' = freepages /\ nextpid' = nextpid
               /\ \A p \in Pid : state[p] = PRFREE => state'[p] = PRFREE
    <2> DEFINE st == [state EXCEPT ![pid] = PRREADY]
    <2>1. waited' = waited /\ freepages' = freepages /\ nextpid' = nextpid /\ state[pid] = PRSUSP
      BY <1>5 DEF ReadyOnly, ReadyResched
    <2>2. /\ st \in [Pid -> PState]
          /\ \A p \in Pid : state[p] = PRFREE => st[p] = PRFREE
      BY <1>1, <2>1 DEF PState, PRFREE, PRSUSP, PRREADY
    <2>3. state' = st \/ \E qt, ord : resched(st, qt, ord)
      BY <1>5 DEF ReadyOnly, ReadyResched
    <2> QED
      BY <1>2, <2>1, <2>2, <2>3
  <1>6. ASSUME NEW pid \in Pid, KillRunning(pid)
        PROVE  /\ waited' = waited /\ freepages' = freepages /\ nextpid' = nextpid
               /\ \A p \in Pid : state[p] = PRFREE => state'[p] = PRFREE
    <2> DEFINE st == [state EXCEPT ![pid] = PRFREE]
    <2>1. waited' = waited /\ freepages' = freepages /\ nextpid' = nextpid
          /\ resched(st, queuetab, order)
      BY <1>6 DEF KillRunning
    <2>2. st \in [Pid -> PState] /\ \A p \in Pid : state[p] = PRFREE => st[p] = PRFREE
      BY <1>1 DEF PState
    <2> QED
      BY <1>2, <2>1, <2>2
  <1>7. ASSUME NEW pid \in Pid, KillReady(pid) \/ KillSuspended(pid)
        PROVE  /\ waited' = waited /\ freepages' = freepages /\ nextpid' = nextpid
               /\ \A p \in Pid : state[p] = PRFREE => state'[p] = PRFREE
    BY <1>1, <1>7 DEF KillReady, KillSuspended, history
  <1> QED
    BY <1>3, <1>4, <1>5, <1>6, <1>7 DEF Next

LEMMA TurnKept == Kept /\ Turn /\ [Next]_vars => Turn'
PROOF
  <1> SUFFICES ASSUME Kept, Turn, [Next]_vars PROVE Turn'
    OBVIOUS
  <1>1. /\ state \in [Pid -> PState] /\ freepages \in Nat /\ nextpid \in Pid
        /\ waited \in [Pid -> Nat] /\ NPROC \in Nat \ {0} /\ Pid = 0 .. NPROC - 1
    <2>1. state \in [Pid -> PState] /\ OtherTypes
      BY StatesAsTheyAre
    <2>2. NPROC \in Nat \ {0} /\ Pid = 0 .. NPROC - 1
      BY TableSizes DEF Pid
    <2>3. freepages \in Nat /\ nextpid \in Pid /\ waited \in [Pid -> Nat]
      BY <2>1, ProcessSizes DEF OtherTypes
    <2> QED
      BY <2>1, <2>2, <2>3
  <1>2. CASE ~ \E priority \in Priorities : CreateDone(priority)
    <2>1. /\ waited' = waited
          /\ \A p \in Pid : state[p] = PRFREE => state'[p] = PRFREE
          /\ freepages' > 0 => freepages > 0 /\ nextpid' = nextpid
      BY <1>2, OthersTakeNone
    <2> QED
      BY <2>1 DEF Turn, SlotsInTurn, Far
  <1>3. ASSUME NEW priority \in Priorities, CreateDone(priority) PROVE Turn'
    <2>1. PICK n : n = newpid
      OBVIOUS
    <2>2. /\ nextpid' = n /\ state' = [state EXCEPT ![n] = PRSUSP] /\ freepages > 0
          /\ waited' = [p \in Pid |-> IF p # n /\ state[p] = PRFREE THEN waited[p] + 1 ELSE 0]
          /\ newpid # SYSERR
      BY <1>1, <1>3, <2>1, ProcessSizes DEF CreateDone
    <2>3. /\ n \in Pid /\ state[n] = PRFREE
          /\ \A p \in Pid : state[p] = PRFREE => Far(n) <= Far(p)
      BY <1>1, <2>1, <2>2, NewpidFirst
    <2>4. ASSUME NEW p \in Pid PROVE waited'[p] + Far(p)' <= NPROC /\ Far(p)' >= 1 /\ waited'[p] \in Nat
      <3>0. Far(p)' = IF p > n THEN p - n ELSE p - n + NPROC
        BY <2>2 DEF Far
      <3>1. Far(p)' \in 1 .. NPROC
        BY <1>1, <2>3, <3>0
      <3>2. CASE p # n /\ state[p] = PRFREE
        <4>1. Far(n) <= Far(p) /\ waited[p] + Far(p) <= NPROC
          BY <2>2, <2>3, <3>2 DEF Turn
        <4>2. Far(p) \in Nat /\ Far(p)' <= Far(p) - 1
          BY <1>1, <2>3, <3>0, <3>2, <4>1 DEF Far
        <4>3. waited'[p] = waited[p] + 1 /\ waited[p] \in Nat
          BY <1>1, <2>2, <3>2
        <4>4. NPROC \in Nat /\ Far(p)' \in Nat /\ Far(p)' >= 1
          BY <1>1, <3>1
        <4> QED
          BY <4>1, <4>2, <4>3, <4>4
      <3>3. CASE ~ (p # n /\ state[p] = PRFREE)
        <4>1. waited'[p] = 0
          BY <2>2, <3>3
        <4> QED
          BY <1>1, <3>1, <4>1
      <3> QED
        BY <3>2, <3>3
    <2>5. SlotsInTurn'
      <3>0. SUFFICES ASSUME NEW p \in Pid PROVE waited'[p] < NPROC
        BY DEF SlotsInTurn
      <3>1. Far(p)' = IF p > n THEN p - n ELSE p - n + NPROC
        BY <2>2 DEF Far
      <3>2. Far(p)' \in Int
        BY <1>1, <2>3, <3>1
      <3> QED
        BY <1>1, <2>4, <3>2
    <2>6. \A p \in Pid : state'[p] # PRFREE => waited'[p] = 0
      BY <1>1, <2>2, <2>3
    <2> QED
      BY <2>4, <2>5, <2>6 DEF Turn
  <1> QED
    BY <1>2, <1>3

(* No free slot is passed by in NPROC creations in a row.                   *)
THEOREM SlotsTakeTurns == Spec => []SlotsInTurn
PROOF
  <1>1. Init => Turn
    <2> SUFFICES ASSUME Init PROVE Turn
      OBVIOUS
    <2>1. waited = [p \in Pid |-> 0] /\ nextpid = 0 /\ NPROC \in Nat \ {0} /\ Pid = 0 .. NPROC - 1
      BY TableSizes DEF Init, Pid
    <2> QED
      BY <2>1 DEF Turn, SlotsInTurn, Far
  <1>2. Turn => SlotsInTurn
    BY DEF Turn
  <1> QED
    BY <1>1, <1>2, TurnKept, KeptAlways, PTL DEF Spec
==============================================================================
