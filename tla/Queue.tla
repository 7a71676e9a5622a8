-------------------------------- MODULE Queue --------------------------------
(***************************************************************************)
(* The process queue table of the RISC-V kernel (system/queue.c,           *)
(* include/queue.h): entries 0..NPROC-1 are processes, the entries above   *)
(* are allotted in pairs, the head and the tail of one queue.  Only        *)
(* operators: each takes the table and returns its new value, so that the  *)
(* queue component and the process manager share one translation.          *)
(***************************************************************************)
EXTENDS Proc, Sequences

CONSTANT NQENT      \* number of queue table entries

(* An index has to fit the 16 bits a queue handle gives it. *)
ASSUME TableSizes == /\ NPROC \in Nat \ {0}
                     /\ NQENT \in Nat
                     /\ NPROC + 2 <= NQENT
                     /\ NQENT <= 65536

EMPTY == -2

Entry == 0 .. NQENT - 1
Halfword == 65536

(***************************************************************************)
(* Handles.  A handle packs the two indices of a queue: head << 16 | tail. *)
(***************************************************************************)
qid_typ(head, tail) == (head * Halfword) + (tail % Halfword)
queuehead(q) == (q \div Halfword) % Halfword
queuetail(q) == q % Halfword

isbadqueue(q) == \/ queuehead(q) # queuetail(q) - 1
                 \/ queuetail(q) >= NQENT

(***************************************************************************)
(* The table: next and prev of every entry.  The program clears it before  *)
(* it starts; the links of a process that was never queued are all 0.      *)
(***************************************************************************)
QueueTab  == [next : [Entry -> Entry \cup {EMPTY}],
              prev : [Entry -> Entry \cup {EMPTY}]]
ClearedTab == [next |-> [e \in Entry |-> 0], prev |-> [e \in Entry |-> 0]]

firstid(qt, q) == qt.next[queuehead(q)]

(* Wrong: the tail has no predecessor yet. *)
newqueue_unlinked(qt, nextqueue) ==
    [next |-> [qt.next EXCEPT ![nextqueue] = nextqueue + 1, ![nextqueue + 1] = EMPTY],
     prev |-> [qt.prev EXCEPT ![nextqueue] = EMPTY, ![nextqueue + 1] = EMPTY]]

(* The entry that newqueue() gives a new queue, nextqueue being its head. *)
newqueue(qt, nextqueue) ==
    [next |-> [qt.next EXCEPT ![nextqueue] = nextqueue + 1,
                              ![nextqueue + 1] = EMPTY],
     prev |-> [qt.prev EXCEPT ![nextqueue] = EMPTY,
                              ![nextqueue + 1] = nextqueue]]

(* Wrong: the tail is not told of its new predecessor. *)
link_forgets_tail(qt, pid, tail) ==
    [next |-> [[qt.next EXCEPT ![pid] = tail] EXCEPT ![qt.prev[tail]] = pid],
     prev |-> [qt.prev EXCEPT ![pid] = qt.prev[tail]]]

(* The four assignments of enqueue(), in order. *)
link(qt, pid, tail) ==
    LET prev == [qt.prev EXCEPT ![pid] = qt.prev[tail]]
    IN  [next |-> [[qt.next EXCEPT ![pid] = tail] EXCEPT ![prev[tail]] = pid],
         prev |-> [prev EXCEPT ![tail] = pid]]

enqueue(qt, pid, q, live) ==
    IF isbadqueue(q) \/ isbadpid(pid, live)
      THEN [tab |-> qt, ret |-> SYSERR]
      ELSE [tab |-> link(qt, pid, queuetail(q)), ret |-> pid]

(* Wrong: only the predecessor is told. *)
unlink_forgets_prev(qt, pid) ==
    [next |-> [qt.next EXCEPT ![qt.prev[pid]] = qt.next[pid]], prev |-> qt.prev]

(* The two assignments of remove(); the links of pid itself stay. *)
unlink(qt, pid) ==
    LET next == [qt.next EXCEPT ![qt.prev[pid]] = qt.next[pid]]
    IN  [next |-> next, prev |-> [qt.prev EXCEPT ![next[pid]] = qt.prev[pid]]]

remove(qt, pid, live) ==
    IF isbadpid(pid, live)
      THEN [tab |-> qt, ret |-> SYSERR]
      ELSE [tab |-> unlink(qt, pid), ret |-> pid]

(* Wrong: the last process is taken. *)
dequeue_last(qt, q, live) ==
    LET pid == qt.prev[queuetail(q)]
        cut == remove(qt, pid, live).tab
    IN  IF isbadqueue(q)    THEN [tab |-> qt, ret |-> SYSERR]
        ELSE IF pid < NPROC THEN [tab |-> [next |-> [cut.next EXCEPT ![pid] = pid],
                                           prev |-> [cut.prev EXCEPT ![pid] = pid]],
                                  ret |-> pid]
        ELSE [tab |-> qt, ret |-> EMPTY]

(* dequeue() ignores what remove() answers, then links pid to itself. *)
dequeue(qt, q, live) ==
    LET pid == firstid(qt, q)
        cut == remove(qt, pid, live).tab
    IN  IF isbadqueue(q)    THEN [tab |-> qt, ret |-> SYSERR]
        ELSE IF pid < NPROC THEN [tab |-> [next |-> [cut.next EXCEPT ![pid] = pid],
                                           prev |-> [cut.prev EXCEPT ![pid] = pid]],
                                  ret |-> pid]
        ELSE [tab |-> qt, ret |-> EMPTY]

(***************************************************************************)
(* What a well-formed queue is: s is the sequence of its processes, q its  *)
(* handle, Node(s, q, 0) the head and Node(s, q, Len(s) + 1) the tail.     *)
(***************************************************************************)
Node(s, q, i) == IF i = 0 THEN queuehead(q)
                 ELSE IF i = Len(s) + 1 THEN queuetail(q)
                 ELSE s[i]

Linked(qt, s, q) ==
    \A i \in 0 .. Len(s) : /\ qt.next[Node(s, q, i)] = Node(s, q, i + 1)
                           /\ qt.prev[Node(s, q, i + 1)] = Node(s, q, i)

NoDuplicates(s) == \A i, j \in 1 .. Len(s) : s[i] = s[j] => i = j
==============================================================================
