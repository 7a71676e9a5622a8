------------------------------- MODULE Process -------------------------------
(***************************************************************************)
(* The process manager of the RISC-V kernel: the process table, the ready  *)
(* list, the clock and the scheduler (create.c, ready.c, resched.c,        *)
(* kill.c, clkhandler.c, sysinit() of initialize.c).                       *)
(*                                                                         *)
(* The kernel runs with interrupts off, so a call is one step.  A step is  *)
(* a call made by the running process, through kernel code such as main()  *)
(* or through the system calls yield and kill, or a clock interrupt.       *)
(***************************************************************************)
EXTENDS Queue, Lottery, SequencesExt

CONSTANTS QUANTUM,            \* clock ticks until preemption
          CLKTICKS_PER_SEC,   \* clock ticks in a second
          ULONG,              \* number of values of an unsigned long
          Priorities,         \* ticket counts callers pass to create()
          LeftOvers,          \* what ticket_counter may hold uninitialized
          PAGES,              \* free pages at boot
          UserPages,          \* pages vm_userinit() takes for one process
          MaxTime,            \* bound: seconds of clock time
          MaxSuicides         \* bound: processes that kill themselves

ASSUME ProcessSizes ==
    /\ QUANTUM \in Nat \ {0} /\ CLKTICKS_PER_SEC \in Nat \ {0}
    /\ ULONG \in Nat /\ QUANTUM < ULONG
    /\ Priorities \subseteq Nat
    /\ LeftOvers \subseteq Int /\ LeftOvers # {}
    /\ ResidueOfZero \subseteq Nat /\ ResidueOfZero # {}
    /\ PAGES \in Nat /\ UserPages \in Nat
    /\ MaxTime \in Nat /\ MaxSuicides \in Nat

VARIABLES state, tickets,     \* proctab[]: state and tickets of every slot
          queuetab,           \* the queue table
          numproc, currpid,   \* the kernel's counters of initialize.c
          nextpid,            \* where newpid() goes on looking
          preempt,            \* ticks left of the running process's quantum
          clkticks, clktime,  \* the clock
          freepages,          \* length of the free page list
          halted,             \* the kernel has faulted and stopped
          draw                \* what the last lottery computed

(* History: the processes put on the ready list, in order, and how often    *)
(* the running one was; how often a process killed itself; how many         *)
(* creations each free slot has waited; the ticks since boot and since the  *)
(* last call of resched().                                                  *)
VARIABLES order, requeued, suicides, waited, ticks, held

clock   == <<clkticks, clktime, ticks>>
history == <<order, requeued, suicides, waited, held>>
vars == <<state, tickets, queuetab, numproc, currpid, nextpid, preempt,
          clkticks, clktime, freepages, halted, draw, order, requeued,
          suicides, waited, ticks, held>>

(* The handle newqueue() gives the first queue; sysinit() makes no other. *)
readylist == qid_typ(NPROC, NPROC + 1)

Init ==
    /\ state = [p \in Pid |-> IF p = NULLPROC THEN PRCURR ELSE PRFREE]
    /\ tickets = [p \in Pid |-> IF p = NULLPROC THEN 1 ELSE 0]
    /\ queuetab = newqueue(ClearedTab, NPROC)
    /\ numproc = 1
    /\ currpid = NULLPROC
    /\ nextpid = 0
    /\ preempt = QUANTUM
    /\ clkticks = 0 /\ clktime = 0
    /\ freepages = PAGES
    /\ halted = FALSE
    /\ draw = [total |-> 1, ticket |-> 0, winner |-> NULLPROC]
    /\ order = << >> /\ requeued = 0
    /\ suicides = 0
    /\ waited = [p \in Pid |-> 0]
    /\ ticks = 0 /\ held = 0

------------------------------------------------------------------------------
(* resched(), entered with process table st, queue table qt and ready order *)
(* ord.  The winner of the lottery is dropped: the process switched to is   *)
(* the running one.                                                         *)
resched(st, qt, ord) ==
    LET requeue == st[currpid] = PRCURR
        ready   == IF requeue THEN [st EXCEPT ![currpid] = PRREADY] ELSE st
    IN  /\ queuetab' = IF requeue THEN enqueue(qt, currpid, readylist, Live(ready)).tab
                       ELSE qt
        /\ \E ticket \in random(get_total_tickets(ready, tickets)),
              start \in LeftOvers :
              draw' = [total  |-> get_total_tickets(ready, tickets),
                       ticket |-> ticket,
                       winner |-> selected_pid(ready, tickets, ticket, start)]
        /\ state' = [ready EXCEPT ![currpid] = PRCURR]
        /\ preempt' = QUANTUM
        /\ held' = 0
        /\ order' = IF requeue /\ requeued = 0 THEN Append(ord, currpid) ELSE ord
        /\ requeued' = IF requeue /\ requeued < 2 THEN requeued + 1 ELSE requeued
        /\ UNCHANGED currpid

(* Wrong: the search starts at slot 0 every time. *)
newpid_lowest ==
    LET free == {p \in Pid : state[p] = PRFREE}
    IN  IF free = {} THEN SYSERR ELSE Min(free)

(* Wrong: only the running process's slot is passed over. *)
newpid_in_use ==
    LET free == {k \in 1 .. NPROC : state[(nextpid + k) % NPROC] # PRCURR}
    IN  IF free = {} THEN SYSERR ELSE (nextpid + Min(free)) % NPROC

(* newpid(): the first free slot after nextpid, going round. *)
newpid ==
    LET free == {k \in 1 .. NPROC : state[(nextpid + k) % NPROC] = PRFREE}
    IN  IF free = {} THEN SYSERR ELSE (nextpid + Min(free)) % NPROC

(* create() takes a page for the stack before it looks for a slot. *)
CreateRefused ==
    /\ ~halted
    /\ freepages = 0 \/ newpid = SYSERR
    /\ freepages' = IF freepages = 0 THEN 0 ELSE freepages - 1
    /\ nextpid' = IF newpid = SYSERR THEN nextpid ELSE newpid
    /\ UNCHANGED <<state, tickets, queuetab, numproc, currpid, preempt, clock,
                   halted, draw, history>>

(* Nobody checks vm_userinit()'s pages: one that is missing is a fault. *)
CreateFaults ==
    /\ ~halted
    /\ freepages \in 1 .. UserPages /\ newpid # SYSERR
    /\ freepages' = 0
    /\ nextpid' = newpid
    /\ numproc' = numproc + 1
    /\ halted' = TRUE
    /\ UNCHANGED <<state, tickets, queuetab, currpid, preempt, clock, draw, history>>

CreateDone(priority) ==
    /\ ~halted
    /\ freepages > UserPages /\ newpid # SYSERR
    /\ freepages' = freepages - 1 - UserPages
    /\ nextpid' = newpid
    /\ numproc' = numproc + 1
    /\ state' = [state EXCEPT ![newpid] = PRSUSP]
    /\ tickets' = [tickets EXCEPT ![newpid] = priority]
    /\ waited' = [p \in Pid |-> IF p # newpid /\ state[p] = PRFREE
                                THEN waited[p] + 1 ELSE 0]
    /\ UNCHANGED <<queuetab, currpid, preempt, clock, halted, draw,
                   order, requeued, suicides, held>>

(* ready() on a process just created, as every caller uses it. *)
ReadyOnly(pid) ==
    /\ ~halted
    /\ state[pid] = PRSUSP
    /\ state' = [state EXCEPT ![pid] = PRREADY]
    /\ queuetab' = enqueue(queuetab, pid, readylist, Live(state)).tab
    /\ order' = Append(order, pid)
    /\ UNCHANGED <<tickets, numproc, currpid, nextpid, preempt, clock, freepages,
                   halted, draw, requeued, suicides, waited, held>>

ReadyResched(pid) ==
    /\ ~halted
    /\ state[pid] = PRSUSP
    /\ resched([state EXCEPT ![pid] = PRREADY],
               enqueue(queuetab, pid, readylist, Live(state)).tab,
               Append(order, pid))
    /\ UNCHANGED <<tickets, numproc, nextpid, clock, freepages, halted,
                   suicides, waited>>

(* kill(), by the state of its victim; a bad id is refused, nothing changes. *)
KillRunning(pid) ==
    /\ ~halted /\ suicides < MaxSuicides
    /\ state[pid] = PRCURR
    /\ numproc' = numproc - 1
    /\ resched([state EXCEPT ![pid] = PRFREE], queuetab, order)
    /\ suicides' = suicides + 1
    /\ UNCHANGED <<tickets, nextpid, clock, freepages, halted, waited>>

KillReady(pid) ==
    /\ ~halted
    /\ state[pid] = PRREADY
    /\ numproc' = numproc - 1
    /\ queuetab' = remove(queuetab, pid, Live(state)).tab
    /\ state' = [state EXCEPT ![pid] = PRFREE]
    /\ order' = RemoveAt(order, CHOOSE i \in 1 .. Len(order) : order[i] = pid)
    /\ UNCHANGED <<tickets, currpid, nextpid, preempt, clock, freepages, halted,
                   draw, requeued, suicides, waited, held>>

(* Wrong: the case of kill() for a ready process is missing. *)
KillAsSuspendedReady(pid) ==
    /\ ~halted
    /\ state[pid] \in {PRSUSP, PRREADY}
    /\ numproc' = numproc - 1
    /\ state' = [state EXCEPT ![pid] = PRFREE]
    /\ UNCHANGED <<tickets, queuetab, currpid, nextpid, preempt, clock, freepages,
                   halted, draw, history>>

(* Wrong: numproc is decremented for ready and running processes only. *)
KillUncounted(pid) ==
    /\ ~halted
    /\ state[pid] = PRSUSP
    /\ state' = [state EXCEPT ![pid] = PRFREE]
    /\ UNCHANGED <<numproc, tickets, queuetab, currpid, nextpid, preempt, clock, freepages,
                   halted, draw, history>>

KillSuspended(pid) ==
    /\ ~halted
    /\ state[pid] = PRSUSP
    /\ numproc' = numproc - 1
    /\ state' = [state EXCEPT ![pid] = PRFREE]
    /\ UNCHANGED <<tickets, queuetab, currpid, nextpid, preempt, clock, freepages,
                   halted, draw, history>>

(* The system call yield, and kernel code that calls resched(). *)
Yield ==
    /\ ~halted
    /\ resched(state, queuetab, order)
    /\ UNCHANGED <<tickets, numproc, nextpid, clock, freepages, halted,
                   suicides, waited>>

(* clkhandler(). *)
AdvanceClock ==
    /\ ticks' = ticks + 1
    /\ IF clkticks + 1 = CLKTICKS_PER_SEC
         THEN clktime' = clktime + 1 /\ clkticks' = 0
         ELSE clkticks' = clkticks + 1 /\ UNCHANGED clktime

countdown == (preempt - 1) % ULONG

(* Wrong: preempt, which is unsigned, is tested for being negative. *)
TickRunsOn ==
    /\ ~halted /\ clktime < MaxTime
    /\ AdvanceClock
    /\ countdown >= 0
    /\ preempt' = countdown
    /\ held' = held + 1
    /\ UNCHANGED <<state, tickets, queuetab, numproc, currpid, nextpid, freepages,
                   halted, draw, order, requeued, suicides, waited>>

TickRuns ==
    /\ ~halted /\ clktime < MaxTime
    /\ AdvanceClock
    /\ countdown > 0
    /\ preempt' = countdown
    /\ held' = held + 1
    /\ UNCHANGED <<state, tickets, queuetab, numproc, currpid, nextpid, freepages,
                   halted, draw, order, requeued, suicides, waited>>

TickPreempts ==
    /\ ~halted /\ clktime < MaxTime
    /\ AdvanceClock
    /\ countdown = 0
    /\ resched(state, queuetab, order)
    /\ UNCHANGED <<tickets, numproc, nextpid, freepages, halted,
                   suicides, waited>>

Next ==
    \/ CreateRefused \/ CreateFaults
    \/ \E priority \in Priorities : CreateDone(priority)
    \/ \E pid \in Pid : ReadyOnly(pid) \/ ReadyResched(pid)
    \/ \E pid \in Pid : KillRunning(pid) \/ KillReady(pid) \/ KillSuspended(pid)
    \/ Yield \/ TickRuns \/ TickPreempts

Spec == Init /\ [][Next]_vars

------------------------------------------------------------------------------
(***************************************************************************)
(* Properties the kernel keeps.                                            *)
(***************************************************************************)

(* Every variable keeps its type, the sums of the lottery aside. *)
TypeOK ==
    /\ state \in [Pid -> PState]
    /\ tickets \in [Pid -> Nat]
    /\ queuetab \in QueueTab
    /\ numproc \in Int
    /\ currpid \in Pid /\ nextpid \in Pid
    /\ preempt \in 0 .. ULONG - 1
    /\ clkticks \in Nat /\ clktime \in Nat
    /\ freepages \in 0 .. PAGES
    /\ halted \in BOOLEAN
    /\ draw.winner \in Pid \cup {BADPID}
    /\ order \in Seq(Pid) /\ requeued \in 0 .. 2
    /\ suicides \in Nat
    /\ waited \in [Pid -> Nat]
    /\ ticks \in Nat /\ held \in Nat

(* Between two calls exactly one process is in state PRCURR and it is the  *)
(* one currpid names, although resched() and kill() both write the state   *)
(* of the running process.                                                 *)
OneRunning == {p \in Pid : state[p] = PRCURR} = {currpid}

(* A process holds the processor for less than QUANTUM ticks before         *)
(* resched() is called, whoever calls it, so the unsigned preempt is never  *)
(* counted down through zero.                                               *)
QuantumKept == held < QUANTUM /\ preempt = QUANTUM - held

(* No tick is lost or counted twice by the carry from ticks to seconds. *)
ClockExact == /\ clkticks < CLKTICKS_PER_SEC
              /\ ticks = clktime * CLKTICKS_PER_SEC + clkticks

(* numproc runs short by one for every suicide, and only for that: create() *)
(* and kill() balance on every other path, the refused ones included.  The  *)
(* process whose creation stopped the kernel is counted, not yet in use.    *)
CountDrift == numproc + suicides =
              Cardinality(Live(state)) + (IF halted THEN 1 ELSE 0)

(* Until the running process is requeued a second time the ready list is    *)
(* well formed: both directions lead through its processes in the order     *)
(* they became ready, whatever kills took out of the middle.                *)
ReadyListSound == requeued < 2 => Linked(queuetab, order, readylist)

(* The processes put on the ready list and not removed, each of them once,  *)
(* are those in state PRREADY and, once it was requeued, the running one:   *)
(* no suspended process and no free slot is ever left on the list.          *)
ReadyListMembers ==
    /\ NoDuplicates(order)
    /\ ToSet(order) = {p \in Pid : state[p] = PRREADY}
                      \cup (IF requeued > 0 THEN {currpid} ELSE {})

(* No link that enqueue() and remove() follow leads out of the table, not   *)
(* even in the list that requeuing has spoilt: they index it with next and  *)
(* prev of a process, next of the head and prev of the tail.                *)
NoWildLinks ==
    /\ \A e \in Pid \cup {queuehead(readylist)} : queuetab.next[e] \in Entry
    /\ \A e \in Pid \cup {queuetail(readylist)} : queuetab.prev[e] \in Entry

(* newpid() goes round the table from the id it gave last: no free slot is  *)
(* passed by in NPROC creations in a row, whatever is freed and taken       *)
(* meanwhile.  An id freed just now may be the next: nothing delays it.     *)
SlotsInTurn == \A p \in Pid : waited[p] < NPROC

(* The life of a slot: a free one is only created in, a suspended process   *)
(* is only made ready or killed, a ready one only killed.  No call hands    *)
(* out a slot in use, and resched() takes the state of no other process.    *)
LifeCycle ==
    [][ \A p \in Pid : \/ state'[p] = state[p]
                       \/ state[p] = PRFREE  /\ state'[p] = PRSUSP
                       \/ state[p] = PRSUSP  /\ state'[p] \in {PRREADY, PRFREE}
                       \/ state[p] = PRREADY /\ state'[p] = PRFREE ]_vars

------------------------------------------------------------------------------
(***************************************************************************)
(* What the documentation says of the kernel, and the code does not do.    *)
(***************************************************************************)

(* SYSTEM.md: the process that holds the drawn ticket is switched to. *)
WinnerRuns == draw.winner \in Pid => currpid = draw.winner

==============================================================================
