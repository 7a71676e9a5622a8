----------------------------- MODULE QueueTable ------------------------------
(***************************************************************************)
(* The queue component of the RISC-V kernel as its callers drive it: the   *)
(* table, the allocation of queues, and the five operations of queue.c,    *)
(* each atomic because the kernel runs them with interrupts off.           *)
(*                                                                         *)
(* A caller keeps the third rule of queue.h: it inserts a process that is  *)
(* in no queue.  It removes a process that is in a queue, or that left its *)
(* last queue through dequeue(), which links it to itself.  A handle it    *)
(* passes was issued by newqueue() or is one that isbadqueue() rejects.    *)
(***************************************************************************)
EXTENDS Queue, SequencesExt

CONSTANTS StrayPid,   \* other process ids a caller passes
          BadHandle   \* other handles a caller passes

ASSUME StrayInputs == /\ StrayPid \subseteq Int \ Pid
                      /\ BadHandle \subseteq {q \in Nat : isbadqueue(q)}

VARIABLES queuetab,    \* the table
          nextqueue,   \* next free entry
          live,        \* processes whose slot is not PRFREE
          ret,         \* result of the last call
          order        \* history: handle of every queue -> its processes

vars == <<queuetab, nextqueue, live, ret, order>>

Queued(pid) == \E q \in DOMAIN order : pid \in ToSet(order[q])
SelfLinked(pid) == queuetab.next[pid] = pid /\ queuetab.prev[pid] = pid
KnownHandle == DOMAIN order \cup BadHandle

Init == /\ queuetab = ClearedTab
        /\ nextqueue = NPROC
        /\ live = {}
        /\ ret = 0
        /\ order = [q \in {} |-> << >>]

(* Wrong: one entry is taken for head and tail of the next queue. *)
NewqueueOverlaps ==
    LET q == qid_typ(nextqueue, nextqueue + 1)
    IN  /\ nextqueue' = nextqueue + 1
        /\ IF nextqueue + 2 <= NQENT
           THEN /\ queuetab' = newqueue(queuetab, nextqueue)
                /\ ret' = q
                /\ order' = [x \in DOMAIN order \cup {q} |-> IF x = q THEN << >> ELSE order[x]]
           ELSE UNCHANGED <<queuetab, ret, order>>
        /\ UNCHANGED live

(* newqueue() checks no bound.  Past the table it writes what lies behind   *)
(* it: nothing is said of the program from there on.                        *)
CallNewqueue ==
    LET q == qid_typ(nextqueue, nextqueue + 1)
    IN  /\ nextqueue' = nextqueue + 2
        /\ IF nextqueue' <= NQENT
           THEN /\ queuetab' = newqueue(queuetab, nextqueue)
                /\ ret' = q
                /\ order' = [x \in DOMAIN order \cup {q} |-> IF x = q THEN << >> ELSE order[x]]
           ELSE UNCHANGED <<queuetab, ret, order>>
        /\ UNCHANGED live

CallEnqueue(pid, q) ==
    LET call == enqueue(queuetab, pid, q, live)
    IN  /\ ~isbadqueue(q) /\ ~isbadpid(pid, live) => ~Queued(pid)
        /\ queuetab' = call.tab
        /\ ret' = call.ret
        /\ order' = IF call.ret = SYSERR THEN order
                    ELSE [order EXCEPT ![q] = Append(@, pid)]
        /\ UNCHANGED <<nextqueue, live>>

(* The history follows the queue the process is in, if any. *)
CallRemove(pid) ==
    LET call == remove(queuetab, pid, live)
    IN  /\ ~isbadpid(pid, live) => Queued(pid) \/ SelfLinked(pid)
        /\ queuetab' = call.tab
        /\ ret' = call.ret
        /\ order' = [q \in DOMAIN order |->
                        IF pid \in ToSet(order[q])
                          THEN RemoveAt(order[q], CHOOSE i \in 1 .. Len(order[q]) :
                                                     order[q][i] = pid)
                          ELSE order[q]]
        /\ UNCHANGED <<nextqueue, live>>

CallDequeue(q) ==
    LET call == dequeue(queuetab, q, live)
    IN  /\ queuetab' = call.tab
        /\ ret' = call.ret
        /\ order' = IF call.ret \in {SYSERR, EMPTY} THEN order
                    ELSE [order EXCEPT ![q] = Tail(@)]
        /\ UNCHANGED <<nextqueue, live>>

(* The owner of the process table takes a slot, or frees that of a process *)
(* it has taken out of its queue, as kill() does.                          *)
TakeSlot(pid) == /\ live' = live \cup {pid}
                 /\ UNCHANGED <<queuetab, nextqueue, ret, order>>

FreeSlot(pid) == /\ ~Queued(pid)
                 /\ live' = live \ {pid}
                 /\ UNCHANGED <<queuetab, nextqueue, ret, order>>

Next == /\ nextqueue <= NQENT
        /\ \/ CallNewqueue
           \/ \E pid \in Pid \cup StrayPid, q \in KnownHandle : CallEnqueue(pid, q)
           \/ \E pid \in Pid \cup StrayPid : CallRemove(pid)
           \/ \E q \in KnownHandle : CallDequeue(q)
           \/ \E pid \in Pid : TakeSlot(pid) \/ FreeSlot(pid)

Spec == Init /\ [][Next]_vars

------------------------------------------------------------------------------
(***************************************************************************)
(* Properties.                                                             *)
(***************************************************************************)

(* The table, the handles and the results keep their types. *)
TypeOK == /\ queuetab \in QueueTab
          /\ nextqueue \in NPROC .. NQENT + 2
          /\ live \subseteq Pid
          /\ ret \in Int
          /\ DOMAIN order \subseteq Nat
          /\ order \in [DOMAIN order -> Seq(Pid)]

(* From the head, next leads through the queued processes in the order they *)
(* were inserted and on to the tail, and prev leads back the same way,      *)
(* whatever enqueue, remove and dequeue did to this and the other queues.   *)
AllLinked == \A q \in DOMAIN order : Linked(queuetab, order[q], q)

(* The queues never share an entry: the pairs newqueue() issued are         *)
(* disjoint, each handle unpacks to the pair it was made of and passes      *)
(* isbadqueue(), and no process is in two places.                           *)
Separate ==
    /\ \A q \in DOMAIN order : /\ queuehead(q) \in NPROC .. nextqueue - 2
                               /\ queuetail(q) = queuehead(q) + 1
                               /\ ~isbadqueue(q)
    /\ \A q, r \in DOMAIN order :
          q # r => /\ queuehead(q) # queuehead(r)
                   /\ queuehead(q) # queuetail(r)
    /\ \A q, r \in DOMAIN order :
          \A i \in 1 .. Len(order[q]), j \in 1 .. Len(order[r]) :
             order[q][i] = order[r][j] => q = r /\ i = j

(* No queue holds a process whose slot is free: dequeue() would hand out a  *)
(* process that remove() refuses to unlink.                                 *)
QueuedAreLive == \A q \in DOMAIN order : \A i \in 1 .. Len(order[q]) : order[q][i] \in live

(* The table implements the FIFO queues of queue.h, results included. *)
Fifo == INSTANCE FifoQueues
          WITH Process <- Pid, Handle <- {qid_typ(e, e + 1) : e \in Entry}, SYSERR <- SYSERR, EMPTY <- EMPTY
FifoSpec == Fifo!Spec
==============================================================================
