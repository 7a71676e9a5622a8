----------------------------- MODULE FifoQueues ------------------------------
(***************************************************************************)
(* What include/queue.h promises of the process queues, with no table and  *)
(* no links: every queue is a FIFO sequence of processes, from any place   *)
(* of which a process can also be removed, and a process is in at most one *)
(* queue at a time.  ret is the result of the last call.                   *)
(***************************************************************************)
EXTENDS Integers, SequencesExt

CONSTANTS Process,          \* the processes
          Handle,           \* the handles a queue may be given
          SYSERR, EMPTY     \* the two failure results

VARIABLES order,    \* handle of every queue -> its processes, first to last
          live,     \* the processes that exist
          ret       \* result of the last call

vars == <<order, live, ret>>

Queued(p) == \E q \in DOMAIN order : p \in ToSet(order[q])

Init == /\ order = [q \in {} |-> << >>]
        /\ live = {}
        /\ ret = 0

New == \E q \in Handle \ DOMAIN order :
          /\ order' = [x \in DOMAIN order \cup {q} |->
                          IF x = q THEN << >> ELSE order[x]]
          /\ ret' = q
          /\ UNCHANGED live

(* A call with a bad process or a bad handle changes nothing. *)
Refuse == ret' = SYSERR /\ UNCHANGED <<order, live>>

Insert == \E p \in live, q \in DOMAIN order :
             /\ ~Queued(p)
             /\ order' = [order EXCEPT ![q] = Append(@, p)]
             /\ ret' = p
             /\ UNCHANGED live

Extract == \E p \in live, q \in DOMAIN order : \E i \in 1 .. Len(order[q]) :
              /\ order[q][i] = p
              /\ order' = [order EXCEPT ![q] = RemoveAt(@, i)]
              /\ ret' = p
              /\ UNCHANGED live

(* Removing a process that is in no queue changes no queue. *)
ExtractNone == \E p \in live : /\ ~Queued(p)
                               /\ ret' = p
                               /\ UNCHANGED <<order, live>>

TakeFirst == \E q \in DOMAIN order :
                /\ order[q] # << >>
                /\ order' = [order EXCEPT ![q] = Tail(@)]
                /\ ret' = Head(order[q])
                /\ UNCHANGED live

TakeNone == /\ \E q \in DOMAIN order : order[q] = << >>
            /\ ret' = EMPTY
            /\ UNCHANGED <<order, live>>

Live == /\ \E p \in Process : \/ live' = live \cup {p}
                              \/ ~Queued(p) /\ live' = live \ {p}
        /\ UNCHANGED <<order, ret>>

Next == New \/ Refuse \/ Insert \/ Extract \/ ExtractNone
        \/ TakeFirst \/ TakeNone \/ Live

Spec == Init /\ [][Next]_vars
==============================================================================
