---------------------------- MODULE MCQueueTable -----------------------------
(* A small instance: three processes, room for two queues and one entry    *)
(* more, so that the table fills up with an odd entry to spare.            *)
EXTENDS QueueTable

MCStrayPid == {-1, NPROC}

(* The handle of no queue, one with head and tail swapped, one beyond.     *)
MCBadHandle == {0, qid_typ(NPROC + 1, NPROC), qid_typ(NQENT - 1, NQENT)}
==============================================================================
