-------------------------------- MODULE Proc ---------------------------------
(***************************************************************************)
(* The process table of the RISC-V kernel as include/proc.h declares it:   *)
(* slots 0..NPROC-1, the four states of a slot and the test for a bad id.  *)
(***************************************************************************)
EXTENDS Integers

CONSTANT NPROC      \* number of process slots

SYSERR   == -1
NULLPROC == 0

Pid == 0 .. NPROC - 1

PRFREE  == 0
PRCURR  == 1
PRSUSP  == 2
PRREADY == 3
PState  == {PRFREE, PRCURR, PRSUSP, PRREADY}

Live(state) == {p \in Pid : state[p] # PRFREE}

(* live is the set of processes whose slot is not PRFREE. *)
isbadpid(pid, live) == pid \notin Pid \/ pid \notin live
==============================================================================
