------------------------------- MODULE Lottery -------------------------------
(***************************************************************************)
(* The lottery of resched.c: the sum of the tickets, the random ticket and *)
(* the walk through the process table that finds its owner.  Both loops    *)
(* examine a slot through the pointer checkedProc, which the loop moves at *)
(* its end, so that round i sees slot i - 1 (and round 0 slot 0).          *)
(***************************************************************************)
EXTENDS Proc, FiniteSetsExt

CONSTANT ResidueOfZero  \* what the generator % 0 can leave in a register

BADPID == -1

Eligible(s) == s \in {PRCURR, PRREADY}
checked(i) == IF i = 0 THEN 0 ELSE i - 1

(* The sum the code takes: slot i's tickets if the slot it sees is eligible. *)
get_total_tickets(state, tickets) ==
    MapThenSumSet(LAMBDA i : tickets[i], {i \in Pid : Eligible(state[checked(i)])})

(* The values random(max) can return; the processor divides by zero without *)
(* a trap and leaves the dividend.                                          *)
random(max) == IF max > 0 THEN 0 .. max - 1 ELSE ResidueOfZero

(* ticket_counter after each round of the walk; it starts uninitialized. *)
ticket_counter(state, tickets, start) ==
    LET after[i \in Pid] ==
            (IF i = 0 THEN start ELSE after[i - 1])
            + (IF Eligible(state[checked(i)]) THEN tickets[checked(i)] ELSE 0)
    IN  after

(* The rounds at which the walk would stop; it stops at the first, if any,  *)
(* and otherwise ends without having assigned selected_pid.                 *)
passed(state, tickets, ticket, start) ==
    {i \in Pid : ticket < ticket_counter(state, tickets, start)[i]}

selected_pid(state, tickets, ticket, start) ==
    LET stops == passed(state, tickets, ticket, start)
    IN  IF stops = {} THEN BADPID ELSE Min(stops)
==============================================================================
