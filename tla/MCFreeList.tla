------------------------------ MODULE MCFreeList ------------------------------
(* A small instance: two segments, one of them not full, on nine blocks.   *)
EXTENDS FreeList, TLC

CONSTANTS p1, p2, a1, a2

One == {p1}
Two == {p1, p2}
MCAddr == {a1, a2}

Alike == Permutations(MCAddr)
AllAlike == Permutations(MCAddr) \cup Permutations(Two)
==============================================================================
