------------------------------ MODULE MCAccounts ------------------------------
(* A small instance: two commands at a time, two passwords.                *)
EXTENDS Accounts, TLC

CONSTANTS p1, p2, w1, w2

MCProcs == {p1, p2}
MCPass  == {w1, w2}
Alike   == Permutations(MCProcs) \cup Permutations(MCPass)
==============================================================================
