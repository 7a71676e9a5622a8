------------------------------ MODULE MCProcess ------------------------------
(* A small instance: three slots, a ready list and one queue entry more,   *)
(* unequal ticket counts, a quantum that is no divisor of the second and   *)
(* pages enough for three creations but not for a fourth.                  *)
EXTENDS Process

MCPriorities == {1}
MCLeftOvers == {0, 4}
MCResidueOfZero == {5}
==============================================================================
