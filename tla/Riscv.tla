--------------------------------- MODULE Riscv ---------------------------------
(***************************************************************************)
(* What the two halves of a process's address space share: the page tables *)
(* map the swap area (Memory), the way into the kernel writes it (Trap).   *)
(***************************************************************************)

CONSTANT SWAPAREAADDR    \* riscv.h: where the swap area of a process is
===============================================================================
