--------------------------------- MODULE Trap ---------------------------------
(***************************************************************************)
(* A process in U mode, the way into the kernel and back: start.S's        *)
(* delegation, interrupt.S, dispatch.c, syscall_dispatch.c, the console    *)
(* calls of kprintf.c, the interrupt controller's side of clkhandler.c and *)
(* clkinit.c, ctxsw.S for a first run, xtrap.c and criticalerr.S.          *)
(*                                                                         *)
(* There is one process: resched() never selects another (see Process), so *)
(* in a system call or a tick it returns to its caller.  The kernel runs   *)
(* with interrupts off; the devices go on between its steps.               *)
(***************************************************************************)
EXTENDS Integers, SequencesExt, Riscv

CONSTANTS Val,          \* what a register may hold, or an argument; not the
                        \* address of the swap area
          Codes,        \* what it may put in a7 for a system call
          IntRange, CharRange,  \* an int has IntRange values, a char CharRange
          MaxTicks, MaxTyped    \* bounds: timer interrupts, characters typed

SYSERR == -1
OK     == 1
PcRange == 3    \* bound: instructions are counted modulo this

(* syscall_table: the calls of the console, and the number of all.         *)
SYSCALL_GETC  == 8
SYSCALL_PUTC  == 9
nsyscall      == 17

IRQ_TIMER == 75
NoIrq     == 0
E_ENVCALL_FROM_UMODE == 8

(* start.S delegates this exception and every interrupt to S mode. *)
medeleg == {E_ENVCALL_FROM_UMODE}
UserExceptions == {0, 1, 2, 3, 4, 5, 6, 7, 8, 12, 13, 15}

ASSUME TrapConstants ==
    /\ Val \subseteq Nat /\ SWAPAREAADDR \notin Val
    /\ Codes \subseteq Nat /\ MaxTicks \in Nat /\ MaxTyped \in Nat
    /\ CharRange \in Nat \ {0} /\ IntRange \in Nat /\ 2 * nsyscall < IntRange

(* A register passed as an int or as a char (unsigned on this machine) keeps *)
(* its low bits only.  SYSERR in a register is an int extended by its sign. *)
AsInt(word) ==
    LET low == word % IntRange
    IN  IF 2 * low < IntRange THEN low ELSE low - IntRange
AsChar(word) == word % CharRange
Char == 0 .. CharRange - 1

(* t0, a0, a1 and a7 have parts of their own; s0 stands for all the others. *)
Reg  == {"t0", "a0", "a1", "a7", "s0"}
Word == Val \cup Codes \cup Char \cup {SWAPAREAADDR, SYSERR, OK}

VARIABLES mapped,       \* whether the walk for SWAPAREAADDR ends in RAM
          at,           \* where the processor is
          regs, pc,     \* the process's registers
          swaparea,     \* its registers in memory
          sepc,         \* where sret goes
          irq,          \* what was claimed
          irq_sta, ip, inservice,   \* timer line, controller: pending, claimed
          rx, thre,     \* the UART: received characters, transmitter empty
          interruptVector

(* History: the registers at the last trap and its cause; the answer of a   *)
(* call; the ticks raised and handled; the characters typed and given out.  *)
VARIABLES before, cause, raised, clkticks, typed, got

trapVars == <<mapped, at, regs, pc, swaparea, sepc, irq, irq_sta, ip, inservice,
          rx, thre, interruptVector, before, cause, raised, clkticks, typed, got>>

user    == <<regs, pc>>
saved   == <<swaparea, sepc>>
plic    == <<irq, irq_sta, ip, inservice, interruptVector>>
uart    == <<rx, thre>>
clock   == <<raised, clkticks>>
console == <<typed, got>>
last    == <<before, cause>>

(* clkinit() has run: the handler is registered, although the timer was    *)
(* started before it; nothing was taken meanwhile.                         *)
TrapInit ==
    /\ mapped \in BOOLEAN
    /\ at = "ctxsw"
    /\ regs = [r \in Reg |-> 0] /\ pc = 0
    /\ swaparea = [r \in Reg |-> 0] /\ sepc = 0
    /\ irq = NoIrq /\ irq_sta \in BOOLEAN /\ ip = irq_sta /\ inservice = FALSE
    /\ rx = <<>> /\ thre \in BOOLEAN
    /\ interruptVector = [i \in {NoIrq, IRQ_TIMER} |->
                            IF i = IRQ_TIMER THEN "clkhandler" ELSE "NULL"]
    /\ before = [regs |-> regs, pc |-> 0] /\ cause = "none"
    /\ raised = IF irq_sta THEN 1 ELSE 0
    /\ clkticks = 0 /\ typed = <<>> /\ got = <<>>

(* ------------------------------------------------------------- devices *)
(* The line stays up until the handler clears it; the controller takes a   *)
(* line that is up as a request, one at a time.                            *)
TimerExpires ==
    /\ ~irq_sta /\ raised < MaxTicks
    /\ irq_sta' = TRUE /\ raised' = raised + 1
    /\ ip' = (ip \/ ~inservice)
    /\ UNCHANGED <<mapped, at, user, saved, irq, inservice, interruptVector,
                   uart, last, clkticks, console>>

Type(c) ==
    /\ Len(typed) < MaxTyped
    /\ rx' = Append(rx, c) /\ typed' = Append(typed, c)
    /\ UNCHANGED <<mapped, at, user, saved, plic, thre, last, clock, got>>

Sent ==
    /\ ~thre /\ thre' = TRUE
    /\ UNCHANGED <<mapped, at, user, saved, plic, rx, last, clock, console>>

(* ----------------------------------------------------- into the kernel *)
(* ctxsw() to a frame that create() made: its PC is not its RA, so it ends *)
(* in sret to U mode and not in ret.                                       *)
FirstRun ==
    /\ at = "ctxsw"
    /\ at' = "user"
    /\ UNCHANGED <<mapped, user, saved, plic, uart, last, clock, console>>

(* Mutant: a0 is saved as the pointer it was used for. *)
SavePointer(r) == [r EXCEPT !["t0"] = SWAPAREAADDR, !["a0"] = SWAPAREAADDR]

(* t0 is saved and then saved again, after it points to the swap area.     *)
Save(r) == [r EXCEPT !["t0"] = SWAPAREAADDR]

Delegated(code) == code \in medeleg

(* The process may have done anything with its registers since it last ran *)
(* and takes an interrupt before its next instruction.                     *)
Trap(r, why) ==
    /\ at = "user"
    /\ regs' = r
    /\ before' = [regs |-> r, pc |-> pc] /\ cause' = why
    /\ IF mapped THEN swaparea' = Save(r) /\ sepc' = pc /\ at' = why
                 ELSE at' = "criticalerr" /\ UNCHANGED saved
    /\ UNCHANGED <<mapped, pc, plic, uart, clock, console>>

Ecall == \E v \in [Reg \ {"a7"} -> Val], code \in Codes :
            ~ip /\ Trap([r \in Reg |-> IF r = "a7" THEN code ELSE v[r]], "ecall")

Interrupt == \E r \in [Reg -> Val] : ip /\ Trap(r, "claim")

(* Any other exception is the machine's: criticalerr prints and stays. *)
UserFault ==
    /\ at = "user" /\ ~ip
    /\ \E code \in UserExceptions : ~Delegated(code)
    /\ at' = "criticalerr"
    /\ UNCHANGED <<mapped, user, saved, plic, uart, last, clock, console>>

(* -------------------------------------------------------- system calls *)
(* Mutant: set_sepc() is forgotten. *)
AnswerAgain(value) ==
    /\ swaparea' = [swaparea EXCEPT !["a0"] = value]
    /\ at' = "return" /\ UNCHANGED sepc

(* The result in the swap area's a0, and the next instruction. *)
Answer(value) ==
    /\ swaparea' = [swaparea EXCEPT !["a0"] = value]
    /\ sepc' = (sepc + 1) % PcRange
    /\ at' = "return"

Console == {SYSCALL_GETC, SYSCALL_PUTC}

Code   == AsInt(swaparea["a7"])
descrp == AsInt(swaparea["a0"])

(* The calls that answer at once: resched() comes back with OK, kill() of  *)
(* the running process with it; a descriptor that is not 0 is refused, and *)
(* a number that is no call.                                               *)
syscall_dispatch ==
    /\ at = "ecall"
    /\ Code \in Console => descrp # 0
    /\ Answer(IF Code \in (0 .. nsyscall - 1) \ Console THEN OK ELSE SYSERR)
    /\ UNCHANGED <<mapped, user, plic, uart, last, clock, console>>

(* The two that wait for the UART with interrupts off. *)
kgetc ==
    /\ at = "ecall"
    /\ Code = SYSCALL_GETC /\ descrp = 0
    /\ rx # <<>>
    /\ Answer(Head(rx))
    /\ rx' = Tail(rx) /\ got' = Append(got, Head(rx))
    /\ UNCHANGED <<mapped, user, plic, thre, last, clock, typed>>

kputc ==
    /\ at = "ecall"
    /\ Code = SYSCALL_PUTC /\ descrp = 0
    /\ thre /\ thre' = FALSE
    /\ Answer(AsChar(swaparea["a1"]))
    /\ UNCHANGED <<mapped, user, plic, rx, last, clock, console>>

(* ---------------------------------------------------------- interrupts *)
Claim ==
    /\ at = "claim"
    /\ irq' = IF ip THEN IRQ_TIMER ELSE NoIrq
    /\ ip' = FALSE /\ inservice' = ip
    /\ at' = "complete"
    /\ UNCHANGED <<mapped, user, saved, irq_sta, interruptVector, uart, last, clock, console>>

(* Mutant: the write that completes the interrupt is left out. *)
CompleteNever ==
    /\ at = "complete" /\ at' = "handler"
    /\ UNCHANGED <<mapped, user, saved, plic, uart, last, clock, console>>

(* The line is still up, so the controller takes it as the next request. *)
Complete ==
    /\ at = "complete"
    /\ inservice' = FALSE /\ ip' = (ip \/ irq_sta)
    /\ at' = "handler"
    /\ UNCHANGED <<mapped, user, saved, irq, irq_sta, interruptVector, uart, last, clock, console>>

(* Mutant: the tick is counted when it is the first for its line only. *)
clkhandlerUncounted ==
    /\ at = "handler" /\ interruptVector[irq] = "clkhandler"
    /\ clkticks' = IF irq_sta THEN clkticks ELSE clkticks + 1
    /\ irq_sta' = FALSE
    /\ at' = "return"
    /\ UNCHANGED <<mapped, user, saved, irq, ip, inservice, interruptVector, uart, last,
                   raised, console>>

clkhandler ==
    /\ at = "handler" /\ interruptVector[irq] = "clkhandler"
    /\ clkticks' = clkticks + 1
    /\ irq_sta' = FALSE
    /\ at' = "return"
    /\ UNCHANGED <<mapped, user, saved, irq, ip, inservice, interruptVector, uart, last,
                   raised, console>>

(* ------------------------------------------------------------ and back *)
(* The loads after that of t0 go through t0. *)
Return ==
    /\ at = "return"
    /\ IF swaparea["t0"] = SWAPAREAADDR
       THEN regs' = swaparea /\ pc' = sepc /\ at' = "user"
       ELSE at' = "criticalerr" /\ UNCHANGED user
    /\ UNCHANGED <<mapped, saved, plic, uart, last, clock, console>>

Device == TimerExpires \/ Sent \/ \E v \in Val : Type(AsChar(v))
Kernel == FirstRun \/ syscall_dispatch \/ kgetc \/ kputc
          \/ Claim \/ Complete \/ clkhandler \/ Return

TrapNext == Device \/ Ecall \/ Interrupt \/ UserFault \/ Kernel

TrapSpec == TrapInit /\ [][TrapNext]_trapVars

(* The processor runs on, and takes an interrupt that is pending; the UART  *)
(* sends.  Nobody has to type.                                             *)
TrapFairness == WF_trapVars(Kernel) /\ WF_trapVars(Interrupt) /\ WF_trapVars(Sent)
FairTrapSpec == TrapSpec /\ TrapFairness

(* ---------------------------------------------------------- properties *)
(* Every variable keeps its type; what was claimed indexes interruptVector. *)
TrapTypeOK ==
    /\ mapped \in BOOLEAN
    /\ at \in {"ctxsw", "user", "ecall", "claim", "complete", "handler", "return",
               "criticalerr"}
    /\ regs \in [Reg -> Word] /\ swaparea \in [Reg -> Word]
    /\ pc \in 0 .. PcRange - 1 /\ sepc \in 0 .. PcRange - 1
    /\ irq \in DOMAIN interruptVector
    /\ irq_sta \in BOOLEAN /\ ip \in BOOLEAN /\ inservice \in BOOLEAN
    /\ rx \in Seq(Char) /\ thre \in BOOLEAN
    /\ raised \in 0 .. MaxTicks + 1 /\ clkticks \in Nat
    /\ typed \in Seq(Char) /\ got \in Seq(Char)

(* What the C code of the call promises for these registers. *)
Promised(r) ==
    LET code == AsInt(r["a7"])  fd == AsInt(r["a0"])
    IN  CASE code = SYSCALL_GETC /\ fd = 0 /\ got # <<>> -> Last(got)
          [] code = SYSCALL_PUTC /\ fd = 0               -> AsChar(r["a1"])
          [] code \in Console /\ fd # 0                  -> SYSERR
          [] code < 0 \/ code >= nsyscall                -> SYSERR
          [] OTHER                                       -> OK

(* A process finds its registers as they were at the trap, wherever it was  *)
(* interrupted: a call changes a0 alone, a tick nothing; but t0 is lost in  *)
(* both, it comes back as the address of the swap area.                    *)
RegistersSurvive ==
    at = "user" /\ cause # "none" =>
        regs = [before.regs EXCEPT
                   !["t0"] = SWAPAREAADDR,
                   !["a0"] = IF cause = "ecall" THEN Promised(before.regs) ELSE @]

(* A call is made once and a tick skips no instruction, in whatever order   *)
(* they come.                                                              *)
CallsOnce ==
    at = "user" /\ cause # "none" =>
        pc = (before.pc + IF cause = "ecall" THEN 1 ELSE 0) % PcRange

(* Every time the timer's line goes up the handler runs, once or twice:     *)
(* completed before it is served, a line is taken for a second request.    *)
TicksCounted ==
    /\ clkticks >= raised - (IF irq_sta THEN 1 ELSE 0)
    /\ clkticks <= 2 * raised
    /\ ~irq_sta /\ ~ip /\ at \in {"user", "ecall"} => clkticks >= raised

(* The line is always served, except that a process waiting for a character *)
(* that nobody types keeps the clock waiting with it.                      *)
AwaitsTyping == at = "ecall" /\ Code = SYSCALL_GETC /\ rx = <<>>
TickServed == irq_sta ~> (~irq_sta \/ at = "criticalerr" \/ AwaitsTyping)

(* interrupt.S: safely store all register state.  What a process finds      *)
(* after an interrupt is what it had.                                      *)
AllRegistersKept == at = "user" /\ cause = "claim" => regs = before.regs
===============================================================================
