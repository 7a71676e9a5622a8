-------------------------------- MODULE Memory --------------------------------
(***************************************************************************)
(* Physical pages and page tables: pgInit.c, pgFree.c, pgalloc.c, map.c,   *)
(* vm_kerninit.c, vm_userinit.c and the parts of create.c, kill.c and      *)
(* testcases.c that use them.                                              *)
(*                                                                         *)
(* Addresses are bytes, a page is named by its first byte, and a step maps *)
(* one page, as pgTraverseAndCreate() does.  Nothing interrupts the kernel *)
(* here: it runs with interrupts off until the first process runs.  It     *)
(* does run with its own page table on, so a page it cannot translate      *)
(* stops it: a page fault in the kernel goes to criticalerr, which never   *)
(* returns.                                                                *)
(***************************************************************************)
EXTENDS Integers, SequencesExt, Riscv

CONSTANTS PAGE_SIZE, Fan,               \* bytes of a page, entries of a table
          _start, _ctxsws, _interrupte, _datas, _end,    \* ld.script
          KernelStack,                  \* bytes of stack after the image
          maxaddr,                      \* the last byte of RAM
          UART_BASE, PROCSTACKADDR,
          MagicPage,                    \* where STACKMAGIC leads as an entry
          PID,                          \* process ids; 0 is the null process
          MaxCalls                      \* bound: tables and processes made

memheap  == _end + KernelStack
NULLPROC == 0
NoPage   == -1

roundpage(x) == ((x + PAGE_SIZE - 1) \div PAGE_SIZE) * PAGE_SIZE
truncpage(x) == (x \div PAGE_SIZE) * PAGE_SIZE
PageAligned(x) == x % PAGE_SIZE = 0

VPN2(va) == (va \div (PAGE_SIZE * Fan * Fan)) % Fan
VPN1(va) == (va \div (PAGE_SIZE * Fan)) % Fan
VPN0(va) == (va \div PAGE_SIZE) % Fan

(* The image starts at a page, RAM ends at the last byte of one, and the  *)
(* devices and a process's own pages are not RAM.                         *)
ASSUME MemoryLayout ==
    /\ PAGE_SIZE \in Nat /\ PAGE_SIZE > 1 /\ Fan \in Nat /\ Fan > 1
    /\ \A x \in {_start, _ctxsws, _interrupte, _datas, _end, KernelStack,
                 UART_BASE, PROCSTACKADDR, SWAPAREAADDR, MagicPage} :
            x \in Nat /\ PageAligned(x)
    /\ maxaddr \in Nat /\ PageAligned(maxaddr + 1)
    /\ _start < _ctxsws /\ _ctxsws < _interrupte /\ _interrupte <= _datas
    /\ _datas <= _end /\ 0 < KernelStack /\ memheap + PAGE_SIZE <= maxaddr
    /\ \A x \in {UART_BASE, MagicPage} : x + PAGE_SIZE <= _start
    /\ \A x \in {PROCSTACKADDR, SWAPAREAADDR} :
            maxaddr < x /\ x < Fan * Fan * Fan * PAGE_SIZE
    /\ NULLPROC \in PID /\ MaxCalls \in Nat

(* The stack and the swap area of a process are adjacent pages of one table. *)
ASSUME OneTable == /\ VPN2(PROCSTACKADDR) = VPN2(SWAPAREAADDR)
                   /\ VPN1(PROCSTACKADDR) = VPN1(SWAPAREAADDR)

HeapPage == {x \in memheap .. maxaddr : PageAligned(x)}
Index    == 0 .. Fan - 1

VARIABLES pgfreelist,    \* the free pages, first the one pgalloc() takes
          pgtbl_nents,   \* number of pages in the entire system
          memory,        \* the words of a page that are not zero
          satp,          \* the table the kernel runs under, or NoPage
          proctab,       \* pid -> its pages
          phase,         \* what the kernel is doing
          pid,           \* the process that create() is making
          pagetable,     \* the table being filled, and for which process
          todo           \* the pages that are still to be mapped in it

(* History: the tables made, the pages of stacks and of swap areas; *)
(* the calls main has made.                                              *)
VARIABLES roots, stacks, swapped, calls

vars == <<pgfreelist, pgtbl_nents, memory, satp, proctab, phase, pid,
          pagetable, todo, roots, stacks, swapped, calls>>

pages == <<pgfreelist, memory>>
past  == <<roots, stacks, swapped, calls>>

(* ---------------------------------------------------- entries and tables *)
Zeroed == [i \in {} |-> 0]

Put(page, i, word) ==
    [j \in DOMAIN page \cup {i} |-> IF j = i THEN word ELSE page[j]]

(* PA2PTE and PTE2PA are inverse on page addresses. *)
Link(page)       == [to |-> page, attr |-> {"V"}]
Leaf(page, attr) == [to |-> page, attr |-> attr \cup {"V"}]
IsLeaf(pte)      == pte.attr \cap {"R", "W", "X"} # {}

(* Words that are no entries; the low bits of STACKMAGIC make it one. *)
Data       == [to |-> 0, attr |-> {}]
STACKMAGIC == [to |-> MagicPage, attr |-> {"V", "X", "U", "D"}]

(* The hardware's walk: two links, then a leaf. *)
Links(table, i) ==
    i \in DOMAIN memory[table] /\ ~IsLeaf(memory[table][i])

Level0(root, va) ==
    IF Links(root, VPN2(va)) /\ Links(memory[root][VPN2(va)].to, VPN1(va))
    THEN memory[memory[root][VPN2(va)].to][VPN1(va)].to ELSE NoPage

IsMapped(root, va) ==
    /\ Level0(root, va) # NoPage
    /\ VPN0(va) \in DOMAIN memory[Level0(root, va)]
Walk(root, va) == memory[Level0(root, va)][VPN0(va)]

(* A page the kernel may read and write where it believes it to be. *)
Reaches(page) ==
    satp # NoPage =>
        /\ IsMapped(satp, page)
        /\ Walk(satp, page).to = page
        /\ {"R", "W"} \subseteq Walk(satp, page).attr

(* ------------------------------------------------------------ the list *)
(* Mutant: a page beyond RAM is listed. *)
pgfreerangeBeyond(start, end) ==
    [i \in 1 .. (end + 1 - start) \div PAGE_SIZE |-> end + 1 - (i - 1) * PAGE_SIZE]

(* The loop stops when the page's end is the range's end or beyond it. *)
pgfreerange(start, end) ==
    LET first == roundpage(start)
        count == IF end <= first THEN 0 ELSE (end - 1 - first) \div PAGE_SIZE
    IN  IF end > maxaddr \/ start < memheap \/ end < start THEN <<>>
        ELSE [i \in 1 .. count |-> first + (count - i) * PAGE_SIZE]

(* A step of the kernel is a function of the pages; fault when it touches  *)
(* a page it cannot reach or uses the SYSERR of an empty list as one.      *)
Now == [free |-> pgfreelist, mem |-> memory, fault |-> FALSE]

(* Mutant: the page stays in the list. *)
pgallocKeeps(m) ==
    IF m.free = <<>> \/ m.fault THEN [m EXCEPT !.fault = TRUE]
    ELSE [m EXCEPT !.mem[Head(m.free)] = Zeroed]

pgalloc(m) ==
    IF m.free = <<>> \/ m.fault \/ ~Reaches(Head(m.free))
    THEN [m EXCEPT !.fault = TRUE]
    ELSE [m EXCEPT !.free = Tail(@), !.mem[Head(m.free)] = Zeroed]

(* Mutant: a table is made whether there is one or not. *)
DescendAnew(m, table, i) ==
    LET n == pgalloc(m)
    IN  IF n.fault THEN n
        ELSE [n EXCEPT !.mem[table] = Put(@, i, Link(Head(m.free)))]

(* The table an entry leads to, made when there is none. *)
Descend(m, table, i) ==
    IF m.fault \/ ~Reaches(table) THEN [m EXCEPT !.fault = TRUE]
    ELSE IF i \in DOMAIN m.mem[table] THEN m
    ELSE LET n == pgalloc(m)
         IN  IF n.fault THEN n
             ELSE [n EXCEPT !.mem[table] = Put(@, i, Link(Head(m.free)))]

(* Mutant: the leaf is written at the index of the level above. *)
pgTraverseWrongIndex(m, root, req) ==
    LET m1  == Descend(m, root, VPN2(req.va))
        l1  == m1.mem[root][VPN2(req.va)].to
        m2  == Descend(m1, l1, VPN1(req.va))
        l0  == m2.mem[l1][VPN1(req.va)].to
    IN  IF m1.fault \/ m2.fault THEN [m EXCEPT !.fault = TRUE]
        ELSE [m2 EXCEPT !.mem[l0] =
                 Put(@, VPN1(req.va), Leaf(req.pa, req.attr))]

pgTraverseAndCreate(m, root, req) ==
    LET m1  == Descend(m, root, VPN2(req.va))
        l1  == m1.mem[root][VPN2(req.va)].to
        m2  == Descend(m1, l1, VPN1(req.va))
        l0  == m2.mem[l1][VPN1(req.va)].to
    IN  IF m1.fault THEN m1
        ELSE IF m2.fault \/ ~Reaches(l0) THEN [m2 EXCEPT !.fault = TRUE]
        ELSE [m2 EXCEPT !.mem[l0] =
                 Put(@, VPN0(req.va), Leaf(req.pa, req.attr))]

(* ------------------------------------------------------- what is mapped *)
mapPage(va, attr, pa) == <<[va |-> truncpage(va), pa |-> pa, attr |-> attr]>>

(* An empty range is refused, and the callers do not look. *)
mapAddress(va, pa, length, attr) ==
    [i \in 1 .. roundpage(length) \div PAGE_SIZE |->
        [va |-> truncpage(va) + (i - 1) * PAGE_SIZE,
         pa |-> pa + (i - 1) * PAGE_SIZE, attr |-> attr]]

Same(from, to, attr) == mapAddress(from, from, to - from, attr)

(* Image(u, d): the parts both tables have; u for a user, d for its data. *)
Image(u, d) ==
    Same(UART_BASE, UART_BASE + PAGE_SIZE, {"R", "W", "A", "D"} \cup u)
    \o Same(_start, _ctxsws, {"R", "X", "A", "D", "G"} \cup u)
    \o Same(_ctxsws, _ctxsws + 2 * PAGE_SIZE, {"R", "X", "A", "D", "G"})
    \o Same(_interrupte, _datas, {"R", "X", "A", "D", "G"} \cup u)
    \o Same(_datas, memheap, {"R", "A", "D"} \cup d)

(* Mutant: the kernel's RAM is left out. *)
KernelMapImage == Image({}, {"W"})

KernelMap == Image({}, {"W"}) \o Same(memheap, maxaddr, {"R", "W", "A", "D"})
UserMap   == Image({"U"}, {"U"})
             \o mapPage(PROCSTACKADDR, {"R", "W", "U", "A", "D"}, SWAPAREAADDR)
SwapMap   == mapPage(SWAPAREAADDR, {"R", "W", "A", "D"}, SWAPAREAADDR)

(* --------------------------------------------------------------- actions *)
NoProcess == [used |-> FALSE, pagetable |-> NoPage, stkbase |-> NoPage,
              swaparea |-> NoPage]

Init ==
    /\ pgfreelist = <<>> /\ pgtbl_nents = 0
    /\ memory = [p \in HeapPage |-> Zeroed]
    /\ satp = NoPage
    /\ proctab = [p \in PID |-> [NoProcess EXCEPT !.used = (p = NULLPROC)]]
    /\ phase = "reset" /\ pid = NULLPROC /\ pagetable = NoPage /\ todo = <<>>
    /\ roots = {} /\ stacks = {} /\ swapped = {} /\ calls = 0

(* The pages a step leaves, unless it faulted. *)
Keep(m) ==
    /\ ~m.fault
    /\ pgfreelist' = m.free /\ memory' = m.mem

pgInit ==
    /\ phase = "reset"
    /\ pgtbl_nents' = roundpage(maxaddr - memheap) \div PAGE_SIZE
    /\ pgfreelist' = pgfreerange(memheap, maxaddr)
    /\ phase' = "listed"
    /\ UNCHANGED <<memory, pid, satp, proctab, pagetable, todo, past>>

(* A table starts as an empty page. *)
NewTable ==
    /\ Keep(pgalloc(Now))
    /\ pagetable' = Head(pgfreelist)
    /\ roots' = roots \cup {Head(pgfreelist)}

vm_kerninit ==
    /\ phase = "listed"
    /\ NewTable
    /\ todo' = KernelMap /\ phase' = "kernel"
    /\ UNCHANGED <<pgtbl_nents, pid, satp, proctab, stacks, swapped, calls>>

MapNext ==
    /\ phase # "halted" /\ todo # <<>>
    /\ Keep(pgTraverseAndCreate(Now, pagetable, Head(todo)))
    /\ todo' = Tail(todo)
    /\ UNCHANGED <<pgtbl_nents, pid, satp, proctab, phase, pagetable, past>>

(* Paging is on from here. *)
set_satp ==
    /\ phase = "kernel" /\ todo = <<>>
    /\ satp' = pagetable
    /\ proctab' = [proctab EXCEPT ![NULLPROC].pagetable = pagetable]
    /\ phase' = "main"
    /\ UNCHANGED <<pages, pgtbl_nents, pid, pagetable, todo, past>>

(* create() takes the stack before it looks for a slot: with none free the *)
(* page is lost.                                                           *)
CreateStack ==
    /\ phase = "main"
    /\ calls < MaxCalls /\ calls' = calls + 1
    /\ Keep(pgalloc(Now))
    /\ stacks' = stacks \cup {Head(pgfreelist)}
    /\ \/ /\ \A p \in PID : proctab[p].used
          /\ UNCHANGED <<phase, pid, proctab>>
       \/ \E p \in PID :
            /\ ~proctab[p].used
            /\ proctab' = [proctab EXCEPT ![p] =
                 [NoProcess EXCEPT !.used = TRUE, !.stkbase = Head(pgfreelist)]]
            /\ phase' = "stack" /\ pid' = p
    /\ UNCHANGED <<pgtbl_nents, satp, pagetable, todo, roots, swapped>>

vm_userinit ==
    /\ phase = "stack"
    /\ NewTable
    /\ todo' = UserMap /\ phase' = "user"
    /\ UNCHANGED <<pgtbl_nents, pid, satp, proctab, stacks, swapped, calls>>

(* The swap area's page; its word for the kernel's stack is set, the one   *)
(* for the kernel's table is not.                                          *)
SwapArea ==
    /\ phase = "user" /\ todo = <<>>
    /\ LET m == pgalloc(Now)
       IN  Keep([m EXCEPT !.mem[Head(pgfreelist)] = Put(Zeroed, Fan - 1, Data)])
    /\ proctab' = [proctab EXCEPT ![pid].swaparea = Head(pgfreelist)]
    /\ todo' = SwapMap /\ phase' = "swap"
    /\ swapped' = swapped \cup {Head(pgfreelist)}
    /\ UNCHANGED <<pgtbl_nents, pid, satp, pagetable, roots, stacks, calls>>

(* The record at the top of the stack, whose first word is written one     *)
(* word above the page.                                                    *)
WriteRecordBelow(m, stack) ==    \* mutant: the page is left at its bottom
    [m EXCEPT ![stack] = Put(@, Fan - 1, Data),
              ![stack - PAGE_SIZE] = Put(@, 0, STACKMAGIC)]

WriteRecord(m, stack) ==
    [m EXCEPT ![stack] = Put(@, Fan - 1, Data),
              ![stack + PAGE_SIZE] = Put(@, 0, STACKMAGIC)]

RecordReaches(stack) == Reaches(stack) /\ Reaches(stack + PAGE_SIZE)

CreateRecord ==
    /\ phase = "swap" /\ todo = <<>>
    /\ RecordReaches(proctab[pid].stkbase)
    /\ memory' = WriteRecord(memory, proctab[pid].stkbase)
    /\ proctab' = [proctab EXCEPT ![pid].pagetable = pagetable]
    /\ phase' = "main"
    /\ UNCHANGED <<pgfreelist, pgtbl_nents, pid, satp, pagetable, todo, past>>

(* kill() frees the slot and none of the pages.  Killing itself is the end *)
(* of main: the created processes run, and none of them creates another.   *)
kill(p) ==
    /\ phase = "main" /\ proctab[p].used
    /\ proctab' = [proctab EXCEPT ![p].used = FALSE]
    /\ phase' = IF p = NULLPROC THEN "processes" ELSE "main"
    /\ UNCHANGED <<pages, pgtbl_nents, pid, satp, pagetable, todo, past>>

(* The test cases' table of three pages by hand; one of its leaves. *)
FakeMap == mapPage(PROCSTACKADDR, {"R", "W"}, MagicPage)

FakeTable(m) ==
    LET root == m.free[1]
        l1   == m.free[2]
        l0   == m.free[3]
        req  == FakeMap[1]
        n    == pgalloc(pgalloc(pgalloc(m)))
    IN  IF n.fault \/ Len(m.free) < 3 THEN [n EXCEPT !.fault = TRUE]
        ELSE [n EXCEPT !.mem[root] = Put(@, VPN2(req.va), Link(l1)),
                       !.mem[l1]   = Put(@, VPN1(req.va), Link(l0)),
                       !.mem[l0]   = Put(@, VPN0(req.va), Leaf(req.pa, req.attr))]

createFakeTable ==
    /\ phase = "main"
    /\ calls < MaxCalls /\ calls' = calls + 1
    /\ Keep(FakeTable(Now))
    /\ roots' = roots \cup {Head(pgfreelist)}
    /\ UNCHANGED <<pgtbl_nents, pid, satp, proctab, phase, pagetable, todo, stacks, swapped>>

(* The tables that printPageTable() reads: it follows what is no leaf. *)
Below(table) == {memory[table][i].to : i \in {j \in Index : Links(table, j)}}
Tree(root)   == {root} \cup Below(root) \cup UNION {Below(t) : t \in Below(root)}

(* ------------------------------------------------------------- the stops *)
Halt == /\ phase' = "halted"
        /\ UNCHANGED <<pages, pgtbl_nents, pid, satp, proctab, pagetable, todo, past>>

(* A step of vm_kerninit() or create() that needs a page or a table. *)
MapFaults ==
    /\ phase # "halted" /\ todo # <<>>
    /\ pgTraverseAndCreate(Now, pagetable, Head(todo)).fault
    /\ Halt

AllocFaults ==
    /\ todo = <<>> /\ phase \notin {"reset", "kernel", "main", "processes", "halted"}
    /\ IF phase = "swap"
       THEN ~RecordReaches(proctab[pid].stkbase)
       ELSE pgalloc(Now).fault
    /\ Halt

(* In main: the first page of create() (its SYSERR is looked at), the fake  *)
(* table, and reading a created process's tables.                           *)
MainFaults ==
    /\ phase = "main" /\ calls < MaxCalls
    /\ TRUE \in {pgfreelist # <<>> /\ pgalloc(Now).fault,
                 FakeTable(Now).fault,
                 \E p \in PID \ {NULLPROC} : proctab[p].used
                    /\ \E t \in Tree(proctab[p].pagetable) : ~Reaches(t)}
    /\ Halt

Next ==
    \/ pgInit \/ vm_kerninit \/ MapNext \/ set_satp
    \/ CreateStack \/ vm_userinit \/ SwapArea \/ CreateRecord
    \/ \E p \in PID : kill(p)
    \/ createFakeTable
    \/ AllocFaults \/ MapFaults \/ MainFaults

Spec == Init /\ [][Next]_vars

(* ------------------------------------------------------------ properties *)
(* Every variable keeps its type: what the kernel takes for a page of its   *)
(* heap is one.                                                             *)
TypeOK ==
    /\ pgfreelist \in Seq(HeapPage) /\ pgtbl_nents \in Nat
    /\ DOMAIN memory = HeapPage
    /\ satp \in HeapPage \cup {NoPage} /\ pagetable \in HeapPage \cup {NoPage}
    /\ \A p \in PID : proctab[p] \in
         [used : BOOLEAN, pagetable : HeapPage \cup {NoPage},
          stkbase : HeapPage \cup {NoPage}, swaparea : HeapPage \cup {NoPage}]
    /\ phase \in {"reset", "listed", "kernel", "main", "stack", "user", "swap",
                  "processes", "halted"} /\ pid \in PID
    /\ roots \cup stacks \cup swapped \subseteq HeapPage /\ calls \in 0 .. MaxCalls

Free  == ToSet(pgfreelist)
LinksOf(root) == {e \in Tree(root) \X Index : Links(e[1], e[2])}

(* A page is free, or in one table tree at one place, or a stack, or a swap *)
(* area, and never two of these; what has been taken is never listed again. *)
PagesApart ==
    /\ IsInjective(pgfreelist)
    /\ \A r \in roots : Tree(r) \cap (Free \cup stacks \cup swapped) = {}
    /\ \A r, q \in roots : r # q => Tree(r) \cap Tree(q) = {}
    /\ \A r \in roots : Cardinality(LinksOf(r)) = Cardinality(Tree(r)) - 1
    /\ Free \cap (stacks \cup swapped) = {} /\ stacks \cap swapped = {}

(* A finished table translates each address as the last request for it     *)
(* says; only the kernel's may have one entry that a stack's magic word    *)
(* replaced, the first of a table that lies right above a stack.           *)
AsAsked(root, reqs, i) ==
    \/ IsMapped(root, reqs[i].va) /\ Walk(root, reqs[i].va) = Leaf(reqs[i].pa, reqs[i].attr)
    \/ \E j \in i + 1 .. Len(reqs) : reqs[j].va = reqs[i].va

SpacesComplete ==
    phase = "main" =>
        /\ \A i \in DOMAIN KernelMap :
            \/ AsAsked(satp, KernelMap, i)
            \/ /\ VPN0(KernelMap[i].va) = 0
               /\ Level0(satp, KernelMap[i].va) - PAGE_SIZE \in stacks
        /\ \A p \in PID : proctab[p].used /\ p # NULLPROC =>
            \A i \in DOMAIN (UserMap \o SwapMap) :
                AsAsked(proctab[p].pagetable, UserMap \o SwapMap, i)

(* The word above a stack falls on a page that was in use before it.  It is *)
(* never one of a process's own tables.                                    *)
StrayWord ==
    \A p \in HeapPage :
        0 \in DOMAIN memory[p] /\ memory[p][0] = STACKMAGIC =>
            /\ p - PAGE_SIZE \in stacks /\ p \notin Free
            /\ \A q \in PID \ {NULLPROC} :
                proctab[q].pagetable # NoPage => p \notin Tree(proctab[q].pagetable)

(* The kernel stops for want of pages, or at a page of RAM that the stray  *)
(* word took out of its table.                                             *)
StopsHaveCause ==
    phase = "halted" =>
        \/ Len(pgfreelist) < 3
        \/ \E p \in HeapPage : IsMapped(satp, p) /\ Walk(satp, p) = STACKMAGIC

(* The spaces the tables stand for, and what may be asked of them. *)
Request == {[va |-> q.va, e |-> Leaf(q.pa, q.attr)] :
                q \in ToSet(KernelMap \o UserMap \o SwapMap \o FakeMap)}
PageOf(i2, i1, i0) == ((i2 * Fan + i1) * Fan + i0) * PAGE_SIZE
At(table, i) == IF Links(table, i) THEN memory[table][i].to ELSE NoPage
Mapped(root) ==
    UNION {UNION {{PageOf(i2, i1, i0) : i0 \in DOMAIN memory[At(At(root, i2), i1)]} :
                     i1 \in DOMAIN memory[At(root, i2)]} : i2 \in DOMAIN memory[root]}
spaces == [r \in roots |-> [va \in Mapped(r) |-> Walk(r, va)]]

Spaces == INSTANCE AddressSpace WITH Stray <- STACKMAGIC, space <- spaces

(* The tables implement address spaces that change by requests only: making *)
(* a table on the way to one entry disturbs no other entry of any space.    *)
ImplementsSpaces == Spaces!Spec
===============================================================================
