# A verification of the RISC-V kernel and the MIPS file system

TLA+ modules, TLC configurations and TLAPS proofs kept beside the code of the
repository. Two programs live in it:

* `src/RISC-V-Implementation` is a small preemptive kernel (an Embedded Xinu
  descendant) for one RISC-V hart: a process table, a table of process queues,
  a lottery scheduler, a clock, a page allocator with page tables, a trap
  dispatcher and a console.
* `src/MIPS-Implementation` is a file system, a table of accounts and shell
  commands for a MIPS router whose kernel is a prebuilt library
  (`lib/xinu-os.a`), with the daemon of the host that serves the disk.

`PROJECT.json` lists components, runs, mutants, findings, hazards and theorems,
and maps every definition to the lines it models. This file explains them.

## 1. Inventory

### 1.1 The RISC-V kernel

All kernel code runs in supervisor mode with interrupts off (`sstatus.SIE` is
clear from the trap entry until `sret`), on one hart. A kernel call is therefore
atomic with respect to every other: what interleaves is *calls*, made by the
running process or by the clock, in any order, and the devices, which go on while
the kernel works.

| component | state | operations | makes it correct |
|---|---|---|---|
| queue table `queue.c` | `queuetab[NQENT]` (`next`, `prev`), `nextqueue` | `newqueue`, `enqueue`, `remove`, `dequeue`, macros of `queue.h` | each queue is doubly linked in FIFO order; queues share no entry; a process is in one place |
| process table `create.c`, `ready.c`, `kill.c` | `proctab[]`, `numproc`, `newpid`'s `nextpid` | `create`, `ready`, `kill`, `newpid` | a slot's life cycle; ids go round; counter and table agree |
| scheduler `resched.c`, `random.c` | `currpid`, `readylist`, `preempt` | `resched`, `get_total_tickets`, the lottery walk | one process runs; ready processes are on the list; the holder of the drawn ticket runs |
| clock `clkhandler.c` | `clkticks`, `clktime`, `preempt` | `clkhandler` | no tick is lost; a quantum ends |
| trap dispatch `interrupt.S`, `dispatch.c`, `syscall_dispatch.c` | `swaparea` of the trapped process, interrupt controller | save, `dispatch`, system calls, claim and completion, return | a process finds its registers again; a call is made once; the clock is served |
| memory `pgInit.c`, `pgalloc.c`, `pgFree.c`, `map.c`, `vm_kerninit.c`, `vm_userinit.c` | free page list, three-level tables | `pgInit`, `pgalloc`, `map`, walks | no page twice; what is mapped is what was asked; processes apart |
| console `kprintf.c` | unget buffer, the UART's queue | `kgetc`, `kputc` (`kungetc` and `kcheckc` have no caller) | characters are taken in order |

Interactions: `create`, `ready`, `kill` and `resched` call the queue table;
`ready`, `kill`, `clkhandler` and the system call `yield` call `resched`;
`create` calls `pgalloc` and `vm_userinit`; `dispatch` calls everything.

Three facts of the shipped boot flow matter to whoever reads the models.
`resched()` takes the process it is about to leave as the process to enter, so
no switch ever happens and the null process goes on running `main()`. Hence no
process the repository creates ever reaches user mode; `Trap` says what would
happen to one that did, and `Process` takes the calls of `resched()` and
`clkhandler()` as made by whatever process is current. And the kernel translates
its own addresses from `vm_kerninit()` on: a page it cannot translate stops it
(`criticalerr`).

### 1.2 The MIPS file system

Here processes do interleave: the library's semaphores, the disk driver and the
console switch processes inside every operation.

| component | state | operations | makes it correct |
|---|---|---|---|
| free list `sbInit.c`, `sbGetBlock.c`, `sbFreeBlock.c`, `sbOpen.c` | `supertab`, chain of `freeblk` nodes, their blocks on the disk, `freelock` | as named | a block is free or in use, never both, in memory and after a restart |
| directory and files `file*.c` | `filetab`, directory block, cursors, `dirlock`, the driver's position | create, open, close, delete, get, put, seek | a block has one owner, what was closed stays and reads back, locks are given back |
| accounts `passwd*.c`, `xsh_*.c` | `usertab`, `userid`, the file `passwd` | login, logout, makeuser, chpass, switchuser | who is logged in has an account; the file follows the table |
| disk daemon `device/disk/xinu-disk.c` | handshake, two buffered outputs, file of blocks | greet, serve, read, write, two flushes | what is confirmed is stored; data is not taken for commands |

Hard behaviours: state read before a lock is taken, a position shared by calls that
hold no lock, error returns that keep a lock or leave pointers in their disk form,
disk writes that fail, a restart between two writes, a command left at a prompt while
others change what it has looked at, an answer flushed before the data it confirms.

### 1.3 Hazards

`PROJECT.json` lists what is hard to test, at its line, with the properties that
would catch it; an entry without a property says why it has none.

## 2. Plan

Most important first. Every module keeps parameters as constants with named
assumptions, one action per operation, invariants as conjunctions of named
parts, and uses no recursive operator where proofs are meant.

Done, in this order: the kernel core (`Proc`, `Queue`, `QueueTable` implementing
`FifoQueues`, `Lottery`, `Process`) with its proofs; `FreeList`; `Memory`
implementing `AddressSpace`; `Trap`; `FileSystem`; `Accounts`; `DiskDaemon`; the proofs about
`Trap`, `Accounts`, `DiskDaemon`, `FreeList`, `FileSystem` and `Memory`.

Left: failing writes in `FileSystem`, which only `FreeList` has; a proof of
`NoSecondOwner` where writes fail.

## 3. Modules and the code

### 3.1 `Proc`, `Queue`, `FifoQueues`, `QueueTable`

`Proc` has the constants of `proc.h`: process ids `0..NPROC-1`, the four states,
`isbadpid`.

`Queue` has the data structure as pure operators. The table is a record of two
functions `next` and `prev`, as `struct qentry` has two fields; entries below
`NPROC` are processes, the ones above are allotted in pairs. An operation takes
the table and returns the new one with the result (`enqueue`, `dequeue`,
`remove`); `link` and `unlink` are the assignments in their order, which
matters: the second reads what the first wrote. A handle is computed as
`newqueue()` packs it, 16 bits per index, and taken apart by `queuehead` and
`queuetail`. The table starts as the cleared memory the program starts with.

`FifoQueues` is what `queue.h` promises, with no table and no links: a
set of sequences and the result of the last call.

`QueueTable` is the component: one action per call, each with the obligation its
callers meet (a process is not enqueued while it is in a queue; `remove` is
called on a queued process or on one that `dequeue` linked to itself). `live` is
the set of slots in use, which `isbadpid` reads; `TakeSlot` and `FreeSlot` change
it as `create` and `kill` do. The history variable `order` records what each
queue should hold. `CallNewqueue` has no guard, as `newqueue()` has none: a call with
fewer than two entries left writes behind the table, and nothing is modelled after it
(the kernel's one caller allots one queue).

### 3.2 `Lottery`, `Process`

`Lottery` has the arithmetic of `resched.c`. Both loops look at a slot through a
pointer that is advanced at the end of the round, so round `i` sees slot `i - 1`
(round 0 sees slot 0): `checked`. `ticket_counter` and `selected_pid` are
uninitialized in the code; the model starts the counter at any value of
`LeftOvers` and gives `BADPID` when the walk selects nobody. `random` of zero is
any value of `ResidueOfZero`, because this processor's remainder by zero does
not trap.

`Process` is the process manager, scheduler and clock. Code to action:

| code | actions |
|---|---|
| `create()` with no page or no slot | `CreateRefused` (the stack page is gone all the same) |
| `create()`, `vm_userinit()` out of pages | `CreateFaults`: `numproc` is incremented, then an unchecked page faults and the kernel stops (`halted`) |
| `create()` | `CreateDone(priority)` |
| `ready(pid, RESCHED_NO)`, `ready(pid, RESCHED_YES)` | `ReadyOnly`, `ReadyResched` |
| `kill()` by the victim's state | `KillRunning`, `KillReady`, `KillSuspended` |
| system call `yield` | `Yield` |
| `clkhandler()` | `TickRuns`, `TickPreempts`, sharing `AdvanceClock` and `countdown` |

`resched` is an operator of the process table and the queue table it is entered
with, because `ready()` and `kill()` have written both before they call it. It
records the lottery in `draw`, so that what is drawn can be compared with what
runs. Of `tickets`, only the value `create()` stores; of memory, only the length
of the free list (`Memory` has the pages themselves).

History variables (never read by the code's own variables): `order` is the
processes put on the ready list in order and not removed, `requeued` how often
the running one was put there (counted to 2), `suicides` how often a process killed
itself, `waited` for every free slot how many creations passed it by, `ticks` since
boot, `held` since the last `resched()`.

### 3.3 `Memory`, `AddressSpace`

`Memory` has the physical pages of the RISC-V kernel: the page list that
`pgInit()` builds, the tables entry by entry, what `vm_kerninit()`, `create()`,
`kill()` and `testcases.c` do with them. A page is named by its first byte. One step
maps one page, as `pgTraverseAndCreate()` does, allocating the tables on the way.

| code | actions |
|---|---|
| `pgInit()`, `pgfreerange()` | `pgInit` |
| `vm_kerninit()`, one page of `mapAddressRange()`, `set_satp()` | `vm_kerninit`, `MapNext`, `set_satp` |
| `create()`: stack, table, swap area, record | `CreateStack`, `vm_userinit`, `MapNext`, `SwapArea`, `CreateRecord` |
| `kill()` | `kill` (frees the slot and no page) |
| `createFakeTable()` | `createFakeTable` |
| an unchecked `SYSERR` of `pgalloc()`, an address that translates nowhere | `AllocFaults`, `MapFaults`, `MainFaults` |

`map`'s tables are three levels of functions from index to entry; an entry that is
a pointer and one that is a leaf differ by their attributes, as the bits of an entry say.
`STACKMAGIC` is what `create()` writes one word *above* the page it took for a stack:
the model writes it as entry 0 of whatever page lies there and lets the translation
read it as an entry.

What the model reproduces of the shipped layout: `pgfreerange()` compares with `<`
and so leaves the last whole page out; the stack and the swap area of every process are
mapped to the physical address `SWAPAREAADDR`, which is no RAM, so the pages
allocated for them are reachable by nobody; and the magic word of a stack may hit the
kernel's own table. With the real constants the kernel's map takes 444 pages and each
creation 9, and the page whose entry is hit is the 511th popped, so an eighth creation
would fault; `main()` makes at most two. The instance that TLC checks has a layout chosen so
that this coincidence falls inside its bounds.

`AddressSpace` is what page tables promise: a set of address spaces, each a map from
virtual pages to entries, that change only by what is asked for. `Memory` implements it
with the tables' walks as the refinement mapping; the stray word is the one exception,
named as such (`Spoil`).

### 3.4 `Trap`

One process in user mode and the way into the kernel and back. `Riscv` holds the one
constant it shares with `Memory`, the address of the swap area; its specification is named
`TrapSpec`, so that one module can prove about both. A register is one of
those the path treats differently (`t0`, `a0`, `a1`, `a7`) or `s0`, which stands for
the others; the program counter is counted modulo `PcRange`. The devices are external:
the timer raises its line (`TimerExpires`), a character is typed (`Type`), one is
sent (`Sent`).

| code | actions |
|---|---|
| `ctxsw.S` for a process that never ran | `FirstRun` |
| `interrupt.S` on `ecall`, on an interrupt, on a fault | `Ecall`, `Interrupt`, `UserFault` |
| `dispatch()`, `syscall_dispatch()` | `syscall_dispatch`, with `kgetc` and `kputc` for the calls that wait |
| `dispatch()` for an interrupt | `Claim`, `Complete`, then `clkhandler` |
| `interrupt.S`, return | `Return` |

`mapped` says whether the walk for the swap area ends in RAM. With the tables that
`vm_userinit()` builds it does not, and the first trap ends in `criticalerr`; the
properties about registers are for the other case, which is what the code is meant to
have. `irq_sta` is the timer's line, `ip` the controller's request, `inservice` a
claim not yet completed. The controller is level triggered: the code completes the
interrupt before the handler lowers the line, so one tick may be handled twice.

The call's number and the descriptor are `int`s and the character a `char` where the
kernel takes them out of the 64-bit registers: `AsInt` and `AsChar` keep the low bits, of
which an `int` has `IntRange` values and a `char` `CharRange`, so that a register may be a
call, a descriptor 0 or a character only by its low half, or a negative number of a call.

### 3.5 `FreeList`

The list is a chain of segments, each in a block of its own that names other free
blocks (`fr_free`, whose length is `fr_count`). Memory has it as the sequence
`list` of segments and the pointer `sb_freelst` to the first; the disk has it as
block contents with block numbers for pointers (`Image`, `Super`). Following
`fr_next` on the disk is `Way` (`Chain`, up to where it ends), and what `sbOpen()` makes of
it is `sbOpenFreeList`.

Here a call is not atomic. A step runs from one point where the kernel may
switch processes to the next: `wait()`, and each call of the disk driver. `pc` is
the point, `local` the one local variable that matters there. The driver's
position is state of its own, because the code calls `seek()` and `write()`
one after the other and `fileClose()` does the same under no lock
(`FileSeek`, `FileWrite`). A seek belongs to the step before the write.

| code | actions |
|---|---|
| `sbOpen()` of a disk with a superblock | `Mount`, `MountAstray` |
| `sbInit()` | `InitDisk`, then `InitWrite` once for each of its writes, in order |
| restart | `Reboot`, at any step |
| `sbGetBlock()` | `GetHead` (the unlocked read), `GetLock`, one of `GetEntry`, `GetSegment`, `GetLast`, then `GetWrite` |
| `sbFreeBlock()` | `FreeRefused` or `FreeCall`, `FreeLock`, then `FreeAppend` or `FreeFull` with `FreeWrite`, or `FreeFirst`, `FreeSegment`, `FreeSuper` |
| `write()` answering `SYSERR` | the second disjunct of the writing actions: the lock is kept by `sbGetBlock()`, the answer is ignored by the others |

Where the code follows a pointer that is no segment (a segment freed meanwhile, a
block number left by a failed write, the variable `newfreeblk` before it was set, a
chain that leads to a block never written as a segment), what happens is undefined
or beyond the model: `astray` names the reason and the system stops. The
properties speak of all states up to there. `FreeFirst` lets `malloc()` return
any address, the one just freed too, so that a stale pointer may be valid again.

`sbInit()` looks at the answer of none of its writes. When the write of its superblock
fails, it builds a list on a disk that a restart takes for unused; blocks are taken and given
back, images of segments are left behind, and when a later `sbInit()` misses a segment, its
superblock leads to one of those images. `unmade` remembers that a write of `sbInit()` has
failed, and `NoSecondOwner` claims nothing from then on.

Relaxed against the code: a caller gives back only what it owns (`fileDelete()`
does not; that is `FileSystem`'s question), `malloc()` finds room, `read()`
succeeds, what files own survives a restart. `held` is the set of owned blocks,
`lost` (history) those nobody owns and nobody can get, `apart` (history) says that
memory and disk may differ because a write failed or a full list was cut.

### 3.6 `FileSystem`

The files as the shell's commands use them, on one driver with one position. A step
runs from one place where processes may be switched to the next.

| code | actions |
|---|---|
| `cat`: `fileOpen()`, `fileGetChar()` | `OpenNone`, `OpenAgain`, `OpenSeek` and `OpenRead`, `PrintChar` |
| `cat >`: `fileCreate()` with `sbGetBlock()` | `CreateNone`, `Create`, `GetBlock` or `GetAstray`, `GetWrite` |
| `filePutChar()` | `Type` |
| `fileClose()` | `Close`, `CloseWrite`, `CloseClear`, `CloseDir` or `CloseAstray`, `DirWrite` |
| `delete`: `fileDelete()` with `sbFreeBlock()` | `Delete`, `FreeBlock`, `FreeWrite`, `FreeSuper` |
| restart, `sbOpen()` | `Reboot`, `RebootRuined` |

The free list is one segment with room here (its chain and its failing writes are
`FreeList`'s). A character is the process that typed it, which is what telling two
writers apart needs. A file that is being created has the block number of an earlier one
until `sbGetBlock()` answers, as in the code. The history variables say what was typed
(`text`), which closes have returned (`kept`), and name what the code does not
protect from: two commands on one file (`mixed`), a read that another command's seek sent
elsewhere (`misread`), a block a write missed or hit by mistake (`spoiled`), a block
freed by a file's number (`misfreed`) and used again (`reused`).

### 3.7 `Accounts`

The commands on the table of accounts; each may be left at a prompt or in a call of the
disk while others run.

| code | actions |
|---|---|
| `xsh_login.c` | `FirstLogin`, `FirstPassword`, `Login`, `LoginGoesOn`, `Password` |
| `xsh_switchuser.c`, `xsh_logout.c` | `switchuser`, `logout` |
| `xsh_chpass.c` | `Password`, `Compare`, `New` |
| `xsh_makeuser.c` | `Make` |
| `passwdFileWrite.c` | `FileCreate`, `FileWrite`, `FileClose` |
| restart: `sbOpen()`, `passwdFileRead.c` | `Reboot` |

Modelled as the code has it: `chpass` of the superuser compares with a variable that
was never set; `makeuser` compares where it means to assign, so the entry stays free and
the next one takes it; `passwdFileRead()` opens a file named by a character constant used
as an address, so a restart finds no accounts (or stops). Only the superuser can therefore
be logged in, and branches that ask for another id are unreachable. The hash is a pair
of password and salt: one to one.

### 3.8 `DiskDaemon`

The daemon of the host, its two buffered outputs (`outfile`, `datafile`) and the pipes to
the console program. The driver of the board is in the prebuilt library: its actions are
external and follow from the protocol.

| code | actions |
|---|---|
| `main()`, `diskServer()`: opening, greeting, giving up | `Open`, `Greet`, `GiveUp`, `Hello` |
| the serving loop | `Serve`, `WriteBlock`, `FlushOut`, `FlushData` |
| a signal, the end of the console | `Kill`, `ConsoleEnds` |
| the board (external) | `Ask`, `Asked`, `ReadRequest`, `WriteRequest`, `SendData`, `Skip`, `ReadAnswer`, `WriteAnswer`, `Prints`, `Restart` |

`encode` and `decode` are the two hexadecimal digits of a byte; that one undoes the other
for every byte is the assumption `HexRoundTrip`, which TLC evaluates. Of the four line
endings a query may have, two never work in the greeting, so `ending` is 0 or 3; with 3 a
board that restarts is never answered, because the serving loop accepts one ending only.
`sum` abstracts the checksum of an answer; `Junk` is the byte that nobody sets at the end
of a file made too short; `stale` says that a restarted board took an old answer
for its own, after which its answers are off by one.

The serving loop takes whatever scans as a letter and a hexadecimal number for a request,
so a line of other text on the board's console may be served as a read or a write of any block: the
board `Prints` such lines before it opens the disk, and text that scans as nothing. A block that
a line of text has the daemon write is overwritten, so from that line on nobody has been
told what it holds (`confirmed`); the answers to such lines are answers the board does not wait for
(`Owed`). A query and the digits of data scan as no request.

## 4. Runs

| run | instance | what it shows |
|---|---|---|
| `queue_table` | 3 processes, 8 entries (two queues and an odd entry to spare) | all orders of calls, stray ids and bad handles included: links, separation of queues, and that the table implements `FifoQueues`, results included |
| `process` | 3 slots, quantum 2, 3 ticks a second, 1 second | the process table, ready list, counters and clock stay in step for every sequence of calls |
| `winner_runs` (violation) | the instance of `process` | the winner of the lottery is not switched to |
| `memory` | pages of 2 bytes, tables of 24 entries, 43 pages of heap, processes 0 to 2, 6 calls | from reset to the last process: one use for each page, tables that map what was asked and implement `AddressSpace` |
| `trap` | 2 values, 5 system calls, an int of 64 and a char of 4 values, 2 ticks, 2 characters, fairness | registers, calls and ticks over any order of traps; the clock is served |
| `all_registers` (violation) | the instance of `trap` | a process that was interrupted does not find `t0` again |
| `free_list` | 9 blocks, segments of 3, two processes, one failing write | takes and returns in every interleaving: one place for each block, disk and memory agree between calls, the lock comes back |
| `free_list_restart` | 7 blocks, segments of 2, one process, file writes, one failing write, one restart | the chain on the disk is whole at every step and names no owned block, so a restart may come anywhere after `sbInit()` |
| `files` | two processes, two names, two files, blocks of one character, 4 blocks, 4 commands or restarts | locks, owners of blocks, what stays on the disk and what reads back |
| `deleted_space` (violation) | the instance of `files` | a deleted file's block is in no list |
| `accounts` | three processes, two passwords, two entries, 5 commands or restarts | who is logged in exists, the file follows the table and is usable at every step |
| `disk_daemon` | 2 blocks, 2 values, 2 greetings, 4 queries, 2 requests, one line of other text, one restart, fairness | what is confirmed is stored, data is no command, a waiting board is answered |

Properties of `queue_table`: `AllLinked` relates the links to the history in both
directions; `Separate` says that handles unpack to disjoint pairs and a process is in one
place; `FifoSpec` is the refinement.

Properties of `process`: `QuantumKept` (the unsigned `preempt` never wraps, whoever
reschedules in between), `CountDrift` (`numproc` is short by exactly the number of
suicides), `ReadyListSound` (well linked, in order, until the second requeuing),
`ReadyListMembers` (who was put there), `NoWildLinks` (even the list that
requeuing spoils never leads an index out of the table), `SlotsInTurn` (no free
slot is passed by in `NPROC` creations in a row; an id freed just now may still be the
next one given) and `LifeCycle`. The code puts the running process on the
ready list and never takes it off, so the second requeuing links it behind itself;
`resched()` then switches to the process it came from (`winner_runs`), and a process that
killed itself goes on. The lottery adds tickets one slot late and divides by zero when
nobody holds any, which the model has and no run asks about.

Properties of `memory`: `PagesApart` (a page is free, or in one tree at one place, or a
stack, or a swap area),
`SpacesComplete` (a finished table translates each address as the last request says,
except an entry a stack's magic word replaced),
`StrayWord` (where the word can fall), `StopsHaveCause` (the kernel stops only for want of
pages or at the page the word hid), `ImplementsSpaces` (the refinement: making a table
for one entry disturbs no other entry of any space). Two things the code does against its
own words are facts that the proofs state and no run pins: `pgfreerange()` stops before the last whole
page, which `pgInit()` counts, although `pgInit.c:4` says that it is called "across the entire
avaliable memory space"; and both calls of `mapPage()` in `vm_userinit.c` pass `SWAPAREAADDR`
as the physical address, so that all processes share one page for their stacks and swap areas, where
`SYSTEM.md:616-617` has the allocated pages and `map.c:17` says that `pg` is the page stored.

Properties of `trap`: `RegistersSurvive` (with the exceptions the code has: `a0` after a
call, and `t0`, which is stored a second time after it was made to point at the swap
area; `all_registers` is the finding that all are said to be saved), `CallsOnce`, `TicksCounted` (once or twice for each rise of the line),
`TickServed` (always, except that `kgetc()` waits with interrupts off).

Properties of `free_list` and `free_list_restart`: `OnePlace` (every block is in the
list, with a caller, in a call or lost, in one of these only and once),
`DiskFollows` (between calls a restart would find the list in memory),
`LockGivenBack` (only a failed write keeps the lock), `RestartFinds` (at every
step the chain is one of written segments: the order of `FreeSegment` and
`FreeSuper`, and giving a segment's block away only after its predecessor was
rewritten), `NoSecondOwner` (the chain names no block a file owns, whatever writes have
failed except `sbInit()`'s own). What the model has
and these exempt: the head read before the lock, a cut at a full last segment, a restart or
a failed write inside `sbInit()`, blocks above `MAXFILES` refused, a write sent elsewhere by another
process's seek.

Properties of `files`: `LocksGivenBack` on all return paths, `BlocksApart` (one owner for
each block, until a file's number is freed as a block), `Durable` (a file whose close
has returned is in the directory and in its block, through everything done to other files
and every restart), `ReadBack`. Each excuses exactly what the history names, so that
another way to lose a file would be found. `SpaceReturned` quotes `fileDelete.c:27-28` and is refuted:
line 38 gives the list the file's number.

Properties of `accounts`: `LoggedInExists`, `FileFollows` (with no command at the file, the
disk holds the table, although others wait with an entry half set), `FileUsable` (a
restart in the middle of any command finds a superuser with a password, unless one
command opened the file just when another was about to write it: without that exception the
property fails), `PasswordStays` (two first logins do not both set the password).

Properties of `disk_daemon`: `Confirmed` (only the write whose answer has just gone out may
be missing after a kill), `InStep` (a board that restarts between the two lines of a write
does not make its data a command, nor does text served as a write, which takes the board's next
line for its data), `ReadsRight`, `Answered`.

Bounds. Three processes make a queue with a first, a middle and a last element,
which is every position `unlink` can meet; two queues are what separation is
about; the odd entry makes an overrun by one visible. In `process`, three slots
let one process run while another stands before a third on the list; one
second with a quantum that does not divide it meets every alignment of
quantum and second up to the first carry; two suicides would only repeat the
first (`MaxSuicides` = 1 bounds `numproc` below); six pages pay for three
creations and leave one that fails at the stack, one at the tables. `Priorities`
is one ticket count, different from what a free slot holds (0), which is what the
lottery's off-by-one is visible with. `ULONG` = 8 is the unsigned width,
larger than the quantum.

`Memory` has the layout of the linker script scaled down: an image with a page for each
of its sections, RAM that crosses the border of two lowest tables (`Fan` = 24 entries), and
processes' addresses in another branch of the tree, so all three levels are made anew
and found again. The list is long enough for two creations and short enough for the next to
fault at each place that asks for a page, and the page that starts one of the kernel's lowest
tables is popped while processes are created, so a stack may lie right below it. In `trap`, two ticks let
the second come at every step of the first; the five codes are a call that
waits for a character, one that sends one when its high half is cut off, one that returns at
once, one beyond the table and one that is negative as an `int`; the two values are one that
is descriptor 0 when cut off and one that is refused, and both change as a character.

`FreeList` scales 256 blocks and 61 entries down to 9 and 3: two segments, the
last one not full, so that taking meets an entry, a segment and the last segment, and
giving back meets an empty list, room, and a full last segment. Seven blocks with
segments of two keep all of it except the full segment with one before it, which
files and restarts do not bear on. `MAXFILES` is `FREEBLOCKMAX + 1` as in
`file.h`. One failed write, or two with one restart, at every step each: two are what a
failing `sbInit()` that is repeated needs. Two processes are
what a stale read needs; the addresses (two, for the address reused and not) and
the processes are symmetric, which is used in runs of invariants only.

`files` has two files of one character: a second writer, a full directory, a full disk and a
file number that is a block number in use all occur within four commands. In `accounts`, three
commands are what a race at the file's buffer needs (one that fills, one that opens, one that
writes). In `disk_daemon` two requests and one restart are the shortest way to an answer off by
one, and two greetings let the daemon be answered, answered late, or give up; one line of text can be
served as a read, as a write that swallows the query, or as the data of a write cut short.

`CHECK_DEADLOCK FALSE`: in `queue_table` nothing is said of the program after the table
is overrun; in `FreeList` a failed write keeps the lock for
ever and a program astray stops. In `process`
and `memory` the kernel really stops after a fault, and clock and calls are bounded. In
`trap`, `criticalerr` never returns. In `files`, `accounts` and `disk_daemon` commands,
requests and restarts are bounded and a program may be lost or the daemon end.

Fairness: `trap` assumes weak fairness of the kernel's steps, of an interrupt that stays
pending (the hart takes it before the next instruction) and of the UART's sending; nobody
has to type and no process has to make a call. `disk_daemon` assumes it of the daemon and of
the driver, two programs that run on; not of kills, restarts or other text. For the scheduler no
liveness is stated: nothing in the repository promises that a ready process runs, and with
the code as it is none ever does.

## 5. Proofs

All proofs are checked by TLAPS for every value of the constants that meets the
named assumptions: `TableSizes` (at least one process, room for one queue, at
most 65536 entries, what 16-bit indices need), `StrayInputs` (bad ids and bad handles
are what the tests reject), `ProcessSizes` (positive quantum below the width
of `preempt`, natural numbers elsewhere, nonempty sets of leftovers), `TrapConstants`,
`FreeListSizes`, `FileSizes` (files' numbers are blocks' numbers, room for the superblock, the
directory and the free list), `AccountSizes`, `DaemonSizes`. TLC evaluates each, and
`HexRoundTrip`, in the runs; so it does `MemoryLayout` (aligned addresses in the linker
script's order, room for one page of heap) and `OneTable` (the two pages of a process share a
lowest table, as the adjacent addresses of `riscv.h:30-31` do).

`Queue_proof` has lemmas on the operators: ranges of packed handles, that
`link` at the tail and `unlink` anywhere keep a linked sequence linked with the
element appended or removed, that they leave disjoint queues alone.

`QueueTable_proof` proves the types, `AllLinked`, `Separate`, that queued processes stay live
and that the table implements `FifoQueues`, all from one inductive invariant `Sound`. None is
inductive alone: `dequeue` unlinks only what `isbadpid` accepts, so links need
`QueuedAreLive`; `remove` of a process in no queue is harmless only if it is
linked to itself; and writes to one queue miss the others only because of
`Separate`.

`Process_proof` proves all properties of run `process`, and also that one
process is `PRCURR` and `currpid` names it, and that ticks and seconds add up to the ticks
since boot, from the inductive invariant `Kept`. Its parts: the types, one running
process, quantum and clock, the count (by cardinality lemmas of
the library), the list while `requeued < 2`, its members whatever `requeued`, and the
links' range. The list's soundness needs the members (a process made ready is not
on the list yet) and the members need the life cycle (a suspended process was
never queued). `newpid` takes the minimum of a set of naturals, and the library's
induction theorems cannot be used with an operator; the lemma `LeastNatural`
gets the least element from the well-foundedness of `<` as a set of pairs. `SlotsInTurn` has
an invariant of its own, `Turn`: as long as `create()` can succeed, how often a free slot has been
passed by and how far `newpid()` still has to go to reach it (`Far`) add up to `NPROC` at most,
because `newpid()` takes the first free slot of the round and all others come nearer.

`Kernel_proof` is about `Memory` and `Trap`.

Of `Memory` it proves every property of run `memory`, and what the code makes of its page count
(`OnePageShort`) and of the rights of a process (`UsersApart`). These, the types, `PagesApart`
and `StrayWord` come from one inductive invariant `Kept`:

* `Pages`: `Sound` says that the free list is in descending order without gaps (`Listing`),
  that free pages, tables of each level, stacks and swap areas are apart (`Placed`), that upper
  tables hold links only, no two to one page, and lowest ones none (`Branches`), that
  what a process may use is harmless, and where magic words may be. What is free or in use is
  together always what `pgInit()` listed, so `OnePageShort` follows by counting that list.
* `Control`: what is still to be mapped is a readable request, in a process's table a harmless
  one; while the last part of a process's table is made, the first has been reached.
* `Summit`: what lies *above the next page of the list* is no upper table, except the table
  just begun, and when a stack is next no table of a process. `create()` writes its magic word
  above the page it takes, and an entry there of a root or a middle table would lead the
  walk, and every later allocation, astray. It is not so because the list hands out
  descending pages, and before each stack comes a table of the third level (the kernel's, or
  the test cases') or a swap area; this last needs that mapping the swap area allocates
  nothing, hence `OneTable`.

The step lemmas are about one root that grows: `Grown` (pages go from the list to its tree,
entries that are there stay) holds of one level down (`DescendGrows`), is closed under
sequence (`GrownTwice`), and so holds of `pgTraverseAndCreate()` (`MapGrows`) and
`createFakeTable()` (`FakeGrows`); `SoundGrown`, `SoundRoot`, `SoundStack`, `SoundSwap`
and `SoundRecord` say what each keeps.

`SpacesComplete`, `StopsHaveCause` and `ImplementsSpaces` follow entries and not only shapes.
They are stated with `Has(mem, r, va, w)`: a walk from the root `r` in the memory `mem` ends at the
word `w` for the address `va`. `MapEffect` says that a step of `pgTraverseAndCreate()`, whatever
tables it makes on the way, changes one such fact (`OneEntry`), and the other steps none
(`SameEntries`), or the one that the word above a stack replaces. On this rest

* a second inductive invariant, `Asked` (with `Kept`): while a table is filled, the requests done so
  far are each what the last request for their address says, and the rest is `todo` (`AsFilled`);
  a finished table stays as asked, the kernel's but for spoilt first entries; the table being filled
  is no other's (`Owners`); tables have entries only where a walk looks (`Narrow`). `SpacesComplete`
  is read off it, with `StrayWord` for what is spoilt.
* for `StopsHaveCause`: the kernel's map asks for every page of the heap as itself, and never
  for its address again (`HeapAsked`), so a page that it cannot reach is one whose entry is the
  stray word (`Blocked`). `AllocFault`, `MapFault` and `FakeFault` say that a fault is
  either such a page or a list too short for the tables a request may need.
* for `ImplementsSpaces`: `Space` is the space that a table in a memory stands for, and `SpacesAre`
  shows it is the one that the refinement mapping reads. `OneEntry` makes `Map` of a step of
  mapping (what is mapped was asked for: `HeadRequested`), a new root `NewSpace`, a record `Spoil`
  or a stutter, and every other step leaves all spaces alone.

Of `Trap` it proves `RegistersSurvive`, `CallsOnce` and `TicksCounted`. `Frame` follows the
registers through the swap area: what the kernel holds while it works, and what it has
changed when it returns. `Ticks` needs the runs of the handler still to come without
another rise of the line (`ToCome`): a line that is up, a request, and a claim completed
before it was served each owe at most one, and the sum never exceeds twice the rises.

`Accounts_proof` proves all four properties of run `accounts`. `Prompts` says what a command
left at a prompt still knows of the table (a first password is awaited by one command at
most, and the entry's hash is still not set), `Buffer` what is in the file's buffer while
commands are between filling it and writing it.

`DiskDaemon_proof` proves all safety properties of run `disk_daemon`. For `InStep`, `Stream` says
that in the pipe data comes right after the line that announces it, and that this line will be
served and not be taken for the data of a line before it (`Awaited`); `Sender` says that a
write announced at the pipe's end is the driver's, about to send its data, or was left by a board that
is down, be it by a restart or by its text; and `Greeting` says that nothing is announced before the daemon serves. For `Confirmed` and
`ReadsRight`, `Known` adds what an open board has to come: its request, the daemon's wait for
data, or one answer, each only when the ones before are gone (`Coming`, `Arrived`), and says of
what is confirmed that the file has it or a buffer that nothing but a kill keeps from the file
(`Stored`).

`FreeList_proof` and `FileSystem_proof` prove `LockGivenBack` and `LocksGivenBack`, and mutual
exclusion behind the locks, which holds even where writes fail: a semaphore is 1 with
nobody inside, or 0 with exactly one process inside (in `FreeList` with nobody, once a
write has failed).

`FreeList_proof` also proves `OnePlace`, `RestartFinds`, `DiskFollows` and `NoSecondOwner`,
from one inductive invariant `Together`. Its parts:

* `Placed`: the list is a list of segments that are not overfull and name no block twice; two
  calls under way never have the same block (`OneEach`); the pointer to the head is `NULL`
  exactly when there is no list (`Listed`), also while the superblock is being written with a
  number in its place, because whoever writes it has the lock and a pointer to put back
  (`Linked`, with `OneHolder` of `Kept`); and up to the end of `sbInit()` nobody has anything
  (`Booting`).
* `Follows`: between two calls the disk has the list of memory, and while a process is about to
  write, it will have that list once the process has written (`Soon`, `Leads`). A full list
  that was cut is cut in memory only, so until its last segment is written again the disk may have one
  segment more (`CutOf`), whose blocks are lost ones (`Like`). In between, the disk has at every step *some*
  list that names nobody's block (`Safe`), or `sbInit()` has done its first n writes (`Made`).
* `Noticed`: until the first restart a write that failed is known to set `apart`.

`OwnedOnce` holds until the first restart even where writes fail, and after any number of
restarts while none has (`Known`). The three about the disk are proved where no write has failed, and
where no other process moves the driver's position between a process's seek and its write:
no files are written, or there is one process (`Lone`, which both runs meet; a file's write that another
seek sends astray is what the code allows and nothing here promises anything of).

The lemmas they rest on: `Names` says which block each entry of a list is, and `Pops`, `TakesOver`,
`Appends`, `Cuts` what each operation does to the entries: the blocks named change by the
block given or taken, or become fewer, and stay distinct. `EntryTaken`, `SegmentTaken`,
`EntryAdded`, `LastTaken`, `FirstMade` say that the one block each operation writes makes of a disk that has the
old list one that has the new, and `Elsewhere` that a block none of the list's may hold anything.
`Opened` says that a disk that has a list (`On`) is one from which `sbOpen()` reads just that
list. It speaks of a function defined by recursion, `Way`; what it is at each k is shown
by induction, that is by looking at the least k where it would be otherwise (`Least`, from the
well-foundedness of `<` on the naturals as a set of pairs), and it is bounded because a list of distinct
blocks is shorter than the disk (`Shorter`). `Fresh` shows by the arithmetic of `sbInit()` that its list names
every data block once, and `MadePart` that a disk on which `sbInit()` has not come to its
end is not opened: the superblock leads to a segment it has not written. That `malloc()` finds room is
assumed, as in the code (`0` is not in `Addr`).

`FileSystem_proof` proves all properties of run `files`, with four invariants, each resting on
those before it:

* `Kept`: the shape of all variables, with every cursor within its file and every file within
  its block, and the locks.
* `Owned`, for `BlocksApart`: the free list in memory is apart from the files in memory *and*
  from those of the directory on the disk, which a restart will read, each with the block
  that a creation has taken and not yet given to its file. A restart reads the list too, so
  `OnDisk` says what superblock and segment hold at every step of a write of theirs, unless
  a write has missed them.
* `Reuse`: a block freed by mistake is in `reused` once the list keeps its segment there or a
  file has it, so that two files share a block, or a file has the directory's, only where
  `reused` says so.
* `Sound`, for `Durable` and `ReadBack`: a command that fills a file not `mixed` has what was typed
  in memory, one that closes it has it in the file's block too, nobody fills or closes a
  file that is kept, and the directory on the disk names every kept file with its length and
  block. The lemmas `WriteStays` and `Rests` carry it: a write meant for another block leaves a file's
  block alone, or the block is in `spoiled` or `reused`.

Proving `Durable` showed that `reused` was too narrow: after a restart that reads a list which a
write has missed, the list's first block is written when the list changes although a file may
have it. `Reboot` now counts that block (`Heads`); TLC's instance is too small for
the difference to show.

Type invariants are proved where a module has a proof and not repeated in its run, but for
`Memory`'s, which is in both.

Only model-checked: the sums of the lottery;
`NoSecondOwner` where writes fail (that a first segment whose write fails lets an
old image show harms nobody rests, among other things, on blocks above `MAXFILES` never coming
back, which no invariant proved here follows), and `OnePlace` and `DiskFollows` where a write has
failed and the disk was opened again, which rest on the same; all
liveness (`TickServed`, `Answered`), which is out of the prover's reach; the
refuted statements.

## 6. Not modelled

* The MIPS kernel library is a prebuilt binary; its semaphores, disk driver and console
  are external, modelled from how `file/`, `shell/` and the daemon use them. The network
  initialisation is empty.
* The switch back to a process that ran before (`ctxsw.S`, second half), which
  `resched.c` never reaches, and `switchmode`, `kungetc()` and `kcheckc()`, which nobody calls.
* Formatting (`kprintf`), the prompt of `testcases.c`, what `diskstat` and `whoami` print,
  the command `test`, registers that boot sets once in a straight line, constants of
  device headers: no state that changes.
* Failing reads and a full heap: the code does not look at them, and what follows is
  undefined.
