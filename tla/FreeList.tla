------------------------------- MODULE FreeList -------------------------------
(***************************************************************************)
(* The free list of the MIPS file system: sbOpen.c, sbInit.c, sbGetBlock.c *)
(* and sbFreeBlock.c.  The list is a chain of segments; a segment occupies *)
(* a block of its own and names up to FREEBLOCKMAX other free blocks.      *)
(*                                                                         *)
(* The kernel is preemptive.  All but the read of the list's head is done  *)
(* with the lock, where no other caller is: a step runs from one wait(),   *)
(* signal() or driver call to the next, and how it is cut nobody can tell. *)
(* The driver keeps one position: seek() sets it, write() uses it.         *)
(* A write may fail, and the machine may be started again, at any step.    *)
(***************************************************************************)
EXTENDS Integers, SequencesExt

CONSTANTS DISKBLOCKTOTAL,   \* blocks on the disk
          FREEBLOCKMAX,     \* blocks a segment names
          Procs,            \* processes that use the file system
          Addr,             \* addresses malloc() may give the first segment
          FileWrites,       \* whether files are written meanwhile
          MaxFaults,        \* bound: writes that fail
          MaxReboots        \* bound: restarts

(* sbInit() would chain a segment beyond the disk if the last one were full; *)
(* malloc() is taken to have room, as the code takes it to, so never 0.      *)
ASSUME FreeListSizes ==
    /\ FREEBLOCKMAX \in Nat \ {0}
    /\ DISKBLOCKTOTAL \in Nat /\ DISKBLOCKTOTAL > 3
    /\ (DISKBLOCKTOTAL - 2) % (FREEBLOCKMAX + 1) # 0
    /\ FileWrites \in BOOLEAN /\ 0 \notin Addr
    /\ MaxFaults \in Nat /\ MaxReboots \in Nat

VARIABLES disk, position,    \* contents of the blocks; where the driver stands
          boot,              \* writes sbInit() has done, or one of Down, Up
          sb_freelst, list,  \* the list's head as a pointer; its segments
          freelock,          \* count of the semaphore
          pc, local,         \* where a process is, and what it keeps there
          held,              \* blocks given to callers and not given back
          astray             \* why the program follows no segment any more

(* History: blocks nobody owns and nobody can get; whether memory and disk  *)
(* may differ; the numbers of failed writes and of restarts; whether one of *)
(* sbInit()'s writes has failed.                                            *)
VARIABLES lost, apart, faults, reboots, unmade

vars == <<disk, position, boot, sb_freelst, list, freelock, pc, local, held,
          astray, lost, apart, faults, reboots, unmade>>

machine == <<boot, astray, reboots, unmade>>
driver  == <<disk, position>>
memory  == <<sb_freelst, list>>
where   == <<pc, local>>
owners  == <<held, lost>>
trouble == <<apart, faults>>

Block == 0 .. DISKBLOCKTOTAL - 1
SUPERBLOCKNUM == 0
DirBlock      == SUPERBLOCKNUM + 1
FirstSegment  == SUPERBLOCKNUM + 2
DataBlock     == FirstSegment .. DISKBLOCKTOTAL - 1
MAXFILES      == FREEBLOCKMAX + 1
NULL          == 0

(* What a block of the disk holds; Other is a file's bytes or garbage. *)
Blank      == [kind |-> "blank"]
Other      == [kind |-> "other"]
Super(b)   == [kind |-> "super", sb_freelst |-> b]
IsSegment(c) == c.kind = "segment"
Magic(d)   == d[SUPERBLOCKNUM].kind = "super"

(* Segment i of list l as it is written: fr_next is a block number there. *)
Image(l, i) == [kind |-> "segment", fr_free |-> l[i].fr_free,
                fr_next |-> IF i = Len(l) THEN NULL ELSE l[i + 1].fr_blocknum]

(* The blocks met from the superblock on by following fr_next on the disk. *)
Way(d) ==
    LET at[k \in 1 .. DISKBLOCKTOTAL] ==
            IF k = 1 THEN d[SUPERBLOCKNUM].sb_freelst
            ELSE IF at[k - 1] # NULL /\ IsSegment(d[at[k - 1]])
                 THEN d[at[k - 1]].fr_next ELSE NULL
    IN  at

Chain(d) ==
    LET at == Way(d)
    IN  [k \in {j \in 1 .. DISKBLOCKTOTAL : at[j] # NULL} |-> at[k]]

ChainWhole(d) == Magic(d) /\ \A b \in ToSet(Chain(d)) : IsSegment(d[b])

sbOpenFreeList(d) ==
    [k \in 1 .. Len(Chain(d)) |-> [fr_blocknum |-> Chain(d)[k],
                                   fr_free |-> d[Chain(d)[k]].fr_free]]

(* The blocks a list makes available, its segments' own included. *)
BlocksOf(l) == UNION {{l[i].fr_blocknum} \cup ToSet(l[i].fr_free) : i \in 1 .. Len(l)}

(* The segments sbInit() makes of all blocks from FirstSegment on. *)
Segments  == (DISKBLOCKTOTAL - FirstSegment + FREEBLOCKMAX) \div (FREEBLOCKMAX + 1)
FreshList ==
    [k \in 1 .. Segments |->
        LET b == FirstSegment + (k - 1) * (FREEBLOCKMAX + 1)
        IN  [fr_blocknum |-> b,
             fr_free |-> [j \in {i \in 1 .. FREEBLOCKMAX : b + i < DISKBLOCKTOTAL} |-> b + j]]]

Down == -1
Up   == Segments + 2
Running == boot = Up /\ astray = "no"

Init ==
    /\ disk = [b \in Block |-> Blank] /\ position = 0
    /\ boot = Down
    /\ sb_freelst = NULL /\ list = << >>
    /\ freelock = 1
    /\ pc = [p \in Procs |-> "idle"] /\ local = [p \in Procs |-> 0]
    /\ held = {} /\ astray = "no"
    /\ lost = {} /\ apart = FALSE /\ faults = 0 /\ reboots = 0 /\ unmade = FALSE

------------------------------------------------------------------------------
(* write(): the block at the position changes, or the call fails. *)
Written(c) == /\ disk' = [disk EXCEPT ![position] = c]
              /\ UNCHANGED faults

WriteFails == /\ faults < MaxFaults
              /\ faults' = faults + 1
              /\ UNCHANGED disk

Goto(p, at, kept) == /\ pc' = [pc EXCEPT ![p] = at]
                        /\ local' = [local EXCEPT ![p] = kept]

(***************************************************************************)
(* sbOpen(), when nothing else runs yet.                                   *)
(***************************************************************************)
Mount ==
    /\ boot = Down /\ astray = "no" /\ ChainWhole(disk)
    /\ list' = sbOpenFreeList(disk)
    /\ \E a \in Addr : sb_freelst' = IF list' = << >> THEN NULL ELSE a
    /\ boot' = Up
    /\ lost' = DataBlock \ (held \cup BlocksOf(list'))
    /\ apart' = FALSE
    /\ UNCHANGED <<driver, where, freelock, held, astray, faults, reboots, unmade>>

(* The chain leads to a block that no segment was written to. *)
MountAstray ==
    /\ boot = Down /\ astray = "no" /\ Magic(disk) /\ ~ChainWhole(disk)
    /\ astray' = "unwritten segment"
    /\ UNCHANGED <<driver, memory, where, owners, trouble, boot, freelock, reboots, unmade>>

(* sbInit() on a disk with no magic number.  No file owns a block. *)
InitDisk ==
    /\ boot = Down /\ astray = "no" /\ ~Magic(disk)
    /\ boot' = 0
    /\ position' = SUPERBLOCKNUM
    /\ held' = {} /\ lost' = {} /\ apart' = FALSE
    /\ UNCHANGED <<memory, where, disk, freelock, astray, faults, reboots, unmade>>

(* Its writes, in order: the superblock, the segments, the directory; what  *)
(* write() answers is not looked at.                                        *)
InitBlock(k) == IF k = 0 THEN SUPERBLOCKNUM
                ELSE IF k = Segments + 1 THEN DirBlock
                ELSE FreshList[k].fr_blocknum
InitImage(k) == IF k = 0 THEN Super(FirstSegment)
                ELSE IF k = Segments + 1 THEN Other
                ELSE Image(FreshList, k)

InitWrite ==
    /\ boot \in 0 .. Segments + 1
    /\ \/ Written(InitImage(boot)) /\ UNCHANGED <<apart, unmade>>
       \/ WriteFails /\ apart' = TRUE /\ unmade' = TRUE
    /\ boot' = boot + 1
    /\ IF boot' = Up
         THEN /\ list' = FreshList
              /\ \E a \in Addr : sb_freelst' = a
              /\ UNCHANGED position
         ELSE /\ position' = InitBlock(boot')
              /\ UNCHANGED memory
    /\ UNCHANGED <<where, owners, freelock, astray, reboots>>

(* Memory is lost at any time; the disk and what files own stay. *)
Reboot ==
    /\ boot # Down /\ astray = "no"
    /\ reboots < MaxReboots /\ reboots' = reboots + 1
    /\ boot' = Down
    /\ sb_freelst' = NULL /\ list' = << >> /\ freelock' = 1
    /\ pc' = [p \in Procs |-> "idle"] /\ local' = [p \in Procs |-> 0]
    /\ UNCHANGED <<driver, owners, trouble, astray, unmade>>

------------------------------------------------------------------------------
(***************************************************************************)
(* sbGetBlock().  The head is read before the lock is taken; a call that   *)
(* finds no head is refused at once and changes nothing.                   *)
(***************************************************************************)
GetHead(p) ==
    /\ Running /\ pc[p] = "idle" /\ sb_freelst # NULL
    /\ Goto(p, "wantGet", sb_freelst)
    /\ UNCHANGED <<machine, driver, memory, owners, trouble, freelock>>

Lock(p, want, have) ==
    /\ Running /\ pc[p] = want /\ freelock > 0
    /\ freelock' = freelock - 1
    /\ Goto(p, have, local[p])
    /\ UNCHANGED <<machine, driver, memory, owners, trouble>>

GetLock(p) == Lock(p, "wantGet", "get")

(* The pointer kept is that of the segment which is the head now. *)
HasHead(p) == local[p] = sb_freelst /\ sb_freelst \in Addr

GetAstray(p) ==
    /\ Running /\ pc[p] = "get" /\ ~HasHead(p)
    /\ astray' = "stale head"
    /\ UNCHANGED <<driver, memory, where, owners, trouble, boot, freelock, reboots, unmade>>

(* Take block off, which leaves l, and seek the block b that says so. *)
Take(p, block, l, b) ==
    /\ list' = l
    /\ position' = b
    /\ Goto(p, "getWrite", block)
    /\ UNCHANGED <<machine, owners, trouble, disk, freelock>>

(* The head names a block: its last. *)
GetEntry(p) ==
    /\ Running /\ pc[p] = "get" /\ HasHead(p)
    /\ list[1].fr_free # << >>
    /\ Take(p, Last(list[1].fr_free), [list EXCEPT ![1].fr_free = Front(@)],
            list[1].fr_blocknum)
    /\ UNCHANGED sb_freelst

(* Wrong: the head takes the next segment's blocks but keeps it as its next. *)
GetSegmentKeepsNext(p) ==
    /\ Running /\ pc[p] = "get" /\ HasHead(p)
    /\ list[1].fr_free = << >> /\ Len(list) > 1
    /\ Take(p, list[2].fr_blocknum, [list EXCEPT ![1].fr_free = list[2].fr_free],
            list[1].fr_blocknum)
    /\ UNCHANGED sb_freelst

(* It names none: it takes over the next segment, whose own block is given. *)
GetSegment(p) ==
    /\ Running /\ pc[p] = "get" /\ HasHead(p)
    /\ list[1].fr_free = << >> /\ Len(list) > 1
    /\ Take(p, list[2].fr_blocknum,
            <<[list[1] EXCEPT !.fr_free = list[2].fr_free]>> \o SubSeq(list, 3, Len(list)),
            list[1].fr_blocknum)
    /\ UNCHANGED sb_freelst

(* It is the last segment: its own block is given, the list is no more. *)
GetLast(p) ==
    /\ Running /\ pc[p] = "get" /\ HasHead(p)
    /\ list[1].fr_free = << >> /\ Len(list) = 1
    /\ Take(p, list[1].fr_blocknum, << >>, SUPERBLOCKNUM)
    /\ sb_freelst' = NULL

(* Wrong: what write() answers is not looked at. *)
GetWriteUnchecked(p) ==
    /\ Running /\ pc[p] = "getWrite"
    /\ \/ Written(IF list = << >> THEN Super(NULL) ELSE Image(list, 1)) /\ UNCHANGED apart
       \/ WriteFails /\ apart' = TRUE
    /\ held' = held \cup {local[p]}
    /\ freelock' = freelock + 1
    /\ Goto(p, "idle", 0)
    /\ UNCHANGED <<machine, memory, position, lost>>

(* Wrong: the path that takes the last segment forgets the lock. *)
GetWriteKeepsLock(p) ==
    /\ Running /\ pc[p] = "getWrite"
    /\ Written(IF list = << >> THEN Super(NULL) ELSE Image(list, 1))
    /\ held' = held \cup {local[p]}
    /\ freelock' = IF list = << >> THEN freelock ELSE freelock + 1
    /\ Goto(p, "idle", 0)
    /\ UNCHANGED <<machine, memory, position, lost, apart>>

(* The write and the return; a failed write returns with the lock held. *)
GetWrite(p) ==
    /\ Running /\ pc[p] = "getWrite"
    /\ \/ /\ Written(IF list = << >> THEN Super(NULL) ELSE Image(list, 1))
          /\ held' = held \cup {local[p]}
          /\ freelock' = freelock + 1
          /\ UNCHANGED <<lost, apart>>
       \/ /\ WriteFails
          /\ lost' = lost \cup {local[p]}
          /\ apart' = TRUE
          /\ UNCHANGED <<held, freelock>>
    /\ Goto(p, "idle", 0)
    /\ UNCHANGED <<machine, memory, position>>

------------------------------------------------------------------------------
(***************************************************************************)
(* sbFreeBlock(), called for a block the caller owns.                      *)
(***************************************************************************)
FreeRefused(p, block) ==
    /\ Running /\ pc[p] = "idle" /\ block \in held
    /\ block > MAXFILES
    /\ held' = held \ {block}
    /\ lost' = lost \cup {block}
    /\ UNCHANGED <<machine, driver, memory, where, trouble, freelock>>

FreeCall(p, block) ==
    /\ Running /\ pc[p] = "idle" /\ block \in held
    /\ block <= MAXFILES
    /\ held' = held \ {block}
    /\ Goto(p, "wantFree", block)
    /\ UNCHANGED <<machine, driver, memory, trouble, freelock, lost>>

FreeLock(p) == Lock(p, "wantFree", "free")

LastFull == Len(Last(list).fr_free) = FREEBLOCKMAX

(* The head is a block number that a failed write left, or there is no      *)
(* segment before the last one and the code uses a pointer it never set.    *)
FreeAstray(p) ==
    /\ Running /\ pc[p] = "free" /\ sb_freelst # NULL
    /\ astray' = IF sb_freelst \notin Addr THEN "number for a pointer" ELSE "unset pointer"
    /\ sb_freelst \in Addr => Len(list) = 1 /\ LastFull
    /\ UNCHANGED <<driver, memory, where, owners, trouble, boot, freelock, reboots, unmade>>

(* No list: the block becomes its only segment.  Two writes: the segment,   *)
(* then the superblock, in which the pointers are numbers meanwhile.        *)
FreeFirst(p) ==
    /\ Running /\ pc[p] = "free" /\ sb_freelst = NULL
    /\ list' = <<[fr_blocknum |-> local[p], fr_free |-> << >>]>>
    /\ \E a \in Addr : sb_freelst' = a /\ Goto(p, "freeSegment", a)
    /\ position' = local[p]
    /\ UNCHANGED <<machine, owners, trouble, disk, freelock>>

(* Wrong: the new segment is not written before the superblock names it. *)
FreeSegmentUnwritten(p) ==
    /\ Running /\ pc[p] = "freeSegment"
    /\ sb_freelst' = list[1].fr_blocknum
    /\ position' = SUPERBLOCKNUM
    /\ Goto(p, "freeSuper", local[p])
    /\ UNCHANGED <<machine, owners, trouble, disk, list, freelock>>

FreeSegment(p) ==
    /\ Running /\ pc[p] = "freeSegment"
    /\ \/ Written(Image(list, 1)) /\ UNCHANGED apart
       \/ WriteFails /\ apart' = TRUE
    /\ sb_freelst' = list[1].fr_blocknum
    /\ position' = SUPERBLOCKNUM
    /\ Goto(p, "freeSuper", local[p])
    /\ UNCHANGED <<machine, owners, list, freelock>>

FreeSuper(p) ==
    /\ Running /\ pc[p] = "freeSuper"
    /\ \/ Written(Super(list[1].fr_blocknum)) /\ sb_freelst' = local[p] /\ UNCHANGED apart
       \/ WriteFails /\ apart' = TRUE /\ UNCHANGED sb_freelst
    /\ freelock' = freelock + 1
    /\ Goto(p, "idle", 0)
    /\ UNCHANGED <<machine, owners, position, list>>

(* The last segment has room. *)
FreeAppend(p) ==
    /\ Running /\ pc[p] = "free" /\ sb_freelst \in Addr /\ ~LastFull
    /\ list' = [list EXCEPT ![Len(list)].fr_free = Append(@, local[p])]
    /\ position' = Last(list).fr_blocknum
    /\ Goto(p, "freeWrite", local[p])
    /\ UNCHANGED <<machine, owners, trouble, disk, sb_freelst, freelock>>

(* It has none.  A new segment is made of the block, but it is linked to    *)
(* the segment before the last, which is emptied and cut off from the last. *)
FreeFull(p) ==
    LET n == Len(list)
    IN  /\ Running /\ pc[p] = "free" /\ sb_freelst \in Addr /\ LastFull /\ n > 1
        /\ list' = [SubSeq(list, 1, n - 1) EXCEPT ![n - 1].fr_free = << >>]
        /\ lost' = lost \cup {local[p]} \cup (BlocksOf(list) \ BlocksOf(list'))
        /\ apart' = TRUE
        /\ position' = local[p]
        /\ Goto(p, "freeSpill", local[p])
        /\ UNCHANGED <<machine, disk, sb_freelst, freelock, held, faults>>

(* Wrong: the first segment is written in place of the last. *)
FreeWriteHead(p) ==
    /\ Running /\ pc[p] \in {"freeWrite", "freeSpill"}
    /\ \/ /\ Written(IF pc[p] = "freeWrite" THEN Image(list, 1) ELSE Other)
          /\ UNCHANGED apart
       \/ WriteFails /\ apart' = TRUE
    /\ freelock' = freelock + 1
    /\ Goto(p, "idle", 0)
    /\ UNCHANGED <<machine, memory, owners, position>>

(* Nobody looks at what the write answers. *)
FreeWrite(p) ==
    /\ Running /\ pc[p] \in {"freeWrite", "freeSpill"}
    /\ \/ /\ Written(IF pc[p] = "freeWrite" THEN Image(list, Len(list)) ELSE Other)
          /\ UNCHANGED apart
       \/ WriteFails /\ apart' = TRUE
    /\ freelock' = freelock + 1
    /\ Goto(p, "idle", 0)
    /\ UNCHANGED <<machine, memory, owners, position>>

(* A file's block is written, as fileClose() does it: with no free lock. *)
FileSeek(p, block) ==
    /\ Running /\ FileWrites /\ pc[p] = "idle" /\ block \in held
    /\ position' = block
    /\ Goto(p, "fileWrite", block)
    /\ UNCHANGED <<machine, memory, owners, trouble, disk, freelock>>

FileWrite(p) ==
    /\ Running /\ pc[p] = "fileWrite"
    /\ Written(Other)
    /\ Goto(p, "idle", 0)
    /\ UNCHANGED <<machine, memory, owners, position, freelock, apart>>

Boot == Mount \/ MountAstray \/ InitDisk \/ InitWrite \/ Reboot
Get(p) == \/ GetHead(p) \/ GetLock(p) \/ GetAstray(p)
          \/ GetEntry(p) \/ GetSegment(p) \/ GetLast(p) \/ GetWrite(p)
Free(p) == \/ \E block \in held : FreeRefused(p, block) \/ FreeCall(p, block)
           \/ FreeLock(p) \/ FreeAstray(p) \/ FreeFirst(p) \/ FreeSegment(p)
           \/ FreeSuper(p) \/ FreeAppend(p) \/ FreeFull(p) \/ FreeWrite(p)
File(p) == (\E block \in held : FileSeek(p, block)) \/ FileWrite(p)

Next == Boot \/ \E p \in Procs : Get(p) \/ Free(p) \/ File(p)

Spec == Init /\ [][Next]_vars

------------------------------------------------------------------------------
(***************************************************************************)
(* Properties.                                                             *)
(***************************************************************************)
Entries(l) == {e \in (1 .. Len(l)) \X (0 .. FREEBLOCKMAX) : e[2] <= Len(l[e[1]].fr_free)}
EntryAt(l, e) == IF e[2] = 0 THEN l[e[1]].fr_blocknum ELSE l[e[1]].fr_free[e[2]]
InCall == {local[p] : p \in {q \in Procs : pc[q] \in {"getWrite", "wantFree", "free"}}}

(* A block has one place: in the list, with a caller, in a call under way,  *)
(* or lost; none of them is missing and the list names none of them twice,  *)
(* whatever processes and failed writes did to it since the disk was made.  *)
OnePlace ==
    boot = Up =>
        /\ \A d, e \in Entries(list) : EntryAt(list, d) = EntryAt(list, e) => d = e
        /\ DataBlock = BlocksOf(list) \cup held \cup InCall \cup lost
        /\ BlocksOf(list) \cap (held \cup InCall \cup lost) = {}
        /\ held \cap (InCall \cup lost) = {} /\ InCall \cap lost = {}

(* A restart would not give a block to a second owner: the chain on the     *)
(* disk names no block that somebody holds, whenever it comes and whatever  *)
(* writes have failed, but for those of sbInit(): if its superblock was not *)
(* written, a later sbInit() that fails too may lead to its segments again. *)
NoSecondOwner ==
    ~unmade /\ ChainWhole(disk) => held \cap BlocksOf(sbOpenFreeList(disk)) = {}

Quiet == boot = Up /\ \A p \in Procs : pc[p] \in {"idle", "wantGet", "wantFree"}

(* Between two calls a restart would find the list there is in memory,      *)
(* segment by segment, unless a write has failed or a full list was cut.    *)
DiskFollows == Quiet /\ ~apart => ChainWhole(disk) /\ sbOpenFreeList(disk) = list

(* Every path but that of a failed write gives the lock back, and never     *)
(* more than once: no caller waits for a lock that nobody will give back.   *)
LockGivenBack == Quiet /\ faults = 0 => freelock = 1

(* Once sbInit() is done a restart at any step, in the middle of a call     *)
(* too, finds a chain of written segments, although files have overwritten  *)
(* blocks that were segments before: no write names a block too early.      *)
RestartFinds == boot = Up /\ faults = 0 => ChainWhole(disk)
==============================================================================
