------------------------------ MODULE FileSystem ------------------------------
(***************************************************************************)
(* Files of the MIPS file system: fileCreate.c, fileOpen.c, fileClose.c,   *)
(* fileDelete.c, fileGetChar.c, filePutChar.c, fileSeek.c, the directory   *)
(* in sbOpen.c and sbInit.c, and the shell's cat, cat > and delete that    *)
(* call them.                                                              *)
(*                                                                         *)
(* Commands interleave at wait(), at calls of the disk driver and at the   *)
(* console.  The driver has one position, which seek() sets and read() and *)
(* write() use.  The free list is one segment here, which has room: the    *)
(* chain of segments and failing writes are in FreeList.  A character is   *)
(* the process that typed it.                                              *)
(***************************************************************************)
EXTENDS Integers, FiniteSetsExt, SequencesExt

CONSTANTS Procs, Name,
          DIRENTRIES, DISKBLOCKLEN, DISKBLOCKTOTAL,
          Junk, NoName,
          MaxCommands     \* bound: commands and restarts

(* The numbers of files are numbers of blocks, and sbFreeBlock() takes them. *)
ASSUME FileSizes ==
    /\ DIRENTRIES \in Nat /\ DISKBLOCKTOTAL \in Nat /\ DISKBLOCKLEN \in Nat
    /\ 0 < DIRENTRIES /\ DIRENTRIES < DISKBLOCKTOTAL /\ 3 < DISKBLOCKTOTAL
    /\ Junk \notin Procs /\ NoName \notin Name
    /\ MaxCommands \in Nat

VARIABLES disk, position,     \* the blocks; where the driver stands
          filetab,            \* the directory in memory
          freelst,            \* the segment's own block, then those it names
          dirlock, freelock,  \* counts of the two semaphores
          proc,               \* what each process's command is doing
          up                  \* "up", or why the program is lost

(* History: what is typed into each file; the files whose close returned;   *)
(* files that two commands used at once; files filled from another block    *)
(* than their own; blocks that a write missed or hit by mistake; blocks     *)
(* freed that nobody gave back, as the numbers of files are, those of them  *)
(* used again, and the blocks of deleted files; commands and restarts.       *)
VARIABLES text, kept, mixed, misread, spoiled, misfreed, reused, deleted,
          commands

driver == <<disk, position>>
locks  == <<dirlock, freelock>>
files  == <<text, kept, mixed, misread>>
blocks == <<spoiled, misfreed, reused, deleted>>
vars   == <<driver, filetab, freelst, locks, proc, up, files, blocks, commands>>

Fd    == 0 .. DIRENTRIES - 1
NoFd  == -1
Block == 0 .. DISKBLOCKTOTAL - 1
SUPERBLOCKNUM == 0
DirBlock      == 1
FirstSegment  == 2
NoBlock       == -1     \* SYSERR, or what malloc() left in a new directory

FILE_FREE == {}
Flags     == {"used", "open", "dirty"}
Unread    == [i \in 0 .. DISKBLOCKLEN - 1 |-> Junk]
NoFile    == [state |-> FILE_FREE, name |-> NoName, blocknum |-> NoBlock,
              length |-> 0, cursor |-> 0, data |-> Unread]
Idle      == [at |-> "idle", cmd |-> "none", name |-> NoName, fd |-> NoFd,
              block |-> NoBlock]

(* What blocks hold. *)
Super(b)   == [kind |-> "super", sb_freelst |-> b]
Free(list) == [kind |-> "free", list |-> list]
Data(d)    == [kind |-> "data", bytes |-> d]
Dir(t)     == [kind |-> "dir",
               files |-> [fd \in Fd |-> [used |-> "used" \in t[fd].state, name |-> t[fd].name,
                                         blocknum |-> t[fd].blocknum, length |-> t[fd].length]]]

(* A disk that sbInit() has just made. *)
Init ==
    /\ freelst = [i \in 1 .. DISKBLOCKTOTAL - FirstSegment |-> FirstSegment + i - 1]
    /\ filetab = [fd \in Fd |-> NoFile]
    /\ disk = [b \in Block |-> CASE b = SUPERBLOCKNUM -> Super(FirstSegment)
                                 [] b = DirBlock      -> Dir(filetab)
                                 [] b = FirstSegment  -> Free(freelst)
                                 [] OTHER             -> Data(Unread)]
    /\ position = DirBlock
    /\ dirlock = 1 /\ freelock = 1
    /\ proc = [p \in Procs |-> Idle] /\ up = "up"
    /\ text = [fd \in Fd |-> << >>] /\ kept = {} /\ mixed = {} /\ misread = {}
    /\ spoiled = {} /\ misfreed = {} /\ reused = {} /\ deleted = {}
    /\ commands = 0

------------------------------------------------------------------------------
At(p, place)  == up = "up" /\ proc[p].at = place
Goto(p, place) == proc' = [proc EXCEPT ![p].at = place]
End(p)        == proc' = [proc EXCEPT ![p] = Idle]

(* seek(): a number that is no block is refused, and nobody looks. *)
Seek(b) == position' = IF b \in Block THEN b ELSE position

(* write() of c, meant for block b. *)
Write(c, b) ==
    /\ disk' = [disk EXCEPT ![position] = c]
    /\ spoiled' = IF position = b THEN spoiled \ {b} ELSE spoiled \cup {position, b}

(* Somebody else is at work on the file. *)
Shared(p, fd) == \E q \in Procs \ {p} : proc[q].fd = fd
Mix(p, fd)    == mixed' = IF Shared(p, fd) THEN mixed \cup {fd} ELSE mixed

(* The pointers in the superblock are block numbers while it is written. *)
WritesSuper(q) == \/ proc[q].at = "freeSuper"
                  \/ proc[q].at = "blockWrite" /\ freelst = << >>

Lost(why) == /\ up' = why
             /\ UNCHANGED <<driver, filetab, freelst, locks, proc, files, blocks, commands>>

(***************************************************************************)
(* fileOpen(), the first thing each command does.  Nothing locks it.       *)
(***************************************************************************)
Matches(name) == {fd \in Fd : "used" \in filetab[fd].state /\ filetab[fd].name = name}

(* fileSeek(fd, 0) *)
Rewound(f) == IF f.state = FILE_FREE \/ f.cursor > f.length \/ f.cursor > DISKBLOCKLEN
              THEN f ELSE [f EXCEPT !.cursor = 0]

Start(p, cmd, name, place, fd) ==
    /\ At(p, "idle") /\ commands < MaxCommands
    /\ commands' = commands + 1
    /\ proc' = [proc EXCEPT ![p] = [Idle EXCEPT !.at = place, !.fd = fd,
                    !.cmd = IF place = "read" THEN cmd ELSE @,
                    !.name = IF place = "create" THEN name ELSE @]]
    /\ UNCHANGED <<disk, freelst, locks, up, text, kept, misread, blocks>>

(* No such file: cat > goes on to create it. *)
OpenNone(p, name) ==
    /\ Matches(name) = {}
    /\ Start(p, "new", name, "create", NoFd)
    /\ UNCHANGED <<position, filetab, mixed>>

(* The file is open already: the command shares its cursor. *)
OpenAgain(p, cmd, name) ==
    /\ Matches(name) # {} /\ cmd \in {"cat", "delete"}
    /\ LET fd == Min(Matches(name))
       IN  /\ "open" \in filetab[fd].state
           /\ Start(p, cmd, name, IF cmd = "cat" THEN "print" ELSE "delete", fd)
           /\ filetab' = IF cmd = "cat" THEN [filetab EXCEPT ![fd] = Rewound(@)] ELSE filetab
           /\ Mix(p, fd)
    /\ UNCHANGED position

OpenEarly(p, cmd, name) ==      \* mutant: the file is open before it is read
    /\ Matches(name) # {}
    /\ LET fd == Min(Matches(name))
       IN  /\ "open" \notin filetab[fd].state
           /\ Start(p, cmd, name, "read", fd)
           /\ filetab' = [filetab EXCEPT ![fd].data = Unread, ![fd].state = @ \cup {"open"}]
           /\ Seek(filetab[fd].blocknum)
           /\ Mix(p, fd)

OpenSeek(p, cmd, name) ==
    /\ Matches(name) # {}
    /\ LET fd == Min(Matches(name))
       IN  /\ "open" \notin filetab[fd].state
           /\ Start(p, cmd, name, "read", fd)
           /\ filetab' = [filetab EXCEPT ![fd].data = Unread]
           /\ Seek(filetab[fd].blocknum)
           /\ Mix(p, fd)

(* The block is read into the file that has the number now; cat > then      *)
(* says that the file exists.                                               *)
OpenRead(p) ==
    LET fd == proc[p].fd
    IN  /\ At(p, "read")
        /\ filetab' = [filetab EXCEPT
             ![fd].data = IF disk[position].kind = "data" THEN disk[position].bytes ELSE Unread,
             ![fd].state = @ \cup {"open"}, ![fd].cursor = 0]
        /\ misread' = IF position = filetab[fd].blocknum THEN misread \ {fd} ELSE misread \cup {fd}
        /\ proc' = [proc EXCEPT ![p] =
             CASE proc[p].cmd = "cat"    -> [Idle EXCEPT !.at = "print", !.fd = fd]
               [] proc[p].cmd = "delete" -> [Idle EXCEPT !.at = "delete", !.fd = fd]
               [] OTHER                  -> Idle]
        /\ UNCHANGED <<driver, freelst, locks, up, text, kept, mixed, blocks, commands>>

(* cat: fileGetChar() until it answers SYSERR.  The file is not closed. *)
PrintChar(p) ==
    LET fd == proc[p].fd
        f  == filetab[fd]
    IN  /\ At(p, "print")
        /\ IF f.state = FILE_FREE \/ f.cursor >= f.length
           THEN End(p) /\ UNCHANGED filetab
           ELSE filetab' = [filetab EXCEPT ![fd].cursor = @ + 1] /\ UNCHANGED proc
        /\ UNCHANGED <<driver, freelst, locks, up, files, blocks, commands>>

(***************************************************************************)
(* fileCreate() and sbGetBlock().                                          *)
(***************************************************************************)
Slots == {fd \in Fd : filetab[fd].state = FILE_FREE}

CreateNoneLocked(p) ==          \* mutant: no signal when the directory is full
    /\ At(p, "create") /\ dirlock > 0 /\ Slots = {}
    /\ End(p)
    /\ dirlock' = dirlock - 1
    /\ UNCHANGED <<driver, filetab, freelst, freelock, up, files, blocks, commands>>

CreateNone(p) ==
    /\ At(p, "create") /\ dirlock > 0 /\ Slots = {}
    /\ End(p)
    /\ UNCHANGED <<driver, filetab, freelst, locks, up, files, blocks, commands>>

(* The file can be seen at once, with the block its place had before.  The  *)
(* list's head is looked at before its lock is taken.                       *)
Create(p) ==
    /\ At(p, "create") /\ dirlock > 0 /\ Slots # {}
    /\ LET fd   == Min(Slots)
           full == freelst = << >>
           head == IF full \/ (\E q \in Procs : proc[q].at = "freeSuper")
                   THEN NoBlock ELSE Head(freelst)
       IN  /\ filetab' = [filetab EXCEPT ![fd] =
                [NoFile EXCEPT !.state = {"used", "open"}, !.name = proc[p].name,
                               !.blocknum = IF full THEN NoBlock ELSE filetab[fd].blocknum]]
           /\ proc' = [proc EXCEPT ![p] = IF full THEN Idle
                            ELSE [Idle EXCEPT !.at = "block", !.fd = fd, !.block = head]]
           /\ text' = [text EXCEPT ![fd] = << >>]
           /\ mixed' = IF Shared(p, fd) THEN mixed \cup {fd} ELSE mixed \ {fd}
           /\ misread' = misread \ {fd}
    /\ UNCHANGED <<driver, freelst, locks, up, kept, blocks, commands>>

HasHead(p) == freelst # << >> /\ proc[p].block = Head(freelst)

GetBlockKeeps(p) ==             \* mutant: the count is not decremented
    /\ At(p, "block") /\ freelock > 0 /\ HasHead(p)
    /\ freelock' = freelock - 1
    /\ Seek(Head(freelst))
    /\ proc' = [proc EXCEPT ![p].at = "blockWrite", ![p].block = Last(freelst)]
    /\ UNCHANGED <<disk, filetab, freelst, dirlock, up, files, blocks, commands>>

GetBlock(p) ==
    /\ At(p, "block") /\ freelock > 0 /\ HasHead(p)
    /\ freelock' = freelock - 1
    /\ freelst' = Front(freelst)
    /\ Seek(IF freelst' = << >> THEN SUPERBLOCKNUM ELSE Head(freelst))
    /\ proc' = [proc EXCEPT ![p].at = "blockWrite", ![p].block = Last(freelst)]
    /\ reused' = reused \cup ({Last(freelst)} \cap misfreed)
    /\ deleted' = deleted \ {Last(freelst)}
    /\ UNCHANGED <<disk, filetab, dirlock, up, files, spoiled, misfreed, commands>>

GetAstray(p) ==
    /\ At(p, "block") /\ freelock > 0 /\ ~HasHead(p)
    /\ Lost("stale head")

GetWrite(p) ==
    /\ At(p, "blockWrite")
    /\ IF freelst = << >> THEN Write(Super(0), SUPERBLOCKNUM)
                          ELSE Write(Free(freelst), Head(freelst))
    /\ filetab' = [filetab EXCEPT ![proc[p].fd].blocknum = proc[p].block]
    /\ freelock' = freelock + 1
    /\ proc' = [proc EXCEPT ![p].at = "type", ![p].block = NoBlock]
    /\ UNCHANGED <<position, freelst, dirlock, up, files, misfreed, reused, deleted, commands>>

(***************************************************************************)
(* filePutChar() and fileClose().                                          *)
(***************************************************************************)
Puts(f) == f.state # FILE_FREE /\ f.cursor <= f.length /\ f.cursor < DISKBLOCKLEN

Type(p) ==
    LET fd == proc[p].fd
        f  == filetab[fd]
    IN  /\ At(p, "type") /\ Puts(f)
        /\ filetab' = [filetab EXCEPT ![fd] =
             [f EXCEPT !.data = [i \in DOMAIN f.data |-> IF i = f.cursor THEN p ELSE f.data[i]],
                       !.length = IF f.length = f.cursor THEN f.length + 1 ELSE f.length,
                       !.cursor = f.cursor + 1, !.state = f.state \cup {"dirty"}]]
        /\ text' = [text EXCEPT ![fd] = Append(@, p)]
        /\ UNCHANGED <<driver, freelst, locks, proc, up, kept, mixed, misread, blocks, commands>>

CloseUnwritten(p) ==            \* mutant: what is dirty is not written
    /\ At(p, "type")
    /\ IF filetab[proc[p].fd].state = FILE_FREE
       THEN End(p) ELSE Goto(p, "closed")
    /\ UNCHANGED <<driver, filetab, freelst, locks, up, files, blocks, commands>>

Close(p) ==
    LET f == filetab[proc[p].fd]
    IN  /\ At(p, "type")
        /\ IF f.state = FILE_FREE THEN End(p) /\ UNCHANGED position
           ELSE IF "dirty" \in f.state THEN Goto(p, "closeWrite") /\ Seek(f.blocknum)
           ELSE Goto(p, "closed") /\ UNCHANGED position
        /\ UNCHANGED <<disk, filetab, freelst, locks, up, files, blocks, commands>>

CloseWrite(p) ==
    LET f == filetab[proc[p].fd]
    IN  /\ At(p, "closeWrite")
        /\ Write(Data(f.data), f.blocknum)
        /\ Goto(p, "closed")
        /\ UNCHANGED <<position, filetab, freelst, locks, up, files,
                       misfreed, reused, deleted, commands>>

(* What was typed since the write is dirty no more. *)
CloseClear(p) ==
    /\ At(p, "closed")
    /\ filetab' = [filetab EXCEPT ![proc[p].fd].state = @ \ {"dirty", "open"}]
    /\ Goto(p, "dir")
    /\ UNCHANGED <<driver, freelst, locks, up, files, blocks, commands>>

CloseDir(p) ==
    /\ At(p, "dir") /\ dirlock > 0
    /\ ~\E q \in Procs : WritesSuper(q)
    /\ dirlock' = dirlock - 1
    /\ Seek(DirBlock)
    /\ Goto(p, "dirWrite")
    /\ UNCHANGED <<disk, filetab, freelst, freelock, up, files, blocks, commands>>

CloseAstray(p) ==
    /\ At(p, "dir") /\ dirlock > 0
    /\ \E q \in Procs : WritesSuper(q)
    /\ Lost("number for a pointer")

DirWrite(p) ==
    /\ At(p, "dirWrite")
    /\ Write(Dir(filetab), DirBlock)
    /\ dirlock' = dirlock + 1
    /\ kept' = IF proc[p].fd \in mixed THEN kept ELSE kept \cup {proc[p].fd}
    /\ End(p)
    /\ UNCHANGED <<position, filetab, freelst, freelock, up, text, mixed, misread,
                   misfreed, reused, deleted, commands>>

(***************************************************************************)
(* fileDelete(), and sbFreeBlock() called with the number of the file.     *)
(***************************************************************************)
Delete(p) ==
    LET fd == proc[p].fd
    IN  /\ At(p, "delete") /\ dirlock > 0
        /\ filetab' = [filetab EXCEPT ![fd].state = FILE_FREE,
                                      ![fd].length = 0, ![fd].cursor = 0]
        /\ kept' = kept \ {fd}
        /\ deleted' = deleted \cup (IF filetab[fd].state = FILE_FREE THEN {}
                                    ELSE {filetab[fd].blocknum} \cap Block)
        /\ IF fd <= 0 THEN End(p) /\ UNCHANGED dirlock
                      ELSE Goto(p, "free") /\ dirlock' = dirlock - 1
        /\ UNCHANGED <<driver, freelst, freelock, up, text, mixed, misread,
                       spoiled, misfreed, reused, commands>>

FreeBlock(p) ==
    /\ At(p, "free") /\ freelock > 0
    /\ freelock' = freelock - 1
    /\ freelst' = Append(freelst, proc[p].fd)
    /\ Seek(Head(freelst'))
    /\ misfreed' = misfreed \cup {proc[p].fd}
    /\ reused' = reused \cup ({proc[p].fd} \cap {Head(freelst')})
    /\ Goto(p, "freeWrite")
    /\ UNCHANGED <<disk, filetab, dirlock, up, files, spoiled, deleted, commands>>

FreeEnd(p) == End(p) /\ freelock' = freelock + 1 /\ dirlock' = dirlock + 1

(* With no list before, the superblock has to name the new one. *)
FreeWrite(p) ==
    /\ At(p, "freeWrite")
    /\ Write(Free(freelst), Head(freelst))
    /\ IF Len(freelst) = 1
       THEN Goto(p, "freeSuper") /\ Seek(SUPERBLOCKNUM) /\ UNCHANGED locks
       ELSE FreeEnd(p) /\ UNCHANGED position
    /\ UNCHANGED <<filetab, freelst, up, files, misfreed, reused, deleted, commands>>

FreeSuper(p) ==
    /\ At(p, "freeSuper")
    /\ Write(Super(Head(freelst)), SUPERBLOCKNUM)
    /\ FreeEnd(p)
    /\ UNCHANGED <<position, filetab, freelst, up, files, misfreed, reused, deleted, commands>>

(***************************************************************************)
(* A restart at any step: sbOpen() reads the superblock, the segment and   *)
(* the directory back, or finds that they are not what they should be.     *)
(***************************************************************************)
Mountable ==
    /\ disk[SUPERBLOCKNUM].kind = "super" /\ disk[DirBlock].kind = "dir"
    /\ LET b == disk[SUPERBLOCKNUM].sb_freelst IN b # 0 => disk[b].kind = "free"

sbOpenDirectory(image) ==
    [fd \in Fd |-> [NoFile EXCEPT !.state = IF image[fd].used THEN {"used"} ELSE FILE_FREE,
                                  !.name = image[fd].name, !.blocknum = image[fd].blocknum,
                                  !.length = image[fd].length]]

Heads(list) == IF list = << >> THEN {} ELSE {Head(list)}

Restart ==
    /\ up = "up"
    /\ commands < MaxCommands /\ commands' = commands + 1
    /\ proc' = [p \in Procs |-> Idle]
    /\ dirlock' = 1 /\ freelock' = 1
    /\ mixed' = {} /\ misread' = {}
    /\ kept' = IF DirBlock \in spoiled THEN {} ELSE kept
    /\ text' = [fd \in Fd |-> IF fd \in kept' THEN text[fd] ELSE << >>]
    /\ UNCHANGED <<disk, spoiled>>

(* A list that a write has missed may name blocks of files; the first of     *)
(* them is its own and is written when the list changes.                    *)
Reboot ==
    /\ Restart /\ Mountable
    /\ filetab' = sbOpenDirectory(disk[DirBlock].files)
    /\ LET b == disk[SUPERBLOCKNUM].sb_freelst
       IN  /\ freelst' = IF b = 0 THEN << >> ELSE disk[b].list
           /\ IF {SUPERBLOCKNUM, b} \cap spoiled = {}
              THEN UNCHANGED <<misfreed, reused>>
              ELSE misfreed' = Block /\ reused' = reused \cup {b} \cup Heads(freelst')
    /\ position' = DirBlock
    /\ deleted' = deleted \ {filetab'[fd].blocknum : fd \in Fd}
    /\ UNCHANGED up

RebootRuined ==
    /\ Restart /\ ~Mountable
    /\ up' = "ruined"
    /\ UNCHANGED <<filetab, freelst, position, misfreed, reused, deleted>>

Command(p, cmd, name) == OpenAgain(p, cmd, name) \/ OpenSeek(p, cmd, name)

GoesOn(p) ==
    \/ OpenRead(p) \/ PrintChar(p) \/ CreateNone(p) \/ Create(p)
    \/ GetBlock(p) \/ GetAstray(p) \/ GetWrite(p) \/ Close(p) \/ CloseWrite(p)
    \/ CloseClear(p) \/ CloseDir(p) \/ CloseAstray(p) \/ DirWrite(p)
    \/ Delete(p) \/ FreeBlock(p) \/ FreeWrite(p) \/ FreeSuper(p)

Next ==
    \/ Reboot \/ RebootRuined
    \/ \E p \in Procs :
        \/ GoesOn(p) \/ Type(p)
        \/ \E name \in Name :
            OpenNone(p, name) \/ \E cmd \in {"cat", "new", "delete"} : Command(p, cmd, name)

Spec == Init /\ [][Next]_vars

------------------------------------------------------------------------------
(***************************************************************************)
(* Properties.                                                             *)
(***************************************************************************)
(* Every variable keeps its type; the cursor of a file never passes its     *)
(* length, nor its length the block, whatever commands share it.            *)
TypeOK ==
    /\ position \in Block /\ freelst \in Seq(Block)
    /\ dirlock \in {0, 1} /\ freelock \in {0, 1}
    /\ \A fd \in Fd :
        LET f == filetab[fd]
        IN  /\ f.state \subseteq Flags /\ f.name \in Name \cup {NoName}
            /\ f.blocknum \in Block \cup {NoBlock}
            /\ 0 <= f.cursor /\ f.cursor <= f.length /\ f.length <= DISKBLOCKLEN
            /\ f.data \in [0 .. DISKBLOCKLEN - 1 -> Procs \cup {Junk}]
    /\ kept \cup mixed \cup misread \subseteq Fd
    /\ \A p \in Procs : proc[p].fd \in Fd \cup {NoFd}

AtRest == \A p \in Procs : proc[p].at \in {"idle", "create", "block", "dir", "delete"}

(* Whoever is in neither critical section has given the locks back.         *)
LocksGivenBack == AtRest => dirlock = 1 /\ freelock = 1

(* A file that is being created has the block of an earlier one. *)
Creating(fd) == \E p \in Procs : proc[p].fd = fd /\ proc[p].at \in {"block", "blockWrite"}
Owners(b)    == {fd \in Fd : filetab[fd].state # FILE_FREE /\ filetab[fd].blocknum = b /\ ~Creating(fd)}
Places(b)    == Cardinality(Owners(b)) + Cardinality({i \in DOMAIN freelst : freelst[i] = b})
                + Cardinality({p \in Procs : proc[p].at = "blockWrite" /\ proc[p].block = b})

(* A block has one owner at most, a file, a creation or the free list, and  *)
(* the superblock and the directory have none, until the number of a        *)
(* deleted file is taken for that of a block, or a restart reads a list     *)
(* that a write has missed.                                                 *)
BlocksApart ==
    \A b \in Block \ misfreed : Places(b) + (IF b <= DirBlock THEN 1 ELSE 0) <= 1

Bytes(d, n)     == [i \in 1 .. n |-> d[i - 1]]
Holds(b, typed) ==
    typed # << >> => disk[b].kind = "data" /\ Bytes(disk[b].bytes, Len(typed)) = typed

(* A file whose close has returned is on the disk, in the directory and in  *)
(* its block, with what was typed, and stays there whatever else is done    *)
(* and whenever the machine restarts; unless two commands used it at once,  *)
(* a command moved the position between another's seek and write, or a      *)
(* deleted file's number was used as a block.                               *)
Damaged == spoiled \cup reused
Durable ==
    \A fd \in kept :
        DirBlock \notin Damaged =>
            LET e == disk[DirBlock].files[fd]
            IN  /\ e.used /\ e.length = Len(text[fd])
                /\ e.blocknum \notin Damaged => Holds(e.blocknum, text[fd])

(* What is read back from such a file is what was typed. *)
ReadBack ==
    up = "up" =>
        \A fd \in kept \ misread :
            LET f == filetab[fd]
            IN  f.state = {"used", "open"} /\ {DirBlock, f.blocknum} \cap Damaged = {} =>
                    Bytes(f.data, f.length) = text[fd]

(* fileDelete.c: return its space to the free disk block list. *)
SpaceReturned ==
    (\A p \in Procs : proc[p].at # "free") => deleted \subseteq ToSet(freelst)
==============================================================================
