--------------------------- MODULE FileSystem_proof ---------------------------
(***************************************************************************)
(* Files keep their shape and the two locks are given back, a block has    *)
(* one owner, and a file that was closed stays and reads back, however the *)
(* commands of any number of processes interleave with each other and with *)
(* restarts, for any sizes of disk and directory.  Four invariants, each   *)
(* resting on those before it: Kept (shape and locks), Owned (the blocks), *)
(* Reuse (the blocks freed by mistake) and Sound (what is in the files).   *)
(***************************************************************************)
EXTENDS FileSystem, FiniteSetTheorems, SequenceTheorems, TLAPS

Stages  == {"idle", "read", "print", "create", "block", "blockWrite", "type", "closeWrite",
            "closed", "dir", "dirWrite", "delete", "free", "freeWrite", "freeSuper"}
(* Between wait() and signal() of the free list's lock, and the directory's. *)
Freeing == {"blockWrite", "freeWrite", "freeSuper"}
Writing == {"dirWrite", "free", "freeWrite", "freeSuper"}

Chars  == [0 .. DISKBLOCKLEN - 1 -> Procs \cup {Junk}]
States == SUBSET Flags
Entry  == [state : States, name : Name \cup {NoName}, blocknum : Block \cup {NoBlock},
           length : 0 .. DISKBLOCKLEN, cursor : 0 .. DISKBLOCKLEN, data : Chars]
Stored == [used : BOOLEAN, name : Name \cup {NoName}, blocknum : Block \cup {NoBlock},
           length : 0 .. DISKBLOCKLEN]
Call   == [at : Stages, cmd : {"none", "cat", "new", "delete"}, name : Name \cup {NoName},
           fd : Fd \cup {NoFd}, block : Block \cup {NoBlock}]
Content == [kind : {"super"}, sb_freelst : Block] \cup [kind : {"free"}, list : Seq(Block)]
           \cup [kind : {"data"}, bytes : Chars] \cup [kind : {"dir"}, files : [Fd -> Stored]]

Shape == /\ filetab \in [Fd -> Entry]
         /\ \A fd \in Fd : filetab[fd].cursor <= filetab[fd].length
Sets  == kept \subseteq Fd /\ mixed \subseteq Fd /\ misread \subseteq Fd
Disk  == disk \in [Block -> Content] /\ position \in Block

(* A command has a file unless it has only begun, and writes no segment     *)
(* while there is none.                                                     *)
Fits(c) == /\ c.at \notin {"idle", "create"} => c.fd \in Fd
           /\ c.at = "blockWrite" => c.block \in Block
Calls == /\ proc \in [Procs -> Call] /\ \A p \in Procs : Fits(proc[p])
         /\ freelst \in Seq(Block)
         /\ \A p \in Procs : proc[p].at \in {"freeWrite", "freeSuper"} => freelst # << >>

(* A semaphore is a lock: free with nobody inside, or taken by the one      *)
(* process that is.                                                         *)
Inside(places)     == {p \in Procs : proc[p].at \in places}
Guarded(lock, who) == \/ lock = 1 /\ who = {}
                      \/ lock = 0 /\ \E p \in Procs : who = {p}
Locks == Guarded(freelock, Inside(Freeing)) /\ Guarded(dirlock, Inside(Writing))

Kept == Shape /\ Sets /\ Disk /\ Calls /\ Locks

------------------------------------------------------------------------------
LEMMA Numbers ==
    /\ Fd \subseteq Nat /\ Fd \subseteq Block /\ NoFd \notin Fd /\ NoBlock \notin Block
    /\ {SUPERBLOCKNUM, DirBlock, FirstSegment, 0} \subseteq Block
    /\ DISKBLOCKLEN \in Nat /\ 0 \in 0 .. DISKBLOCKLEN
PROOF
  BY FileSizes DEF Fd, Block, NoFd, NoBlock, SUPERBLOCKNUM, DirBlock, FirstSegment

LEMMA Blanks ==
    /\ Unread \in Chars /\ NoFile \in Entry /\ NoFile.cursor = 0 /\ NoFile.length = 0
    /\ NoFile.state = {} /\ Idle \in Call /\ Idle.at = "idle" /\ Fits(Idle)
PROOF
  <1>1. Unread \in Chars
    BY DEF Unread, Chars
  <1> QED
    BY <1>1, Numbers DEF NoFile, Entry, States, FILE_FREE, Flags, Idle, Call, Stages, Fits

LEMMA Contents ==
    /\ \A b \in Block : Super(b) \in Content
    /\ \A l \in Seq(Block) : Free(l) \in Content
    /\ \A d \in Chars : Data(d) \in Content
    /\ Shape => Dir(filetab) \in Content
PROOF
  <1>1. ASSUME Shape, NEW fd \in Fd
        PROVE  [used |-> "used" \in filetab[fd].state, name |-> filetab[fd].name,
                blocknum |-> filetab[fd].blocknum, length |-> filetab[fd].length] \in Stored
    <2>1. ("used" \in filetab[fd].state) \in BOOLEAN
      OBVIOUS
    <2> DEFINE u == "used" \in filetab[fd].state
    <2> HIDE DEF u
    <2>2. u \in BOOLEAN
      BY <2>1 DEF u
    <2>3. [used |-> u, name |-> filetab[fd].name,
           blocknum |-> filetab[fd].blocknum, length |-> filetab[fd].length] \in Stored
      BY <1>1, <2>2 DEF Shape, Entry, Stored
    <2> QED
      BY <2>3 DEF u
  <1>2. Shape => Dir(filetab) \in Content
    BY <1>1 DEF Dir, Content
  <1> QED
    BY <1>2 DEF Super, Free, Data, Content

(* The least of a set of natural numbers is one of them.                   *)
LEMMA LeastNatural ==
    ASSUME NEW S, S \subseteq Nat, S # {}
    PROVE  Min(S) \in S
PROOF
  <1> DEFINE T == {0 .. x : x \in S}
             R == StrictSubsetOrdering(Nat)
  <1>1. T \subseteq FiniteSubsetsOf(Nat) /\ T # {}
    <2>1. ASSUME NEW x \in S PROVE IsFiniteSet(0 .. x) /\ 0 .. x \subseteq Nat
      BY FS_Interval
    <2> QED
      BY <2>1 DEF FiniteSubsetsOf
  <1>2. IsWellFoundedOn(R, FiniteSubsetsOf(Nat))
    BY FS_StrictSubsetOrderingWellFounded
  <1> HIDE DEF R
  <1>3. PICK t \in T : \A u \in T : ~ (<<u, t>> \in R)
    BY <1>1, <1>2, WFMin
  <1>4. PICK x \in S : t = 0 .. x
    BY <1>3
  <1>5. ASSUME NEW y \in S, y < x PROVE FALSE
    <2>1. 0 .. y \in T /\ x \in Nat /\ y \in Nat
      OBVIOUS
    <2>2. /\ 0 .. y \subseteq 0 .. x /\ x \in 0 .. x /\ x \notin 0 .. y
          /\ 0 .. y \in SUBSET Nat /\ 0 .. x \in SUBSET Nat
      BY <2>1, <1>5
    <2>3. <<0 .. y, 0 .. x>> \in R
      BY <2>2 DEF R, StrictSubsetOrdering
    <2> QED
      BY <1>3, <1>4, <2>1, <2>3
  <1>6. \A y \in S : x =< y
    BY <1>5
  <1> QED
    BY <1>6 DEF Min

(* Writes of sound contents keep the disk sound, and seek() its position. *)
LEMMA WriteSound == ASSUME Disk, NEW c \in Content, NEW b, Write(c, b) PROVE disk' \in [Block -> Content]
PROOF
  BY DEF Disk, Write

LEMMA SeekSound == ASSUME Disk, NEW b, Seek(b) PROVE position' \in Block
PROOF
  BY DEF Disk, Seek

(* One file changes. *)
LEMMA FileChanges ==
    ASSUME Shape, NEW fd \in Fd, NEW e \in Entry, e.cursor <= e.length,
           filetab' = [filetab EXCEPT ![fd] = e]
    PROVE  Shape'
PROOF
  BY DEF Shape

(* What a semaphore may do when its process goes from one place to another. *)
Passes(lock, then, from, to, places) ==
    \/ then = lock /\ (from \in places <=> to \in places)
    \/ lock > 0 /\ then = lock - 1 /\ to \in places
    \/ then = lock + 1 /\ from \in places /\ to \notin places

LEMMA GuardKept ==
    ASSUME NEW lock, NEW then, NEW who \in SUBSET Procs, NEW whoNow, NEW p \in Procs,
           NEW from, NEW to, NEW places,
           Guarded(lock, who), Passes(lock, then, from, to, places),
           from \in places <=> p \in who,
           whoNow = IF to \in places THEN who \cup {p} ELSE who \ {p}
    PROVE  Guarded(then, whoNow)
PROOF
  <1>1. CASE then = lock /\ (from \in places <=> to \in places)
    <2>1. whoNow = who
      BY <1>1
    <2> QED
      BY <1>1, <2>1
  <1>2. CASE lock > 0 /\ then = lock - 1 /\ to \in places
    BY <1>2 DEF Guarded
  <1>3. CASE then = lock + 1 /\ from \in places /\ to \notin places
    BY <1>3 DEF Guarded
  <1> QED
    BY <1>1, <1>2, <1>3 DEF Passes

(* One command goes on. *)
LEMMA Goes ==
    ASSUME Calls, Locks, NEW p \in Procs, NEW c \in Call, Fits(c),
           proc' = [proc EXCEPT ![p] = c],
           Passes(freelock, freelock', proc[p].at, c.at, Freeing),
           Passes(dirlock, dirlock', proc[p].at, c.at, Writing),
           freelst' \in Seq(Block),
           freelst' = freelst \/ freelst' # << >> \/ freelock > 0,
           c.at \in {"freeWrite", "freeSuper"} => freelst' # << >>
    PROVE  Calls' /\ Locks'
PROOF
  <1>1. /\ proc' \in [Procs -> Call] /\ proc'[p] = c
        /\ \A q \in Procs \ {p} : proc'[q] = proc[q]
    BY DEF Calls
  <1>2. \A q \in Procs : proc'[q].at \in {"freeWrite", "freeSuper"} => freelst' # << >>
    <2>1. freelock > 0 => \A q \in Procs : proc[q].at \notin {"freeWrite", "freeSuper"}
      BY DEF Locks, Guarded, Inside, Freeing
    <2> QED
      BY <1>1, <2>1 DEF Calls
  <1>3. Calls'
    BY <1>1, <1>2 DEF Calls
  <1>4. /\ Inside(Freeing)' = IF c.at \in Freeing THEN Inside(Freeing) \cup {p}
                              ELSE Inside(Freeing) \ {p}
        /\ Inside(Writing)' = IF c.at \in Writing THEN Inside(Writing) \cup {p}
                              ELSE Inside(Writing) \ {p}
    BY <1>1 DEF Inside
  <1>5. /\ Inside(Freeing) \in SUBSET Procs /\ Inside(Writing) \in SUBSET Procs
        /\ proc[p].at \in Freeing <=> p \in Inside(Freeing)
        /\ proc[p].at \in Writing <=> p \in Inside(Writing)
    BY DEF Inside
  <1>6. Guarded(freelock', Inside(Freeing)') /\ Guarded(dirlock', Inside(Writing)')
    BY <1>4, <1>5, GuardKept DEF Locks
  <1>7. Locks'
    BY <1>6 DEF Locks, Guarded
  <1> QED
    BY <1>3, <1>7

LEMMA KeptInit == Init => Kept
PROOF
  <1>1. SUFFICES ASSUME Init PROVE Kept
    OBVIOUS
  <1>2. freelst \in Seq(Block)
    <2>1. \A i \in 1 .. DISKBLOCKTOTAL - FirstSegment : FirstSegment + i - 1 \in Block
      BY FileSizes DEF FirstSegment, Block
    <2>2. DISKBLOCKTOTAL - FirstSegment \in Nat
      BY FileSizes DEF FirstSegment
    <2> QED
      BY <1>1, <2>1, <2>2 DEF Init
  <1>3. Shape
    BY <1>1, Blanks DEF Init, Shape
  <1>4. disk \in [Block -> Content]
    <2>1. /\ Super(FirstSegment) \in Content /\ Dir(filetab) \in Content
          /\ Free(freelst) \in Content /\ Data(Unread) \in Content
      BY <1>2, <1>3, Contents, Numbers, Blanks
    <2> QED
      BY <1>1, <2>1 DEF Init
  <1>5. position \in Block /\ Sets
    BY <1>1, Numbers DEF Init, Sets
  <1>6. Calls /\ Locks
    BY <1>1, <1>2, Blanks DEF Init, Calls, Locks, Guarded, Inside, Freeing, Writing
  <1> QED
    BY <1>3, <1>4, <1>5, <1>6 DEF Kept, Disk

------------------------------------------------------------------------------
(* The first of some files is a file. *)
LEMMA FirstFile == ASSUME NEW S, S \subseteq Fd, S # {} PROVE Min(S) \in S /\ Min(S) \in Fd
PROOF
  BY LeastNatural, Numbers

(* A command begins. *)
LEMMA StartGoes ==
    ASSUME Kept, NEW p \in Procs, NEW cmd \in {"cat", "new", "delete"}, NEW name \in Name,
           NEW place \in {"create", "print", "delete", "read"}, NEW fd \in Fd \cup {NoFd},
           place # "create" => fd \in Fd, Start(p, cmd, name, place, fd)
    PROVE  Calls' /\ Locks' /\ UNCHANGED <<disk, kept, misread>>
PROOF
  <1> DEFINE c == [Idle EXCEPT !.at = place, !.fd = fd,
                       !.cmd = IF place = "read" THEN cmd ELSE @,
                       !.name = IF place = "create" THEN name ELSE @]
  <1>1. /\ proc[p].at = "idle" /\ proc' = [proc EXCEPT ![p] = c]
        /\ UNCHANGED <<disk, freelst, freelock, dirlock, kept, misread>>
    BY DEF Start, At, locks
  <1>2. c \in Call /\ Fits(c) /\ c.at = place
    <2>1. c.at = place /\ c.fd = fd /\ c.block = Idle.block
      BY DEF Idle
    <2>2. c.cmd \in {cmd, Idle.cmd} /\ c.name \in {name, Idle.name}
      BY DEF Idle
    <2>3. place \in Stages /\ place \notin {"idle", "blockWrite"}
      BY DEF Stages
    <2>4. /\ Idle.cmd = "none" /\ Idle.name \in Name \cup {NoName}
          /\ Idle.block \in Block \cup {NoBlock}
      BY DEF Idle
    <2>5. c.cmd \in {"none", "cat", "new", "delete"} /\ c.name \in Name \cup {NoName}
      BY <2>2, <2>4
    <2>6. c \in Call
      BY <2>1, <2>3, <2>4, <2>5 DEF Call, Idle
    <2> QED
      BY <2>1, <2>3, <2>6 DEF Fits
  <1> HIDE DEF c
  <1>3. /\ Passes(freelock, freelock', proc[p].at, c.at, Freeing)
        /\ Passes(dirlock, dirlock', proc[p].at, c.at, Writing)
    BY <1>1, <1>2 DEF Passes, Freeing, Writing
  <1>4. freelst' \in Seq(Block)
    BY <1>1 DEF Kept, Calls
  <1> QED
    BY <1>1, <1>2, <1>3, <1>4, Goes DEF Kept

(* fileOpen() up to the read. *)
LEMMA OpenKeeps ==
    ASSUME Kept, NEW p \in Procs, NEW cmd \in {"cat", "new", "delete"}, NEW name \in Name,
           OpenNone(p, name) \/ OpenAgain(p, cmd, name) \/ OpenSeek(p, cmd, name)
    PROVE  Kept'
PROOF
  <1> DEFINE fd == Min(Matches(name))
  <1>0. Shape /\ Sets /\ Disk
    BY DEF Kept
  <1>1. CASE OpenNone(p, name)
    <2>1. Start(p, "new", name, "create", NoFd) /\ UNCHANGED <<position, filetab, mixed>>
      BY <1>1 DEF OpenNone
    <2>2. Calls' /\ Locks' /\ UNCHANGED <<disk, kept, misread>>
      BY <2>1, StartGoes
    <2> QED
      BY <1>0, <2>1, <2>2 DEF Kept, Shape, Sets, Disk
  <1>2. Matches(name) # {} => fd \in Fd
    BY FirstFile DEF Matches
  <1> HIDE DEF fd
  <1>3. CASE OpenAgain(p, cmd, name)
    <2>1. /\ fd \in Fd /\ position' = position /\ Mix(p, fd)
          /\ \/ Start(p, cmd, name, "print", fd) /\ filetab' = [filetab EXCEPT ![fd] = Rewound(@)]
             \/ Start(p, cmd, name, "delete", fd) /\ filetab' = filetab
      BY <1>2, <1>3 DEF OpenAgain, fd
    <2>2. Calls' /\ Locks' /\ UNCHANGED <<disk, kept, misread>>
      BY <2>1, StartGoes
    <2>3. Shape'
      <3>1. Rewound(filetab[fd]) \in Entry /\ Rewound(filetab[fd]).cursor <= Rewound(filetab[fd]).length
        BY <1>0, <2>1, Numbers DEF Shape, Entry, Rewound
      <3>2. CASE filetab' = [filetab EXCEPT ![fd] = Rewound(@)]
        BY <1>0, <2>1, <3>1, <3>2, FileChanges
      <3>3. CASE filetab' = filetab
        BY <1>0, <3>3 DEF Shape
      <3> QED
        BY <2>1, <3>2, <3>3
    <2>4. Sets'
      BY <1>0, <2>1, <2>2 DEF Sets, Mix
    <2> QED
      BY <1>0, <2>1, <2>2, <2>3, <2>4 DEF Kept, Disk
  <1>4. CASE OpenSeek(p, cmd, name)
    <2>1. /\ fd \in Fd /\ Start(p, cmd, name, "read", fd) /\ Seek(filetab[fd].blocknum) /\ Mix(p, fd)
          /\ filetab' = [filetab EXCEPT ![fd].data = Unread]
      BY <1>2, <1>4 DEF OpenSeek, fd
    <2>2. Calls' /\ Locks' /\ UNCHANGED <<disk, kept, misread>>
      BY <2>1, StartGoes
    <2>3. Shape'
      <3> DEFINE e == [filetab[fd] EXCEPT !.data = Unread]
      <3>1. e \in Entry /\ e.cursor <= e.length /\ filetab' = [filetab EXCEPT ![fd] = e]
        BY <1>0, <2>1, Blanks DEF Shape, Entry
      <3> HIDE DEF e
      <3> QED
        BY <1>0, <2>1, <3>1, FileChanges
    <2>4. Sets'
      BY <1>0, <2>1, <2>2 DEF Sets, Mix
    <2>5. position' \in Block
      BY <1>0, <2>1, SeekSound
    <2> QED
      BY <1>0, <2>2, <2>3, <2>4, <2>5 DEF Kept, Disk
  <1> QED
    BY <1>1, <1>3, <1>4

(* A command goes on outside both locks. *)
Outside == Stages \ (Freeing \cup Writing)

LEMMA GoesOutside ==
    ASSUME Kept, NEW p \in Procs, NEW c \in Call, Fits(c), proc' = [proc EXCEPT ![p] = c],
           proc[p].at \in Outside, c.at \in Outside, UNCHANGED <<freelst, freelock, dirlock>>
    PROVE  Calls' /\ Locks'
PROOF
  <1>1. /\ Passes(freelock, freelock', proc[p].at, c.at, Freeing)
        /\ Passes(dirlock, dirlock', proc[p].at, c.at, Writing)
        /\ c.at \notin {"freeWrite", "freeSuper"}
    BY DEF Passes, Outside, Freeing
  <1>2. freelst' \in Seq(Block)
    BY DEF Kept, Calls
  <1> QED
    BY <1>1, <1>2, Goes DEF Kept

(* The same place of the program, with the file and the block it had.      *)
LEMMA GoesTo ==
    ASSUME Kept, NEW p \in Procs, NEW place \in Stages, proc[p].at \notin {"idle", "create"},
           place # "blockWrite"
    PROVE  LET c == [proc[p] EXCEPT !.at = place]
           IN  c \in Call /\ Fits(c) /\ c.at = place
PROOF
  BY DEF Kept, Calls, Call, Fits

(* The read of fileOpen(). *)
LEMMA ReadKeeps == ASSUME Kept, NEW p \in Procs, OpenRead(p) PROVE Kept'
PROOF
  <1> DEFINE fd == proc[p].fd
             d == IF disk[position].kind = "data" THEN disk[position].bytes ELSE Unread
             c == CASE proc[p].cmd = "cat"    -> [Idle EXCEPT !.at = "print", !.fd = fd]
                    [] proc[p].cmd = "delete" -> [Idle EXCEPT !.at = "delete", !.fd = fd]
                    [] OTHER                  -> Idle
             e == [filetab[fd] EXCEPT !.data = d, !.state = @ \cup {"open"}, !.cursor = 0]
  <1>0. Shape /\ Sets /\ Disk /\ Calls
    BY DEF Kept
  <1>1. /\ proc[p].at = "read" /\ proc' = [proc EXCEPT ![p] = c]
        /\ filetab' = [filetab EXCEPT ![fd] = e]
        /\ misread' \in {misread, misread \ {fd}, misread \cup {fd}}
        /\ UNCHANGED <<disk, position, freelst, freelock, dirlock, kept, mixed>>
    BY DEF OpenRead, At, driver, locks
  <1>2. fd \in Fd
    BY <1>0, <1>1 DEF Calls, Fits
  <1>3. d \in Chars
    BY <1>0, Blanks DEF Disk, Content
  <1>4. c \in Call /\ Fits(c) /\ c.at \in Outside
    BY <1>2, Blanks DEF Call, Fits, Stages, Idle, Outside, Freeing, Writing
  <1>5. e \in Entry /\ e.cursor <= e.length
    <2> DEFINE s == filetab[fd].state \cup {"open"}
    <2>1. filetab[fd] \in Entry /\ s \in States
      BY <1>0, <1>2 DEF Shape, Entry, States, Flags
    <2>2. e = [filetab[fd] EXCEPT !.data = d, !.state = s, !.cursor = 0]
      OBVIOUS
    <2> HIDE DEF fd, d, s, e
    <2>3. 0 \in 0 .. DISKBLOCKLEN /\ filetab[fd].length \in 0 .. DISKBLOCKLEN
      BY <2>1, Numbers DEF Entry
    <2>4. e \in Entry
      BY <1>3, <2>1, <2>2, <2>3 DEF Entry
    <2>5. e.cursor = 0 /\ e.length = filetab[fd].length
      BY <2>1, <2>2 DEF Entry
    <2> QED
      BY <2>3, <2>4, <2>5, Numbers
  <1> HIDE DEF fd, d, c, e
  <1>6. Calls' /\ Locks'
    BY <1>1, <1>4, GoesOutside DEF Outside, Stages, Freeing, Writing
  <1>7. Shape'
    BY <1>0, <1>1, <1>2, <1>5, FileChanges
  <1> QED
    BY <1>0, <1>1, <1>2, <1>6, <1>7 DEF Kept, Sets, Disk

(* fileGetChar(). *)
LEMMA PrintKeeps == ASSUME Kept, NEW p \in Procs, PrintChar(p) PROVE Kept'
PROOF
  <1> DEFINE fd == proc[p].fd
             e == [filetab[fd] EXCEPT !.cursor = @ + 1]
  <1>0. Shape /\ Sets /\ Disk /\ Calls /\ Locks
    BY DEF Kept
  <1>1. /\ proc[p].at = "print"
        /\ UNCHANGED <<disk, position, freelst, freelock, dirlock, kept, mixed, misread>>
    BY DEF PrintChar, At, driver, locks, files
  <1>2. fd \in Fd
    BY <1>0, <1>1 DEF Calls, Fits
  <1>3. CASE End(p) /\ filetab' = filetab
    <2>1. Calls' /\ Locks'
      BY <1>1, <1>3, Blanks, GoesOutside DEF End, Outside, Stages, Freeing, Writing
    <2> QED
      BY <1>0, <1>1, <1>3, <2>1 DEF Kept, Shape, Sets, Disk
  <1>4. CASE /\ filetab[fd].cursor < filetab[fd].length
             /\ filetab' = [filetab EXCEPT ![fd] = e] /\ proc' = proc
    <2>1. e \in Entry /\ e.cursor <= e.length
      BY <1>0, <1>2, <1>4, Numbers DEF Shape, Entry
    <2> HIDE DEF fd, e
    <2>2. Shape'
      BY <1>0, <1>2, <1>4, <2>1, FileChanges
    <2>3. Calls' /\ Locks'
      BY <1>0, <1>1, <1>4 DEF Calls, Locks, Guarded, Inside
    <2> QED
      BY <1>0, <1>1, <2>2, <2>3 DEF Kept, Sets, Disk
  <1>5. filetab[fd].cursor \in Int /\ filetab[fd].length \in Int
    BY <1>0, <1>2 DEF Shape, Entry
  <1> QED
    BY <1>3, <1>4, <1>5 DEF PrintChar

(* fileCreate() up to sbGetBlock(). *)
LEMMA CreateKeeps == ASSUME Kept, NEW p \in Procs, CreateNone(p) \/ Create(p) PROVE Kept'
PROOF
  <1>0. Shape /\ Sets /\ Disk /\ Calls /\ Locks
    BY DEF Kept
  <1>1. /\ proc[p].at = "create"
        /\ UNCHANGED <<disk, position, freelst, freelock, dirlock, kept>>
    BY DEF CreateNone, Create, At, driver, locks, files
  <1>2. CASE CreateNone(p)
    <2>1. End(p) /\ UNCHANGED <<filetab, mixed, misread>>
      BY <1>2 DEF CreateNone, files
    <2>2. Calls' /\ Locks'
      BY <1>1, <2>1, Blanks, GoesOutside DEF End, Outside, Stages, Freeing, Writing
    <2> QED
      BY <1>0, <1>1, <2>1, <2>2 DEF Kept, Shape, Sets, Disk
  <1>3. CASE Create(p)
    <2> DEFINE fd == Min(Slots)
               full == freelst = << >>
               head == IF full \/ (\E q \in Procs : proc[q].at = "freeSuper")
                       THEN NoBlock ELSE Head(freelst)
               c == IF full THEN Idle ELSE [Idle EXCEPT !.at = "block", !.fd = fd, !.block = head]
               e == [NoFile EXCEPT !.state = {"used", "open"}, !.name = proc[p].name,
                         !.blocknum = IF full THEN NoBlock ELSE filetab[fd].blocknum]
    <2>1. /\ Slots # {} /\ filetab' = [filetab EXCEPT ![fd] = e] /\ proc' = [proc EXCEPT ![p] = c]
          /\ mixed' \in {mixed \cup {fd}, mixed \ {fd}}
          /\ misread' = misread \ {fd}
      <3>1. Slots # {} /\ proc' = [proc EXCEPT ![p] = c] /\ misread' = misread \ {fd}
        BY <1>3 DEF Create
      <3>2. filetab' = [filetab EXCEPT ![fd] = e]
        BY <1>3 DEF Create
      <3>3. mixed' \in {mixed \cup {fd}, mixed \ {fd}}
        BY <1>3 DEF Create
      <3> QED
        BY <3>1, <3>2, <3>3
    <2>2. fd \in Fd
      BY <2>1, FirstFile DEF Slots
    <2>3. head \in Block \cup {NoBlock}
      BY <1>0 DEF Calls
    <2>4. c \in Call /\ Fits(c) /\ c.at \in Outside
      <3> HIDE DEF fd, head
      <3> QED
        BY <2>2, <2>3, Blanks DEF Call, Fits, Stages, Idle, Outside, Freeing, Writing
    <2>5. e \in Entry /\ e.cursor <= e.length
      <3>1. proc[p].name \in Name \cup {NoName}
        BY <1>0 DEF Calls, Call
      <3>2. filetab[fd].blocknum \in Block \cup {NoBlock} /\ {"used", "open"} \in States
        BY <1>0, <2>2 DEF Shape, Entry, States, Flags
      <3> DEFINE b == IF full THEN NoBlock ELSE filetab[fd].blocknum
      <3>3. /\ b \in Block \cup {NoBlock}
            /\ e = [NoFile EXCEPT !.state = {"used", "open"}, !.name = proc[p].name, !.blocknum = b]
        BY <3>2
      <3>4. 0 \in 0 .. DISKBLOCKLEN /\ NoFile.cursor = 0 /\ NoFile.length = 0
        BY Numbers, Blanks
      <3> HIDE DEF fd, b, e
      <3>5. e \in Entry
        BY <3>1, <3>2, <3>3, Blanks DEF Entry
      <3>6. e.cursor = 0 /\ e.length = 0
        BY <3>3, <3>4, Blanks DEF Entry
      <3> QED
        BY <3>5, <3>6
    <2> HIDE DEF fd, full, head, c, e
    <2>6. Calls' /\ Locks'
      BY <1>1, <2>1, <2>4, GoesOutside DEF Outside, Stages, Freeing, Writing
    <2>7. Shape'
      BY <1>0, <2>1, <2>2, <2>5, FileChanges
    <2> QED
      BY <1>0, <1>1, <2>1, <2>2, <2>6, <2>7 DEF Kept, Sets, Disk
  <1> QED
    BY <1>2, <1>3

(* The program goes astray: nothing else changes. *)
LEMMA LostKeeps == ASSUME Kept, NEW why, Lost(why) PROVE Kept'
PROOF
  BY DEF Lost, driver, locks, files, Kept, Shape, Sets, Disk, Calls, Locks, Guarded, Inside

LEMMA ListEnds ==
    ASSUME NEW s \in Seq(Block), s # << >>
    PROVE  Front(s) \in Seq(Block) /\ Last(s) \in Block /\ Head(s) \in Block
PROOF
  BY DEF Front, Last

(* sbGetBlock(). *)
LEMMA GetKeeps == ASSUME Kept, NEW p \in Procs, GetBlock(p) \/ GetWrite(p) PROVE Kept'
PROOF
  <1>0. Shape /\ Sets /\ Disk /\ Calls /\ Locks
    BY DEF Kept
  <1>1. CASE GetBlock(p)
    <2> DEFINE c == [proc[p] EXCEPT !.at = "blockWrite", !.block = Last(freelst)]
    <2>1. /\ proc[p].at = "block" /\ freelock > 0 /\ freelst # << >> /\ freelock' = freelock - 1
          /\ freelst' = Front(freelst) /\ proc' = [proc EXCEPT ![p] = c]
          /\ Seek(IF freelst' = << >> THEN SUPERBLOCKNUM ELSE Head(freelst))
          /\ UNCHANGED <<disk, filetab, dirlock, kept, mixed, misread>>
      BY <1>1 DEF GetBlock, At, HasHead, files
    <2>2. freelst' \in Seq(Block) /\ Last(freelst) \in Block
      BY <1>0, <2>1, ListEnds DEF Calls
    <2>3. c \in Call /\ Fits(c) /\ c.at = "blockWrite"
      BY <1>0, <2>1, <2>2 DEF Calls, Call, Fits, Stages
    <2> HIDE DEF c
    <2>4. /\ Passes(freelock, freelock', proc[p].at, c.at, Freeing)
          /\ Passes(dirlock, dirlock', proc[p].at, c.at, Writing)
      BY <2>1, <2>3 DEF Passes, Freeing, Writing
    <2>5. Calls' /\ Locks'
      BY <1>0, <2>1, <2>2, <2>3, <2>4, Goes
    <2>6. position' \in Block
      BY <1>0, <2>1, SeekSound
    <2> QED
      BY <1>0, <2>1, <2>5, <2>6 DEF Kept, Shape, Sets, Disk
  <1>2. CASE GetWrite(p)
    <2> DEFINE fd == proc[p].fd
               c  == [proc[p] EXCEPT !.at = "type", !.block = NoBlock]
               e  == [filetab[fd] EXCEPT !.blocknum = proc[p].block]
    <2>1. /\ proc[p].at = "blockWrite" /\ freelock' = freelock + 1
          /\ filetab' = [filetab EXCEPT ![fd] = e] /\ proc' = [proc EXCEPT ![p] = c]
          /\ \/ freelst = << >> /\ Write(Super(0), SUPERBLOCKNUM)
             \/ freelst # << >> /\ Write(Free(freelst), Head(freelst))
          /\ UNCHANGED <<position, freelst, dirlock, kept, mixed, misread>>
      BY <1>2 DEF GetWrite, At, files
    <2>2. fd \in Fd /\ proc[p].block \in Block
      BY <1>0, <2>1 DEF Calls, Fits
    <2>3. c \in Call /\ Fits(c) /\ c.at = "type"
      BY <1>0, <2>1 DEF Calls, Call, Fits, Stages
    <2>4. e \in Entry /\ e.cursor <= e.length
      <3>1. filetab[fd] \in Entry /\ filetab[fd].cursor <= filetab[fd].length
        BY <1>0, <2>2 DEF Shape
      <3> HIDE DEF fd
      <3> QED
        BY <2>2, <3>1 DEF Entry
    <2> HIDE DEF fd, c, e
    <2>5. /\ Passes(freelock, freelock', proc[p].at, c.at, Freeing)
          /\ Passes(dirlock, dirlock', proc[p].at, c.at, Writing)
      BY <2>1, <2>3 DEF Passes, Freeing, Writing
    <2>6. freelst' \in Seq(Block)
      BY <1>0, <2>1 DEF Calls
    <2>7. Calls' /\ Locks'
      BY <1>0, <2>1, <2>3, <2>5, <2>6, Goes
    <2>8. Shape'
      BY <1>0, <2>1, <2>2, <2>4, FileChanges
    <2>9. disk' \in [Block -> Content]
      <3>1. Super(0) \in Content /\ Free(freelst) \in Content
        BY <1>0, Contents, Numbers DEF Calls
      <3> QED
        BY <1>0, <2>1, <3>1, WriteSound
    <2> QED
      BY <1>0, <2>1, <2>7, <2>8, <2>9 DEF Kept, Sets, Disk
  <1> QED
    BY <1>1, <1>2

(* filePutChar(). *)
LEMMA TypeKeeps == ASSUME Kept, NEW p \in Procs, Type(p) PROVE Kept'
PROOF
  <1> DEFINE fd == proc[p].fd
             f  == filetab[fd]
             d  == [i \in DOMAIN f.data |-> IF i = f.cursor THEN p ELSE f.data[i]]
             n  == IF f.length = f.cursor THEN f.length + 1 ELSE f.length
             s  == f.state \cup {"dirty"}
             e  == [f EXCEPT !.data = d, !.length = n, !.cursor = f.cursor + 1, !.state = s]
  <1>0. Shape /\ Sets /\ Disk /\ Calls /\ Locks
    BY DEF Kept
  <1>1. /\ proc[p].at = "type" /\ f.cursor < DISKBLOCKLEN
        /\ filetab' = [filetab EXCEPT ![fd] = e]
        /\ UNCHANGED <<disk, position, freelst, freelock, dirlock, proc, kept, mixed, misread>>
    BY DEF Type, At, Puts, driver, locks
  <1>2. fd \in Fd
    BY <1>0, <1>1 DEF Calls, Fits
  <1>3. f \in Entry /\ f.cursor <= f.length
    BY <1>0, <1>2 DEF Shape
  <1> HIDE DEF fd, f
  <1>4. d \in Chars
    BY <1>3 DEF Entry, Chars
  <1>5. s \in States
    BY <1>3 DEF Entry, States, Flags
  <1>6. /\ n \in 0 .. DISKBLOCKLEN /\ f.cursor + 1 \in 0 .. DISKBLOCKLEN
        /\ f.cursor + 1 <= n
    BY <1>1, <1>3, Numbers DEF Entry
  <1> HIDE DEF d, n, s
  <1>7. e \in Entry
    BY <1>3, <1>4, <1>5, <1>6 DEF Entry
  <1>8. e.cursor = f.cursor + 1 /\ e.length = n
    BY <1>3 DEF Entry
  <1> HIDE DEF e
  <1>9. Shape'
    BY <1>0, <1>1, <1>2, <1>6, <1>7, <1>8, FileChanges
  <1> QED
    BY <1>0, <1>1, <1>9 DEF Kept, Sets, Disk, Calls, Locks, Guarded, Inside

(* fileClose() up to the directory's lock. *)
LEMMA CloseKeeps ==
    ASSUME Kept, NEW p \in Procs, Close(p) \/ CloseWrite(p) \/ CloseClear(p)
    PROVE  Kept'
PROOF
  <1>0. Shape /\ Sets /\ Disk /\ Calls /\ Locks
    BY DEF Kept
  <1> DEFINE c(place) == [proc[p] EXCEPT !.at = place]
  <1>1. ASSUME NEW place \in {"closeWrite", "closed", "dir"}, Goto(p, place),
               proc[p].at \in {"type", "closeWrite", "closed"},
               UNCHANGED <<freelst, freelock, dirlock>>
        PROVE  Calls' /\ Locks'
    <2>1. place \in Stages /\ proc' = [proc EXCEPT ![p] = c(place)]
      BY <1>1 DEF Goto, Stages
    <2>2. c(place) \in Call /\ Fits(c(place)) /\ c(place).at = place
      BY <1>1, <2>1, GoesTo
    <2> HIDE DEF c
    <2> QED
      BY <1>1, <2>1, <2>2, GoesOutside DEF Outside, Stages, Freeing, Writing
  <1>2. CASE Close(p)
    <2>1. /\ proc[p].at = "type"
          /\ UNCHANGED <<disk, filetab, freelst, freelock, dirlock, kept, mixed, misread>>
      BY <1>2 DEF Close, At, locks, files
    <2>2. Calls' /\ Locks' /\ position' \in Block
      <3>1. CASE End(p) /\ position' = position
        BY <1>0, <2>1, <3>1, Blanks, GoesOutside DEF Disk, End, Outside, Stages, Freeing, Writing
      <3>2. CASE Goto(p, "closeWrite") /\ Seek(filetab[proc[p].fd].blocknum)
        BY <1>0, <1>1, <2>1, <3>2, SeekSound
      <3>3. CASE Goto(p, "closed") /\ position' = position
        BY <1>0, <1>1, <2>1, <3>3 DEF Disk
      <3> QED
        BY <1>2, <3>1, <3>2, <3>3 DEF Close
    <2> QED
      BY <1>0, <2>1, <2>2 DEF Kept, Shape, Sets, Disk
  <1>3. CASE CloseWrite(p)
    <2> DEFINE fd == proc[p].fd
    <2>1. /\ proc[p].at = "closeWrite" /\ Goto(p, "closed")
          /\ Write(Data(filetab[fd].data), filetab[fd].blocknum)
          /\ UNCHANGED <<position, filetab, freelst, freelock, dirlock, kept, mixed, misread>>
      BY <1>3 DEF CloseWrite, At, locks, files
    <2>2. Data(filetab[fd].data) \in Content
      <3>1. fd \in Fd
        BY <1>0, <2>1 DEF Calls, Fits
      <3>2. filetab[fd].data \in Chars
        BY <1>0, <3>1 DEF Shape, Entry
      <3> QED
        BY <3>2, Contents
    <2> HIDE DEF fd
    <2>3. disk' \in [Block -> Content]
      BY <1>0, <2>1, <2>2, WriteSound
    <2>4. Calls' /\ Locks'
      BY <1>1, <2>1
    <2> QED
      BY <1>0, <2>1, <2>3, <2>4 DEF Kept, Shape, Sets, Disk
  <1>4. CASE CloseClear(p)
    <2> DEFINE fd == proc[p].fd
               s  == filetab[fd].state \ {"dirty", "open"}
               e  == [filetab[fd] EXCEPT !.state = s]
    <2>1. /\ proc[p].at = "closed" /\ Goto(p, "dir")
          /\ filetab' = [filetab EXCEPT ![fd] = e]
          /\ UNCHANGED <<disk, position, freelst, freelock, dirlock, kept, mixed, misread>>
      BY <1>4 DEF CloseClear, At, driver, locks, files
    <2>2. fd \in Fd
      BY <1>0, <2>1 DEF Calls, Fits
    <2>3. filetab[fd] \in Entry /\ filetab[fd].cursor <= filetab[fd].length /\ s \in States
      BY <1>0, <2>2 DEF Shape, Entry, States
    <2> HIDE DEF fd, s
    <2>4. e \in Entry /\ e.cursor <= e.length
      BY <2>3 DEF Entry
    <2> HIDE DEF e
    <2>5. Shape'
      BY <1>0, <2>1, <2>2, <2>4, FileChanges
    <2>6. Calls' /\ Locks'
      BY <1>1, <2>1
    <2> QED
      BY <1>0, <2>1, <2>5, <2>6 DEF Kept, Sets, Disk
  <1> QED
    BY <1>2, <1>3, <1>4

(* The directory is written, with its lock held. *)
LEMMA DirectoryKeeps == ASSUME Kept, NEW p \in Procs, CloseDir(p) \/ DirWrite(p) PROVE Kept'
PROOF
  <1>0. Shape /\ Sets /\ Disk /\ Calls /\ Locks
    BY DEF Kept
  <1>1. freelst \in Seq(Block)
    BY <1>0 DEF Calls
  <1>2. CASE CloseDir(p)
    <2> DEFINE c == [proc[p] EXCEPT !.at = "dirWrite"]
    <2>1. /\ proc[p].at = "dir" /\ dirlock > 0 /\ dirlock' = dirlock - 1 /\ Seek(DirBlock)
          /\ proc' = [proc EXCEPT ![p] = c]
          /\ UNCHANGED <<disk, filetab, freelst, freelock, kept, mixed, misread>>
      BY <1>2 DEF CloseDir, At, Goto, files
    <2>2. c \in Call /\ Fits(c) /\ c.at = "dirWrite"
      BY <2>1, GoesTo DEF Stages
    <2> HIDE DEF c
    <2>3. /\ Passes(freelock, freelock', proc[p].at, c.at, Freeing)
          /\ Passes(dirlock, dirlock', proc[p].at, c.at, Writing)
      BY <2>1, <2>2 DEF Passes, Freeing, Writing
    <2>4. Calls' /\ Locks'
      BY <1>0, <1>1, <2>1, <2>2, <2>3, Goes
    <2>5. position' \in Block
      BY <1>0, <2>1, SeekSound
    <2> QED
      BY <1>0, <2>1, <2>4, <2>5 DEF Kept, Shape, Sets, Disk
  <1>3. CASE DirWrite(p)
    <2>1. /\ proc[p].at = "dirWrite" /\ dirlock' = dirlock + 1
          /\ proc' = [proc EXCEPT ![p] = Idle] /\ Write(Dir(filetab), DirBlock)
          /\ kept' \in {kept, kept \cup {proc[p].fd}}
          /\ UNCHANGED <<position, filetab, freelst, freelock, mixed, misread>>
      BY <1>3 DEF DirWrite, At, End
    <2>2. proc[p].fd \in Fd
      BY <1>0, <2>1 DEF Calls, Fits
    <2>3. /\ Passes(freelock, freelock', proc[p].at, Idle.at, Freeing)
          /\ Passes(dirlock, dirlock', proc[p].at, Idle.at, Writing)
      BY <2>1, Blanks DEF Passes, Freeing, Writing
    <2>4. Calls' /\ Locks'
      BY <1>0, <1>1, <2>1, <2>3, Blanks, Goes
    <2>5. disk' \in [Block -> Content]
      BY <1>0, <2>1, Contents, WriteSound
    <2> QED
      BY <1>0, <2>1, <2>2, <2>4, <2>5 DEF Kept, Shape, Sets, Disk
  <1> QED
    BY <1>2, <1>3

(* fileDelete() and sbFreeBlock(). *)
LEMMA DeleteKeeps == ASSUME Kept, NEW p \in Procs, Delete(p) \/ FreeBlock(p) PROVE Kept'
PROOF
  <1> DEFINE fd == proc[p].fd
  <1>0. Shape /\ Sets /\ Disk /\ Calls /\ Locks
    BY DEF Kept
  <1>1. freelst \in Seq(Block) /\ (proc[p].at \in {"delete", "free"} => fd \in Fd)
    BY <1>0 DEF Calls, Fits
  <1>2. CASE Delete(p)
    <2> DEFINE c == [proc[p] EXCEPT !.at = "free"]
               e == [filetab[fd] EXCEPT !.state = FILE_FREE, !.length = 0, !.cursor = 0]
    <2>1. /\ proc[p].at = "delete" /\ dirlock > 0
          /\ filetab' = [filetab EXCEPT ![fd] = e] /\ kept' = kept \ {fd}
          /\ \/ End(p) /\ dirlock' = dirlock
             \/ proc' = [proc EXCEPT ![p] = c] /\ dirlock' = dirlock - 1
          /\ UNCHANGED <<disk, position, freelst, freelock, mixed, misread>>
      BY <1>2 DEF Delete, At, Goto, driver
    <2>2. Calls' /\ Locks'
      <3>1. CASE End(p) /\ dirlock' = dirlock
        BY <2>1, <3>1, Blanks, GoesOutside DEF End, Outside, Stages, Freeing, Writing
      <3>2. CASE proc' = [proc EXCEPT ![p] = c] /\ dirlock' = dirlock - 1
        <4>1. c \in Call /\ Fits(c) /\ c.at = "free"
          BY <2>1, GoesTo DEF Stages
        <4> HIDE DEF c
        <4>2. /\ Passes(freelock, freelock', proc[p].at, c.at, Freeing)
              /\ Passes(dirlock, dirlock', proc[p].at, c.at, Writing)
          BY <2>1, <3>2, <4>1 DEF Passes, Freeing, Writing
        <4> QED
          BY <1>0, <1>1, <2>1, <3>2, <4>1, <4>2, Goes
      <3> QED
        BY <2>1, <3>1, <3>2
    <2>3. filetab[fd] \in Entry /\ FILE_FREE \in States /\ 0 \in 0 .. DISKBLOCKLEN
      BY <1>0, <1>1, <2>1, Numbers DEF Shape, FILE_FREE, States
    <2> HIDE DEF fd
    <2>4. e \in Entry
      BY <2>3 DEF Entry
    <2>5. e.cursor <= e.length /\ fd \in Fd
      <3>1. e.cursor = 0 /\ e.length = 0
        BY <2>3 DEF Entry
      <3> HIDE DEF e
      <3> QED
        BY <1>1, <2>1, <3>1
    <2> HIDE DEF e
    <2>6. Shape'
      BY <1>0, <2>1, <2>4, <2>5, FileChanges
    <2> QED
      BY <1>0, <2>1, <2>2, <2>6 DEF Kept, Sets, Disk
  <1>3. CASE FreeBlock(p)
    <2> DEFINE c == [proc[p] EXCEPT !.at = "freeWrite"]
    <2>1. /\ proc[p].at = "free" /\ freelock > 0 /\ freelock' = freelock - 1
          /\ freelst' = Append(freelst, fd) /\ Seek(Head(freelst'))
          /\ proc' = [proc EXCEPT ![p] = c]
          /\ UNCHANGED <<disk, filetab, dirlock, kept, mixed, misread>>
      BY <1>3 DEF FreeBlock, At, Goto, files
    <2>2. fd \in Block
      BY <1>1, <2>1, Numbers
    <2>3. freelst' \in Seq(Block) /\ freelst' # << >>
      <3> HIDE DEF fd
      <3> QED
        BY <1>1, <2>1, <2>2
    <2>4. c \in Call /\ Fits(c) /\ c.at = "freeWrite"
      BY <2>1, GoesTo DEF Stages
    <2> HIDE DEF c
    <2>5. /\ Passes(freelock, freelock', proc[p].at, c.at, Freeing)
          /\ Passes(dirlock, dirlock', proc[p].at, c.at, Writing)
      BY <2>1, <2>4 DEF Passes, Freeing, Writing
    <2>6. Calls' /\ Locks'
      BY <1>0, <2>1, <2>3, <2>4, <2>5, Goes
    <2>7. position' \in Block
      BY <1>0, <2>1, SeekSound
    <2> QED
      BY <1>0, <2>1, <2>6, <2>7 DEF Kept, Shape, Sets, Disk
  <1> QED
    BY <1>2, <1>3

(* The writes of sbFreeBlock(), with both locks held. *)
LEMMA FreeKeeps == ASSUME Kept, NEW p \in Procs, FreeWrite(p) \/ FreeSuper(p) PROVE Kept'
PROOF
  <1>0. Shape /\ Sets /\ Disk /\ Calls /\ Locks
    BY DEF Kept
  <1>1. /\ proc[p].at \in {"freeWrite", "freeSuper"}
        /\ UNCHANGED <<filetab, freelst, kept, mixed, misread>>
    BY DEF FreeWrite, FreeSuper, At, files
  <1>2. freelst \in Seq(Block) /\ freelst # << >>
    BY <1>0, <1>1 DEF Calls
  <1>3. ASSUME FreeEnd(p) PROVE Calls' /\ Locks'
    <2>1. /\ proc' = [proc EXCEPT ![p] = Idle] /\ freelock' = freelock + 1
          /\ dirlock' = dirlock + 1
      BY <1>3 DEF FreeEnd, End
    <2>2. /\ Passes(freelock, freelock', proc[p].at, Idle.at, Freeing)
          /\ Passes(dirlock, dirlock', proc[p].at, Idle.at, Writing)
      BY <1>1, <2>1, Blanks DEF Passes, Freeing, Writing
    <2> QED
      BY <1>0, <1>1, <1>2, <2>1, <2>2, Blanks, Goes
  <1>4. ASSUME Goto(p, "freeSuper"), UNCHANGED locks PROVE Calls' /\ Locks'
    <2> DEFINE c == [proc[p] EXCEPT !.at = "freeSuper"]
    <2>1. proc' = [proc EXCEPT ![p] = c]
      BY <1>4 DEF Goto
    <2>2. c \in Call /\ Fits(c) /\ c.at = "freeSuper"
      BY <1>1, GoesTo DEF Stages
    <2> HIDE DEF c
    <2>3. /\ Passes(freelock, freelock', proc[p].at, c.at, Freeing)
          /\ Passes(dirlock, dirlock', proc[p].at, c.at, Writing)
      BY <1>1, <1>4, <2>2 DEF Passes, Freeing, Writing, locks
    <2> QED
      BY <1>0, <1>1, <1>2, <2>1, <2>2, <2>3, Goes
  <1>5. Head(freelst) \in Block
    BY <1>2, ListEnds
  <1>6. Free(freelst) \in Content /\ Super(Head(freelst)) \in Content
    BY <1>2, <1>5, Contents
  <1>7. CASE FreeWrite(p)
    <2>1. Write(Free(freelst), Head(freelst))
      BY <1>7 DEF FreeWrite
    <2>2. disk' \in [Block -> Content]
      BY <1>0, <1>6, <2>1, WriteSound
    <2>3. Calls' /\ Locks' /\ position' \in Block
      <3>1. CASE Goto(p, "freeSuper") /\ Seek(SUPERBLOCKNUM) /\ UNCHANGED locks
        BY <1>0, <1>4, <3>1, SeekSound
      <3>2. CASE FreeEnd(p) /\ position' = position
        BY <1>0, <1>3, <3>2 DEF Disk
      <3> QED
        BY <1>7, <3>1, <3>2 DEF FreeWrite
    <2> QED
      BY <1>0, <1>1, <2>2, <2>3 DEF Kept, Shape, Sets, Disk
  <1>8. CASE FreeSuper(p)
    <2>1. Write(Super(Head(freelst)), SUPERBLOCKNUM) /\ FreeEnd(p) /\ position' = position
      BY <1>8 DEF FreeSuper
    <2>2. disk' \in [Block -> Content]
      BY <1>0, <1>6, <2>1, WriteSound
    <2> QED
      BY <1>0, <1>1, <1>3, <2>1, <2>2 DEF Kept, Shape, Sets, Disk
  <1> QED
    BY <1>7, <1>8

(* A restart: sbOpen() finds what is sound on the disk, or stops. *)
LEMMA RestartKeeps == ASSUME Kept, Reboot \/ RebootRuined PROVE Kept'
PROOF
  <1>0. Shape /\ Sets /\ Disk /\ Calls
    BY DEF Kept
  <1>1. /\ proc' = [p \in Procs |-> Idle] /\ dirlock' = 1 /\ freelock' = 1
        /\ mixed' = {} /\ misread' = {} /\ kept' \in {{}, kept} /\ disk' = disk
    BY DEF Reboot, RebootRuined, Restart
  <1>2. Sets'
    BY <1>0, <1>1 DEF Sets
  <1>3. Locks'
    BY <1>1, Blanks DEF Locks, Guarded, Inside, Freeing, Writing
  <1>4. freelst' \in Seq(Block) => Calls'
    BY <1>1, Blanks DEF Calls
  <1>5. CASE Reboot
    <2> DEFINE b == disk[SUPERBLOCKNUM].sb_freelst
    <2>1. /\ disk[SUPERBLOCKNUM].kind = "super" /\ disk[DirBlock].kind = "dir"
          /\ b # 0 => disk[b].kind = "free"
          /\ filetab' = sbOpenDirectory(disk[DirBlock].files)
          /\ freelst' = (IF b = 0 THEN << >> ELSE disk[b].list)
          /\ position' = DirBlock
      BY <1>5 DEF Reboot, Mountable
    <2>2. b \in Block /\ disk[DirBlock].files \in [Fd -> Stored]
      BY <1>0, <2>1, Numbers DEF Disk, Content
    <2> HIDE DEF b
    <2>3. freelst' \in Seq(Block)
      <3>1. b # 0 => disk[b].list \in Seq(Block)
        BY <1>0, <2>1, <2>2 DEF Disk, Content
      <3> QED
        BY <2>1, <3>1
    <2>4. ASSUME NEW fd \in Fd, NEW image, image \in [Fd -> Stored]
          PROVE  LET e == sbOpenDirectory(image)[fd]
                 IN  e \in Entry /\ e.cursor <= e.length
      <3> DEFINE s == IF image[fd].used THEN {"used"} ELSE FILE_FREE
                 e == [NoFile EXCEPT !.state = s, !.name = image[fd].name,
                           !.blocknum = image[fd].blocknum, !.length = image[fd].length]
      <3>1. s \in States
        BY DEF States, Flags, FILE_FREE
      <3>2. image[fd] \in Stored
        BY <2>4
      <3> HIDE DEF s
      <3>3. e \in Entry
        BY <3>1, <3>2, Blanks DEF Entry, Stored
      <3>4. e.cursor = 0 /\ e.length \in 0 .. DISKBLOCKLEN
        BY <3>2, Blanks DEF Entry, Stored
      <3>5. sbOpenDirectory(image)[fd] = e
        BY DEF sbOpenDirectory, s
      <3> HIDE DEF e
      <3> QED
        BY <3>3, <3>4, <3>5, Numbers
    <2>5. Shape'
      <3>1. \A fd \in Fd : filetab'[fd] \in Entry /\ filetab'[fd].cursor <= filetab'[fd].length
        BY <2>1, <2>2, <2>4
      <3>2. filetab' = [fd \in Fd |-> filetab'[fd]]
        BY <2>1 DEF sbOpenDirectory
      <3> QED
        BY <3>1, <3>2 DEF Shape
    <2> QED
      BY <1>0, <1>1, <1>2, <1>3, <1>4, <2>1, <2>3, <2>5, Numbers DEF Kept, Disk
  <1>6. CASE RebootRuined
    <2>1. UNCHANGED <<filetab, freelst, position>>
      BY <1>6 DEF RebootRuined
    <2> QED
      BY <1>0, <1>1, <1>2, <1>3, <1>4, <2>1 DEF Kept, Shape, Disk, Calls
  <1> QED
    BY <1>5, <1>6

------------------------------------------------------------------------------
(* Every step keeps the invariant. *)
LEMMA KeptStep == ASSUME Kept, [Next]_vars PROVE Kept'
PROOF
  <1>1. CASE UNCHANGED vars
    BY <1>1 DEF vars, driver, locks, files, Kept, Shape, Sets, Disk, Calls, Locks, Guarded, Inside
  <1>2. ASSUME NEW p \in Procs, GoesOn(p) PROVE Kept'
    <2>1. CASE GetAstray(p) \/ CloseAstray(p)
      BY <2>1, LostKeeps DEF GetAstray, CloseAstray
    <2> QED
      BY <1>2, <2>1, ReadKeeps, PrintKeeps, CreateKeeps, GetKeeps, CloseKeeps, DirectoryKeeps,
         DeleteKeeps, FreeKeeps DEF GoesOn
  <1>3. ASSUME NEW p \in Procs, NEW name \in Name,
               OpenNone(p, name) \/ \E cmd \in {"cat", "new", "delete"} : Command(p, cmd, name)
        PROVE  Kept'
    BY <1>3, OpenKeeps DEF Command
  <1> QED
    BY <1>1, <1>2, <1>3, RestartKeeps, TypeKeeps DEF Next

LEMMA Invariant == Spec => []Kept
PROOF
  BY KeptInit, KeptStep, PTL DEF Spec

------------------------------------------------------------------------------
(* Who owns the blocks.  A list of free blocks and a table of files are      *)
(* apart when no block is in them twice, except those that are lost: freed   *)
(* by mistake.                                                              *)
Apart(list, table, lost) ==
    /\ \A i, j \in 1 .. Len(list) : i # j /\ list[i] = list[j] => list[i] \in lost
    /\ \A i \in 1 .. Len(list) : list[i] \in {SUPERBLOCKNUM, DirBlock} => list[i] \in lost
    /\ \A fd, gd \in Fd : fd # gd /\ table[fd].blocknum = table[gd].blocknum =>
                             table[fd].blocknum \in lost \cup {NoBlock}
    /\ \A fd \in Fd : table[fd].blocknum \in {SUPERBLOCKNUM, DirBlock} =>
                        table[fd].blocknum \in lost
    /\ \A fd \in Fd, i \in 1 .. Len(list) : list[i] = table[fd].blocknum => list[i] \in lost

(* The free list in memory is apart from the files there and from those of  *)
(* the directory on the disk, with the block that a creation has taken.     *)
Takes(p) == proc[p].at = "blockWrite"
Gives(p) == proc[p].at \in {"freeWrite", "freeSuper"}
ApartFrom(table) ==
    /\ Apart(freelst, table, misfreed)
    /\ \A p \in Procs : Takes(p) => Apart(Append(freelst, proc[p].block), table, misfreed)
Tables == /\ ApartFrom(filetab)
          /\ disk[DirBlock].kind = "dir" => ApartFrom(disk[DirBlock].files)

(* The segment of the free list, if it was written where it should be, is   *)
(* the list in memory, but for the write that is under way.                 *)
Current(list) ==
    \/ list = freelst /\ \A p \in Procs : ~Takes(p)
    \/ \E p \in Procs : Takes(p) /\ list = Append(freelst, proc[p].block)
    \/ \E p \in Procs : Gives(p) /\ \E b \in Block : freelst = Append(list, b)
Segment(b) ==
    b \notin spoiled /\ disk[b].kind = "free" =>
        /\ disk[b].list # << >> /\ Head(disk[b].list) = b
        /\ Current(disk[b].list)

(* What the superblock names, if it was written where it should be. *)
Named(b) ==
    IF b = 0 THEN \/ freelst = << >> /\ \A p \in Procs : ~Takes(p)
                  \/ Len(freelst) = 1 /\ \E p \in Procs : Gives(p)
             ELSE \/ freelst # << >> /\ Head(freelst) = b
                  \/ freelst = << >> /\ \E p \in Procs : Takes(p) /\ proc[p].block = b

(* The superblock is lost when a restart has read a list that was missed.   *)
Trusted == up = "up" /\ SUPERBLOCKNUM \notin misfreed
Mounts  == \E b \in Block : disk[SUPERBLOCKNUM] = Super(b) /\ Named(b) /\ (b # 0 => Segment(b))
OnDisk  ==
    Trusted =>
        /\ SUPERBLOCKNUM \notin spoiled => Mounts
        /\ \A p \in Procs, b \in Block \ spoiled :
            proc[p].at = "freeSuper" /\ Head(freelst) = b /\ disk[b].kind = "free" =>
                disk[b].list = freelst

(* Of the numbers that are freed for blocks none is the superblock's. *)
Numbered == /\ SUPERBLOCKNUM \in misfreed => misfreed = Block
            /\ \A p \in Procs : proc[p].at = "free" => proc[p].fd # 0

Owned == Tables /\ OnDisk /\ Numbered

(* A block that is in neither the list nor the table. *)
Fresh(b, list, table, lost) ==
    b \notin lost =>
        /\ b \notin {SUPERBLOCKNUM, DirBlock}
        /\ \A i \in 1 .. Len(list) : list[i] # b
        /\ \A fd \in Fd : table[fd].blocknum # b

LEMMA ApartAppended ==
    ASSUME NEW list \in Seq(Block), NEW b \in Block, NEW table, NEW lost
    PROVE  Apart(Append(list, b), table, lost) <=> Apart(list, table, lost) /\ Fresh(b, list, table, lost)
PROOF
  <1> DEFINE n == Len(list)
             longer == Append(list, b)
  <1>1. /\ n \in Nat /\ Len(longer) = n + 1 /\ longer[n + 1] = b
        /\ \A i \in 1 .. n : longer[i] = list[i]
    BY AppendProperties, LenProperties
  <1> HIDE DEF n, longer
  <1>2. /\ n + 1 \in 1 .. n + 1 /\ \A i \in 1 .. n : i \in 1 .. n + 1 /\ i # n + 1
        /\ \A i \in 1 .. n + 1 : i \in 1 .. n \/ i = n + 1
    BY <1>1
  <1>3. ASSUME Apart(longer, table, lost) PROVE Apart(list, table, lost)
    BY <1>1, <1>2, <1>3 DEF Apart, n
  <1>4. ASSUME Apart(longer, table, lost) PROVE Fresh(b, list, table, lost)
    <2>1. \A i \in 1 .. n : longer[i] = longer[n + 1] => longer[n + 1] \in lost
      BY <1>1, <1>2, <1>4 DEF Apart
    <2>2. longer[n + 1] \in {SUPERBLOCKNUM, DirBlock} => longer[n + 1] \in lost
      BY <1>1, <1>2, <1>4 DEF Apart
    <2>3. \A fd \in Fd : longer[n + 1] = table[fd].blocknum => longer[n + 1] \in lost
      BY <1>1, <1>2, <1>4 DEF Apart
    <2> QED
      BY <1>1, <2>1, <2>2, <2>3 DEF Fresh, n
  <1>5. ASSUME Apart(list, table, lost), Fresh(b, list, table, lost)
        PROVE  Apart(longer, table, lost)
    <2>1. \A i, j \in 1 .. n + 1 : i # j /\ longer[i] = longer[j] => longer[i] \in lost
      <3>1. \A i, j \in 1 .. n : i # j /\ list[i] = list[j] => list[i] \in lost
        BY <1>5 DEF Apart, n
      <3>2. \A i \in 1 .. n : list[i] = b => b \in lost
        BY <1>5 DEF Fresh, n
      <3> QED
        BY <1>1, <1>2, <3>1, <3>2
    <2>2. \A i \in 1 .. n + 1 :
            /\ longer[i] \in {SUPERBLOCKNUM, DirBlock} => longer[i] \in lost
            /\ \A fd \in Fd : longer[i] = table[fd].blocknum => longer[i] \in lost
      <3>1. \A i \in 1 .. n :
              /\ list[i] \in {SUPERBLOCKNUM, DirBlock} => list[i] \in lost
              /\ \A fd \in Fd : list[i] = table[fd].blocknum => list[i] \in lost
        BY <1>5 DEF Apart, n
      <3>2. /\ b \in {SUPERBLOCKNUM, DirBlock} => b \in lost
            /\ \A fd \in Fd : b = table[fd].blocknum => b \in lost
        BY <1>5 DEF Fresh
      <3> QED
        BY <1>1, <1>2, <3>1, <3>2
    <2> QED
      BY <1>1, <1>5, <2>1, <2>2 DEF Apart
  <1> QED
    BY <1>3, <1>4, <1>5 DEF longer

(* More blocks may be lost, and files may lose theirs. *)
LEMMA ApartStill ==
    ASSUME NEW list \in Seq(Block), NEW table, NEW lost, Apart(list, table, lost),
           NEW after, NEW more, lost \subseteq more,
           \A fd \in Fd : after[fd].blocknum \in {table[fd].blocknum, NoBlock}
    PROVE  Apart(list, after, more)
PROOF
  <1>1. /\ \A i \in 1 .. Len(list) : list[i] # NoBlock
        /\ NoBlock \notin {SUPERBLOCKNUM, DirBlock}
    BY Numbers
  <1>2. /\ \A i, j \in 1 .. Len(list) : i # j /\ list[i] = list[j] => list[i] \in more
        /\ \A i \in 1 .. Len(list) : list[i] \in {SUPERBLOCKNUM, DirBlock} => list[i] \in more
    BY DEF Apart
  <1>3. \A fd, gd \in Fd : fd # gd /\ after[fd].blocknum = after[gd].blocknum =>
                           after[fd].blocknum \in more \cup {NoBlock}
    BY DEF Apart
  <1>4. \A fd \in Fd : after[fd].blocknum \in {SUPERBLOCKNUM, DirBlock} => after[fd].blocknum \in more
    BY <1>1 DEF Apart
  <1>5. \A fd \in Fd, i \in 1 .. Len(list) : list[i] = after[fd].blocknum => list[i] \in more
    BY <1>1 DEF Apart
  <1> QED
    BY <1>2, <1>3, <1>4, <1>5 DEF Apart

(* A file is given a block that nobody has. *)
LEMMA ApartGiven ==
    ASSUME NEW list \in Seq(Block), NEW table, NEW lost, NEW b \in Block, NEW fd \in Fd, NEW after,
           Apart(list, table, lost), Fresh(b, list, table, lost),
           \A gd \in Fd : after[gd].blocknum = IF gd = fd THEN b ELSE table[gd].blocknum
    PROVE  Apart(list, after, lost)
PROOF
  BY DEF Apart, Fresh

LEMMA ApartEmpty ==
    ASSUME NEW list, NEW table, NEW lost, Apart(list, table, lost)
    PROVE  Apart(<< >>, table, lost)
PROOF
  <1>1. 1 .. Len(<< >>) = {}
    OBVIOUS
  <1> QED
    BY <1>1 DEF Apart

(* When every block may be lost nothing is said. *)
LEMMA ApartOfAll ==
    ASSUME NEW list \in Seq(Block), NEW table, \A fd \in Fd : table[fd].blocknum \in Block \cup {NoBlock}
    PROVE  Apart(list, table, Block)
PROOF
  <1>1. \A i \in 1 .. Len(list) : list[i] \in Block
    OBVIOUS
  <1> QED
    BY <1>1, Numbers DEF Apart

LEMMA OwnedInit == ASSUME Init PROVE Owned
PROOF
  <1>0. /\ misfreed = {} /\ filetab = [fd \in Fd |-> NoFile] /\ \A p \in Procs : proc[p].at = "idle"
    BY DEF Init, Idle
  <1> DEFINE n == DISKBLOCKTOTAL - FirstSegment
  <1>1. /\ n \in Nat \ {0} /\ Len(freelst) = n
        /\ \A i \in 1 .. n : freelst[i] = FirstSegment + i - 1
    BY FileSizes DEF Init, FirstSegment
  <1> HIDE DEF n
  <1>2. \A i \in 1 .. n : /\ freelst[i] \notin {SUPERBLOCKNUM, DirBlock} /\ freelst[i] \in Block
                          /\ \A j \in 1 .. n : freelst[i] = freelst[j] => i = j
    BY <1>1, FileSizes DEF n, FirstSegment, SUPERBLOCKNUM, DirBlock, Block
  <1>3. NoFile.blocknum = NoBlock
    BY DEF NoFile
  <1>4. ASSUME NEW table, \A fd \in Fd : table[fd].blocknum = NoBlock PROVE ApartFrom(table)
    <2>1. Apart(freelst, table, misfreed)
      BY <1>1, <1>2, <1>4, Numbers DEF Apart
    <2> QED
      BY <1>0, <2>1 DEF ApartFrom, Takes
  <1>5. disk[DirBlock] = Dir(filetab) /\ disk[SUPERBLOCKNUM] = Super(FirstSegment)
        /\ disk[FirstSegment] = Free(freelst)
    BY Numbers DEF Init, SUPERBLOCKNUM, DirBlock, FirstSegment
  <1>6. Tables
    <2>1. \A fd \in Fd : Dir(filetab).files[fd].blocknum = NoBlock
      BY <1>0, <1>3 DEF Dir
    <2> QED
      BY <1>0, <1>3, <1>4, <1>5, <2>1 DEF Tables
  <1>7. freelst # << >> /\ Head(freelst) = FirstSegment
    BY <1>1, FileSizes DEF FirstSegment
  <1>8. OnDisk /\ Numbered
    BY <1>0, <1>5, <1>7, Numbers
       DEF OnDisk, Mounts, Numbered, Named, Segment, Current, Takes, Free, FirstSegment
  <1> QED
    BY <1>6, <1>8 DEF Owned

(* A step that has nothing to do with the free list.                        *)
Aside(p, q) == \/ q # p /\ proc'[q] = proc[q]
               \/ /\ proc[q].at \notin Freeing /\ proc'[q].at \notin Freeing
                  /\ proc'[q].at = "free" => proc'[q].fd # 0

LEMMA AsideSame ==
    ASSUME NEW p, NEW q, Aside(p, q)
    PROVE  /\ (Takes(q)' <=> Takes(q)) /\ (Gives(q)' <=> Gives(q))
           /\ (proc'[q].at = "freeSuper") <=> (proc[q].at = "freeSuper")
           /\ Takes(q) => proc'[q].block = proc[q].block
PROOF
  BY DEF Aside, Takes, Gives, Freeing

LEMMA TablesAside ==
    ASSUME Kept, Tables, NEW p \in Procs, \A q \in Procs : Aside(p, q),
           UNCHANGED <<freelst, misfreed>>,
           \A fd \in Fd : filetab'[fd].blocknum \in {filetab[fd].blocknum, NoBlock},
           \/ disk'[DirBlock] = disk[DirBlock] \/ disk'[DirBlock] = Dir(filetab)
           \/ disk'[DirBlock].kind # "dir"
    PROVE  Tables'
PROOF
  <1>0. freelst \in Seq(Block) /\ \A q \in Procs : Takes(q) => proc[q].block \in Block
    BY DEF Kept, Calls, Fits, Takes
  <1>1. ASSUME NEW table, ApartFrom(table), NEW after,
               \A fd \in Fd : after[fd].blocknum \in {table[fd].blocknum, NoBlock}
        PROVE  /\ Apart(freelst', after, misfreed')
               /\ \A q \in Procs : Takes(q)' => Apart(Append(freelst', proc'[q].block), after, misfreed')
    <2>1. Apart(freelst', after, misfreed')
      BY <1>0, <1>1, ApartStill DEF ApartFrom
    <2>2. ASSUME NEW q \in Procs, Takes(q)'
          PROVE  Apart(Append(freelst', proc'[q].block), after, misfreed')
      <3>1. Takes(q) /\ proc'[q].block = proc[q].block
        BY <2>2, AsideSame
      <3>2. Append(freelst, proc[q].block) \in Seq(Block)
        BY <1>0, <3>1, AppendProperties
      <3>3. Apart(Append(freelst, proc[q].block), table, misfreed)
        BY <1>1, <3>1 DEF ApartFrom
      <3>4. Apart(Append(freelst, proc[q].block), after, misfreed)
        BY <1>1, <3>2, <3>3, ApartStill
      <3> QED
        BY <3>1, <3>4
    <2> QED
      BY <2>1, <2>2
  <1>2. ApartFrom(filetab)'
    BY <1>1 DEF Tables, ApartFrom
  <1>3. disk'[DirBlock].kind = "dir" => ApartFrom(disk[DirBlock].files)'
    <2>1. \A fd \in Fd : Dir(filetab).files[fd].blocknum = filetab[fd].blocknum
      BY DEF Dir
    <2>2. CASE disk'[DirBlock] = Dir(filetab)
      BY <1>1, <2>1, <2>2 DEF Tables, ApartFrom
    <2>3. CASE disk'[DirBlock] = disk[DirBlock]
      BY <1>1, <2>3 DEF Tables, ApartFrom
    <2> QED
      BY <2>2, <2>3
  <1> QED
    BY <1>2, <1>3 DEF Tables

LEMMA OnDiskAside ==
    ASSUME Kept, OnDisk, NEW p \in Procs, \A q \in Procs : Aside(p, q),
           UNCHANGED <<freelst, misfreed>>, up' = "up" => up = "up",
           Trusted /\ SUPERBLOCKNUM \notin spoiled' =>
               SUPERBLOCKNUM \notin spoiled /\ disk'[SUPERBLOCKNUM] = disk[SUPERBLOCKNUM],
           \A b \in Block : b \notin spoiled' /\ disk'[b].kind = "free" =>
                             b \notin spoiled /\ disk'[b] = disk[b]
    PROVE  OnDisk'
PROOF
  <1>0. /\ disk \in [Block -> Content] /\ freelst \in Seq(Block)
        /\ \A q \in Procs : Gives(q) => freelst # << >>
    BY DEF Kept, Disk, Calls, Gives
  <1>1. SUFFICES ASSUME Trusted PROVE OnDisk'
    BY DEF OnDisk, Trusted
  <1>2. \A q \in Procs : /\ (Takes(q)' <=> Takes(q)) /\ (Gives(q)' <=> Gives(q))
                         /\ (proc'[q].at = "freeSuper") <=> (proc[q].at = "freeSuper")
                         /\ Takes(q) => proc'[q].block = proc[q].block
    BY AsideSame
  <1>3. ASSUME SUPERBLOCKNUM \notin spoiled' PROVE Mounts'
    <2>1. PICK b \in Block : disk[SUPERBLOCKNUM] = Super(b) /\ Named(b) /\ (b # 0 => Segment(b))
      BY <1>1, <1>3 DEF OnDisk, Mounts
    <2>2. disk'[SUPERBLOCKNUM] = Super(b)
      BY <1>1, <1>3, <2>1
    <2>4. Named(b)'
      BY <1>2, <2>1 DEF Named
    <2>5. ASSUME b # 0 PROVE Segment(b)'
      <3>1. SUFFICES ASSUME b \notin spoiled', disk'[b].kind = "free" PROVE Segment(b)'
        BY DEF Segment
      <3>2. b \notin spoiled /\ disk'[b] = disk[b]
        BY <3>1
      <3>3. disk[b].list # << >> /\ Head(disk[b].list) = b /\ Current(disk[b].list)
        BY <2>1, <2>5, <3>1, <3>2 DEF Segment
      <3>5. PICK list : list = disk[b].list
        OBVIOUS
      <3>4. Current(list)'
        BY <1>2, <3>3, <3>5 DEF Current
      <3> QED
        BY <3>2, <3>3, <3>4, <3>5 DEF Segment, Current
    <2> QED
      BY <2>2, <2>4, <2>5 DEF Mounts, Super
  <1>4. ASSUME NEW q \in Procs, NEW b \in Block, b \notin spoiled', proc'[q].at = "freeSuper",
               Head(freelst) = b, disk'[b].kind = "free"
        PROVE  disk'[b].list = freelst
    BY <1>1, <1>2, <1>4 DEF OnDisk
  <1> QED
    BY <1>3, <1>4 DEF OnDisk

LEMMA NumberedAside ==
    ASSUME Numbered, NEW p \in Procs, \A q \in Procs : Aside(p, q), UNCHANGED misfreed
    PROVE  Numbered'
PROOF
  BY DEF Numbered, Aside, Freeing

(* Most commands leave the disk and the list alone. *)
Quiet(p) == /\ \A q \in Procs : Aside(p, q)
            /\ UNCHANGED <<disk, spoiled, freelst, misfreed, reused>>
            /\ up' = "up" => up = "up"
            /\ \A fd \in Fd : filetab'[fd].blocknum \in {filetab[fd].blocknum, NoBlock}

LEMMA QuietKnows == ASSUME Kept, Owned, NEW p \in Procs, Quiet(p) PROVE Owned'
PROOF
  <1>1. Tables'
    BY TablesAside DEF Owned, Quiet
  <1>2. OnDisk' /\ Numbered'
    BY OnDiskAside, NumberedAside DEF Owned, Quiet
  <1> QED
    BY <1>1, <1>2 DEF Owned

(* A write of a file or of the directory, to the block it is meant for or   *)
(* to another.                                                              *)
Written(p, c, b) ==
    /\ \A q \in Procs : Aside(p, q)
    /\ Write(c, b) /\ c.kind \in {"data", "dir"} /\ (c.kind = "dir" => c = Dir(filetab))
    /\ b = DirBlock \/ \E fd \in Fd : b = filetab[fd].blocknum
    /\ UNCHANGED <<filetab, freelst, misfreed, reused, up>>

LEMMA WriteKnows ==
    ASSUME Kept, Owned, NEW p \in Procs, NEW c, NEW b, Written(p, c, b) PROVE Owned'
PROOF
  <1>1. /\ \A d \in Block : disk'[d] = IF d = position THEN c ELSE disk[d]
        /\ position = b => spoiled' = spoiled \ {b}
        /\ position # b => spoiled' = spoiled \cup {position, b}
        /\ position \in Block /\ c.kind \in {"data", "dir"} /\ (c.kind = "dir" => c = Dir(filetab))
        /\ UNCHANGED <<filetab, freelst, misfreed, up>>
    BY DEF Kept, Disk, Write, Written
  <1>2. Tables'
    <2>1. \/ disk'[DirBlock] = disk[DirBlock] \/ disk'[DirBlock] = Dir(filetab)
          \/ disk'[DirBlock].kind # "dir"
      BY <1>1, Numbers
    <2> QED
      BY <1>1, <2>1, TablesAside DEF Owned, Written
  <1>3. OnDisk'
    <2>1. Trusted => b # SUPERBLOCKNUM
      BY DEF Written, Owned, Tables, ApartFrom, Apart, Trusted, SUPERBLOCKNUM, DirBlock
    <2>2. Trusted /\ SUPERBLOCKNUM \notin spoiled' =>
            SUPERBLOCKNUM \notin spoiled /\ disk'[SUPERBLOCKNUM] = disk[SUPERBLOCKNUM]
      BY <1>1, <2>1, Numbers
    <2>3. \A d \in Block : d \notin spoiled' /\ disk'[d].kind = "free" =>
                            d \notin spoiled /\ disk'[d] = disk[d]
      BY <1>1
    <2> QED
      BY <1>1, <2>2, <2>3, OnDiskAside DEF Owned, Written
  <1> QED
    BY <1>1, <1>2, <1>3, NumberedAside DEF Owned, Written

(* The other commands stay where they are. *)
LEMMA OneGoes ==
    ASSUME Calls, NEW p \in Procs, \A q \in Procs \ {p} : proc'[q] = proc[q],
           proc[p].at \notin Freeing, proc'[p].at \notin Freeing,
           proc'[p].at = "free" => proc'[p].fd # 0
    PROVE  \A q \in Procs : Aside(p, q)
PROOF
  BY DEF Aside

LEMMA GoesQuiet ==
    ASSUME Kept, NEW p \in Procs, NEW c, proc' = [proc EXCEPT ![p] = c],
           proc[p].at \notin Freeing, c.at \notin Freeing, c.at = "free" => c.fd # 0,
           UNCHANGED <<disk, spoiled, freelst, misfreed, reused>>, up' = "up" => up = "up",
           \A fd \in Fd : filetab'[fd].blocknum \in {filetab[fd].blocknum, NoBlock}
    PROVE  Quiet(p)
PROOF
  <1>1. (\A q \in Procs \ {p} : proc'[q] = proc[q]) /\ proc'[p] = c
    BY DEF Kept, Calls
  <1>2. \A q \in Procs : Aside(p, q)
    BY <1>1, OneGoes DEF Kept
  <1> QED
    BY <1>2 DEF Quiet

LEMMA OpenQuiet ==
    ASSUME Kept, NEW p \in Procs, NEW name \in Name,
           OpenNone(p, name) \/ \E cmd \in {"cat", "new", "delete"} : Command(p, cmd, name)
    PROVE  Quiet(p)
PROOF
  <1>1. ASSUME NEW cmd, NEW place \in {"create", "read", "print", "delete"}, NEW fd,
               Start(p, cmd, name, place, fd),
               \A gd \in Fd : filetab'[gd].blocknum = filetab[gd].blocknum
        PROVE  Quiet(p)
    <2>1. /\ \A q \in Procs \ {p} : proc'[q] = proc[q]
          /\ proc'[p].at = place /\ proc[p].at = "idle"
          /\ UNCHANGED <<disk, spoiled, freelst, misfreed, reused, up>>
      BY <1>1 DEF Start, At, blocks, Kept, Calls, Idle
    <2>2. \A q \in Procs : Aside(p, q)
      BY <2>1, OneGoes DEF Kept, Freeing
    <2> QED
      BY <1>1, <2>1, <2>2 DEF Quiet
  <1>2. CASE OpenNone(p, name)
    BY <1>1, <1>2 DEF OpenNone
  <1>3. ASSUME NEW cmd \in {"cat", "new", "delete"}, Command(p, cmd, name) PROVE Quiet(p)
    <2>1. CASE OpenAgain(p, cmd, name)
      <3>1. \A gd \in Fd : filetab'[gd].blocknum = filetab[gd].blocknum
        BY <2>1 DEF OpenAgain, Rewound, Kept, Shape
      <3>2. PICK place : place = IF cmd = "cat" THEN "print" ELSE "delete"
        OBVIOUS
      <3> QED
        BY <1>1, <2>1, <3>1, <3>2 DEF OpenAgain
    <2>2. CASE OpenSeek(p, cmd, name)
      <3>1. \A gd \in Fd : filetab'[gd].blocknum = filetab[gd].blocknum
        BY <2>2 DEF OpenSeek, Kept, Shape
      <3> QED
        BY <1>1, <2>2, <3>1 DEF OpenSeek
    <2> QED
      BY <1>3, <2>1, <2>2 DEF Command
  <1> QED
    BY <1>2, <1>3

(* Reading, and typing. *)
LEMMA ReadQuiet ==
    ASSUME Kept, NEW p \in Procs, OpenRead(p) \/ PrintChar(p) \/ Type(p) PROVE Quiet(p)
PROOF
  <1>0. proc \in [Procs -> Call] /\ filetab \in [Fd -> Entry]
    BY DEF Kept, Calls, Shape
  <1>1. UNCHANGED <<disk, spoiled, freelst, misfreed, reused, up>>
    BY DEF OpenRead, PrintChar, Type, driver, blocks
  <1>2. ASSUME NEW fd, NEW e, filetab' = [filetab EXCEPT ![fd] = e],
               fd \in Fd => e.blocknum = filetab[fd].blocknum
        PROVE  \A gd \in Fd : filetab'[gd].blocknum = filetab[gd].blocknum
    BY <1>0, <1>2
  <1>3. CASE OpenRead(p)
    <2>1. proc[p].at = "read" /\ \E c : proc' = [proc EXCEPT ![p] = c] /\ c.at \in {"idle", "print", "delete"}
      <3> DEFINE c == CASE proc[p].cmd = "cat"    -> [Idle EXCEPT !.at = "print", !.fd = proc[p].fd]
                        [] proc[p].cmd = "delete" -> [Idle EXCEPT !.at = "delete", !.fd = proc[p].fd]
                        [] OTHER                  -> Idle
      <3>1. proc[p].at = "read" /\ proc' = [proc EXCEPT ![p] = c]
        BY <1>3 DEF OpenRead, At
      <3>2. c.at \in {"idle", "print", "delete"}
        BY DEF Idle
      <3> QED
        BY <3>1, <3>2
    <2>2. PICK fd : fd = proc[p].fd
      OBVIOUS
    <2>3. PICK e : filetab' = [filetab EXCEPT ![fd] = e] /\ (fd \in Fd => e.blocknum = filetab[fd].blocknum)
      <3> DEFINE d == IF disk[position].kind = "data" THEN disk[position].bytes ELSE Unread
                 e == [filetab[fd] EXCEPT !.data = d, !.state = @ \cup {"open"}, !.cursor = 0]
      <3>1. filetab' = [filetab EXCEPT ![fd] = e]
        BY <1>3, <2>2 DEF OpenRead
      <3>2. fd \in Fd => e.blocknum = filetab[fd].blocknum
        BY <1>0 DEF Entry
      <3> QED
        BY <3>1, <3>2
    <2>4. \A gd \in Fd : filetab'[gd].blocknum = filetab[gd].blocknum
      BY <1>2, <2>3
    <2> QED
      BY <1>1, <2>1, <2>4, GoesQuiet DEF Freeing
  <1>4. CASE PrintChar(p)
    <2>1. proc[p].at = "print" /\ \E c : proc' = [proc EXCEPT ![p] = c] /\ c.at \in {"idle", "print"}
      BY <1>0, <1>4 DEF PrintChar, At, End, Idle
    <2>2. \A gd \in Fd : filetab'[gd].blocknum = filetab[gd].blocknum
      <3>1. CASE filetab' = filetab
        BY <3>1
      <3>2. PICK fd : fd = proc[p].fd
        OBVIOUS
      <3>3. CASE filetab' = [filetab EXCEPT ![fd].cursor = @ + 1]
        <4>1. fd \in Fd => [filetab[fd] EXCEPT !.cursor = @ + 1].blocknum = filetab[fd].blocknum
          BY <1>0 DEF Entry
        <4> QED
          BY <1>2, <3>3, <4>1
      <3> QED
        BY <1>4, <3>1, <3>2, <3>3 DEF PrintChar
    <2> QED
      BY <1>1, <2>1, <2>2, GoesQuiet DEF Freeing
  <1>5. CASE Type(p)
    <2>1. proc[p].at = "type" /\ proc' = [proc EXCEPT ![p] = proc[p]]
      BY <1>0, <1>5 DEF Type, At
    <2>2. PICK fd : fd = proc[p].fd
      OBVIOUS
    <2>3. PICK e : filetab' = [filetab EXCEPT ![fd] = e] /\ (fd \in Fd => e.blocknum = filetab[fd].blocknum)
      <3>1. PICK d, n, m, t : filetab' = [filetab EXCEPT ![fd] =
                [filetab[fd] EXCEPT !.data = d, !.length = n, !.cursor = m, !.state = t]]
        BY <1>5, <2>2 DEF Type
      <3>2. fd \in Fd => [filetab[fd] EXCEPT !.data = d, !.length = n, !.cursor = m, !.state = t].blocknum
                         = filetab[fd].blocknum
        BY <1>0 DEF Entry
      <3> QED
        BY <3>1, <3>2
    <2>4. \A gd \in Fd : filetab'[gd].blocknum = filetab[gd].blocknum
      BY <1>2, <2>3
    <2> QED
      BY <1>1, <2>1, <2>4, GoesQuiet DEF Freeing
  <1> QED
    BY <1>3, <1>4, <1>5

(* A file that is created has the block of an earlier one, or none. *)
LEMMA CreateQuiet == ASSUME Kept, NEW p \in Procs, CreateNone(p) \/ Create(p) PROVE Quiet(p)
PROOF
  <1>1. UNCHANGED <<disk, spoiled, freelst, misfreed, reused, up>> /\ proc[p].at = "create"
    BY DEF CreateNone, Create, driver, blocks, At
  <1>2. CASE CreateNone(p)
    <2>1. proc' = [proc EXCEPT ![p] = Idle] /\ filetab' = filetab
      BY <1>2 DEF CreateNone, End
    <2> QED
      BY <1>1, <2>1, GoesQuiet DEF Freeing, Idle
  <1>3. CASE Create(p)
    <2>1. PICK fd : fd = Min(Slots)
      OBVIOUS
    <2>2. PICK c : proc' = [proc EXCEPT ![p] = c] /\ c.at \in {"idle", "block"}
      <3> DEFINE head == IF freelst = << >> \/ (\E q \in Procs : proc[q].at = "freeSuper")
                         THEN NoBlock ELSE Head(freelst)
                 c == IF freelst = << >> THEN Idle
                      ELSE [Idle EXCEPT !.at = "block", !.fd = fd, !.block = head]
      <3>1. proc' = [proc EXCEPT ![p] = c]
        BY <1>3, <2>1 DEF Create
      <3>2. c.at \in {"idle", "block"}
        BY DEF Idle
      <3> QED
        BY <3>1, <3>2
    <2>3. PICK e : filetab' = [filetab EXCEPT ![fd] = e] /\ e.blocknum \in {filetab[fd].blocknum, NoBlock}
      <3> DEFINE b == IF freelst = << >> THEN NoBlock ELSE filetab[fd].blocknum
                 e == [NoFile EXCEPT !.state = {"used", "open"}, !.name = proc[p].name, !.blocknum = b]
      <3>1. filetab' = [filetab EXCEPT ![fd] = e]
        BY <1>3, <2>1 DEF Create
      <3>2. e.blocknum = b
        BY DEF NoFile
      <3> QED
        BY <3>1, <3>2
    <2>4. \A gd \in Fd : filetab'[gd].blocknum \in {filetab[gd].blocknum, NoBlock}
      BY <2>3 DEF Kept, Shape
    <2> QED
      BY <1>1, <2>2, <2>4, GoesQuiet DEF Freeing
  <1> QED
    BY <1>2, <1>3

(* The close of what is not dirty, the steps before and after a write, and  *)
(* the delete: only a file with another number than 0 is given to the list. *)
LEMMA CloseQuiet ==
    ASSUME Kept, NEW p \in Procs, Close(p) \/ CloseClear(p) \/ CloseDir(p) \/ Delete(p)
    PROVE  Quiet(p)
PROOF
  <1>0. proc \in [Procs -> Call] /\ filetab \in [Fd -> Entry] /\ Fd \subseteq Nat
    BY Numbers DEF Kept, Calls, Shape
  <1>1. UNCHANGED <<disk, spoiled, freelst, misfreed, reused, up>>
    BY DEF Close, CloseClear, CloseDir, Delete, driver, blocks
  <1>2. ASSUME NEW place, Goto(p, place)
        PROVE  /\ proc' = [proc EXCEPT ![p] = [proc[p] EXCEPT !.at = place]]
               /\ [proc[p] EXCEPT !.at = place].at = place
               /\ [proc[p] EXCEPT !.at = place].fd = proc[p].fd
    BY <1>0, <1>2 DEF Goto, Call
  <1>3. CASE Close(p)
    <2>1. proc[p].at = "type" /\ filetab' = filetab
          /\ (End(p) \/ Goto(p, "closeWrite") \/ Goto(p, "closed"))
      BY <1>3 DEF Close, At
    <2>2. PICK c : proc' = [proc EXCEPT ![p] = c] /\ c.at \in {"idle", "closeWrite", "closed"}
      <3>1. CASE End(p)
        <4>1. proc' = [proc EXCEPT ![p] = Idle] /\ Idle.at = "idle"
          BY <3>1 DEF End, Idle
        <4> QED
          BY <4>1
      <3>2. ASSUME NEW place \in {"closeWrite", "closed"}, Goto(p, place)
            PROVE  \E c : proc' = [proc EXCEPT ![p] = c] /\ c.at \in {"idle", "closeWrite", "closed"}
        BY <1>2, <3>2
      <3> QED
        BY <2>1, <3>1, <3>2
    <2> QED
      BY <1>1, <2>1, <2>2, GoesQuiet DEF Freeing
  <1>4. CASE CloseClear(p)
    <2>1. proc[p].at = "closed" /\ Goto(p, "dir")
      BY <1>4 DEF CloseClear, At
    <2>2. \A fd \in Fd : filetab'[fd].blocknum = filetab[fd].blocknum
      BY <1>0, <1>4 DEF CloseClear, Entry
    <2>3. PICK c : proc' = [proc EXCEPT ![p] = c] /\ c.at = "dir"
      BY <1>2, <2>1
    <2> QED
      BY <1>1, <2>1, <2>2, <2>3, GoesQuiet DEF Freeing
  <1>5. CASE CloseDir(p)
    <2>1. proc[p].at = "dir" /\ Goto(p, "dirWrite") /\ filetab' = filetab
      BY <1>5 DEF CloseDir, At
    <2>3. PICK c : proc' = [proc EXCEPT ![p] = c] /\ c.at = "dirWrite"
      BY <1>2, <2>1
    <2> QED
      BY <1>1, <2>1, <2>3, GoesQuiet DEF Freeing
  <1>6. CASE Delete(p)
    <2>1. proc[p].at = "delete" /\ (End(p) \/ (proc[p].fd # 0 /\ Goto(p, "free")))
      BY <1>6 DEF Delete, At
    <2>2. PICK fd : fd = proc[p].fd
      OBVIOUS
    <2>3. filetab' = [filetab EXCEPT ![fd] = [filetab[fd] EXCEPT !.state = FILE_FREE, !.length = 0, !.cursor = 0]]
      BY <1>6, <2>2 DEF Delete
    <2>4. fd \in Fd => [filetab[fd] EXCEPT !.state = FILE_FREE, !.length = 0, !.cursor = 0].blocknum
                       = filetab[fd].blocknum
      BY <1>0 DEF Entry
    <2>5. \A gd \in Fd : filetab'[gd].blocknum = filetab[gd].blocknum
      BY <1>0, <2>3, <2>4
    <2>6. PICK c : proc' = [proc EXCEPT ![p] = c] /\ c.at \in {"idle", "free"} /\ (c.at = "free" => c.fd # 0)
      <3>1. CASE End(p)
        <4>1. proc' = [proc EXCEPT ![p] = Idle] /\ Idle.at = "idle"
          BY <3>1 DEF End, Idle
        <4> QED
          BY <4>1
      <3>2. CASE proc[p].fd # 0 /\ Goto(p, "free")
        <4> DEFINE c == [proc[p] EXCEPT !.at = "free"]
        <4>1. proc' = [proc EXCEPT ![p] = c] /\ c.at = "free" /\ c.fd # 0
          BY <1>2, <3>2
        <4> QED
          BY <4>1
      <3> QED
        BY <2>1, <3>1, <3>2
    <2> QED
      BY <1>1, <2>1, <2>5, <2>6, GoesQuiet DEF Freeing
  <1> QED
    BY <1>3, <1>4, <1>5, <1>6

(* The program is lost, and says no more about its disk. *)
LEMMA LostQuiet == ASSUME Kept, NEW p \in Procs, GetAstray(p) \/ CloseAstray(p) PROVE Quiet(p)
PROOF
  <1>1. /\ UNCHANGED <<disk, spoiled, freelst, misfreed, reused, filetab, proc>>
        /\ up' \in {"stale head", "number for a pointer"} /\ proc[p].at \in {"block", "dir"}
    BY DEF GetAstray, CloseAstray, Lost, driver, blocks, At
  <1>2. proc' = [proc EXCEPT ![p] = proc[p]]
    BY <1>1 DEF Kept, Calls
  <1> QED
    BY <1>1, <1>2, GoesQuiet DEF Freeing

(* The contents of a file, and the directory. *)
LEMMA ContentWritten ==
    ASSUME Kept, NEW p \in Procs, CloseWrite(p) \/ DirWrite(p)
    PROVE  \E c, b : Written(p, c, b)
PROOF
  <1>0. proc \in [Procs -> Call]
    BY DEF Kept, Calls
  <1>1. CASE CloseWrite(p)
    <2>1. PICK fd : fd = proc[p].fd
      OBVIOUS
    <2>2. /\ proc[p].at = "closeWrite" /\ proc' = [proc EXCEPT ![p] = [proc[p] EXCEPT !.at = "closed"]]
          /\ Write(Data(filetab[fd].data), filetab[fd].blocknum)
          /\ UNCHANGED <<filetab, freelst, misfreed, reused, up>>
      BY <1>1, <2>1 DEF CloseWrite, Goto, At
    <2>3. fd \in Fd
      BY <2>1, <2>2 DEF Kept, Calls, Fits
    <2>5. proc'[p].at = "closed" /\ \A q \in Procs \ {p} : proc'[q] = proc[q]
      BY <1>0, <2>2 DEF Call
    <2>6. \A q \in Procs : Aside(p, q)
      BY <2>2, <2>5, OneGoes DEF Kept, Freeing
    <2>7. Data(filetab[fd].data).kind = "data"
      BY DEF Data
    <2> QED
      BY <2>2, <2>3, <2>6, <2>7 DEF Written
  <1>2. CASE DirWrite(p)
    <2>1. /\ proc[p].at = "dirWrite" /\ proc' = [proc EXCEPT ![p] = Idle]
          /\ Write(Dir(filetab), DirBlock) /\ UNCHANGED <<filetab, freelst, misfreed, reused, up>>
      BY <1>2 DEF DirWrite, End, At
    <2>2. proc'[p].at = "idle" /\ \A q \in Procs \ {p} : proc'[q] = proc[q]
      BY <1>0, <2>1 DEF Idle
    <2>3. \A q \in Procs : Aside(p, q)
      BY <2>1, <2>2, OneGoes DEF Kept, Freeing
    <2>4. Dir(filetab).kind = "dir"
      BY DEF Dir
    <2> QED
      BY <2>1, <2>3, <2>4 DEF Written
  <1> QED
    BY <1>1, <1>2

(* The lock of the free list lets one process in. *)
LEMMA Alone ==
    ASSUME Kept
    PROVE  /\ freelock > 0 => \A q \in Procs : proc[q].at \notin Freeing
           /\ \A p, q \in Procs : proc[p].at \in Freeing /\ q # p => proc[q].at \notin Freeing
PROOF
  <1>1. \A q \in Procs : proc[q].at \in Freeing <=> q \in Inside(Freeing)
    BY DEF Inside
  <1>2. \/ freelock = 1 /\ Inside(Freeing) = {}
        \/ freelock = 0 /\ \E r \in Procs : Inside(Freeing) = {r}
    BY DEF Kept, Locks, Guarded
  <1> QED
    BY <1>1, <1>2

(* The first block of a trusted list is not the superblock, and a write of  *)
(* the list lands on it or spoils it.                                       *)
LEMMA HeadWritten ==
    ASSUME Kept, Owned, Trusted, freelst # << >>
    PROVE  /\ Head(freelst) \in Block \ {SUPERBLOCKNUM}
           /\ Write(Free(freelst), Head(freelst)) =>
                /\ SUPERBLOCKNUM \notin spoiled' =>
                     SUPERBLOCKNUM \notin spoiled /\ disk'[SUPERBLOCKNUM] = disk[SUPERBLOCKNUM]
                /\ Head(freelst) \notin spoiled' => disk'[Head(freelst)] = Free(freelst)
PROOF
  <1>1. freelst \in Seq(Block) /\ disk \in [Block -> Content] /\ position \in Block
    BY DEF Kept, Calls, Disk
  <1>2. PICK h : h = Head(freelst)
    OBVIOUS
  <1>3. 1 \in 1 .. Len(freelst) /\ h = freelst[1] /\ h \in Block
    BY <1>1, <1>2, LenProperties
  <1>4. h # SUPERBLOCKNUM
    BY <1>3 DEF Owned, Tables, ApartFrom, Apart, Trusted
  <1>5. ASSUME Write(Free(freelst), h)
        PROVE  /\ SUPERBLOCKNUM \notin spoiled' =>
                    SUPERBLOCKNUM \notin spoiled /\ disk'[SUPERBLOCKNUM] = disk[SUPERBLOCKNUM]
               /\ h \notin spoiled' => disk'[h] = Free(freelst)
    BY <1>1, <1>3, <1>4, <1>5, Numbers DEF Write
  <1> QED
    BY <1>2, <1>3, <1>4, <1>5

(* Such a write leaves the directory's block alone, or makes it another     *)
(* thing.                                                                   *)
LEMMA ImageStill ==
    ASSUME Kept, NEW c, NEW b, Write(c, b), c.kind # "dir", disk'[DirBlock].kind = "dir"
    PROVE  disk'[DirBlock] = disk[DirBlock]
PROOF
  BY Numbers DEF Kept, Disk, Write

(* What a list is without its last block, and with one more. *)
LEMMA ListParts ==
    ASSUME NEW s \in Seq(Block), s # << >>
    PROVE  /\ s = Append(Front(s), Last(s))
           /\ IF Front(s) = << >> THEN Last(s) = Head(s) ELSE Head(Front(s)) = Head(s)
PROOF
  <1> DEFINE n == Len(s)
             t == Front(s)
  <1>1. n \in Nat \ {0} /\ s \in [1 .. n -> Block] /\ t \in Seq(Block) /\ Last(s) = s[n]
        /\ Last(s) \in Block
    BY ListEnds, LenProperties DEF Last
  <1>2. Len(t) = n - 1 /\ \A i \in 1 .. n - 1 : t[i] = s[i]
    BY <1>1 DEF Front
  <1> HIDE DEF n, t
  <1>3. s = Append(t, Last(s))
    <2> DEFINE r == Append(t, Last(s))
    <2>1. r \in Seq(Block) /\ Len(r) = n /\ r[n] = s[n] /\ \A i \in 1 .. n - 1 : r[i] = s[i]
      BY <1>1, <1>2, AppendProperties
    <2>2. s \in Seq(Block) /\ Len(s) = n
      BY DEF n
    <2> HIDE DEF r
    <2>3. \A i \in 1 .. n : r[i] = s[i]
      BY <1>1, <2>1
    <2>4. s = r
      BY <2>1, <2>2, <2>3, SeqEqual
    <2> QED
      BY <2>4 DEF r
  <1>4. ASSUME t = << >> PROVE Last(s) = Head(s)
    <2>1. n - 1 = 0
      BY <1>2, <1>4, EmptySeq
    <2>2. n = 1
      BY <1>1, <2>1
    <2> QED
      BY <1>1, <2>2
  <1>5. ASSUME t # << >> PROVE Head(t) = Head(s)
    <2>1. Len(t) # 0 /\ Len(t) \in Nat
      BY <1>1, <1>5, EmptySeq
    <2>2. 1 \in 1 .. n - 1
      BY <1>1, <1>2, <2>1
    <2>3. t[1] = s[1]
      BY <1>2, <2>2
    <2> QED
      BY <1>5, <2>3
  <1> QED
    BY <1>3, <1>4, <1>5 DEF t

LEMMA ListGrows ==
    ASSUME NEW s \in Seq(Block), NEW b \in Block
    PROVE  /\ Append(s, b) \in Seq(Block) /\ Append(s, b) # << >>
           /\ s = << >> => Len(Append(s, b)) = 1 /\ Head(Append(s, b)) = b
           /\ s # << >> => Head(Append(s, b)) = Head(s)
           /\ Len(Append(s, b)) = 1 => s = << >>
PROOF
  <1>1. Append(s, b) \in Seq(Block) /\ Append(s, b) # << >> /\ Len(Append(s, b)) = Len(s) + 1
    BY AppendProperties
  <1>2. CASE s = << >>
    BY <1>1, <1>2
  <1>3. CASE s # << >>
    <2>1. Len(s) \in Nat \ {0}
      BY <1>3, EmptySeq
    <2>2. Append(s, b)[1] = s[1]
      BY <2>1, AppendProperties
    <2> QED
      BY <1>1, <1>3, <2>1, <2>2
  <1> QED
    BY <1>1, <1>2, <1>3

(* sbGetBlock(): the last block of the list goes to a new file. *)
LEMMA GetKnows == ASSUME Kept, Owned, NEW p \in Procs, GetBlock(p) PROVE Owned'
PROOF
  <1>0. proc \in [Procs -> Call] /\ freelst \in Seq(Block)
    BY DEF Kept, Calls
  <1>1. PICK x, list : x = Last(freelst) /\ list = Front(freelst)
    OBVIOUS
  <1>2. /\ freelst # << >> /\ freelst' = list /\ UNCHANGED <<disk, spoiled, filetab, misfreed, up>>
        /\ \A q \in Procs : proc[q].at \notin Freeing
        /\ proc'[p].at = "blockWrite" /\ proc'[p].block = x
        /\ \A q \in Procs \ {p} : proc'[q] = proc[q]
    BY <1>0, <1>1, Alone DEF GetBlock, HasHead
  <1>3. /\ x \in Block /\ list \in Seq(Block) /\ freelst = Append(list, x)
        /\ list = << >> => x = Head(freelst)
        /\ list # << >> => Head(list) = Head(freelst)
    BY <1>0, <1>1, <1>2, ListEnds, ListParts
  <1>4. /\ \A q \in Procs : ~Takes(q) /\ ~Gives(q) /\ proc[q].at # "freeSuper"
        /\ \A q \in Procs : Takes(q)' <=> q = p
        /\ \A q \in Procs : proc'[q].at # "freeSuper"
    BY <1>2 DEF Takes, Gives, Freeing
  <1>5. ASSUME NEW table, Apart(freelst, table, misfreed)
        PROVE  /\ Apart(freelst', table, misfreed')
               /\ \A q \in Procs : Takes(q)' => Apart(Append(freelst', proc'[q].block), table, misfreed')
    BY <1>2, <1>3, <1>4, <1>5, ApartAppended
  <1>6. Tables'
    BY <1>2, <1>5 DEF Owned, Tables, ApartFrom
  <1>7. ASSUME Trusted, SUPERBLOCKNUM \notin spoiled PROVE Mounts'
    <2>1. PICK b \in Block : disk[SUPERBLOCKNUM] = Super(b) /\ Named(b) /\ (b # 0 => Segment(b))
      BY <1>7 DEF Owned, OnDisk, Mounts
    <2>2. b # 0 /\ b = Head(freelst)
      BY <1>2, <1>4, <2>1 DEF Named
    <2>3. Named(b)'
      BY <1>2, <1>3, <1>4, <2>2 DEF Named
    <2>4. Segment(b)'
      <3>1. SUFFICES ASSUME b \notin spoiled, disk[b].kind = "free" PROVE Segment(b)'
        BY <1>2 DEF Segment
      <3>2. PICK l : l = disk[b].list
        OBVIOUS
      <3>3. l # << >> /\ Head(l) = b /\ l = freelst
        BY <1>4, <2>1, <2>2, <3>1, <3>2 DEF Segment, Current
      <3>4. Takes(p)' /\ l = Append(freelst', proc'[p].block)
        BY <1>2, <1>3, <1>4, <3>3
      <3> QED
        BY <1>2, <3>2, <3>3, <3>4 DEF Segment, Current
    <2> QED
      BY <1>2, <2>1, <2>2, <2>3, <2>4 DEF Mounts, Super
  <1>8. OnDisk'
    BY <1>2, <1>4, <1>7 DEF OnDisk, Trusted
  <1>9. Numbered'
    BY <1>2 DEF Owned, Numbered
  <1> QED
    BY <1>6, <1>8, <1>9 DEF Owned

(* The step of the one process that has the lock: with no creation under    *)
(* way the list is apart from both tables.                                  *)
LEMMA NoneTakes ==
    ASSUME \A q \in Procs : ~Takes(q)', Apart(freelst', filetab', misfreed'),
           disk'[DirBlock].kind = "dir" => Apart(freelst', disk'[DirBlock].files, misfreed')
    PROVE  Tables'
PROOF
  BY DEF Tables, ApartFrom

(* The superblock names the segment, and the segment is the list. *)
LEMMA SegmentNow ==
    ASSUME NEW b \in Block, \A q \in Procs : ~Takes(q)', freelst' # << >>, Head(freelst') = b,
           b \notin spoiled' /\ disk'[b].kind = "free" => disk'[b].list = freelst'
    PROVE  Segment(b)' /\ (b # 0 => Named(b)')
PROOF
  <1>1. PICK l : l = disk'[b].list
    OBVIOUS
  <1>2. Segment(b)'
    BY <1>1 DEF Segment, Current
  <1> QED
    BY <1>2 DEF Named

LEMMA GetWriteKnows == ASSUME Kept, Owned, NEW p \in Procs, GetWrite(p) PROVE Owned'
PROOF
  <1>0. proc \in [Procs -> Call] /\ freelst \in Seq(Block) /\ filetab \in [Fd -> Entry]
        /\ disk \in [Block -> Content] /\ position \in Block
    BY DEF Kept, Calls, Shape, Disk
  <1>1. PICK x, fd : x = proc[p].block /\ fd = proc[p].fd
    OBVIOUS
  <1>2. /\ proc[p].at = "blockWrite" /\ UNCHANGED <<freelst, misfreed, up>>
        /\ filetab' = [filetab EXCEPT ![fd].blocknum = x]
        /\ IF freelst = << >> THEN Write(Super(0), SUPERBLOCKNUM)
                              ELSE Write(Free(freelst), Head(freelst))
    BY <1>1 DEF GetWrite, At
  <1>3. proc'[p].at = "type" /\ \A q \in Procs \ {p} : proc'[q] = proc[q]
    BY <1>0 DEF GetWrite, Call
  <1>4. /\ Takes(p) /\ \A q \in Procs : ~Gives(q)
        /\ \A q \in Procs : proc'[q].at \notin Freeing
    BY <1>2, <1>3, Alone DEF Takes, Gives, Freeing
  <1>5. \A q \in Procs : ~Takes(q)' /\ proc'[q].at # "freeSuper"
    BY <1>4 DEF Takes, Freeing
  <1>6. x \in Block /\ fd \in Fd
    BY <1>1, <1>2 DEF Kept, Calls, Fits
  <1>7. ASSUME NEW table, ApartFrom(table)
        PROVE  Apart(freelst, table, misfreed) /\ Fresh(x, freelst, table, misfreed)
    BY <1>0, <1>1, <1>4, <1>6, <1>7, ApartAppended DEF ApartFrom
  <1>8. Tables'
    <2>1. \A gd \in Fd : filetab'[gd].blocknum = IF gd = fd THEN x ELSE filetab[gd].blocknum
      BY <1>0, <1>2 DEF Entry
    <2>2. Apart(freelst, filetab', misfreed)
      BY <1>0, <1>6, <1>7, <2>1, ApartGiven DEF Owned, Tables
    <2>3. disk'[DirBlock].kind = "dir" => disk'[DirBlock] = disk[DirBlock]
      <3>1. Super(0).kind # "dir" /\ Free(freelst).kind # "dir"
        BY DEF Super, Free
      <3> QED
        BY <1>2, <3>1, ImageStill
    <2>4. disk'[DirBlock].kind = "dir" => Apart(freelst, disk'[DirBlock].files, misfreed)
      BY <1>7, <2>3 DEF Owned, Tables
    <2> QED
      BY <1>2, <1>5, <2>2, <2>4, NoneTakes
  <1>9. ASSUME Trusted, SUPERBLOCKNUM \notin spoiled' PROVE Mounts'
    <2>1. CASE freelst = << >>
      <3>1. disk'[SUPERBLOCKNUM] = Super(0)
        BY <1>0, <1>2, <1>9, <2>1 DEF Write
      <3>2. Named(0)'
        BY <1>2, <1>5, <2>1 DEF Named
      <3> QED
        BY <3>1, <3>2, Numbers DEF Mounts, Super
    <2>2. CASE freelst # << >>
      <3>1. /\ SUPERBLOCKNUM \notin spoiled /\ disk'[SUPERBLOCKNUM] = disk[SUPERBLOCKNUM]
            /\ Head(freelst) \notin spoiled' => disk'[Head(freelst)] = Free(freelst)
        BY <1>2, <1>9, <2>2, HeadWritten
      <3>2. PICK b \in Block : disk[SUPERBLOCKNUM] = Super(b) /\ Named(b)
        BY <1>9, <3>1 DEF Owned, OnDisk, Mounts
      <3>3. b # 0 /\ Head(freelst) = b
        BY <1>4, <2>2, <3>2 DEF Named
      <3>4. Segment(b)' /\ Named(b)'
        BY <1>2, <1>5, <2>2, <3>1, <3>3, SegmentNow DEF Free
      <3> QED
        BY <3>1, <3>2, <3>4 DEF Mounts, Super
    <2> QED
      BY <2>1, <2>2
  <1>10. OnDisk'
    BY <1>2, <1>5, <1>9 DEF OnDisk, Trusted
  <1>11. Numbered'
    BY <1>2, <1>3 DEF Owned, Numbered
  <1> QED
    BY <1>8, <1>10, <1>11 DEF Owned

(* sbFreeBlock(): the number of a file goes to the end of the list.  It may *)
(* be there already, or be a file's block; it is lost from now on.          *)
LEMMA FreeKnows == ASSUME Kept, Owned, NEW p \in Procs, FreeBlock(p) PROVE Owned'
PROOF
  <1>0. proc \in [Procs -> Call] /\ freelst \in Seq(Block)
    BY DEF Kept, Calls
  <1>1. PICK x : x = proc[p].fd
    OBVIOUS
  <1>2. /\ proc[p].at = "free" /\ UNCHANGED <<disk, spoiled, filetab, up>>
        /\ freelst' = Append(freelst, x) /\ misfreed' = misfreed \cup {x}
        /\ \A q \in Procs : proc[q].at \notin Freeing
    BY <1>1, Alone DEF FreeBlock, At
  <1>3. proc'[p].at = "freeWrite" /\ \A q \in Procs \ {p} : proc'[q] = proc[q]
    BY <1>0 DEF FreeBlock, Goto, Call
  <1>4. /\ \A q \in Procs : ~Takes(q) /\ ~Gives(q)
        /\ Gives(p)' /\ \A q \in Procs : ~Takes(q)' /\ proc'[q].at # "freeSuper"
    BY <1>2, <1>3 DEF Takes, Gives, Freeing
  <1>5. x \in Block \ {0}
    BY <1>1, <1>2, Numbers DEF Kept, Calls, Fits, Owned, Numbered
  <1>6. freelst' \in Seq(Block)
    BY <1>0, <1>2, <1>5, ListGrows
  <1>7. Tables'
    <2>1. ASSUME NEW table, Apart(freelst, table, misfreed) PROVE Apart(freelst', table, misfreed')
      <3>1. Apart(freelst, table, misfreed')
        BY <1>0, <1>2, <2>1, ApartStill
      <3>2. Fresh(x, freelst, table, misfreed')
        BY <1>2 DEF Fresh
      <3> QED
        BY <1>0, <1>2, <1>5, <3>1, <3>2, ApartAppended
    <2> QED
      BY <1>2, <1>4, <2>1, NoneTakes DEF Owned, Tables, ApartFrom
  <1>8. ASSUME Trusted, SUPERBLOCKNUM \notin spoiled PROVE Mounts'
    <2>1. PICK b \in Block : disk[SUPERBLOCKNUM] = Super(b) /\ Named(b) /\ (b # 0 => Segment(b))
      BY <1>8 DEF Owned, OnDisk, Mounts
    <2>2. CASE b = 0
      <3>1. freelst = << >>
        BY <1>4, <2>1, <2>2 DEF Named
      <3>2. Len(freelst') = 1
        BY <1>0, <1>2, <1>5, <3>1, ListGrows
      <3>3. Named(b)'
        BY <1>4, <2>2, <3>2 DEF Named
      <3> QED
        BY <1>2, <2>1, <2>2, <3>3 DEF Mounts, Super
    <2>3. CASE b # 0
      <3>1. freelst # << >> /\ Head(freelst) = b
        BY <1>4, <2>1, <2>3 DEF Named
      <3>2. freelst' # << >> /\ Head(freelst') = b
        BY <1>0, <1>2, <1>5, <3>1, ListGrows
      <3>3. Named(b)'
        BY <2>3, <3>2 DEF Named
      <3>4. Segment(b)'
        <4>1. SUFFICES ASSUME b \notin spoiled, disk[b].kind = "free" PROVE Segment(b)'
          BY <1>2 DEF Segment
        <4>2. PICK l : l = disk[b].list
          OBVIOUS
        <4>3. l # << >> /\ Head(l) = b /\ l = freelst
          BY <1>4, <2>1, <2>3, <4>1, <4>2 DEF Segment, Current
        <4>4. Gives(p)' /\ \E y \in Block : freelst' = Append(l, y)
          BY <1>2, <1>4, <1>5, <4>3
        <4> QED
          BY <1>2, <4>2, <4>3, <4>4 DEF Segment, Current
      <3> QED
        BY <1>2, <2>1, <3>3, <3>4 DEF Mounts, Super
    <2> QED
      BY <2>2, <2>3
  <1>9. OnDisk'
    BY <1>2, <1>4, <1>8 DEF OnDisk, Trusted
  <1>10. Numbered'
    <2>1. SUPERBLOCKNUM \in misfreed' => misfreed' = Block
      BY <1>2, <1>5 DEF Owned, Numbered, SUPERBLOCKNUM
    <2> QED
      BY <1>3, <2>1 DEF Owned, Numbered
  <1> QED
    BY <1>7, <1>9, <1>10 DEF Owned

LEMMA FreeWriteKnows == ASSUME Kept, Owned, NEW p \in Procs, FreeWrite(p) PROVE Owned'
PROOF
  <1>0. proc \in [Procs -> Call] /\ freelst \in Seq(Block) /\ freelst # << >>
    BY DEF Kept, Calls, FreeWrite, At
  <1>1. /\ proc[p].at = "freeWrite" /\ UNCHANGED <<freelst, misfreed, filetab, up>>
        /\ Write(Free(freelst), Head(freelst))
    BY DEF FreeWrite, At
  <1>2. \A q \in Procs \ {p} : proc'[q] = proc[q]
    BY <1>0 DEF FreeWrite, Goto, FreeEnd, End
  <1>3. IF Len(freelst) = 1 THEN proc'[p].at = "freeSuper" ELSE proc'[p].at = "idle"
    BY <1>0 DEF FreeWrite, Goto, FreeEnd, End, Idle, Call
  <1>4. /\ \A q \in Procs : ~Takes(q)
        /\ \A q \in Procs : ~Takes(q)'
        /\ Len(freelst) = 1 => Gives(p)'
    BY <1>1, <1>2, <1>3, Alone DEF Takes, Gives, Freeing
  <1>5. Tables'
    <2>1. disk'[DirBlock].kind = "dir" => disk'[DirBlock] = disk[DirBlock]
      <3>1. Free(freelst).kind # "dir"
        BY DEF Free
      <3> QED
        BY <1>1, <3>1, ImageStill
    <2> QED
      BY <1>1, <1>4, <2>1, NoneTakes DEF Owned, Tables, ApartFrom
  <1>6. ASSUME Trusted
        PROVE  /\ SUPERBLOCKNUM \notin spoiled' =>
                    SUPERBLOCKNUM \notin spoiled /\ disk'[SUPERBLOCKNUM] = disk[SUPERBLOCKNUM]
               /\ Head(freelst) \notin spoiled' => disk'[Head(freelst)] = Free(freelst)
    BY <1>0, <1>1, <1>6, HeadWritten
  <1>7. ASSUME Trusted, SUPERBLOCKNUM \notin spoiled' PROVE Mounts'
    <2>1. PICK b \in Block : disk[SUPERBLOCKNUM] = Super(b) /\ Named(b)
      BY <1>6, <1>7 DEF Owned, OnDisk, Mounts
    <2>2. CASE b = 0
      <3>1. Named(b)'
        BY <1>0, <1>1, <1>4, <2>1, <2>2 DEF Named
      <3> QED
        BY <1>6, <1>7, <2>1, <2>2, <3>1 DEF Mounts, Super
    <2>3. CASE b # 0
      <3>1. Head(freelst) = b
        BY <1>0, <2>1, <2>3 DEF Named
      <3>2. Segment(b)' /\ Named(b)'
        BY <1>0, <1>1, <1>4, <1>6, <1>7, <2>3, <3>1, SegmentNow DEF Free
      <3> QED
        BY <1>6, <1>7, <2>1, <3>2 DEF Mounts, Super
    <2> QED
      BY <2>2, <2>3
  <1>8. ASSUME Trusted, NEW q \in Procs, NEW b \in Block \ spoiled', Head(freelst) = b
        PROVE  disk'[b].list = freelst
    BY <1>6, <1>8 DEF Free
  <1>9. OnDisk'
    BY <1>1, <1>7, <1>8 DEF OnDisk, Trusted
  <1>10. Numbered'
    BY <1>1, <1>2, <1>3 DEF Owned, Numbered
  <1> QED
    BY <1>5, <1>9, <1>10 DEF Owned

(* The superblock names the list that was written just before. *)
LEMMA FreeSuperKnows == ASSUME Kept, Owned, NEW p \in Procs, FreeSuper(p) PROVE Owned'
PROOF
  <1>0. proc \in [Procs -> Call] /\ freelst \in Seq(Block) /\ freelst # << >>
        /\ disk \in [Block -> Content] /\ position \in Block
    BY DEF Kept, Calls, Disk, FreeSuper, At
  <1>1. PICK h : h = Head(freelst)
    OBVIOUS
  <1>2. /\ proc[p].at = "freeSuper" /\ UNCHANGED <<freelst, misfreed, filetab, up>>
        /\ Write(Super(h), SUPERBLOCKNUM)
        /\ proc' = [proc EXCEPT ![p] = Idle]
    BY <1>1 DEF FreeSuper, At, FreeEnd, End
  <1>3. proc'[p].at = "idle" /\ \A q \in Procs \ {p} : proc'[q] = proc[q]
    BY <1>0, <1>2 DEF Idle
  <1>4. \A q \in Procs : ~Takes(q)' /\ proc'[q].at # "freeSuper"
    BY <1>2, <1>3, Alone DEF Takes, Freeing
  <1>5. \A q \in Procs : ~Takes(q)
    BY <1>2, Alone DEF Takes, Freeing
  <1>6. Tables'
    <2>1. disk'[DirBlock].kind = "dir" => disk'[DirBlock] = disk[DirBlock]
      <3>1. Super(h).kind # "dir"
        BY DEF Super
      <3> QED
        BY <1>2, <3>1, ImageStill
    <2> QED
      BY <1>2, <1>4, <2>1, NoneTakes DEF Owned, Tables, ApartFrom
  <1>7. ASSUME Trusted, SUPERBLOCKNUM \notin spoiled' PROVE Mounts'
    <2>1. h \in Block \ {SUPERBLOCKNUM}
      BY <1>0, <1>1, <1>7, HeadWritten
    <2>2. position = SUPERBLOCKNUM /\ disk' = [disk EXCEPT ![SUPERBLOCKNUM] = Super(h)]
          /\ spoiled' = spoiled \ {SUPERBLOCKNUM}
      BY <1>2, <1>7 DEF Write
    <2>3. disk'[SUPERBLOCKNUM] = Super(h) /\ disk'[h] = disk[h] /\ h # 0
      BY <1>0, <2>1, <2>2, Numbers DEF SUPERBLOCKNUM
    <2>4. h \notin spoiled' /\ disk'[h].kind = "free" => disk'[h].list = freelst
      BY <1>1, <1>2, <1>7, <2>1, <2>2, <2>3 DEF Owned, OnDisk
    <2>5. Segment(h)' /\ Named(h)'
      BY <1>0, <1>1, <1>2, <1>4, <2>1, <2>3, <2>4, SegmentNow
    <2> QED
      BY <2>1, <2>3, <2>5 DEF Mounts, Super
  <1>8. OnDisk'
    BY <1>2, <1>4, <1>7 DEF OnDisk, Trusted
  <1>9. Numbered'
    BY <1>2, <1>3 DEF Owned, Numbered
  <1> QED
    BY <1>6, <1>8, <1>9 DEF Owned

(* A restart reads back the list that was in memory, unless it reads what a *)
(* write has missed: then nothing is said of any block.                     *)
LEMMA RestartKnows == ASSUME Kept, Owned, Kept', Reboot \/ RebootRuined PROVE Owned'
PROOF
  <1>0. /\ up = "up" /\ UNCHANGED <<disk, spoiled>>
        /\ \A q \in Procs : proc'[q].at = "idle"
    BY DEF Reboot, RebootRuined, Restart, Idle
  <1>1. \A q \in Procs : ~Takes(q)' /\ proc'[q].at # "freeSuper" /\ proc'[q].at # "free"
    BY <1>0 DEF Takes
  <1>2. freelst' \in Seq(Block) /\ filetab' \in [Fd -> Entry] /\ disk \in [Block -> Content]
    BY DEF Kept, Calls, Shape, Disk
  <1>3. CASE RebootRuined
    <2>1. UNCHANGED <<filetab, freelst, misfreed>> /\ up' = "ruined"
      BY <1>3 DEF RebootRuined
    <2>2. Tables'
      BY <1>0, <1>1, <2>1, NoneTakes DEF Owned, Tables, ApartFrom
    <2>3. OnDisk' /\ Numbered'
      BY <1>1, <2>1 DEF Owned, OnDisk, Trusted, Numbered
    <2> QED
      BY <2>2, <2>3 DEF Owned
  <1>4. CASE Reboot
    <2>1. PICK b, image : b = disk[SUPERBLOCKNUM].sb_freelst /\ image = disk[DirBlock].files
      OBVIOUS
    <2>2. /\ disk[SUPERBLOCKNUM].kind = "super" /\ disk[DirBlock].kind = "dir"
          /\ b # 0 => disk[b].kind = "free"
          /\ freelst' = IF b = 0 THEN << >> ELSE disk[b].list
          /\ IF {SUPERBLOCKNUM, b} \cap spoiled = {} THEN misfreed' = misfreed ELSE misfreed' = Block
          /\ filetab' = sbOpenDirectory(image)
          /\ UNCHANGED up
      BY <1>4, <2>1 DEF Reboot, Mountable
    <2>3. \A fd \in Fd : filetab'[fd].blocknum = image[fd].blocknum
      BY <2>2 DEF sbOpenDirectory, NoFile
    <2>4. \A fd \in Fd : filetab'[fd].blocknum \in Block \cup {NoBlock}
      BY <1>2 DEF Entry
    <2>5. CASE misfreed' = Block
      <3>1. Apart(freelst', filetab', misfreed') /\ Apart(freelst', image, misfreed')
        BY <1>2, <2>3, <2>4, <2>5, ApartOfAll
      <3>2. Tables'
        BY <1>0, <1>1, <2>1, <3>1, NoneTakes
      <3>3. OnDisk' /\ Numbered'
        BY <1>1, <2>5, Numbers DEF OnDisk, Trusted, Numbered
      <3> QED
        BY <3>2, <3>3 DEF Owned
    <2>6. CASE misfreed' # Block
      <3>1. misfreed' = misfreed /\ SUPERBLOCKNUM \notin spoiled /\ b \notin spoiled
        BY <2>2, <2>6
      <3>2. Trusted
        BY <1>0, <2>6, <3>1 DEF Trusted, Owned, Numbered
      <3>3. PICK s \in Block : disk[SUPERBLOCKNUM] = Super(s) /\ Named(s) /\ (s # 0 => Segment(s))
        BY <3>1, <3>2 DEF Owned, OnDisk, Mounts
      <3>4. s = b
        BY <2>1, <3>3 DEF Super
      <3>5. b # 0 => freelst' # << >> /\ Head(freelst') = b /\ Current(freelst')
        <4>1. PICK l : l = freelst'
          OBVIOUS
        <4>2. b # 0 => l # << >> /\ Head(l) = b /\ Current(l)
          BY <2>2, <3>1, <3>3, <3>4, <4>1 DEF Segment, Current
        <4> QED
          BY <4>1, <4>2 DEF Current
      <3>6. Apart(freelst', image, misfreed)
        <4>1. ApartFrom(image)
          BY <2>1, <2>2 DEF Owned, Tables
        <4>2. CASE b = 0
          BY <2>2, <4>1, <4>2, ApartEmpty DEF ApartFrom
        <4>3. CASE b # 0
          <5>1. PICK l \in Seq(Block) : l = freelst'
            BY <1>2
          <5>2. \/ l = freelst
                \/ \E q \in Procs : Takes(q) /\ l = Append(freelst, proc[q].block)
                \/ \E y \in Block : freelst = Append(l, y)
            BY <3>5, <4>3, <5>1 DEF Current
          <5>3. Apart(l, image, misfreed)
            BY <4>1, <5>2, ApartAppended DEF ApartFrom
          <5> QED
            BY <5>1, <5>3
        <4> QED
          BY <4>2, <4>3
      <3>7. Apart(freelst', filetab', misfreed)
        BY <1>2, <2>3, <3>6, ApartStill
      <3>8. Tables'
        BY <1>0, <1>1, <2>1, <3>1, <3>6, <3>7, NoneTakes
      <3>9. Mounts'
        <4>1. CASE b = 0
          <5>1. Named(b)'
            BY <1>1, <2>2, <4>1 DEF Named
          <5> QED
            BY <1>0, <3>3, <3>4, <4>1, <5>1 DEF Mounts, Super
        <4>2. CASE b # 0
          <5>1. Segment(b)' /\ Named(b)'
            BY <1>0, <1>1, <2>2, <3>3, <3>4, <3>5, <4>2, SegmentNow
          <5> QED
            BY <1>0, <3>3, <3>4, <4>2, <5>1 DEF Mounts, Super
        <4> QED
          BY <4>1, <4>2
      <3>10. OnDisk' /\ Numbered'
        BY <1>1, <3>1, <3>9 DEF OnDisk, Owned, Numbered
      <3> QED
        BY <3>8, <3>10 DEF Owned
    <2> QED
      BY <2>5, <2>6
  <1> QED
    BY <1>3, <1>4

LEMMA OwnedStep == ASSUME Kept, Kept', Owned, [Next]_vars PROVE Owned'
PROOF
  <1>1. CASE UNCHANGED vars
    <2>1. UNCHANGED <<disk, spoiled, freelst, misfreed, filetab, proc, up>>
      BY <1>1 DEF vars, driver, blocks
    <2>2. Tables'
      BY <2>1 DEF Owned, Tables, ApartFrom, Apart, Takes
    <2>3. Numbered'
      BY <2>1 DEF Owned, Numbered
    <2>4. OnDisk'
      BY <2>1 DEF Owned, OnDisk, Trusted, Mounts, Named, Segment, Current, Takes, Gives
    <2> QED
      BY <2>2, <2>3, <2>4 DEF Owned
  <1>2. ASSUME NEW p \in Procs, GoesOn(p) PROVE Owned'
    BY <1>2, QuietKnows, ReadQuiet, CreateQuiet, CloseQuiet, LostQuiet, GetKnows, GetWriteKnows,
       ContentWritten, WriteKnows, FreeKnows, FreeWriteKnows, FreeSuperKnows DEF GoesOn
  <1>3. ASSUME NEW p \in Procs, Type(p) PROVE Owned'
    BY <1>3, ReadQuiet, QuietKnows
  <1>4. ASSUME NEW p \in Procs, NEW name \in Name,
               OpenNone(p, name) \/ \E cmd \in {"cat", "new", "delete"} : Command(p, cmd, name)
        PROVE  Owned'
    BY <1>4, OpenQuiet, QuietKnows
  <1> QED
    BY <1>1, <1>2, <1>3, <1>4, RestartKnows DEF Next

LEMMA OwnedAlways == Spec => []Owned
PROOF
  <1>1. Init => Owned
    BY OwnedInit
  <1>2. Kept /\ Kept' /\ Owned /\ [Next]_vars => Owned'
    BY OwnedStep
  <1> QED
    BY <1>1, <1>2, Invariant, PTL DEF Spec

(* A set whose members are all the same has one at most. *)
LEMMA AtMostOne ==
    ASSUME NEW S, \A x, y \in S : x = y
    PROVE  Cardinality(S) \in {0, 1} /\ (Cardinality(S) = 1 => S # {})
PROOF
  <1>1. CASE S = {}
    BY <1>1, FS_EmptySet
  <1>2. CASE S # {}
    <2>1. PICK x : S = {x}
      BY <1>2
    <2> QED
      BY <2>1, FS_Singleton
  <1> QED
    BY <1>1, <1>2

------------------------------------------------------------------------------
(* Which blocks may hold what nobody meant them to.  A block freed by        *)
(* mistake is used again when it is the list's own or taken for a file; so   *)
(* the blocks that two files have, or that a file has from the file system,  *)
(* are among those.                                                          *)
AtHand(b) == \/ freelst # << >> /\ Head(freelst) = b
             \/ \E p \in Procs : Takes(p) /\ proc[p].block = b
             \/ SUPERBLOCKNUM \notin spoiled /\ disk[SUPERBLOCKNUM] = Super(b) /\ b # 0
UsedAgain == \A b \in Block : AtHand(b) /\ b \in misfreed => b \in reused
Segments  == \A b \in Block : b \notin spoiled /\ disk[b].kind = "free" =>
                                disk[b].list # << >> /\ Head(disk[b].list) = b
Unshared(table) ==
    /\ \A fd, gd \in Fd : fd # gd /\ table[fd].blocknum = table[gd].blocknum =>
                             table[fd].blocknum \in reused \cup {NoBlock}
    /\ \A fd \in Fd : table[fd].blocknum \in {SUPERBLOCKNUM, DirBlock} =>
                         table[fd].blocknum \in reused
Unmixed == Unshared(filetab) /\ (disk[DirBlock].kind = "dir" => Unshared(disk[DirBlock].files))
Reuse   == UsedAgain /\ Segments /\ Unmixed

LEMMA ReuseInit == ASSUME Init PROVE Reuse
PROOF
  <1>0. /\ misfreed = {} /\ filetab = [fd \in Fd |-> NoFile]
        /\ disk = [b \in Block |-> CASE b = SUPERBLOCKNUM -> Super(FirstSegment)
                                     [] b = DirBlock      -> Dir(filetab)
                                     [] b = FirstSegment  -> Free(freelst)
                                     [] OTHER             -> Data(Unread)]
    BY DEF Init
  <1>1. UsedAgain
    BY <1>0 DEF UsedAgain
  <1>2. Segments
    <2>1. freelst # << >> /\ Head(freelst) = FirstSegment
      BY FileSizes DEF Init, FirstSegment
    <2>2. ASSUME NEW b \in Block, disk[b].kind = "free" PROVE disk[b] = Free(freelst) /\ b = FirstSegment
      BY <1>0, <2>2 DEF Super, Dir, Data
    <2> QED
      BY <2>1, <2>2 DEF Segments, Free
  <1>3. ASSUME NEW table, \A fd \in Fd : table[fd].blocknum = NoBlock PROVE Unshared(table)
    BY <1>3, Numbers DEF Unshared
  <1>4. Unmixed
    <2>1. \A fd \in Fd : filetab[fd].blocknum = NoBlock /\ Dir(filetab).files[fd].blocknum = NoBlock
      BY <1>0 DEF Dir, NoFile
    <2>2. disk[DirBlock] = Dir(filetab)
      BY <1>0, Numbers DEF SUPERBLOCKNUM, DirBlock, FirstSegment
    <2> QED
      BY <1>3, <2>1, <2>2 DEF Unmixed
  <1> QED
    BY <1>1, <1>2, <1>4 DEF Reuse

(* The files keep their blocks, or have none. *)
LEMMA UnsharedStill ==
    ASSUME NEW table, Unshared(table), reused \subseteq reused', NEW after,
           \A fd \in Fd : after[fd].blocknum \in {table[fd].blocknum, NoBlock}
    PROVE  Unshared(after)'
PROOF
  <1>1. NoBlock \notin {SUPERBLOCKNUM, DirBlock}
    BY Numbers
  <1> QED
    BY <1>1 DEF Unshared

LEMMA QuietReuse == ASSUME Kept, Reuse, NEW p \in Procs, Quiet(p) PROVE Reuse'
PROOF
  <1>0. /\ \A q \in Procs : (Takes(q)' <=> Takes(q)) /\ (Takes(q) => proc'[q].block = proc[q].block)
        /\ UNCHANGED <<disk, spoiled, freelst, misfreed, reused>>
        /\ \A fd \in Fd : filetab'[fd].blocknum \in {filetab[fd].blocknum, NoBlock}
    BY AsideSame DEF Quiet
  <1>1. UsedAgain'
    <2>1. \A b \in Block : AtHand(b)' => AtHand(b)
      BY <1>0 DEF AtHand
    <2> QED
      BY <1>0, <2>1 DEF Reuse, UsedAgain
  <1>2. Segments'
    BY <1>0 DEF Reuse, Segments
  <1>3. Unmixed'
    <2>1. Unshared(filetab)'
      <3>1. PICK after : after = filetab'
        OBVIOUS
      <3>2. Unshared(after)'
        BY <1>0, <3>1, UnsharedStill DEF Reuse, Unmixed
      <3> QED
        BY <3>1, <3>2 DEF Unshared
    <2>2. disk[DirBlock].kind = "dir" => Unshared(disk[DirBlock].files)'
      BY <1>0 DEF Reuse, Unmixed, Unshared
    <2> QED
      BY <1>0, <2>1, <2>2 DEF Unmixed, Unshared
  <1> QED
    BY <1>1, <1>2, <1>3 DEF Reuse

LEMMA ContentReuse ==
    ASSUME Kept, Reuse, NEW p \in Procs, NEW c, NEW d, Written(p, c, d) PROVE Reuse'
PROOF
  <1>0. /\ \A q \in Procs : (Takes(q)' <=> Takes(q)) /\ (Takes(q) => proc'[q].block = proc[q].block)
        /\ UNCHANGED <<filetab, freelst, misfreed, reused>>
        /\ c.kind \in {"data", "dir"} /\ (c.kind = "dir" => c = Dir(filetab))
        /\ \A b \in Block : disk'[b] = IF b = position THEN c ELSE disk[b]
        /\ position = d => spoiled' = spoiled \ {d}
        /\ position # d => spoiled' = spoiled \cup {position, d}
        /\ position \in Block
    BY AsideSame DEF Written, Write, Kept, Disk
  <1>1. \A b \in Block : b \notin spoiled' /\ b # position => b \notin spoiled /\ disk'[b] = disk[b]
    BY <1>0
  <1>2. UsedAgain'
    <2>1. ASSUME NEW b \in Block, AtHand(b)' PROVE AtHand(b)
      <3>1. ASSUME SUPERBLOCKNUM \notin spoiled', disk'[SUPERBLOCKNUM] = Super(b)
            PROVE  SUPERBLOCKNUM \notin spoiled /\ disk[SUPERBLOCKNUM] = Super(b)
        <4>1. Super(b).kind = "super" /\ SUPERBLOCKNUM \in Block
          BY Numbers DEF Super
        <4>2. position # SUPERBLOCKNUM
          BY <1>0, <3>1, <4>1
        <4> QED
          BY <1>1, <3>1, <4>1, <4>2
      <3> QED
        BY <1>0, <2>1, <3>1 DEF AtHand, Super
    <2> QED
      BY <1>0, <2>1 DEF Reuse, UsedAgain
  <1>3. Segments'
    BY <1>0, <1>1 DEF Reuse, Segments
  <1>4. Unmixed'
    <2>1. Unshared(filetab)'
      BY <1>0 DEF Reuse, Unmixed, Unshared
    <2>2. ASSUME disk'[DirBlock].kind = "dir" PROVE Unshared(disk[DirBlock].files)'
      <3>1. disk'[DirBlock] = Dir(filetab) \/ disk'[DirBlock] = disk[DirBlock]
        BY <1>0, <2>2, Numbers
      <3>2. CASE disk'[DirBlock] = disk[DirBlock]
        BY <1>0, <2>2, <3>2 DEF Reuse, Unmixed, Unshared
      <3>3. CASE disk'[DirBlock] = Dir(filetab)
        <4>1. \A fd \in Fd : disk'[DirBlock].files[fd].blocknum = filetab[fd].blocknum
          BY <3>3 DEF Dir
        <4> QED
          BY <1>0, <4>1 DEF Reuse, Unmixed, Unshared
      <3> QED
        BY <3>1, <3>2, <3>3
    <2> QED
      BY <2>1, <2>2 DEF Unmixed
  <1> QED
    BY <1>2, <1>3, <1>4 DEF Reuse

(* The block that is taken is used again if it was lost. *)
LEMMA GetReuse == ASSUME Kept, Reuse, NEW p \in Procs, GetBlock(p) PROVE Reuse'
PROOF
  <1>0. freelst \in Seq(Block) /\ proc \in [Procs -> Call]
    BY DEF Kept, Calls
  <1>1. PICK x, list : x = Last(freelst) /\ list = Front(freelst)
    OBVIOUS
  <1>2. /\ freelst # << >> /\ freelst' = list /\ UNCHANGED <<disk, spoiled, filetab, misfreed>>
        /\ reused' = reused \cup ({x} \cap misfreed)
        /\ \A q \in Procs : proc[q].at \notin Freeing
        /\ proc'[p].block = x /\ \A q \in Procs \ {p} : proc'[q] = proc[q]
    BY <1>0, <1>1, Alone DEF GetBlock, HasHead
  <1>3. list # << >> => Head(list) = Head(freelst)
    BY <1>0, <1>1, <1>2, ListParts
  <1>4. \A q \in Procs : Takes(q)' => q = p
    BY <1>2 DEF Takes, Freeing
  <1>5. UsedAgain'
    <2>1. \A b \in Block : AtHand(b)' => AtHand(b) \/ b = x
      BY <1>2, <1>3, <1>4 DEF AtHand
    <2> QED
      BY <1>2, <2>1 DEF Reuse, UsedAgain
  <1>6. Segments'
    BY <1>2 DEF Reuse, Segments
  <1>7. Unmixed'
    BY <1>2 DEF Reuse, Unmixed, Unshared
  <1> QED
    BY <1>5, <1>6, <1>7 DEF Reuse

(* The list goes to its own block, or spoils it. *)
LEMMA SegmentsWritten ==
    ASSUME Kept, Segments, freelst # << >>, Write(Free(freelst), Head(freelst))
    PROVE  /\ Segments'
           /\ SUPERBLOCKNUM \notin spoiled' /\ disk'[SUPERBLOCKNUM].kind = "super" =>
                SUPERBLOCKNUM \notin spoiled /\ disk'[SUPERBLOCKNUM] = disk[SUPERBLOCKNUM]
PROOF
  <1>1. PICK h \in Block : h = Head(freelst)
    BY ListEnds DEF Kept, Calls
  <1>2. /\ \A b \in Block : disk'[b] = IF b = position THEN Free(freelst) ELSE disk[b]
        /\ position = h => spoiled' = spoiled \ {h}
        /\ position # h => spoiled' = spoiled \cup {position, h}
    BY <1>1 DEF Write, Kept, Disk
  <1>3. Free(freelst).kind = "free" /\ Free(freelst).list = freelst
    BY DEF Free
  <1>4. ASSUME NEW b \in Block, b \notin spoiled'
        PROVE  \/ b = h /\ disk'[b] = Free(freelst)
               \/ b \notin spoiled /\ disk'[b] = disk[b]
    BY <1>2, <1>4
  <1>5. Segments'
    BY <1>1, <1>3, <1>4 DEF Segments
  <1> QED
    BY <1>3, <1>4, <1>5, Numbers

LEMMA GetWriteReuse == ASSUME Kept, Owned, Reuse, NEW p \in Procs, GetWrite(p) PROVE Reuse'
PROOF
  <1>0. proc \in [Procs -> Call] /\ freelst \in Seq(Block) /\ filetab \in [Fd -> Entry]
        /\ disk \in [Block -> Content] /\ position \in Block
    BY DEF Kept, Calls, Shape, Disk
  <1>1. PICK x, fd : x = proc[p].block /\ fd = proc[p].fd
    OBVIOUS
  <1>2. /\ proc[p].at = "blockWrite" /\ UNCHANGED <<freelst, misfreed, reused>>
        /\ filetab' = [filetab EXCEPT ![fd].blocknum = x]
        /\ IF freelst = << >> THEN Write(Super(0), SUPERBLOCKNUM)
                              ELSE Write(Free(freelst), Head(freelst))
    BY <1>1 DEF GetWrite, At
  <1>3. proc'[p].at = "type" /\ \A q \in Procs \ {p} : proc'[q] = proc[q]
    BY <1>0 DEF GetWrite, Call
  <1>4. Takes(p) /\ \A q \in Procs : ~Takes(q)'
    BY <1>2, <1>3, Alone DEF Takes, Freeing
  <1>5. x \in Block /\ fd \in Fd
    BY <1>1, <1>2 DEF Kept, Calls, Fits
  <1>6. /\ Segments'
        /\ \A b \in Block : SUPERBLOCKNUM \notin spoiled' /\ disk'[SUPERBLOCKNUM] = Super(b) /\ b # 0 =>
                SUPERBLOCKNUM \notin spoiled /\ disk[SUPERBLOCKNUM] = Super(b)
    <2>1. CASE freelst = << >>
      <3>1. /\ \A b \in Block : disk'[b] = IF b = position THEN Super(0) ELSE disk[b]
            /\ position = SUPERBLOCKNUM => spoiled' = spoiled \ {SUPERBLOCKNUM}
            /\ position # SUPERBLOCKNUM => spoiled' = spoiled \cup {position, SUPERBLOCKNUM}
            /\ Super(0).kind # "free" /\ \A b \in Block : Super(0) = Super(b) => b = 0
        BY <1>0, <1>2, <2>1 DEF Write, Super
      <3> QED
        BY <3>1, Numbers DEF Reuse, Segments
    <2>2. CASE freelst # << >>
      <3>1. \A b \in Block : Super(b).kind = "super"
        BY DEF Super
      <3> QED
        BY <1>2, <2>2, <3>1, SegmentsWritten DEF Reuse
    <2> QED
      BY <2>1, <2>2
  <1>7. UsedAgain'
    <2>1. \A b \in Block : AtHand(b)' => AtHand(b)
      BY <1>2, <1>4, <1>6 DEF AtHand
    <2> QED
      BY <1>2, <2>1 DEF Reuse, UsedAgain
  <1>8. Unmixed'
    <2>1. Fresh(x, freelst, filetab, misfreed)
      BY <1>0, <1>1, <1>4, <1>5, ApartAppended DEF Owned, Tables, ApartFrom
    <2>2. x \in misfreed => x \in reused
      BY <1>1, <1>4, <1>5 DEF Reuse, UsedAgain, AtHand
    <2>3. \A gd \in Fd : filetab'[gd].blocknum = IF gd = fd THEN x ELSE filetab[gd].blocknum
      BY <1>0, <1>2 DEF Entry
    <2>4. Unshared(filetab)'
      BY <1>2, <1>5, <2>1, <2>2, <2>3 DEF Reuse, Unmixed, Unshared, Fresh
    <2>5. disk'[DirBlock].kind = "dir" => disk'[DirBlock] = disk[DirBlock]
      <3>1. Super(0).kind # "dir" /\ Free(freelst).kind # "dir"
        BY DEF Super, Free
      <3> QED
        BY <1>2, <3>1, ImageStill
    <2>6. disk'[DirBlock].kind = "dir" => Unshared(disk[DirBlock].files)'
      BY <1>2, <2>5 DEF Reuse, Unmixed, Unshared
    <2> QED
      BY <2>4, <2>6 DEF Unmixed
  <1> QED
    BY <1>6, <1>7, <1>8 DEF Reuse

LEMMA FreeReuse == ASSUME Kept, Owned, Reuse, NEW p \in Procs, FreeBlock(p) PROVE Reuse'
PROOF
  <1>0. proc \in [Procs -> Call] /\ freelst \in Seq(Block)
    BY DEF Kept, Calls
  <1>1. PICK x : x = proc[p].fd
    OBVIOUS
  <1>2. /\ proc[p].at = "free" /\ up = "up" /\ UNCHANGED <<disk, spoiled, filetab>>
        /\ freelst' = Append(freelst, x) /\ misfreed' = misfreed \cup {x}
        /\ reused' = reused \cup ({x} \cap {Head(freelst')})
        /\ \A q \in Procs : proc[q].at \notin Freeing
    BY <1>1, Alone DEF FreeBlock, At
  <1>3. proc'[p].at = "freeWrite" /\ \A q \in Procs \ {p} : proc'[q] = proc[q]
    BY <1>0 DEF FreeBlock, Goto, Call
  <1>4. \A q \in Procs : ~Takes(q) /\ ~Takes(q)' /\ ~Gives(q)
    BY <1>2, <1>3 DEF Takes, Gives, Freeing
  <1>5. x \in Block
    BY <1>1, <1>2, Numbers DEF Kept, Calls, Fits
  <1>6. /\ freelst = << >> => Head(freelst') = x
        /\ freelst # << >> => Head(freelst') = Head(freelst)
    BY <1>0, <1>2, <1>5, ListGrows
  <1>7. ASSUME NEW b \in Block, AtHand(b)', b \in misfreed' PROVE b \in reused'
    <2>1. CASE Head(freelst') = b
      BY <1>2, <1>6, <1>7, <2>1 DEF Reuse, UsedAgain, AtHand
    <2>2. CASE SUPERBLOCKNUM \notin spoiled /\ disk[SUPERBLOCKNUM] = Super(b) /\ b # 0
      <3>1. b \in misfreed => b \in reused
        BY <2>2 DEF Reuse, UsedAgain, AtHand
      <3>2. ASSUME b \notin misfreed PROVE Head(freelst') = b
        <4>1. Trusted
          BY <1>2, <3>2 DEF Trusted, Owned, Numbered
        <4>2. PICK s \in Block : disk[SUPERBLOCKNUM] = Super(s) /\ Named(s)
          BY <2>2, <4>1 DEF Owned, OnDisk, Mounts
        <4>3. s = b
          BY <2>2, <4>2 DEF Super
        <4>4. freelst # << >> /\ Head(freelst) = b
          BY <1>4, <2>2, <4>2, <4>3 DEF Named
        <4> QED
          BY <1>6, <4>4
      <3> QED
        BY <1>2, <1>7, <3>1, <3>2
    <2> QED
      BY <1>2, <1>4, <1>7, <2>1, <2>2 DEF AtHand
  <1>8. UsedAgain'
    BY <1>7 DEF UsedAgain
  <1>9. Segments'
    BY <1>2 DEF Reuse, Segments
  <1>10. Unmixed'
    BY <1>2 DEF Reuse, Unmixed, Unshared
  <1> QED
    BY <1>8, <1>9, <1>10 DEF Reuse

LEMMA FreeWriteReuse ==
    ASSUME Kept, Reuse, NEW p \in Procs, FreeWrite(p) \/ FreeSuper(p) PROVE Reuse'
PROOF
  <1>0. /\ proc \in [Procs -> Call] /\ freelst \in Seq(Block) /\ freelst # << >>
        /\ disk \in [Block -> Content] /\ position \in Block
    BY DEF Kept, Calls, Disk, FreeWrite, FreeSuper, At
  <1>1. PICK h \in Block : h = Head(freelst)
    BY <1>0, ListEnds
  <1>2. /\ proc[p].at \in {"freeWrite", "freeSuper"}
        /\ UNCHANGED <<freelst, misfreed, reused, filetab>>
        /\ Write(Free(freelst), h) \/ Write(Super(h), SUPERBLOCKNUM)
    BY <1>1 DEF FreeWrite, FreeSuper, At
  <1>3. proc'[p].at # "blockWrite" /\ \A q \in Procs \ {p} : proc'[q] = proc[q]
    BY <1>0 DEF FreeWrite, FreeSuper, Goto, FreeEnd, End, Idle, Call
  <1>4. \A q \in Procs : ~Takes(q)'
    BY <1>2, <1>3, Alone DEF Takes, Freeing
  <1>5. /\ Segments'
        /\ \A b \in Block : SUPERBLOCKNUM \notin spoiled' /\ disk'[SUPERBLOCKNUM] = Super(b) =>
             \/ SUPERBLOCKNUM \notin spoiled /\ disk[SUPERBLOCKNUM] = Super(b)
             \/ b = h
    <2>1. \A b \in Block : Super(b).kind = "super"
      BY DEF Super
    <2>2. CASE Write(Free(freelst), h)
      BY <1>0, <1>1, <2>1, <2>2, SegmentsWritten DEF Reuse
    <2>3. CASE Write(Super(h), SUPERBLOCKNUM)
      <3>1. /\ \A b \in Block : disk'[b] = IF b = position THEN Super(h) ELSE disk[b]
            /\ position = SUPERBLOCKNUM => spoiled' = spoiled \ {SUPERBLOCKNUM}
            /\ position # SUPERBLOCKNUM => spoiled' = spoiled \cup {position, SUPERBLOCKNUM}
            /\ \A b \in Block : Super(h) = Super(b) => b = h
        BY <1>0, <2>3 DEF Write, Super
      <3> QED
        BY <2>1, <3>1, Numbers DEF Reuse, Segments
    <2> QED
      BY <1>2, <2>2, <2>3
  <1>6. UsedAgain'
    <2>1. \A b \in Block : AtHand(b)' => AtHand(b)
      BY <1>0, <1>1, <1>2, <1>4, <1>5 DEF AtHand
    <2> QED
      BY <1>2, <2>1 DEF Reuse, UsedAgain
  <1>7. Unmixed'
    <2>1. disk'[DirBlock].kind = "dir" => disk'[DirBlock] = disk[DirBlock]
      <3>1. Super(h).kind # "dir" /\ Free(freelst).kind # "dir"
        BY DEF Super, Free
      <3> QED
        BY <1>2, <3>1, ImageStill
    <2> QED
      BY <1>2, <2>1 DEF Reuse, Unmixed, Unshared
  <1> QED
    BY <1>5, <1>6, <1>7 DEF Reuse

(* A restart that reads what a write has missed uses the block it reads and *)
(* the first of the list there.                                             *)
LEMMA RestartReuse == ASSUME Kept, Reuse, Reboot \/ RebootRuined PROVE Reuse'
PROOF
  <1>0. /\ UNCHANGED <<disk, spoiled>> /\ \A q \in Procs : ~Takes(q)'
        /\ disk \in [Block -> Content] /\ SUPERBLOCKNUM \in Block
    BY Numbers DEF Reboot, RebootRuined, Restart, Idle, Takes, Kept, Disk
  <1>1. Segments'
    BY <1>0 DEF Reuse, Segments
  <1>2. CASE RebootRuined
    <2>1. UNCHANGED <<filetab, freelst, misfreed, reused>>
      BY <1>2 DEF RebootRuined
    <2>2. \A b \in Block : AtHand(b)' => AtHand(b)
      BY <1>0, <2>1 DEF AtHand
    <2>3. UsedAgain'
      BY <2>1, <2>2 DEF Reuse, UsedAgain
    <2>4. Unmixed'
      BY <1>0, <2>1 DEF Reuse, Unmixed, Unshared
    <2> QED
      BY <1>1, <2>3, <2>4 DEF Reuse
  <1>3. CASE Reboot
    <2>1. PICK s, image : s = disk[SUPERBLOCKNUM].sb_freelst /\ image = disk[DirBlock].files
      OBVIOUS
    <2>2. /\ disk[SUPERBLOCKNUM].kind = "super" /\ disk[DirBlock].kind = "dir"
          /\ s # 0 => disk[s].kind = "free"
          /\ freelst' = IF s = 0 THEN << >> ELSE disk[s].list
          /\ filetab' = sbOpenDirectory(image)
          /\ \/ {SUPERBLOCKNUM, s} \cap spoiled = {} /\ UNCHANGED <<misfreed, reused>>
             \/ reused' = reused \cup {s} \cup Heads(freelst')
      BY <1>3, <2>1 DEF Reboot, Mountable
    <2>3. reused \subseteq reused' /\ s \in Block
      BY <1>0, <2>1, <2>2, Numbers DEF Content
    <2>4. disk[SUPERBLOCKNUM] = Super(s)
      BY <1>0, <2>1, <2>2 DEF Content, Super
    <2>5. ASSUME NEW b \in Block, AtHand(b)' PROVE b \in {s} \cup Heads(freelst')
      <3>1. Super(b) = Super(s) => b = s
        BY DEF Super
      <3> QED
        BY <1>0, <2>4, <2>5, <3>1 DEF AtHand, Heads
    <2>6. ASSUME NEW b \in Block, AtHand(b)', b \in misfreed' PROVE b \in reused'
      <3>1. CASE {SUPERBLOCKNUM, s} \cap spoiled = {} /\ UNCHANGED <<misfreed, reused>>
        <4>1. s # 0 => freelst' # << >> /\ Head(freelst') = s
          BY <2>2, <2>3, <3>1 DEF Reuse, Segments
        <4>2. b = s /\ s # 0
          <5>1. Super(b) = Super(s) => b = s
            BY DEF Super
          <5> QED
            BY <1>0, <2>2, <2>4, <2>6, <4>1, <5>1 DEF AtHand
        <4>3. AtHand(b)
          BY <2>4, <3>1, <4>2 DEF AtHand
        <4> QED
          BY <2>6, <3>1, <4>3 DEF Reuse, UsedAgain
      <3>2. CASE reused' = reused \cup {s} \cup Heads(freelst')
        BY <2>5, <2>6, <3>2
      <3> QED
        BY <2>2, <3>1, <3>2
    <2>7. UsedAgain'
      BY <2>6 DEF UsedAgain
    <2>8. Unmixed'
      <3>1. Unshared(image)
        BY <2>1, <2>2 DEF Reuse, Unmixed
      <3>2. \A fd \in Fd : filetab'[fd].blocknum = image[fd].blocknum
        BY <2>2 DEF sbOpenDirectory, NoFile
      <3>3. Unshared(filetab)' /\ Unshared(disk[DirBlock].files)'
        BY <1>0, <2>1, <2>3, <3>1, <3>2 DEF Unshared
      <3> QED
        BY <3>3 DEF Unmixed
    <2> QED
      BY <1>1, <2>7, <2>8 DEF Reuse
  <1> QED
    BY <1>2, <1>3

LEMMA ReuseStep == ASSUME Kept, Owned, Reuse, [Next]_vars PROVE Reuse'
PROOF
  <1>1. CASE UNCHANGED vars
    <2>1. UNCHANGED <<disk, spoiled, freelst, misfreed, reused, filetab, proc>>
      BY <1>1 DEF vars, driver, blocks
    <2>2. UsedAgain'
      BY <2>1 DEF Reuse, UsedAgain, AtHand, Takes
    <2>3. Segments' /\ Unmixed'
      BY <2>1 DEF Reuse, Segments, Unmixed, Unshared
    <2> QED
      BY <2>2, <2>3 DEF Reuse
  <1>2. ASSUME NEW p \in Procs, GoesOn(p) PROVE Reuse'
    BY <1>2, QuietReuse, ReadQuiet, CreateQuiet, CloseQuiet, LostQuiet, GetReuse, GetWriteReuse,
       ContentWritten, ContentReuse, FreeReuse, FreeWriteReuse DEF GoesOn
  <1>3. ASSUME NEW p \in Procs, Type(p) PROVE Reuse'
    BY <1>3, ReadQuiet, QuietReuse
  <1>4. ASSUME NEW p \in Procs, NEW name \in Name,
               OpenNone(p, name) \/ \E cmd \in {"cat", "new", "delete"} : Command(p, cmd, name)
        PROVE  Reuse'
    BY <1>4, OpenQuiet, QuietReuse
  <1> QED
    BY <1>1, <1>2, <1>3, <1>4, RestartReuse DEF Next

LEMMA ReuseAlways == Spec => []Reuse
PROOF
  <1>1. Init => Reuse
    BY ReuseInit
  <1>2. Kept /\ Owned /\ Reuse /\ [Next]_vars => Reuse'
    BY ReuseStep
  <1> QED
    BY <1>1, <1>2, Invariant, OwnedAlways, PTL DEF Spec

------------------------------------------------------------------------------
(* What is in a file.  As long as the directory's block was not freed by     *)
(* mistake and used again, a command that fills a file has what was typed    *)
(* in memory, one that closes it has it in the file's block too, and a file  *)
(* that was closed has nobody at work on it who writes.                      *)
Texts   == text \in [Fd -> Seq(Procs)]
Filling == {"block", "blockWrite", "type", "closeWrite"}
Closing == {"closed", "dir", "dirWrite"}
Safe    == up = "up" /\ DirBlock \notin reused

Whole(fd)   == "used" \in filetab[fd].state /\ filetab[fd].length = Len(text[fd])
OnBlock(fd) == /\ filetab[fd].blocknum \in Block
               /\ filetab[fd].blocknum \notin Damaged => Holds(filetab[fd].blocknum, text[fd])
InMemory(fd) == Bytes(filetab[fd].data, filetab[fd].length) = text[fd]

Begun(p, fd) ==
    /\ proc[p].at \in Filling \cup Closing => Whole(fd)
    /\ proc[p].at \in Filling => /\ filetab[fd].cursor = filetab[fd].length /\ InMemory(fd)
                                 /\ "dirty" \notin filetab[fd].state => text[fd] = << >>
    /\ proc[p].at \in {"type", "closeWrite"} => filetab[fd].blocknum \in Block
    /\ proc[p].at \in Closing => OnBlock(fd)
    /\ proc[p].at \in {"dir", "dirWrite"} => "open" \notin filetab[fd].state
Stays(fd) ==
    /\ Whole(fd) /\ OnBlock(fd)
    /\ fd \notin misread /\ "open" \in filetab[fd].state /\ filetab[fd].blocknum \notin Damaged =>
         InMemory(fd)
    /\ \A p \in Procs : proc[p].fd = fd => proc[p].at \notin Filling \cup Closing
FileSound(fd) ==
    /\ \A p, q \in Procs : p # q /\ proc[p].fd = fd /\ proc[q].fd = fd => fd \in mixed
    /\ \A p \in Procs : proc[p].fd = fd => proc[p].at \notin {"idle", "create"}
    /\ fd \in kept => Stays(fd)
    /\ \A p \in Procs : proc[p].fd = fd /\ fd \notin mixed => Begun(p, fd)

(* The directory on the disk names the closed files and their blocks.       *)
Imaged(fd) ==
    LET e == disk[DirBlock].files[fd]
    IN  /\ e.used /\ e.length = Len(text[fd]) /\ e.blocknum \in Block
        /\ e.blocknum \notin Damaged => Holds(e.blocknum, text[fd])
        /\ up = "up" => e.blocknum = filetab[fd].blocknum
Image == DirBlock \notin Damaged => disk[DirBlock].kind = "dir" /\ \A fd \in kept : Imaged(fd)

Sound == Texts /\ (Safe => \A fd \in Fd : FileSound(fd)) /\ Image

(* A block that is sound after a step was so before, and holds the same.    *)
StillThere(b) == b \notin Damaged' => b \notin Damaged /\ disk'[b] = disk[b]

LEMMA WriteStays ==
    ASSUME Kept, NEW c, NEW d, Write(c, d), reused \subseteq reused',
           NEW b \in Block, b # d \/ b \in reused
    PROVE  StillThere(b)
PROOF
  <1>1. /\ disk'[b] = IF b = position THEN c ELSE disk[b]
        /\ position = d => spoiled' = spoiled \ {d}
        /\ position # d => spoiled' = spoiled \cup {position, d}
    BY DEF Write, Kept, Disk
  <1> QED
    BY <1>1 DEF StillThere, Damaged

(* The block of a file and the directory's are not touched, but when the    *)
(* file is closed or the directory written.                                 *)
Rests(p) ==
    /\ \A fd \in Fd : filetab[fd].blocknum \in Block /\ ~(proc[p].at = "closeWrite" /\ proc[p].fd = fd) =>
                        StillThere(filetab[fd].blocknum)
    /\ proc[p].at # "dirWrite" => StillThere(DirBlock)
    /\ reused \subseteq reused'

LEMMA QuietRests == ASSUME NEW p, Quiet(p) PROVE Rests(p)
PROOF
  BY DEF Quiet, Rests, StillThere, Damaged

(* The list is written to its own block: if that is a file's or the         *)
(* directory's, it was freed by mistake and is used again.                  *)
LEMMA HeadReused ==
    ASSUME Kept, Owned, Reuse, freelst # << >>, NEW b, b = Head(freelst),
           b = DirBlock \/ \E fd \in Fd : b = filetab[fd].blocknum
    PROVE  b \in reused
PROOF
  <1>1. freelst \in Seq(Block)
    BY DEF Kept, Calls
  <1>2. 1 \in 1 .. Len(freelst) /\ b = freelst[1] /\ b \in Block
    BY <1>1, LenProperties
  <1>3. b \in misfreed
    BY <1>2 DEF Owned, Tables, ApartFrom, Apart
  <1> QED
    BY <1>2, <1>3 DEF Reuse, UsedAgain, AtHand

LEMMA WriteRests ==
    ASSUME Kept, Owned, Reuse, NEW p \in Procs, NEW c, NEW d, Write(c, d), UNCHANGED reused,
           \/ d = SUPERBLOCKNUM
           \/ freelst # << >> /\ d = Head(freelst)
           \/ proc[p].at = "closeWrite" /\ d = filetab[proc[p].fd].blocknum /\ proc[p].fd \in Fd
           \/ proc[p].at = "dirWrite" /\ d = DirBlock
    PROVE  Rests(p)
PROOF
  <1>1. /\ Unshared(filetab) /\ DirBlock # SUPERBLOCKNUM /\ DirBlock \in Block
        /\ NoBlock \notin Block
    BY Numbers DEF Reuse, Unmixed, DirBlock, SUPERBLOCKNUM
  <1>2. ASSUME NEW fd \in Fd, filetab[fd].blocknum \in Block,
               ~(proc[p].at = "closeWrite" /\ proc[p].fd = fd)
        PROVE  StillThere(filetab[fd].blocknum)
    <2>1. PICK b \in Block : b = filetab[fd].blocknum
      BY <1>2
    <2>2. b = d => b \in reused
      <3>1. SUFFICES ASSUME b = d PROVE b \in reused
        OBVIOUS
      <3>2. CASE d = SUPERBLOCKNUM \/ (proc[p].at = "dirWrite" /\ d = DirBlock)
        BY <1>1, <2>1, <3>1, <3>2 DEF Unshared
      <3>3. CASE freelst # << >> /\ d = Head(freelst)
        BY <2>1, <3>1, <3>3, HeadReused
      <3>4. CASE proc[p].at = "closeWrite" /\ d = filetab[proc[p].fd].blocknum /\ proc[p].fd \in Fd
        BY <1>1, <1>2, <2>1, <3>1, <3>4 DEF Unshared
      <3> QED
        BY <3>2, <3>3, <3>4
    <2> QED
      BY <2>1, <2>2, WriteStays
  <1>3. ASSUME proc[p].at # "dirWrite" PROVE StillThere(DirBlock)
    <2>1. DirBlock = d => DirBlock \in reused
      BY <1>1, <1>3, HeadReused DEF Unshared
    <2> QED
      BY <1>1, <2>1, WriteStays
  <1> QED
    BY <1>2, <1>3 DEF Rests

LEMMA BlocksRest ==
    ASSUME Kept, Owned, Reuse, NEW p \in Procs,
           \/ CloseWrite(p) \/ DirWrite(p) \/ GetBlock(p) \/ GetWrite(p)
           \/ FreeBlock(p) \/ FreeWrite(p) \/ FreeSuper(p)
    PROVE  Rests(p)
PROOF
  <1>1. CASE GetBlock(p) \/ FreeBlock(p)
    <2>1. UNCHANGED <<disk, spoiled>> /\ reused \subseteq reused'
      BY <1>1 DEF GetBlock, FreeBlock
    <2> QED
      BY <2>1 DEF Rests, StillThere, Damaged
  <1>2. CASE CloseWrite(p)
    <2>1. /\ proc[p].at = "closeWrite" /\ proc[p].fd \in Fd /\ UNCHANGED reused
          /\ \E c : Write(c, filetab[proc[p].fd].blocknum)
      BY <1>2 DEF CloseWrite, At, Kept, Calls, Fits
    <2> QED
      BY <2>1, WriteRests
  <1>3. CASE DirWrite(p)
    <2>1. proc[p].at = "dirWrite" /\ UNCHANGED reused /\ \E c : Write(c, DirBlock)
      BY <1>3 DEF DirWrite, At
    <2> QED
      BY <2>1, WriteRests
  <1>4. CASE GetWrite(p) \/ FreeSuper(p)
    <2>1. /\ UNCHANGED reused
          /\ \E c : \/ Write(c, SUPERBLOCKNUM)
                    \/ freelst # << >> /\ Write(c, Head(freelst))
      BY <1>4 DEF GetWrite, FreeSuper
    <2> QED
      BY <2>1, WriteRests
  <1>5. CASE FreeWrite(p)
    <2>1. UNCHANGED reused /\ freelst # << >> /\ Write(Free(freelst), Head(freelst))
      BY <1>5 DEF FreeWrite, At, Kept, Calls
    <2> QED
      BY <2>1, WriteRests
  <1> QED
    BY <1>1, <1>2, <1>3, <1>4, <1>5

(* A closed file stays what it is. *)
Keeps(fd) == fd \in kept' => /\ fd \in kept /\ text'[fd] = text[fd]
                             /\ filetab'[fd].blocknum = filetab[fd].blocknum

(* A command is at work on one file, g, or on none. *)
Touches(p, g) ==
    /\ \A q \in Procs \ {p} : proc'[q] = proc[q]
    /\ \A fd \in Fd \ {g} :
        /\ proc[p].fd # fd /\ proc'[p].fd # fd
        /\ filetab'[fd] = filetab[fd] /\ text'[fd] = text[fd]
        /\ fd \in kept' <=> fd \in kept
        /\ fd \in mixed' <=> fd \in mixed
        /\ fd \in misread' <=> fd \in misread

(* What it may do there. *)
Joins(p, fd) ==
    /\ \A q \in Procs \ {p} : proc[q].fd = fd => fd \in mixed'
    /\ proc'[p].fd = fd => proc'[p].at \notin {"idle", "create"}
    /\ proc'[p].fd = fd /\ fd \notin mixed' => Begun(p, fd)'
Moves(p, fd) ==
    /\ Joins(p, fd) /\ Keeps(fd)
    /\ fd \in kept' =>
        /\ Whole(fd)'
        /\ fd \notin misread' /\ "open" \in filetab'[fd].state /\ filetab'[fd].blocknum \notin Damaged' =>
             InMemory(fd)'
        /\ proc'[p].fd = fd => proc'[p].at \notin Filling \cup Closing

LEMMA BlockStays ==
    ASSUME NEW fd \in Fd, OnBlock(fd), StillThere(filetab[fd].blocknum), text'[fd] = text[fd],
           filetab'[fd].blocknum = filetab[fd].blocknum
    PROVE  OnBlock(fd)'
PROOF
  <1>1. PICK b, t : b = filetab[fd].blocknum /\ t = text[fd]
    OBVIOUS
  <1>2. b \in Block /\ (b \notin Damaged => Holds(b, t)) /\ StillThere(b)
    BY <1>1 DEF OnBlock
  <1>3. b \notin Damaged' => Holds(b, t)'
    BY <1>2 DEF StillThere, Holds
  <1> QED
    BY <1>1, <1>2, <1>3 DEF OnBlock, Holds

LEMMA FileStays ==
    ASSUME NEW p \in Procs, NEW g, Touches(p, g), Rests(p), NEW fd \in Fd \ {g}, FileSound(fd)
    PROVE  FileSound(fd)' /\ Keeps(fd)
PROOF
  <1>1. /\ filetab'[fd] = filetab[fd] /\ text'[fd] = text[fd]
        /\ fd \in kept' <=> fd \in kept
        /\ fd \in mixed' <=> fd \in mixed
        /\ fd \in misread' <=> fd \in misread
        /\ \A q \in Procs : \/ q # p /\ proc'[q] = proc[q]
                            \/ proc[q].fd # fd /\ proc'[q].fd # fd
    BY DEF Touches
  <1>2. OnBlock(fd) => OnBlock(fd)' /\ StillThere(filetab[fd].blocknum)
    <2>1. OnBlock(fd) => StillThere(filetab[fd].blocknum)
      BY DEF Touches, Rests, OnBlock
    <2> QED
      BY <1>1, <2>1, BlockStays
  <1>3. Stays(fd) => Stays(fd)'
    BY <1>1, <1>2 DEF Stays, Whole, InMemory, StillThere
  <1>4. ASSUME NEW q \in Procs, proc[q].fd = fd, q # p, Begun(q, fd) PROVE Begun(q, fd)'
    BY <1>1, <1>2, <1>4 DEF Begun, Whole, InMemory
  <1>5. FileSound(fd)'
    BY <1>1, <1>3, <1>4 DEF FileSound
  <1> QED
    BY <1>1, <1>5 DEF Keeps

LEMMA FileMoves ==
    ASSUME NEW p \in Procs, NEW g \in Fd, \A q \in Procs \ {p} : proc'[q] = proc[q],
           FileSound(g), Joins(p, g), g \in kept' => Stays(g)'
    PROVE  FileSound(g)'
PROOF
  <1>1. \A q \in Procs \ {p} : proc[q].fd = g => g \in mixed'
    BY DEF Joins
  <1>2. \A q, r \in Procs : q # r /\ proc'[q].fd = g /\ proc'[r].fd = g => g \in mixed'
    BY <1>1
  <1>3. \A q \in Procs : proc'[q].fd = g => proc'[q].at \notin {"idle", "create"}
    BY DEF FileSound, Joins
  <1>4. \A q \in Procs : proc'[q].fd = g /\ g \notin mixed' => Begun(q, g)'
    BY <1>1 DEF Joins
  <1> QED
    BY <1>2, <1>3, <1>4 DEF FileSound

LEMMA Moving ==
    ASSUME NEW p \in Procs, NEW g, Touches(p, g), Rests(p), \A fd \in Fd : FileSound(fd),
           g \in Fd => Moves(p, g)
    PROVE  \A fd \in Fd : FileSound(fd)' /\ Keeps(fd)
PROOF
  <1>1. \A fd \in Fd \ {g} : FileSound(fd)' /\ Keeps(fd)
    BY FileStays
  <1>2. ASSUME g \in Fd PROVE FileSound(g)' /\ Keeps(g)
    <2>1. Moves(p, g) /\ FileSound(g) /\ (\A q \in Procs \ {p} : proc'[q] = proc[q])
      BY <1>2 DEF Touches
    <2>2. ASSUME g \in kept' PROVE Stays(g)'
      <3>1. Stays(g) /\ text'[g] = text[g] /\ filetab'[g].blocknum = filetab[g].blocknum
        BY <1>2, <2>1, <2>2 DEF Moves, Keeps, FileSound
      <3>2. OnBlock(g)'
        <4>1. ~(proc[p].at = "closeWrite" /\ proc[p].fd = g)
          BY <3>1 DEF Stays, Filling
        <4> QED
          BY <1>2, <3>1, <4>1, BlockStays DEF Rests, Stays, OnBlock
      <3>3. \A q \in Procs : proc'[q].fd = g => proc'[q].at \notin Filling \cup Closing
        BY <2>1, <2>2, <3>1 DEF Moves, Stays
      <3> QED
        BY <2>1, <2>2, <3>2, <3>3 DEF Moves, Stays
    <2> QED
      BY <1>2, <2>1, <2>2, FileMoves DEF Moves
  <1> QED
    BY <1>1, <1>2

(* A command on its way has a file, to itself unless it is mixed; who fills *)
(* or closes a file that is not is at work on one that is not kept.         *)
LEMMA Working ==
    ASSUME Kept, \A fd \in Fd : FileSound(fd), NEW p \in Procs, NEW g, g = proc[p].fd,
           proc[p].at \notin {"idle", "create"}
    PROVE  /\ g \in Fd
           /\ \A q \in Procs \ {p} : proc[q].fd = g => g \in mixed
           /\ g \notin mixed => Begun(p, g)
           /\ g \in kept => Stays(g)
           /\ proc[p].at \in Filling \cup Closing => g \notin kept
PROOF
  <1>1. g \in Fd
    BY DEF Kept, Calls, Fits
  <1> QED
    BY <1>1 DEF FileSound, Stays

LEMMA NotYet ==
    ASSUME Kept, \A fd \in Fd : FileSound(fd), NEW p \in Procs, proc[p].at \in {"idle", "create"}
    PROVE  \A fd \in Fd : proc[p].fd # fd
PROOF
  BY DEF FileSound

LEMMA Works ==
    ASSUME Kept, \A fd \in Fd : FileSound(fd), NEW p \in Procs, Rests(p),
           proc[p].at \notin {"idle", "create"}, NEW g, g = proc[p].fd,
           NEW c, proc' = [proc EXCEPT ![p] = c], c.fd \in {g, NoFd},
           c.fd = g => c.at \notin {"idle", "create"},
           \A fd \in Fd \ {g} : /\ filetab'[fd] = filetab[fd] /\ text'[fd] = text[fd]
                                /\ fd \in kept' <=> fd \in kept
                                /\ fd \in misread' <=> fd \in misread,
           UNCHANGED mixed,
           c.fd = g /\ g \notin mixed /\ Begun(p, g) => Begun(p, g)',
           g \in kept' =>
               /\ Keeps(g) /\ (c.fd = g => c.at \notin Filling \cup Closing)
               /\ Whole(g)'
               /\ g \notin misread' /\ "open" \in filetab'[g].state /\ filetab'[g].blocknum \notin Damaged' =>
                    InMemory(g)'
    PROVE  \A fd \in Fd : FileSound(fd)' /\ Keeps(fd)
PROOF
  <1>1. proc'[p] = c /\ \A q \in Procs \ {p} : proc'[q] = proc[q]
    BY DEF Kept, Calls
  <1>2. g \in Fd /\ NoFd \notin Fd
    BY Working, Numbers
  <1>3. Touches(p, g)
    BY <1>1, <1>2 DEF Touches
  <1>4. Joins(p, g)
    BY <1>1, <1>2, Working DEF Joins
  <1>5. Moves(p, g)
    BY <1>1, <1>4 DEF Moves, Keeps
  <1> QED
    BY <1>3, <1>5, Moving

(* Who fills or closes a file need only look at what it has begun. *)
LEMMA Fills ==
    ASSUME Kept, \A fd \in Fd : FileSound(fd), NEW p \in Procs, Rests(p),
           proc[p].at \in Filling \cup Closing, NEW g, g = proc[p].fd,
           NEW c, proc' = [proc EXCEPT ![p] = c], c.fd \in {g, NoFd},
           c.fd = g => c.at \notin {"idle", "create"},
           \A fd \in Fd \ {g} : filetab'[fd] = filetab[fd] /\ text'[fd] = text[fd],
           UNCHANGED <<kept, mixed, misread>>,
           c.fd = g /\ g \notin mixed /\ Begun(p, g) => Begun(p, g)'
    PROVE  \A fd \in Fd : FileSound(fd)' /\ Keeps(fd)
PROOF
  <1>1. g \notin kept /\ proc[p].at \notin {"idle", "create"}
    BY Working DEF Filling, Closing
  <1> QED
    BY <1>1, Works

(* How the bytes of a file begin, and grow. *)
LEMMA NoBytes == ASSUME NEW d PROVE Bytes(d, 0) = << >>
PROOF
  BY DEF Bytes

LEMMA BytesGrow ==
    ASSUME NEW d \in Chars, NEW n \in Nat, n < DISKBLOCKLEN, NEW c \in Procs, NEW t \in Seq(Procs),
           Bytes(d, n) = t, Len(t) = n
    PROVE  Bytes([i \in DOMAIN d |-> IF i = n THEN c ELSE d[i]], n + 1) = Append(t, c)
PROOF
  <1>1. PICK e : e = [i \in DOMAIN d |-> IF i = n THEN c ELSE d[i]]
    OBVIOUS
  <1>2. PICK u, a : u = Bytes(e, n + 1) /\ a = Append(t, c)
    OBVIOUS
  <1>3. DISKBLOCKLEN \in Nat /\ DOMAIN d = 0 .. DISKBLOCKLEN - 1
    BY Numbers DEF Chars
  <1>4. DOMAIN u = 1 .. n + 1 /\ \A i \in 1 .. n + 1 : u[i] = e[i - 1]
    BY <1>2 DEF Bytes
  <1>5. /\ a \in Seq(Procs) /\ Len(a) = n + 1 /\ a[n + 1] = c
        /\ \A i \in 1 .. n : a[i] = t[i]
    BY <1>2, AppendProperties
  <1>6. \A i \in 1 .. n : t[i] = d[i - 1]
    BY DEF Bytes
  <1>7. ASSUME NEW i \in 1 .. n + 1 PROVE u[i] = a[i]
    <2>1. i - 1 \in DOMAIN d /\ e[i - 1] = IF i - 1 = n THEN c ELSE d[i - 1]
      BY <1>1, <1>3
    <2>2. u[i] = e[i - 1]
      BY <1>4
    <2>3. CASE i = n + 1
      <3>1. i - 1 = n
        BY <2>3
      <3> QED
        BY <1>5, <2>1, <2>2, <2>3, <3>1
    <2>4. CASE i # n + 1
      <3>1. i \in 1 .. n /\ i - 1 # n
        BY <2>4
      <3> QED
        BY <1>5, <1>6, <2>1, <2>2, <3>1
    <2> QED
      BY <2>3, <2>4
  <1>8. /\ a = [i \in 1 .. n + 1 |-> a[i]]
        /\ u = [i \in 1 .. n + 1 |-> u[i]]
    <2>1. a = [i \in 1 .. n + 1 |-> a[i]]
      BY <1>5, LenProperties
    <2>2. u = [i \in 1 .. n + 1 |-> u[i]]
      BY <1>2 DEF Bytes
    <2> QED
      BY <2>1, <2>2
  <1> QED
    BY <1>1, <1>2, <1>7, <1>8

(* A creation gets its block. *)
LEMMA GetSound ==
    ASSUME Kept, Owned, Reuse, \A fd \in Fd : FileSound(fd), NEW p \in Procs,
           GetBlock(p) \/ GetWrite(p)
    PROVE  \A fd \in Fd : FileSound(fd)' /\ Keeps(fd)
PROOF
  <1>0. proc \in [Procs -> Call] /\ filetab \in [Fd -> Entry] /\ Rests(p)
    BY BlocksRest DEF Kept, Calls, Shape
  <1>1. PICK g : g = proc[p].fd
    OBVIOUS
  <1>2. CASE GetBlock(p)
    <2> DEFINE c == [proc[p] EXCEPT !.at = "blockWrite", !.block = Last(freelst)]
    <2>1. /\ proc[p].at = "block" /\ proc' = [proc EXCEPT ![p] = c]
          /\ UNCHANGED <<filetab, text, kept, mixed, misread>>
      BY <1>2 DEF GetBlock, At, files
    <2>2. c.at = "blockWrite" /\ c.fd = g
      BY <1>0, <1>1 DEF Call
    <2> HIDE DEF c
    <2>3. proc'[p] = c /\ proc[p].at \in Filling
      BY <1>0, <2>1 DEF Filling
    <2>4. Begun(p, g) => Begun(p, g)'
      BY <2>1, <2>2, <2>3 DEF Begun, Whole, InMemory, Filling, Closing
    <2> QED
      BY <1>0, <1>1, <2>1, <2>2, <2>3, <2>4, Fills
  <1>3. CASE GetWrite(p)
    <2> DEFINE c == [proc[p] EXCEPT !.at = "type", !.block = NoBlock]
    <2>1. /\ proc[p].at = "blockWrite" /\ proc' = [proc EXCEPT ![p] = c]
          /\ filetab' = [filetab EXCEPT ![g] = [filetab[g] EXCEPT !.blocknum = proc[p].block]]
          /\ UNCHANGED <<text, kept, mixed, misread>>
      BY <1>1, <1>3 DEF GetWrite, At, files
    <2>2. c.at = "type" /\ c.fd = g /\ g \in Fd /\ proc[p].block \in Block
      BY <1>0, <1>1, <2>1 DEF Call, Kept, Calls, Fits
    <2> HIDE DEF c
    <2>3. proc'[p] = c /\ proc[p].at \in Filling
      BY <1>0, <2>1 DEF Filling
    <2>4. /\ filetab'[g].blocknum = proc[p].block /\ filetab'[g].state = filetab[g].state
          /\ filetab'[g].length = filetab[g].length /\ filetab'[g].cursor = filetab[g].cursor
          /\ filetab'[g].data = filetab[g].data
          /\ \A fd \in Fd \ {g} : filetab'[fd] = filetab[fd]
      BY <1>0, <2>1, <2>2 DEF Entry
    <2>5. Begun(p, g) => Begun(p, g)'
      BY <2>1, <2>2, <2>3, <2>4 DEF Begun, Whole, InMemory, Filling, Closing
    <2> QED
      BY <1>0, <1>1, <2>1, <2>2, <2>3, <2>4, <2>5, Fills
  <1> QED
    BY <1>2, <1>3

(* What is typed at the end of a file is put there. *)
LEMMA TypeSound ==
    ASSUME Kept, Texts, \A fd \in Fd : FileSound(fd), NEW p \in Procs, Type(p)
    PROVE  \A fd \in Fd : FileSound(fd)' /\ Keeps(fd)
PROOF
  <1>0. proc \in [Procs -> Call] /\ filetab \in [Fd -> Entry] /\ Rests(p)
    BY ReadQuiet, QuietRests DEF Kept, Calls, Shape
  <1>1. PICK g, f : g = proc[p].fd /\ f = filetab[g]
    OBVIOUS
  <1>2. PICK d : d = [i \in DOMAIN f.data |-> IF i = f.cursor THEN p ELSE f.data[i]]
    OBVIOUS
  <1>3. /\ proc[p].at = "type" /\ f.cursor < DISKBLOCKLEN
        /\ filetab' = [filetab EXCEPT ![g] =
             [f EXCEPT !.data = d, !.length = IF f.length = f.cursor THEN f.length + 1 ELSE f.length,
                       !.cursor = f.cursor + 1, !.state = f.state \cup {"dirty"}]]
        /\ text' = [text EXCEPT ![g] = Append(text[g], p)]
        /\ UNCHANGED <<kept, mixed, misread, proc>>
    BY <1>1, <1>2 DEF Type, Puts, At
  <1>4. g \in Fd /\ f \in Entry /\ text[g] \in Seq(Procs)
    BY <1>0, <1>1, <1>3 DEF Kept, Calls, Fits, Texts
  <1>5. /\ \A fd \in Fd \ {g} : filetab'[fd] = filetab[fd] /\ text'[fd] = text[fd]
        /\ text'[g] = Append(text[g], p)
        /\ filetab'[g].data = d /\ filetab'[g].blocknum = f.blocknum
        /\ filetab'[g].length = IF f.length = f.cursor THEN f.length + 1 ELSE f.length
        /\ filetab'[g].cursor = f.cursor + 1 /\ filetab'[g].state = f.state \cup {"dirty"}
    BY <1>0, <1>3, <1>4 DEF Texts, Entry
  <1>6. ASSUME Begun(p, g) PROVE Begun(p, g)'
    <2>1. /\ "used" \in f.state /\ f.length = Len(text[g]) /\ f.cursor = f.length
          /\ Bytes(f.data, f.length) = text[g] /\ f.blocknum \in Block
      BY <1>1, <1>3, <1>6 DEF Begun, Filling, Whole, InMemory
    <2>2. f.length \in Nat /\ f.data \in Chars
      BY <1>4, Numbers DEF Entry
    <2>3. Len(Append(text[g], p)) = f.length + 1
      BY <1>4, <2>1, AppendProperties
    <2>4. Bytes(d, f.length + 1) = Append(text[g], p)
      <3>1. PICK n, e, t : n = f.length /\ e = f.data /\ t = text[g]
        OBVIOUS
      <3>2. /\ n \in Nat /\ n < DISKBLOCKLEN /\ e \in Chars /\ t \in Seq(Procs)
            /\ Bytes(e, n) = t /\ Len(t) = n
        BY <1>3, <1>4, <2>1, <2>2, <3>1
      <3>3. d = [i \in DOMAIN e |-> IF i = n THEN p ELSE e[i]]
        BY <1>2, <2>1, <3>1
      <3>4. Bytes(d, n + 1) = Append(t, p)
        BY <3>2, <3>3, BytesGrow
      <3> QED
        BY <3>1, <3>4
    <2>5. Whole(g)' /\ InMemory(g)' /\ filetab'[g].cursor = filetab'[g].length
      BY <1>5, <2>1, <2>3, <2>4 DEF Whole, InMemory
    <2>6. proc'[p].at = "type" /\ "dirty" \in filetab'[g].state /\ filetab'[g].blocknum \in Block
      BY <1>3, <1>5, <2>1
    <2> QED
      BY <2>5, <2>6 DEF Begun, Filling, Closing
  <1>7. PICK c : c = proc[p]
    OBVIOUS
  <1>8. /\ proc' = [proc EXCEPT ![p] = c] /\ c.fd = g /\ c.at \notin {"idle", "create"}
        /\ proc[p].at \in Filling
    BY <1>0, <1>1, <1>3, <1>7 DEF Filling
  <1>9. /\ \A fd \in Fd \ {g} : filetab'[fd] = filetab[fd] /\ text'[fd] = text[fd]
        /\ UNCHANGED <<kept, mixed, misread>>
        /\ proc[p].at \in Filling \cup Closing /\ g = proc[p].fd
        /\ c.fd = g /\ g \notin mixed /\ Begun(p, g) => Begun(p, g)'
    BY <1>1, <1>3, <1>5, <1>6, <1>8
  <1> QED
    BY <1>0, <1>8, <1>9, Fills

(* A file is closed.  One that is not dirty is empty. *)
LEMMA CloseSound ==
    ASSUME Kept, Owned, Reuse, \A fd \in Fd : FileSound(fd), NEW p \in Procs,
           Close(p) \/ CloseWrite(p) \/ CloseClear(p) \/ CloseDir(p)
    PROVE  \A fd \in Fd : FileSound(fd)' /\ Keeps(fd)
PROOF
  <1>0. proc \in [Procs -> Call] /\ filetab \in [Fd -> Entry] /\ Rests(p)
    BY CloseQuiet, QuietRests, BlocksRest DEF Kept, Calls, Shape
  <1>1. PICK g : g = proc[p].fd
    OBVIOUS
  <1>2. ASSUME NEW place, Goto(p, place)
        PROVE  /\ proc' = [proc EXCEPT ![p] = [proc[p] EXCEPT !.at = place]]
               /\ [proc[p] EXCEPT !.at = place].at = place
               /\ [proc[p] EXCEPT !.at = place].fd = g
               /\ proc'[p].at = place
    BY <1>0, <1>1, <1>2 DEF Goto, Call
  <1>3. UNCHANGED <<text, kept, mixed, misread>>
    BY DEF Close, CloseWrite, CloseClear, CloseDir, files
  <1>4. ASSUME NEW place \in {"closeWrite", "closed", "dir", "dirWrite"}, Goto(p, place),
               proc[p].at \in Filling \cup Closing,
               \A fd \in Fd \ {g} : filetab'[fd] = filetab[fd], Begun(p, g) => Begun(p, g)'
        PROVE  \A fd \in Fd : FileSound(fd)' /\ Keeps(fd)
    <2> DEFINE c == [proc[p] EXCEPT !.at = place]
    <2>1. proc' = [proc EXCEPT ![p] = c] /\ c.fd = g /\ c.at \notin {"idle", "create"}
      BY <1>2, <1>4
    <2> HIDE DEF c
    <2> QED
      BY <1>0, <1>1, <1>3, <1>4, <2>1, Fills
  <1>5. CASE Close(p)
    <2>1. proc[p].at = "type" /\ filetab' = filetab
      BY <1>5 DEF Close, At
    <2>2. CASE End(p)
      <3>1. proc' = [proc EXCEPT ![p] = Idle] /\ Idle.fd = NoFd /\ g \in Fd /\ NoFd \notin Fd
        BY <1>1, <2>1, <2>2, Numbers DEF End, Idle, Kept, Calls, Fits
      <3>2. proc[p].at \in Filling
        BY <2>1 DEF Filling
      <3> QED
        BY <1>0, <1>1, <1>3, <2>1, <3>1, <3>2, Fills
    <2>3. CASE Goto(p, "closeWrite")
      <3>1. proc'[p].at = "closeWrite" /\ proc[p].at \in Filling
        BY <1>2, <2>1, <2>3 DEF Filling
      <3>2. Begun(p, g) => Begun(p, g)'
        BY <1>3, <2>1, <3>1 DEF Begun, Whole, InMemory, Filling, Closing
      <3> QED
        BY <1>4, <2>1, <2>3, <3>1, <3>2
    <2>4. CASE Goto(p, "closed") /\ "dirty" \notin filetab[g].state
      <3>1. proc'[p].at = "closed" /\ proc[p].at \in Filling
        BY <1>2, <2>1, <2>4 DEF Filling
      <3>2. Begun(p, g) => text[g] = << >> /\ Whole(g) /\ filetab[g].blocknum \in Block
        BY <2>1, <2>4 DEF Begun, Filling
      <3>3. Begun(p, g) => Begun(p, g)'
        BY <1>3, <2>1, <3>1, <3>2 DEF Begun, Whole, OnBlock, Holds, Filling, Closing
      <3> QED
        BY <1>4, <2>1, <2>4, <3>1, <3>3
    <2> QED
      BY <1>1, <1>5, <2>2, <2>3, <2>4 DEF Close
  <1>6. CASE CloseWrite(p)
    <2>1. /\ proc[p].at = "closeWrite" /\ filetab' = filetab /\ Goto(p, "closed")
          /\ Write(Data(filetab[g].data), filetab[g].blocknum)
      BY <1>1, <1>6 DEF CloseWrite, At
    <2>2. proc'[p].at = "closed" /\ proc[p].at \in Filling
      BY <1>2, <2>1 DEF Filling
    <2>3. ASSUME Begun(p, g) PROVE Begun(p, g)'
      <3>1. Whole(g) /\ InMemory(g) /\ filetab[g].blocknum \in Block
        BY <2>1, <2>3 DEF Begun, Filling
      <3>2. PICK b, d : b = filetab[g].blocknum /\ d = filetab[g].data
        OBVIOUS
      <3>3. b \notin Damaged' => disk'[b] = Data(d)
        BY <2>1, <3>1, <3>2 DEF Write, Damaged, Kept, Disk
      <3>4. Bytes(d, Len(text[g])) = text[g] /\ Data(d).kind = "data" /\ Data(d).bytes = d
        BY <3>1, <3>2 DEF Whole, InMemory, Data
      <3>5. OnBlock(g)'
        BY <1>3, <2>1, <3>1, <3>2, <3>3, <3>4 DEF OnBlock, Holds
      <3>6. Whole(g)'
        BY <1>3, <2>1, <3>1 DEF Whole
      <3> QED
        BY <2>2, <3>5, <3>6 DEF Begun, Filling, Closing
    <2> QED
      BY <1>4, <2>1, <2>2, <2>3
  <1>7. CASE CloseClear(p)
    <2>1. /\ proc[p].at = "closed" /\ Goto(p, "dir")
          /\ filetab' = [filetab EXCEPT ![g] = [filetab[g] EXCEPT !.state = @ \ {"dirty", "open"}]]
      BY <1>1, <1>7 DEF CloseClear, At
    <2>2. proc'[p].at = "dir" /\ proc[p].at \in Closing /\ g \in Fd
      BY <1>1, <1>2, <2>1 DEF Closing, Kept, Calls, Fits
    <2>3. /\ filetab'[g].blocknum = filetab[g].blocknum /\ filetab'[g].length = filetab[g].length
          /\ filetab'[g].state = filetab[g].state \ {"dirty", "open"}
          /\ \A fd \in Fd \ {g} : filetab'[fd] = filetab[fd]
      BY <1>0, <2>1, <2>2 DEF Entry
    <2>4. OnBlock(g) => OnBlock(g)'
      BY <1>0, <1>1, <1>3, <2>1, <2>2, <2>3, BlockStays DEF Rests, OnBlock
    <2>5. Begun(p, g) => Begun(p, g)'
      BY <1>3, <2>2, <2>3, <2>4 DEF Begun, Whole, Filling, Closing
    <2> QED
      BY <1>4, <2>1, <2>2, <2>3, <2>5
  <1>8. CASE CloseDir(p)
    <2>1. proc[p].at = "dir" /\ Goto(p, "dirWrite") /\ filetab' = filetab
      BY <1>8 DEF CloseDir, At
    <2>2. proc'[p].at = "dirWrite" /\ proc[p].at \in Closing /\ g \in Fd
      BY <1>1, <1>2, <2>1 DEF Closing, Kept, Calls, Fits
    <2>3. OnBlock(g) => OnBlock(g)'
      BY <1>0, <1>1, <1>3, <2>1, <2>2, BlockStays DEF Rests, OnBlock
    <2>4. Begun(p, g) => Begun(p, g)'
      BY <1>3, <2>1, <2>2, <2>3 DEF Begun, Whole, Filling, Closing
    <2> QED
      BY <1>4, <2>1, <2>2, <2>4
  <1> QED
    BY <1>5, <1>6, <1>7, <1>8

(* A command that begins shares the file, if others are at work on it. *)
LEMMA OpenSound ==
    ASSUME Kept, \A fd \in Fd : FileSound(fd), NEW p \in Procs, NEW name \in Name,
           OpenNone(p, name) \/ \E cmd \in {"cat", "new", "delete"} : Command(p, cmd, name)
    PROVE  \A fd \in Fd : FileSound(fd)' /\ Keeps(fd)
PROOF
  <1>0. proc \in [Procs -> Call] /\ filetab \in [Fd -> Entry] /\ Rests(p) /\ NoFd \notin Fd
    BY OpenQuiet, QuietRests, Numbers DEF Kept, Calls, Shape
  <1>1. ASSUME NEW cmd, NEW place, NEW g, Start(p, cmd, name, place, g)
        PROVE  /\ \A q \in Procs \ {p} : proc'[q] = proc[q]
               /\ proc'[p].at = place /\ proc'[p].fd = g /\ proc[p].at = "idle"
               /\ UNCHANGED <<text, kept, misread, spoiled, reused>>
               /\ \A fd \in Fd : proc[p].fd # fd
    <2>1. proc[p].at = "idle" /\ UNCHANGED <<text, kept, misread, spoiled, reused>>
      BY <1>1 DEF Start, At, blocks
    <2>2. /\ \A q \in Procs \ {p} : proc'[q] = proc[q]
          /\ proc'[p].at = place /\ proc'[p].fd = g
      BY <1>0, <1>1 DEF Start, Idle
    <2> QED
      BY <2>1, <2>2, NotYet
  <1>2. CASE OpenNone(p, name)
    <2>1. Start(p, "new", name, "create", NoFd) /\ UNCHANGED <<filetab, mixed>>
      BY <1>2 DEF OpenNone
    <2>2. Touches(p, NoFd)
      BY <1>0, <1>1, <2>1 DEF Touches
    <2> QED
      BY <1>0, <2>2, Moving
  <1>3. ASSUME NEW cmd \in {"cat", "new", "delete"}, NEW place \in {"read", "print", "delete"},
               NEW g \in Fd, Start(p, cmd, name, place, g), Mix(p, g), "used" \in filetab[g].state,
               \A fd \in Fd \ {g} : filetab'[fd] = filetab[fd],
               filetab'[g].state = filetab[g].state, filetab'[g].length = filetab[g].length,
               filetab'[g].blocknum = filetab[g].blocknum,
               filetab'[g].data = filetab[g].data \/ "open" \notin filetab[g].state
        PROVE  \A fd \in Fd : FileSound(fd)' /\ Keeps(fd)
    <2>1. /\ \A q \in Procs \ {p} : proc[q].fd = g => g \in mixed'
          /\ \A fd \in Fd \ {g} : fd \in mixed' <=> fd \in mixed
      BY <1>3 DEF Mix, Shared
    <2>2. Touches(p, g)
      BY <1>1, <1>3, <2>1 DEF Touches
    <2>3. proc'[p].at \notin Filling \cup Closing /\ proc'[p].at \notin {"idle", "create"}
      BY <1>1, <1>3 DEF Filling, Closing
    <2>4. Joins(p, g)
      BY <2>1, <2>3 DEF Joins, Begun, Filling, Closing
    <2>5. Keeps(g)
      BY <1>1, <1>3 DEF Keeps
    <2>6. ASSUME g \in kept'
          PROVE  /\ Whole(g)'
                 /\ g \notin misread' /\ "open" \in filetab'[g].state /\ filetab'[g].blocknum \notin Damaged' =>
                      InMemory(g)'
      <3>1. Stays(g) /\ UNCHANGED <<text, misread, spoiled, reused>>
        BY <1>1, <1>3, <2>6 DEF FileSound
      <3> QED
        BY <1>3, <3>1 DEF Stays, Whole, InMemory, Damaged
    <2>7. Moves(p, g)
      BY <2>3, <2>4, <2>5, <2>6 DEF Moves
    <2> QED
      BY <1>0, <2>2, <2>7, Moving
  <1>4. ASSUME NEW cmd \in {"cat", "new", "delete"}, Command(p, cmd, name)
        PROVE  \A fd \in Fd : FileSound(fd)' /\ Keeps(fd)
    <2>1. PICK g : g = Min(Matches(name))
      OBVIOUS
    <2>2. Matches(name) # {} /\ Matches(name) \subseteq Fd
      BY <1>4 DEF Command, OpenAgain, OpenSeek, Matches
    <2>3. g \in Fd /\ "used" \in filetab[g].state
      BY <2>1, <2>2, FirstFile DEF Matches
    <2>4. CASE OpenAgain(p, cmd, name)
      <3>1. PICK place : place = IF cmd = "cat" THEN "print" ELSE "delete"
        OBVIOUS
      <3>2. /\ Start(p, cmd, name, place, g) /\ Mix(p, g) /\ place \in {"read", "print", "delete"}
            /\ filetab' = filetab \/ filetab' = [filetab EXCEPT ![g] = Rewound(filetab[g])]
        BY <2>1, <2>4, <3>1 DEF OpenAgain
      <3>3. PICK f : f = Rewound(filetab[g])
        OBVIOUS
      <3>4. /\ f.state = filetab[g].state /\ f.length = filetab[g].length
            /\ f.blocknum = filetab[g].blocknum /\ f.data = filetab[g].data
        BY <1>0, <2>3, <3>3 DEF Rewound, Entry
      <3>5. /\ \A fd \in Fd \ {g} : filetab'[fd] = filetab[fd]
            /\ filetab'[g].state = filetab[g].state /\ filetab'[g].length = filetab[g].length
            /\ filetab'[g].blocknum = filetab[g].blocknum /\ filetab'[g].data = filetab[g].data
        BY <1>0, <2>3, <3>2, <3>3, <3>4
      <3> QED
        BY <1>3, <2>3, <3>2, <3>5
    <2>5. CASE OpenSeek(p, cmd, name)
      <3>1. /\ Start(p, cmd, name, "read", g) /\ Mix(p, g) /\ "open" \notin filetab[g].state
            /\ filetab' = [filetab EXCEPT ![g] = [filetab[g] EXCEPT !.data = Unread]]
        BY <2>1, <2>5 DEF OpenSeek
      <3>2. /\ \A fd \in Fd \ {g} : filetab'[fd] = filetab[fd]
            /\ filetab'[g].state = filetab[g].state /\ filetab'[g].length = filetab[g].length
            /\ filetab'[g].blocknum = filetab[g].blocknum
        BY <1>0, <2>3, <3>1 DEF Entry
      <3> QED
        BY <1>3, <2>3, <3>1, <3>2
    <2> QED
      BY <1>4, <2>4, <2>5 DEF Command
  <1> QED
    BY <1>2, <1>4

(* What is read of a file that was closed is what was typed, if the block   *)
(* is the file's own and has not been lost.                                 *)
LEMMA ReadSound ==
    ASSUME Kept, Texts, \A fd \in Fd : FileSound(fd), NEW p \in Procs, OpenRead(p) \/ PrintChar(p)
    PROVE  \A fd \in Fd : FileSound(fd)' /\ Keeps(fd)
PROOF
  <1>0. proc \in [Procs -> Call] /\ filetab \in [Fd -> Entry] /\ Rests(p) /\ NoFd \notin Fd
    BY ReadQuiet, QuietRests, Numbers DEF Kept, Calls, Shape
  <1>1. PICK g, f : g = proc[p].fd /\ f = filetab[g]
    OBVIOUS
  <1>2. CASE OpenRead(p)
    <2>1. PICK d : d = IF disk[position].kind = "data" THEN disk[position].bytes ELSE Unread
      OBVIOUS
    <2>2. PICK c : c = CASE proc[p].cmd = "cat"    -> [Idle EXCEPT !.at = "print", !.fd = g]
                         [] proc[p].cmd = "delete" -> [Idle EXCEPT !.at = "delete", !.fd = g]
                         [] OTHER                  -> Idle
      OBVIOUS
    <2>3. /\ proc[p].at = "read" /\ proc' = [proc EXCEPT ![p] = c]
          /\ filetab' = [filetab EXCEPT ![g] = [f EXCEPT !.data = d, !.state = f.state \cup {"open"},
                                                         !.cursor = 0]]
          /\ misread' = IF position = f.blocknum THEN misread \ {g} ELSE misread \cup {g}
          /\ UNCHANGED <<disk, text, kept, mixed, spoiled, reused>>
      BY <1>1, <1>2, <2>1, <2>2 DEF OpenRead, At, driver, blocks
    <2>4. g \in Fd /\ f \in Entry
      BY <1>0, <1>1, <2>3 DEF Kept, Calls, Fits
    <2>5. \/ c.at \in {"print", "delete"} /\ c.fd = g
          \/ c.at = "idle" /\ c.fd = NoFd
      BY <2>2 DEF Idle
    <2>6. /\ \A fd \in Fd \ {g} : filetab'[fd] = filetab[fd]
          /\ filetab'[g].data = d /\ filetab'[g].state = f.state \cup {"open"}
          /\ filetab'[g].length = f.length /\ filetab'[g].blocknum = f.blocknum
      BY <1>0, <2>3, <2>4 DEF Entry
    <2>7. proc'[p] = c
      BY <1>0, <2>3
    <2>8. c.fd = g => Begun(p, g)'
      BY <1>0, <2>4, <2>5, <2>7 DEF Begun, Filling, Closing
    <2>9. ASSUME g \in kept'
          PROVE  /\ Keeps(g) /\ Whole(g)'
                 /\ g \notin misread' /\ filetab'[g].blocknum \notin Damaged' => InMemory(g)'
      <3>1. Stays(g) /\ g \in kept
        BY <2>3, <2>4, <2>9 DEF FileSound
      <3>2. Keeps(g) /\ Whole(g)'
        BY <1>1, <2>3, <2>6, <3>1 DEF Keeps, Stays, Whole
      <3>3. ASSUME g \notin misread', f.blocknum \notin Damaged' PROVE Bytes(d, f.length) = text[g]
        <4>1. position = f.blocknum /\ f.blocknum \notin Damaged
          BY <2>3, <3>3 DEF Damaged
        <4>2. f.length = Len(text[g]) /\ Holds(f.blocknum, text[g]) /\ text[g] \in Seq(Procs)
          BY <1>1, <2>4, <3>1, <4>1 DEF Stays, Whole, OnBlock, Texts
        <4>3. CASE text[g] = << >>
          <5>1. f.length = 0
            BY <4>2, <4>3
          <5> QED
            BY <4>3, <5>1, NoBytes
        <4>4. CASE text[g] # << >>
          BY <2>1, <4>1, <4>2, <4>4 DEF Holds
        <4> QED
          BY <4>3, <4>4
      <3> QED
        BY <2>3, <2>6, <3>2, <3>3 DEF InMemory
    <2>10. /\ \A fd \in Fd \ {g} : /\ filetab'[fd] = filetab[fd] /\ text'[fd] = text[fd]
                                   /\ fd \in kept' <=> fd \in kept
                                   /\ fd \in misread' <=> fd \in misread
           /\ c.fd \in {g, NoFd} /\ (c.fd = g => c.at \notin {"idle", "create"} \cup Filling \cup Closing)
           /\ proc[p].at \notin {"idle", "create"} /\ UNCHANGED mixed
           /\ proc' = [proc EXCEPT ![p] = c]
      BY <1>0, <2>3, <2>4, <2>5, <2>6 DEF Filling, Closing
    <2> QED
      BY <1>0, <1>1, <2>8, <2>9, <2>10, Works
  <1>3. CASE PrintChar(p)
    <2>1. /\ proc[p].at = "print" /\ UNCHANGED <<text, kept, mixed, misread, spoiled, reused>>
          /\ \/ proc' = [proc EXCEPT ![p] = Idle] /\ filetab' = filetab
             \/ proc' = proc /\ filetab' = [filetab EXCEPT ![g] = [f EXCEPT !.cursor = f.cursor + 1]]
      BY <1>1, <1>3 DEF PrintChar, At, End, files, blocks
    <2>2. PICK c : proc' = [proc EXCEPT ![p] = c] /\ (c = Idle \/ c = proc[p])
      BY <1>0, <2>1
    <2>3. g \in Fd
      BY <1>0, <1>1, <2>1 DEF Kept, Calls, Fits
    <2>4. /\ \A fd \in Fd \ {g} : filetab'[fd] = filetab[fd]
          /\ filetab'[g].data = f.data /\ filetab'[g].state = f.state
          /\ filetab'[g].length = f.length /\ filetab'[g].blocknum = f.blocknum
      BY <1>0, <1>1, <2>1, <2>3 DEF Entry
    <2>5. \/ c.at = "idle" /\ c.fd = NoFd
          \/ c.at = "print" /\ c.fd = g
      BY <1>1, <2>1, <2>2 DEF Idle
    <2>6. proc'[p] = c
      BY <1>0, <2>2
    <2>7. c.fd = g => Begun(p, g)'
      BY <1>0, <2>3, <2>5, <2>6 DEF Begun, Filling, Closing
    <2>8. ASSUME g \in kept'
          PROVE  /\ Keeps(g) /\ Whole(g)'
                 /\ g \notin misread' /\ "open" \in filetab'[g].state /\ filetab'[g].blocknum \notin Damaged' =>
                      InMemory(g)'
      <3>1. Stays(g) /\ g \in kept
        BY <2>1, <2>3, <2>8 DEF FileSound
      <3> QED
        BY <1>1, <2>1, <2>4, <3>1 DEF Keeps, Stays, Whole, InMemory, Damaged
    <2>9. /\ \A fd \in Fd \ {g} : /\ filetab'[fd] = filetab[fd] /\ text'[fd] = text[fd]
                                  /\ fd \in kept' <=> fd \in kept
                                  /\ fd \in misread' <=> fd \in misread
          /\ c.fd \in {g, NoFd} /\ (c.fd = g => c.at \notin {"idle", "create"} \cup Filling \cup Closing)
          /\ proc[p].at \notin {"idle", "create"} /\ UNCHANGED mixed
          /\ proc' = [proc EXCEPT ![p] = c]
      BY <1>0, <2>1, <2>2, <2>3, <2>4, <2>5 DEF Filling, Closing
    <2> QED
      BY <1>0, <1>1, <2>7, <2>8, <2>9, Works
  <1> QED
    BY <1>2, <1>3

(* A file that is created is empty, and nobody else's unless mixed. *)
LEMMA CreateSound ==
    ASSUME Kept, Texts, \A fd \in Fd : FileSound(fd), NEW p \in Procs, CreateNone(p) \/ Create(p)
    PROVE  \A fd \in Fd : FileSound(fd)' /\ Keeps(fd)
PROOF
  <1>0. proc \in [Procs -> Call] /\ filetab \in [Fd -> Entry] /\ Rests(p) /\ NoFd \notin Fd
    BY CreateQuiet, QuietRests, Numbers DEF Kept, Calls, Shape
  <1>1. proc[p].at = "create" /\ \A fd \in Fd : proc[p].fd # fd
    BY NotYet DEF CreateNone, Create, At
  <1>2. CASE CreateNone(p)
    <2>1. proc' = [proc EXCEPT ![p] = Idle] /\ UNCHANGED <<filetab, text, kept, mixed, misread>>
      BY <1>2 DEF CreateNone, End, files
    <2>2. proc'[p].fd = NoFd /\ \A q \in Procs \ {p} : proc'[q] = proc[q]
      BY <1>0, <2>1 DEF Idle
    <2>3. Touches(p, NoFd)
      BY <1>0, <1>1, <2>1, <2>2 DEF Touches
    <2> QED
      BY <1>0, <2>3, Moving
  <1>3. CASE Create(p)
    <2>1. PICK g : g = Min(Slots)
      OBVIOUS
    <2>2. Slots # {} /\ Slots \subseteq Fd
      BY <1>3 DEF Create, Slots
    <2>3. g \in Fd /\ filetab[g].state = FILE_FREE
      BY <2>1, <2>2, FirstFile DEF Slots
    <2>4. PICK head : \/ proc' = [proc EXCEPT ![p] = Idle]
                      \/ proc' = [proc EXCEPT ![p] = [Idle EXCEPT !.at = "block", !.fd = g, !.block = head]]
      BY <1>3, <2>1 DEF Create
    <2>5. PICK x, name : filetab' = [filetab EXCEPT ![g] =
                [NoFile EXCEPT !.state = {"used", "open"}, !.name = name, !.blocknum = x]]
      BY <1>3, <2>1 DEF Create
    <2>6. /\ text' = [text EXCEPT ![g] = << >>] /\ UNCHANGED kept
          /\ mixed' = IF Shared(p, g) THEN mixed \cup {g} ELSE mixed \ {g}
          /\ misread' = misread \ {g}
      BY <1>3, <2>1 DEF Create
    <2>7. /\ \A q \in Procs \ {p} : proc'[q] = proc[q]
          /\ \/ proc'[p].at = "idle" /\ proc'[p].fd = NoFd
             \/ proc'[p].at = "block" /\ proc'[p].fd = g
      <3>1. PICK c : /\ proc' = [proc EXCEPT ![p] = c]
                     /\ \/ c.at = "idle" /\ c.fd = NoFd
                        \/ c.at = "block" /\ c.fd = g
        <4> DEFINE c == [Idle EXCEPT !.at = "block", !.fd = g, !.block = head]
        <4>1. c.at = "block" /\ c.fd = g /\ Idle.at = "idle" /\ Idle.fd = NoFd
          BY DEF Idle
        <4> HIDE DEF c
        <4>2. proc' = [proc EXCEPT ![p] = Idle] \/ proc' = [proc EXCEPT ![p] = c]
          BY <2>4 DEF c
        <4> QED
          BY <4>1, <4>2
      <3> QED
        BY <1>0, <3>1
    <2>8. /\ \A fd \in Fd \ {g} : filetab'[fd] = filetab[fd] /\ text'[fd] = text[fd]
          /\ text'[g] = << >> /\ filetab'[g].state = {"used", "open"}
          /\ filetab'[g].length = 0 /\ filetab'[g].cursor = 0 /\ filetab'[g].data = Unread
      BY <1>0, <2>3, <2>5, <2>6 DEF Texts, NoFile
    <2>9. Touches(p, g)
      BY <1>0, <1>1, <2>6, <2>7, <2>8 DEF Touches
    <2>10. Whole(g)' /\ InMemory(g)'
      BY <2>8, NoBytes DEF Whole, InMemory
    <2>11. proc'[p].fd = g => Begun(p, g)'
      BY <1>0, <2>3, <2>7, <2>8, <2>10 DEF Begun, Filling, Closing
    <2>12. Joins(p, g)
      BY <1>0, <2>3, <2>6, <2>7, <2>11 DEF Joins, Shared
    <2>13. g \notin kept'
      BY <2>3, <2>6 DEF FileSound, Stays, Whole, FILE_FREE
    <2>14. Moves(p, g)
      BY <2>12, <2>13 DEF Moves, Keeps
    <2> QED
      BY <1>0, <2>9, <2>14, Moving
  <1> QED
    BY <1>2, <1>3

(* A file that is deleted is not kept, and what is freed in its place       *)
(* touches no file that is.                                                 *)
LEMMA DeleteSound ==
    ASSUME Kept, Owned, Reuse, \A fd \in Fd : FileSound(fd), NEW p \in Procs,
           Delete(p) \/ FreeBlock(p) \/ FreeWrite(p) \/ FreeSuper(p)
    PROVE  \A fd \in Fd : FileSound(fd)' /\ Keeps(fd)
PROOF
  <1>0. proc \in [Procs -> Call] /\ filetab \in [Fd -> Entry] /\ Rests(p) /\ NoFd \notin Fd
    BY CloseQuiet, QuietRests, BlocksRest, Numbers DEF Kept, Calls, Shape
  <1>1. PICK g : g = proc[p].fd
    OBVIOUS
  <1>2. /\ proc[p].at \in {"delete", "free", "freeWrite", "freeSuper"}
        /\ UNCHANGED <<text, mixed, misread>>
    BY DEF Delete, FreeBlock, FreeWrite, FreeSuper, At, files
  <1>3. g \in Fd
    BY <1>1, <1>2 DEF Kept, Calls, Fits
  <1>4. PICK place : place \in {"free", "freeWrite", "freeSuper"} /\ (End(p) \/ Goto(p, place))
    BY DEF Delete, FreeBlock, FreeWrite, FreeSuper, FreeEnd
  <1>5. PICK c : /\ proc' = [proc EXCEPT ![p] = c]
                 /\ \/ c.at = "idle" /\ c.fd = NoFd
                    \/ c.at = place /\ c.fd = g
    <2>1. CASE End(p)
      <3>1. proc' = [proc EXCEPT ![p] = Idle] /\ Idle.at = "idle" /\ Idle.fd = NoFd
        BY <2>1 DEF End, Idle
      <3> QED
        BY <3>1
    <2>2. CASE Goto(p, place)
      <3> DEFINE c == [proc[p] EXCEPT !.at = place]
      <3>1. proc' = [proc EXCEPT ![p] = c] /\ c.at = place /\ c.fd = g
        BY <1>0, <1>1, <2>2 DEF Goto, Call
      <3> QED
        BY <3>1
    <2> QED
      BY <1>4, <2>1, <2>2
  <1>6. proc'[p] = c
    BY <1>0, <1>5
  <1>7. c.fd = g => Begun(p, g)'
    BY <1>0, <1>3, <1>4, <1>5, <1>6 DEF Begun, Filling, Closing
  <1>8. c.fd \in {g, NoFd} /\ (c.fd = g => c.at \notin {"idle", "create"} \cup Filling \cup Closing)
    BY <1>0, <1>3, <1>4, <1>5 DEF Filling, Closing
  <1>9. CASE Delete(p)
    <2>1. /\ kept' = kept \ {g}
          /\ filetab' = [filetab EXCEPT ![g] = [filetab[g] EXCEPT !.state = FILE_FREE,
                                                    !.length = 0, !.cursor = 0]]
      BY <1>1, <1>9 DEF Delete
    <2>2. /\ \A fd \in Fd \ {g} : filetab'[fd] = filetab[fd] /\ (fd \in kept' <=> fd \in kept)
          /\ g \notin kept' /\ proc[p].at \notin {"idle", "create"}
      BY <1>0, <1>2, <2>1
    <2> QED
      BY <1>0, <1>1, <1>2, <1>5, <1>7, <1>8, <2>2, Works
  <1>10. CASE FreeBlock(p) \/ FreeWrite(p) \/ FreeSuper(p)
    <2>1. UNCHANGED <<filetab, kept>> /\ reused \subseteq reused'
      BY <1>0, <1>10 DEF FreeBlock, FreeWrite, FreeSuper, files, Rests
    <2>2. ASSUME g \in kept'
          PROVE  /\ Keeps(g) /\ Whole(g)'
                 /\ g \notin misread' /\ "open" \in filetab'[g].state /\ filetab'[g].blocknum \notin Damaged' =>
                      InMemory(g)'
      <3>1. Stays(g) /\ g \in kept
        BY <1>3, <2>1, <2>2 DEF FileSound
      <3>2. StillThere(filetab[g].blocknum)
        BY <1>0, <1>2, <1>3, <3>1 DEF Rests, Stays, OnBlock
      <3> QED
        BY <1>2, <2>1, <3>1, <3>2 DEF Keeps, Stays, Whole, InMemory, StillThere
    <2>3. proc[p].at \notin {"idle", "create"}
      BY <1>2
    <2> QED
      BY <1>0, <1>1, <1>2, <1>5, <1>7, <1>8, <2>1, <2>2, <2>3, Works
  <1> QED
    BY <1>9, <1>10

(* A close that returns has kept the file. *)
LEMMA DirectorySound ==
    ASSUME Kept, Owned, Reuse, \A fd \in Fd : FileSound(fd), NEW p \in Procs, DirWrite(p)
    PROVE  \A fd \in Fd : FileSound(fd)'
PROOF
  <1>0. proc \in [Procs -> Call] /\ Rests(p) /\ NoFd \notin Fd
    BY BlocksRest, Numbers DEF Kept, Calls
  <1>1. PICK g : g = proc[p].fd
    OBVIOUS
  <1>2. /\ proc[p].at = "dirWrite" /\ proc' = [proc EXCEPT ![p] = Idle]
        /\ UNCHANGED <<filetab, text, mixed, misread>>
        /\ kept' = IF g \in mixed THEN kept ELSE kept \cup {g}
    BY <1>1 DEF DirWrite, At, End
  <1>3. /\ g \in Fd /\ (\A q \in Procs \ {p} : proc[q].fd = g => g \in mixed)
        /\ (g \notin mixed => Begun(p, g)) /\ g \notin kept
    BY <1>1, <1>2, Working DEF Closing
  <1>4. proc'[p].fd = NoFd /\ \A q \in Procs \ {p} : proc'[q] = proc[q]
    BY <1>0, <1>2 DEF Idle
  <1>5. Touches(p, g)
    BY <1>0, <1>1, <1>2, <1>4 DEF Touches
  <1>6. Joins(p, g)
    BY <1>0, <1>2, <1>3, <1>4 DEF Joins
  <1>7. ASSUME g \in kept' PROVE Stays(g)'
    <2>1. g \notin mixed
      BY <1>2, <1>3, <1>7
    <2>2. Whole(g) /\ OnBlock(g) /\ "open" \notin filetab[g].state
      BY <1>2, <1>3, <2>1 DEF Begun, Closing
    <2>3. OnBlock(g)'
      BY <1>0, <1>2, <1>3, <2>2, BlockStays DEF Rests, OnBlock
    <2>4. \A q \in Procs : proc'[q].fd # g
      BY <1>0, <1>3, <1>4, <2>1
    <2> QED
      BY <1>2, <2>2, <2>3, <2>4 DEF Stays, Whole
  <1> QED
    BY <1>0, <1>3, <1>4, <1>5, <1>6, <1>7, FileStays, FileMoves

(* The directory on the disk is right as long as nothing closes, and when   *)
(* it is written.                                                           *)
LEMMA ImageKept ==
    ASSUME Kept', Image, up = "up", StillThere(DirBlock),
           DirBlock \notin Damaged' => \A fd \in Fd : FileSound(fd)' /\ Keeps(fd)
    PROVE  Image'
PROOF
  <1>1. SUFFICES ASSUME DirBlock \notin Damaged'
                 PROVE  disk'[DirBlock].kind = "dir" /\ \A fd \in kept' : Imaged(fd)'
    BY DEF Image
  <1>2. disk'[DirBlock] = disk[DirBlock] /\ disk[DirBlock].kind = "dir" /\ \A fd \in kept : Imaged(fd)
    BY <1>1 DEF StillThere, Image
  <1>3. ASSUME NEW fd \in kept' PROVE Imaged(fd)'
    <2>1. fd \in Fd
      BY <1>3 DEF Kept, Sets
    <2>2. /\ fd \in kept /\ text'[fd] = text[fd] /\ filetab'[fd].blocknum = filetab[fd].blocknum
          /\ OnBlock(fd)'
      BY <1>1, <1>3, <2>1 DEF FileSound, Keeps, Stays
    <2>3. PICK e : e = disk[DirBlock].files[fd]
      OBVIOUS
    <2>4. /\ e.used /\ e.length = Len(text[fd]) /\ e.blocknum \in Block
          /\ e.blocknum = filetab[fd].blocknum
      BY <1>2, <2>2, <2>3 DEF Imaged
    <2>5. PICK b : b = e.blocknum
      OBVIOUS
    <2>6. b = filetab'[fd].blocknum /\ (b \notin Damaged' => Holds(b, text[fd])')
      BY <2>2, <2>4, <2>5 DEF OnBlock, Holds
    <2> QED
      BY <1>2, <2>2, <2>3, <2>4, <2>5, <2>6 DEF Imaged, Holds
  <1> QED
    BY <1>2, <1>3

LEMMA ImageWritten ==
    ASSUME Kept, Kept', Write(Dir(filetab), DirBlock), UNCHANGED <<filetab, reused>>,
           DirBlock \notin Damaged' => \A fd \in Fd : FileSound(fd)'
    PROVE  Image'
PROOF
  <1>1. SUFFICES ASSUME DirBlock \notin Damaged'
                 PROVE  disk'[DirBlock].kind = "dir" /\ \A fd \in kept' : Imaged(fd)'
    BY DEF Image
  <1>2. disk'[DirBlock] = Dir(filetab)
    BY <1>1, Numbers DEF Write, Damaged, Kept, Disk
  <1>3. ASSUME NEW fd \in kept' PROVE Imaged(fd)'
    <2>1. fd \in Fd
      BY <1>3 DEF Kept, Sets
    <2>2. Whole(fd)' /\ OnBlock(fd)'
      BY <1>1, <1>3, <2>1 DEF FileSound, Stays
    <2>3. PICK e : e = disk'[DirBlock].files[fd]
      OBVIOUS
    <2>4. /\ e.used = ("used" \in filetab[fd].state) /\ e.length = filetab[fd].length
          /\ e.blocknum = filetab[fd].blocknum
      BY <1>2, <2>1, <2>3 DEF Dir
    <2>5. PICK b : b = e.blocknum
      OBVIOUS
    <2>6. b = filetab'[fd].blocknum /\ b \in Block /\ (b \notin Damaged' => Holds(b, text[fd])')
      BY <2>2, <2>4, <2>5 DEF OnBlock, Holds
    <2> QED
      BY <2>2, <2>3, <2>4, <2>5, <2>6 DEF Imaged, Holds, Whole
  <1> QED
    BY <1>2, <1>3 DEF Dir

(* A restart finds the files that were kept, if the directory's block is    *)
(* right, and keeps none if it was missed.                                  *)
LEMMA RestartSound == ASSUME Kept, Kept', Sound, Reboot \/ RebootRuined PROVE Sound'
PROOF
  <1>0. NoFd \notin Fd
    BY Numbers
  <1>1. /\ UNCHANGED <<disk, spoiled>> /\ \A p \in Procs : proc'[p].fd = NoFd
        /\ kept' = IF DirBlock \in spoiled THEN {} ELSE kept
        /\ text' = [fd \in Fd |-> IF fd \in kept' THEN text[fd] ELSE << >>]
        /\ reused \subseteq reused'
    BY DEF Reboot, RebootRuined, Restart, Idle
  <1>2. Texts'
    BY <1>1 DEF Sound, Texts
  <1>3. kept' \subseteq Fd /\ (kept' # {} => kept' = kept /\ DirBlock \notin spoiled)
    BY <1>1 DEF Kept, Sets
  <1>4. ASSUME DirBlock \notin reused', NEW fd \in kept'
        PROVE  /\ fd \in Fd /\ text'[fd] = text[fd] /\ disk[DirBlock].kind = "dir" /\ Imaged(fd)
               /\ DirBlock \notin Damaged
    BY <1>1, <1>3, <1>4 DEF Sound, Image, Damaged
  <1>5. ASSUME Reboot, DirBlock \notin reused', NEW fd \in Fd
        PROVE  /\ FileSound(fd)'
               /\ fd \in kept' => filetab'[fd].blocknum = disk[DirBlock].files[fd].blocknum
    <2>1. PICK e : e = disk[DirBlock].files[fd]
      OBVIOUS
    <2>2. /\ filetab'[fd].state = IF e.used THEN {"used"} ELSE FILE_FREE
          /\ filetab'[fd].length = e.length /\ filetab'[fd].blocknum = e.blocknum
      BY <1>5, <2>1 DEF Reboot, sbOpenDirectory, NoFile
    <2>3. ASSUME fd \in kept' PROVE Stays(fd)'
      <3>1. PICK b : b = e.blocknum
        OBVIOUS
      <3>2. /\ e.used /\ e.length = Len(text[fd]) /\ b \in Block /\ text'[fd] = text[fd]
            /\ b \notin Damaged => Holds(b, text[fd])
        BY <1>4, <1>5, <2>1, <2>3, <3>1 DEF Imaged
      <3>3. b \notin Damaged' => Holds(b, text[fd])'
        BY <1>1, <3>2 DEF Damaged, Holds
      <3>4. Whole(fd)' /\ OnBlock(fd)'
        BY <2>2, <3>1, <3>2, <3>3 DEF Whole, OnBlock, Holds
      <3>5. "open" \notin filetab'[fd].state
        BY <2>2 DEF FILE_FREE
      <3> QED
        BY <1>0, <1>1, <3>4, <3>5 DEF Stays
    <2> QED
      BY <1>0, <1>1, <2>1, <2>2, <2>3 DEF FileSound
  <1>6. Safe' => \A fd \in Fd : FileSound(fd)'
    <2>1. RebootRuined => up' # "up"
      BY DEF RebootRuined
    <2> QED
      BY <1>5, <2>1 DEF Safe
  <1>7. Image'
    <2>1. SUFFICES ASSUME DirBlock \notin Damaged'
                   PROVE  disk'[DirBlock].kind = "dir" /\ \A fd \in kept' : Imaged(fd)'
      BY DEF Image
    <2>2. DirBlock \notin Damaged /\ DirBlock \notin reused' /\ disk[DirBlock].kind = "dir"
      BY <1>1, <2>1 DEF Damaged, Sound, Image
    <2>3. ASSUME NEW fd \in kept' PROVE Imaged(fd)'
      <3>1. fd \in Fd /\ text'[fd] = text[fd] /\ Imaged(fd)
        BY <1>4, <2>2, <2>3
      <3>2. up' = "up" => filetab'[fd].blocknum = disk[DirBlock].files[fd].blocknum
        <4>1. RebootRuined => up' # "up"
          BY DEF RebootRuined
        <4> QED
          BY <1>5, <2>2, <2>3, <3>1, <4>1
      <3>3. PICK e, b : e = disk[DirBlock].files[fd] /\ b = e.blocknum
        OBVIOUS
      <3>4. /\ e.used /\ e.length = Len(text[fd]) /\ b \in Block
            /\ b \notin Damaged => Holds(b, text[fd])
        BY <3>1, <3>3 DEF Imaged
      <3>5. b \notin Damaged' => Holds(b, text[fd])'
        BY <1>1, <3>1, <3>4 DEF Damaged, Holds
      <3> QED
        BY <1>1, <3>1, <3>2, <3>3, <3>4, <3>5 DEF Imaged, Holds
    <2> QED
      BY <1>1, <2>2, <2>3
  <1> QED
    BY <1>2, <1>6, <1>7 DEF Sound

LEMMA WorkSound ==
    ASSUME Kept, Kept', Owned, Reuse, Sound, NEW p \in Procs,
           GoesOn(p) \/ Type(p) \/ \E name \in Name :
               OpenNone(p, name) \/ \E cmd \in {"cat", "new", "delete"} : Command(p, cmd, name)
    PROVE  Sound'
PROOF
  <1>1. up = "up" /\ Rests(p)
    <2>1. up = "up"
      BY DEF GoesOn, OpenRead, PrintChar, CreateNone, Create, GetBlock, GetAstray, GetWrite, Close,
         CloseWrite, CloseClear, CloseDir, CloseAstray, DirWrite, Delete, FreeBlock, FreeWrite,
         FreeSuper, Type, OpenNone, Command, OpenAgain, OpenSeek, Start, At
    <2> QED
      BY <2>1, BlocksRest, QuietRests, OpenQuiet, ReadQuiet, CreateQuiet, CloseQuiet, LostQuiet
      DEF GoesOn
  <1>2. Texts'
    <2>1. CASE Type(p) \/ Create(p)
      <3>1. \E fd : text' = [text EXCEPT ![fd] = Append(text[fd], p)] \/ text' = [text EXCEPT ![fd] = << >>]
        BY <2>1 DEF Type, Create
      <3>2. \A fd \in Fd : Append(text[fd], p) \in Seq(Procs) /\ << >> \in Seq(Procs)
        BY AppendProperties, EmptySeq DEF Sound, Texts
      <3> QED
        BY <3>1, <3>2 DEF Sound, Texts
    <2>2. CASE ~Type(p) /\ ~Create(p)
      <3>1. UNCHANGED text
        BY <2>2 DEF GoesOn, OpenRead, PrintChar, CreateNone, GetBlock, GetAstray, GetWrite, Close,
           CloseWrite, CloseClear, CloseDir, CloseAstray, DirWrite, Delete, FreeBlock, FreeWrite,
           FreeSuper, OpenNone, Command, OpenAgain, OpenSeek, Start, Lost, files
      <3> QED
        BY <3>1 DEF Sound, Texts
    <2> QED
      BY <2>1, <2>2
  <1>3. CASE GetAstray(p) \/ CloseAstray(p)
    <2>1. /\ up' # "up" /\ UNCHANGED <<disk, filetab, text, kept, spoiled, reused>>
      BY <1>3 DEF GetAstray, CloseAstray, Lost, driver, files, blocks
    <2>2. Image'
      BY <2>1 DEF Sound, Image, Imaged, Holds, Damaged
    <2> QED
      BY <1>2, <2>1, <2>2 DEF Sound, Safe
  <1>4. CASE DirWrite(p)
    <2>1. /\ Write(Dir(filetab), DirBlock) /\ UNCHANGED <<filetab, reused, up>>
      BY <1>4 DEF DirWrite
    <2>2. DirBlock \notin reused => \A fd \in Fd : FileSound(fd)'
      BY <1>1, <1>4, DirectorySound DEF Sound, Safe
    <2>3. Image'
      BY <2>1, <2>2, ImageWritten DEF Damaged
    <2> QED
      BY <1>2, <2>1, <2>2, <2>3 DEF Sound, Safe
  <1>5. CASE ~GetAstray(p) /\ ~CloseAstray(p) /\ ~DirWrite(p)
    <2>1. DirBlock \notin reused => \A fd \in Fd : FileSound(fd)' /\ Keeps(fd)
      <3>1. SUFFICES ASSUME DirBlock \notin reused PROVE \A fd \in Fd : FileSound(fd)' /\ Keeps(fd)
        OBVIOUS
      <3>2. Texts /\ \A fd \in Fd : FileSound(fd)
        BY <1>1, <3>1 DEF Sound, Safe
      <3> QED
        BY <1>5, <3>2, GetSound, TypeSound, CloseSound, OpenSound, ReadSound, CreateSound, DeleteSound
        DEF GoesOn
    <2>2. reused \subseteq reused'
      BY <1>1 DEF Rests
    <2>3. proc[p].at # "dirWrite"
      BY <1>5 DEF GoesOn, OpenRead, PrintChar, CreateNone, Create, GetBlock, GetWrite, Close,
         CloseWrite, CloseClear, CloseDir, Delete, FreeBlock, FreeWrite,
         FreeSuper, Type, OpenNone, Command, OpenAgain, OpenSeek, Start, At
    <2>4. Image'
      BY <1>1, <2>1, <2>2, <2>3, ImageKept DEF Rests, Sound, Damaged
    <2> QED
      BY <1>1, <1>2, <2>1, <2>2, <2>4 DEF Sound, Safe
  <1> QED
    BY <1>3, <1>4, <1>5

LEMMA SoundStep == ASSUME Kept, Kept', Owned, Reuse, Sound, [Next]_vars PROVE Sound'
PROOF
  <1>1. CASE UNCHANGED vars
    <2>1. UNCHANGED <<disk, spoiled, reused, filetab, proc, text, kept, mixed, misread, up>>
      BY <1>1 DEF vars, driver, blocks, files
    <2>2. Texts' /\ Image'
      BY <2>1 DEF Sound, Texts, Image, Imaged, Holds, Damaged
    <2>3. ASSUME NEW fd \in Fd, FileSound(fd) PROVE FileSound(fd)'
      BY <2>1, <2>3 DEF FileSound, Stays, Begun, Whole, OnBlock, InMemory, Holds, Damaged
    <2> QED
      BY <2>1, <2>2, <2>3 DEF Sound, Safe
  <1> QED
    BY <1>1, RestartSound, WorkSound DEF Next

LEMMA SoundInit == ASSUME Init PROVE Sound
PROOF
  <1>1. /\ text = [fd \in Fd |-> << >>] /\ kept = {} /\ proc = [p \in Procs |-> Idle]
        /\ disk[DirBlock] = Dir(filetab)
    BY Numbers DEF Init, SUPERBLOCKNUM, DirBlock, FirstSegment
  <1>2. \A p \in Procs, fd \in Fd : proc[p].fd # fd
    BY <1>1, Numbers DEF Idle
  <1>3. \A fd \in Fd : FileSound(fd)
    BY <1>1, <1>2 DEF FileSound
  <1>4. Texts
    BY <1>1, EmptySeq DEF Texts
  <1>5. Image
    BY <1>1 DEF Image, Dir
  <1> QED
    BY <1>3, <1>4, <1>5 DEF Sound

LEMMA SoundAlways == Spec => []Sound
PROOF
  <1>1. Init => Sound
    BY SoundInit
  <1>2. Kept /\ Kept' /\ Owned /\ Reuse /\ Sound /\ [Next]_vars => Sound'
    BY SoundStep
  <1> QED
    BY <1>1, <1>2, Invariant, OwnedAlways, ReuseAlways, PTL DEF Spec

------------------------------------------------------------------------------
(* Every variable keeps its type; the cursor of a file never passes its     *)
(* length, nor its length the block, whatever commands share it.            *)
THEOREM TypesKept == Spec => []TypeOK
PROOF
  <1>1. ASSUME Kept PROVE TypeOK
    <2>1. /\ position \in Block /\ freelst \in Seq(Block)
          /\ dirlock \in {0, 1} /\ freelock \in {0, 1}
          /\ kept \cup mixed \cup misread \subseteq Fd
      BY <1>1 DEF Kept, Disk, Calls, Locks, Guarded, Sets
    <2>2. \A p \in Procs : proc[p].fd \in Fd \cup {NoFd}
      BY <1>1 DEF Kept, Calls, Call
    <2>3. ASSUME NEW fd \in Fd
          PROVE  LET f == filetab[fd]
                 IN  /\ f.state \subseteq Flags /\ f.name \in Name \cup {NoName}
                     /\ f.blocknum \in Block \cup {NoBlock}
                     /\ 0 <= f.cursor /\ f.cursor <= f.length /\ f.length <= DISKBLOCKLEN
                     /\ f.data \in [0 .. DISKBLOCKLEN - 1 -> Procs \cup {Junk}]
      <3>1. filetab[fd] \in Entry /\ filetab[fd].cursor <= filetab[fd].length
        BY <1>1 DEF Kept, Shape
      <3> QED
        BY <3>1, Numbers DEF Entry, States, Chars
    <2> QED
      BY <2>1, <2>2, <2>3 DEF TypeOK
  <1> QED
    BY <1>1, Invariant, PTL

(* Whoever is in neither critical section has given the locks back.         *)
THEOREM LocksAreGivenBack == Spec => []LocksGivenBack
PROOF
  <1>1. Kept => LocksGivenBack
    <2>1. ASSUME Kept, AtRest PROVE Inside(Freeing) = {} /\ Inside(Writing) = {}
      BY <2>1 DEF AtRest, Inside, Freeing, Writing
    <2> QED
      BY <2>1 DEF Kept, Locks, Guarded, LocksGivenBack
  <1> QED
    BY <1>1, Invariant, PTL

(* Two commands are never both behind wait() on the free list's lock, or on *)
(* the directory's.                                                         *)
OneEach == \A p, q \in Procs, places \in {Freeing, Writing} :
               proc[p].at \in places /\ proc[q].at \in places => p = q

(* The two semaphores exclude, whatever commands and restarts come.         *)
THEOREM OneInside == Spec => []OneEach
PROOF
  <1>1. ASSUME Kept, NEW p \in Procs, NEW q \in Procs, NEW places \in {Freeing, Writing},
               proc[p].at \in places, proc[q].at \in places
        PROVE  p = q
    <2>1. p \in Inside(places) /\ q \in Inside(places)
      BY <1>1 DEF Inside
    <2>2. \E r \in Procs : Inside(places) \subseteq {r}
      <3>1. CASE places = Freeing
        BY <1>1, <3>1 DEF Kept, Locks, Guarded
      <3>2. CASE places = Writing
        BY <1>1, <3>2 DEF Kept, Locks, Guarded
      <3> QED
        BY <1>1, <3>1, <3>2
    <2> QED
      BY <2>1, <2>2
  <1>2. Kept => OneEach
    BY <1>1 DEF OneEach
  <1> QED
    BY <1>2, Invariant, PTL

(* A block has one owner at most, a file, a creation or the free list, and  *)
(* the superblock and the directory have none, until the number of a        *)
(* deleted file is taken for that of a block, or a restart reads a list     *)
(* that a write has missed.                                                 *)
THEOREM BlocksStayApart == Spec => []BlocksApart
PROOF
  <1>1. ASSUME Kept, Owned, NEW b \in Block \ misfreed
        PROVE  Places(b) + (IF b <= DirBlock THEN 1 ELSE 0) <= 1
    <2> DEFINE has == {i \in DOMAIN freelst : freelst[i] = b}
               taking == {p \in Procs : proc[p].at = "blockWrite" /\ proc[p].block = b}
    <2>1. freelst \in Seq(Block) /\ DOMAIN freelst = 1 .. Len(freelst) /\ b # NoBlock
      BY <1>1, Numbers, LenProperties DEF Kept, Calls
    <2>2. Apart(freelst, filetab, misfreed)
      BY <1>1 DEF Owned, Tables, ApartFrom
    <2>3. \A p \in taking : Fresh(b, freelst, filetab, misfreed)
      BY <1>1, <2>1, ApartAppended DEF Owned, Tables, ApartFrom, Takes
    <2>4. \A x, y \in Owners(b) : x = y
      BY <1>1, <2>1, <2>2 DEF Apart, Owners
    <2>5. \A x, y \in has : x = y
      BY <1>1, <2>1, <2>2 DEF Apart
    <2>6. \A x, y \in taking : x = y
      BY <1>1, Alone DEF Freeing
    <2>7. Owners(b) = {} \/ has = {}
      BY <1>1, <2>1, <2>2 DEF Apart, Owners
    <2>8. taking = {} \/ (Owners(b) = {} /\ has = {})
      BY <1>1, <2>1, <2>3 DEF Fresh, Owners
    <2>9. b <= DirBlock => Owners(b) = {} /\ has = {} /\ taking = {}
      <3>1. SUFFICES ASSUME b <= DirBlock PROVE Owners(b) = {} /\ has = {} /\ taking = {}
        OBVIOUS
      <3>2. b \in {SUPERBLOCKNUM, DirBlock}
        BY <3>1, FileSizes DEF Block, SUPERBLOCKNUM, DirBlock
      <3> QED
        BY <1>1, <2>1, <2>2, <2>3, <3>2 DEF Apart, Fresh, Owners
    <2>10. Places(b) = Cardinality(Owners(b)) + Cardinality(has) + Cardinality(taking)
      BY DEF Places
    <2> HIDE DEF has, taking
    <2>11. /\ Cardinality(Owners(b)) \in {0, 1} /\ (Cardinality(Owners(b)) = 1 => Owners(b) # {})
           /\ Cardinality(has) \in {0, 1} /\ (Cardinality(has) = 1 => has # {})
           /\ Cardinality(taking) \in {0, 1} /\ (Cardinality(taking) = 1 => taking # {})
      BY <2>4, <2>5, <2>6, AtMostOne
    <2> QED
      BY <2>7, <2>8, <2>9, <2>10, <2>11
  <1>2. Kept /\ Owned => BlocksApart
    BY <1>1 DEF BlocksApart
  <1> QED
    BY <1>2, Invariant, OwnedAlways, PTL

(* A file whose close has returned is on the disk, in the directory and in  *)
(* its block, with what was typed, and stays there whatever else is done    *)
(* and whenever the machine restarts; unless two commands used it at once,  *)
(* a command moved the position between another's seek and write, or a      *)
(* deleted file's number was used as a block.                               *)
THEOREM ClosedIsDurable == Spec => []Durable
PROOF
  <1>1. Sound => Durable
    BY DEF Sound, Image, Imaged, Durable
  <1> QED
    BY <1>1, SoundAlways, PTL

(* What is read back from such a file is what was typed. *)
THEOREM ClosedIsReadBack == Spec => []ReadBack
PROOF
  <1>1. ASSUME Kept, Sound, up = "up", NEW fd \in kept \ misread,
               filetab[fd].state = {"used", "open"},
               {DirBlock, filetab[fd].blocknum} \cap Damaged = {}
        PROVE  Bytes(filetab[fd].data, filetab[fd].length) = text[fd]
    <2>1. Safe /\ fd \in Fd /\ filetab[fd].blocknum \notin Damaged
      BY <1>1 DEF Safe, Damaged, Kept, Sets
    <2>2. Stays(fd)
      BY <1>1, <2>1 DEF Sound, FileSound
    <2> QED
      BY <1>1, <2>1, <2>2 DEF Stays, InMemory
  <1>2. Kept /\ Sound => ReadBack
    BY <1>1 DEF ReadBack
  <1> QED
    BY <1>2, Invariant, SoundAlways, PTL
==============================================================================
