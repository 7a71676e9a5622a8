---------------------------- MODULE FreeList_proof ----------------------------
(***************************************************************************)
(* The free list, for a disk of any size and any number of processes.      *)
(*                                                                         *)
(* 1. Kept: the lock has one holder, and is free between two calls.        *)
(* 2. What each way of taking a block off a list, and of putting one into  *)
(*    it, does to the blocks the list names (Takes.., Pops, Appends, Cuts).*)
(* 3. What sbOpen() makes of a disk: following fr_next from the superblock *)
(*    gives the list the disk has (On, Opened), and what each write does to*)
(*    it.  The chain is a function defined by recursion: what it is at k is*)
(*    shown by looking at the least k where it would not be so (Least).    *)
(* 4. Placed: every block has one place.  Follows: the disk has the list of*)
(*    memory, or will have it when who is about to write has written.  The *)
(*    two are kept together by every step, restarts included (Together).   *)
(***************************************************************************)
EXTENDS FreeList, SequenceTheorems, FiniteSetTheorems, TLAPS

Places == {"idle", "wantGet", "get", "getWrite", "wantFree", "free",
           "freeSegment", "freeSuper", "freeWrite", "freeSpill", "fileWrite"}

(* Between wait() and signal(). *)
Holding == {"get", "getWrite", "free", "freeSegment", "freeSuper", "freeWrite", "freeSpill"}

Types == /\ freelock \in Nat /\ faults \in Nat
         /\ pc \in [Procs -> Places]

(* The semaphore is a lock: one process at most is behind its wait(), and   *)
(* its count is 0 as long as one is.  A failed write may leave it at 0 with *)
(* nobody there.                                                            *)
OneHolder ==
    /\ freelock \in {0, 1}
    /\ \A p, q \in Procs : pc[p] \in Holding /\ pc[q] \in Holding => p = q
    /\ freelock = 1 => \A p \in Procs : pc[p] \notin Holding
    /\ faults = 0 /\ freelock = 0 => \E p \in Procs : pc[p] \in Holding

Kept == Types /\ OneHolder

------------------------------------------------------------------------------
LEMMA KeptInit == Init => Kept
PROOF
  BY DEF Init, Kept, Types, OneHolder, Places, Holding

(* A step of one process that leaves it where it was: with the lock or      *)
(* without.                                                                 *)
LEMMA Moves ==
    ASSUME Kept, NEW p \in Procs, NEW at \in Places, pc' = [pc EXCEPT ![p] = at],
           at \in Holding <=> pc[p] \in Holding,
           freelock' = freelock, faults' \in Nat, faults' = 0 => faults = 0
    PROVE  Kept'
PROOF
  <1>1. Types'
    BY DEF Kept, Types
  <1>2. \A q \in Procs : pc'[q] \in Holding <=> pc[q] \in Holding
    BY DEF Kept, Types
  <1> QED
    BY <1>1, <1>2 DEF Kept, OneHolder

(* A process gets the lock. *)
LEMMA Locks ==
    ASSUME Kept, NEW p \in Procs, NEW at \in Holding, pc' = [pc EXCEPT ![p] = at],
           freelock > 0, freelock' = freelock - 1, faults' = faults
    PROVE  Kept'
PROOF
  <1>1. Types'
    BY DEF Kept, Types, Holding, Places
  <1>2. pc'[p] \in Holding /\ \A q \in Procs \ {p} : pc'[q] = pc[q]
    BY DEF Kept, Types
  <1>3. freelock = 1 /\ \A q \in Procs : pc[q] \notin Holding
    BY DEF Kept, OneHolder
  <1> QED
    BY <1>1, <1>2, <1>3 DEF Kept, OneHolder

(* A process that has the lock gives it back. *)
LEMMA Unlocks ==
    ASSUME Kept, NEW p \in Procs, pc[p] \in Holding, pc' = [pc EXCEPT ![p] = "idle"],
           freelock' = freelock + 1, faults' \in Nat, faults' = 0 => faults = 0
    PROVE  Kept'
PROOF
  <1>1. Types'
    BY DEF Kept, Types, Places
  <1>2. pc'[p] \notin Holding /\ \A q \in Procs \ {p} : pc'[q] = pc[q]
    BY DEF Kept, Types, Holding
  <1>3. freelock = 0 /\ \A q \in Procs \ {p} : pc[q] \notin Holding
    BY DEF Kept, OneHolder
  <1> QED
    BY <1>1, <1>2, <1>3 DEF Kept, OneHolder

(* A failed write is counted, and only that is said of it. *)
LEMMA Faults ==
    ASSUME Kept, NEW c, Written(c) \/ WriteFails
    PROVE  /\ faults' \in Nat
           /\ faults' = 0 => faults = 0
           /\ WriteFails => faults' # 0
PROOF
  BY DEF Kept, Types, Written, WriteFails

LEMMA BootKeeps == ASSUME Kept, Boot PROVE Kept'
PROOF
  <1>1. CASE Mount \/ MountAstray \/ InitDisk
    BY <1>1 DEF Mount, MountAstray, InitDisk, where, trouble, Kept, Types, OneHolder
  <1>2. CASE InitWrite
    <2>1. pc' = pc /\ freelock' = freelock
      BY <1>2 DEF InitWrite, where
    <2>2. faults' \in Nat /\ (faults' = 0 => faults = 0)
      BY <1>2, Faults DEF InitWrite
    <2> QED
      BY <2>1, <2>2 DEF Kept, Types, OneHolder
  <1>3. CASE Reboot
    BY <1>3 DEF Reboot, trouble, Kept, Types, OneHolder, Places, Holding
  <1> QED
    BY <1>1, <1>2, <1>3 DEF Boot

(* sbGetBlock(): whoever has the lock keeps it up to the last write.       *)
LEMMA GetKeeps == ASSUME Kept, NEW p \in Procs, Get(p) PROVE Kept'
PROOF
  <1>0. faults \in Nat
    BY DEF Kept, Types
  <1>1. CASE GetHead(p)
    BY <1>0, <1>1, Moves DEF GetHead, Goto, trouble, Places, Holding
  <1>2. CASE GetLock(p)
    BY <1>2, Locks DEF GetLock, Lock, Goto, trouble, Holding
  <1>3. CASE GetAstray(p)
    BY <1>3 DEF GetAstray, where, trouble, Kept, Types, OneHolder
  <1>4. CASE GetEntry(p) \/ GetSegment(p) \/ GetLast(p)
    BY <1>0, <1>4, Moves DEF GetEntry, GetSegment, GetLast, Take, Goto, trouble, Places, Holding
  <1>5. CASE GetWrite(p)
    <2>1. pc[p] = "getWrite" /\ pc' = [pc EXCEPT ![p] = "idle"]
      BY <1>5 DEF GetWrite, Goto
    <2>2. CASE freelock' = freelock + 1
      BY <1>5, <2>1, <2>2, Faults, Unlocks DEF GetWrite, Holding
    <2>3. CASE freelock' = freelock /\ WriteFails
      <3>1. faults' \in Nat /\ faults' # 0
        BY <2>3, Faults
      <3>2. pc'[p] \notin Holding /\ \A q \in Procs \ {p} : pc'[q] = pc[q]
        BY <2>1 DEF Kept, Types, Holding
      <3>3. Types'
        BY <2>1, <2>3, <3>1 DEF Kept, Types, Places
      <3> QED
        BY <2>3, <3>1, <3>2, <3>3 DEF Kept, OneHolder
    <2> QED
      BY <1>5, <2>2, <2>3 DEF GetWrite
  <1> QED
    BY <1>1, <1>2, <1>3, <1>4, <1>5 DEF Get

(* sbFreeBlock(). *)
LEMMA FreeKeeps == ASSUME Kept, NEW p \in Procs, Free(p) PROVE Kept'
PROOF
  <1>0. faults \in Nat
    BY DEF Kept, Types
  <1>1. ASSUME NEW block \in held, FreeRefused(p, block) \/ FreeCall(p, block) PROVE Kept'
    <2>1. CASE FreeRefused(p, block)
      BY <2>1 DEF FreeRefused, where, trouble, Kept, Types, OneHolder
    <2>2. CASE FreeCall(p, block)
      BY <1>0, <2>2, Moves DEF FreeCall, Goto, trouble, Places, Holding
    <2> QED
      BY <1>1, <2>1, <2>2
  <1>2. CASE FreeLock(p)
    BY <1>2, Locks DEF FreeLock, Lock, Goto, trouble, Holding
  <1>3. CASE FreeAstray(p)
    BY <1>3 DEF FreeAstray, where, trouble, Kept, Types, OneHolder
  <1>4. CASE FreeFirst(p) \/ FreeAppend(p) \/ FreeFull(p)
    <2>1. /\ pc[p] = "free" /\ freelock' = freelock /\ faults' = faults
          /\ \E at \in {"freeSegment", "freeWrite", "freeSpill"} : pc' = [pc EXCEPT ![p] = at]
      BY <1>4 DEF FreeFirst, FreeAppend, FreeFull, Goto, trouble
    <2> QED
      BY <1>0, <2>1, Moves DEF Places, Holding
  <1>5. CASE FreeSegment(p)
    <2>1. /\ pc[p] = "freeSegment" /\ freelock' = freelock
          /\ pc' = [pc EXCEPT ![p] = "freeSuper"]
      BY <1>5 DEF FreeSegment, Goto
    <2>2. faults' \in Nat /\ (faults' = 0 => faults = 0)
      BY <1>5, Faults DEF FreeSegment
    <2> QED
      BY <2>1, <2>2, Moves DEF Places, Holding
  <1>6. CASE FreeSuper(p) \/ FreeWrite(p)
    <2>1. /\ pc[p] \in {"freeSuper", "freeWrite", "freeSpill"} /\ freelock' = freelock + 1
          /\ pc' = [pc EXCEPT ![p] = "idle"]
      BY <1>6 DEF FreeSuper, FreeWrite, Goto
    <2>2. faults' \in Nat /\ (faults' = 0 => faults = 0)
      BY <1>6, Faults DEF FreeSuper, FreeWrite
    <2> QED
      BY <2>1, <2>2, Unlocks DEF Holding
  <1> QED
    BY <1>1, <1>2, <1>3, <1>4, <1>5, <1>6 DEF Free

(* The writes of files take no part in it. *)
LEMMA FileKeeps == ASSUME Kept, NEW p \in Procs, File(p) PROVE Kept'
PROOF
  <1>0. faults \in Nat
    BY DEF Kept, Types
  <1>1. ASSUME NEW block \in held, FileSeek(p, block) PROVE Kept'
    BY <1>0, <1>1, Moves DEF FileSeek, Goto, trouble, Places, Holding
  <1>2. CASE FileWrite(p)
    <2>1. /\ pc[p] = "fileWrite" /\ freelock' = freelock /\ faults' = faults
          /\ pc' = [pc EXCEPT ![p] = "idle"]
      BY <1>2 DEF FileWrite, Written, Goto
    <2> QED
      BY <1>0, <2>1, Moves DEF Places, Holding
  <1> QED
    BY <1>1, <1>2 DEF File

(* Every step keeps the invariant. *)
LEMMA KeptStep == ASSUME Kept, [Next]_vars PROVE Kept'
PROOF
  <1>1. CASE UNCHANGED vars
    BY <1>1 DEF vars, Kept, Types, OneHolder
  <1> QED
    BY <1>1, BootKeeps, GetKeeps, FreeKeeps, FileKeeps DEF Next

LEMMA Invariant == Spec => []Kept
PROOF
  BY KeptInit, KeptStep, PTL DEF Spec

------------------------------------------------------------------------------
(* Between two calls the lock is free, unless a write has failed: no path   *)
(* through sbGetBlock() and sbFreeBlock() forgets signal(), or does it      *)
(* twice.                                                                   *)
THEOREM LockIsGivenBack == Spec => []LockGivenBack
PROOF
  <1>1. Kept => LockGivenBack
    BY DEF Kept, OneHolder, LockGivenBack, Quiet, Holding
  <1> QED
    BY <1>1, Invariant, PTL

(* Two processes are never both between wait() and signal(), where they     *)
(* change the list and the disk for it, even if writes fail.                *)
THEOREM OneInside ==
    Spec => [](\A p, q \in Procs : pc[p] \in Holding /\ pc[q] \in Holding => p = q)
PROOF
  <1>1. Kept => \A p, q \in Procs : pc[p] \in Holding /\ pc[q] \in Holding => p = q
    BY DEF Kept, OneHolder
  <1> QED
    BY <1>1, Invariant, PTL

------------------------------------------------------------------------------
(* What a list names, entry by entry: entry 0 of a segment is its own block. *)
Segment    == [fr_blocknum : DataBlock, fr_free : Seq(DataBlock)]
Shape(l)   == l \in Seq(Segment) /\ \A i \in 1 .. Len(l) : Len(l[i].fr_free) <= FREEBLOCKMAX
Names(l, i, j, b) ==
    /\ i \in 1 .. Len(l) /\ j \in 0 .. Len(l[i].fr_free)
    /\ b = IF j = 0 THEN l[i].fr_blocknum ELSE l[i].fr_free[j]
Distinct(l) == \A i, j, k, m, b : Names(l, i, j, b) /\ Names(l, k, m, b) => i = k /\ j = m
Good(l)     == Shape(l) /\ Distinct(l)

LEMMA Named ==
    ASSUME NEW l, Shape(l)
    PROVE  /\ \A b : b \in BlocksOf(l) <=> \E i, j : Names(l, i, j, b)
           /\ BlocksOf(l) \subseteq DataBlock
PROOF
  <1>1. /\ l \in Seq(Segment) /\ Len(l) \in Nat
        /\ \A i \in 1 .. Len(l) : l[i] \in Segment
    BY DEF Shape
  <1>2. \A i \in 1 .. Len(l) : /\ l[i].fr_blocknum \in DataBlock /\ l[i].fr_free \in Seq(DataBlock)
                               /\ Len(l[i].fr_free) \in Nat
    BY <1>1 DEF Segment
  <1>3. \A i \in 1 .. Len(l) : ToSet(l[i].fr_free) = {l[i].fr_free[j] : j \in 1 .. Len(l[i].fr_free)}
    BY <1>2 DEF ToSet
  <1>4. ASSUME NEW b, b \in BlocksOf(l) PROVE \E i, j : Names(l, i, j, b)
    <2>1. PICK i \in 1 .. Len(l) : b = l[i].fr_blocknum \/ b \in ToSet(l[i].fr_free)
      BY <1>4 DEF BlocksOf
    <2>2. CASE b = l[i].fr_blocknum
      <3>1. Names(l, i, 0, b)
        BY <1>2, <2>2 DEF Names
      <3> QED
        BY <3>1
    <2>3. CASE b \in ToSet(l[i].fr_free)
      <3>1. PICK j \in 1 .. Len(l[i].fr_free) : b = l[i].fr_free[j]
        BY <1>3, <2>3
      <3>2. Names(l, i, j, b)
        BY <1>2, <3>1 DEF Names
      <3> QED
        BY <3>2
    <2> QED
      BY <2>1, <2>2, <2>3
  <1>5. ASSUME NEW b, NEW i, NEW j, Names(l, i, j, b) PROVE b \in BlocksOf(l) /\ b \in DataBlock
    <2>1. i \in 1 .. Len(l) /\ j \in 0 .. Len(l[i].fr_free)
      BY <1>5 DEF Names
    <2>2. b = l[i].fr_blocknum \/ b \in ToSet(l[i].fr_free)
      <3>1. CASE j = 0
        BY <1>5, <3>1 DEF Names
      <3>2. CASE j # 0
        <4>1. j \in 1 .. Len(l[i].fr_free) /\ b = l[i].fr_free[j]
          BY <1>2, <1>5, <2>1, <3>2 DEF Names
        <4> QED
          BY <1>3, <2>1, <4>1
      <3> QED
        BY <3>1, <3>2
    <2>3. b \in DataBlock
      BY <1>2, <1>5, <2>1 DEF Names
    <2> QED
      BY <2>1, <2>2, <2>3 DEF BlocksOf
  <1> QED
    BY <1>4, <1>5

(* So the list's entries are those of OnePlace. *)
LEMMA DistinctIs ==
    ASSUME NEW l, Good(l), NEW d \in Entries(l), NEW e \in Entries(l),
           EntryAt(l, d) = EntryAt(l, e)
    PROVE  d = e
PROOF
  <1>1. ASSUME NEW x \in Entries(l) PROVE Names(l, x[1], x[2], EntryAt(l, x)) /\ x = <<x[1], x[2]>>
    <2>1. /\ x \in (1 .. Len(l)) \X (0 .. FREEBLOCKMAX) /\ x[2] <= Len(l[x[1]].fr_free)
      BY DEF Entries
    <2>2. x[1] \in 1 .. Len(l) /\ x[2] \in 0 .. Len(l[x[1]].fr_free) /\ x = <<x[1], x[2]>>
      <3>1. l[x[1]] \in Segment
        BY <2>1 DEF Good, Shape
      <3> QED
        BY <2>1, <3>1, FreeListSizes DEF Segment
    <2> QED
      BY <2>2 DEF Names, EntryAt
  <1>2. d[1] = e[1] /\ d[2] = e[2]
    <2> DEFINE b == EntryAt(l, d)
    <2>1. Names(l, d[1], d[2], b) /\ Names(l, e[1], e[2], b)
      BY <1>1
    <2> HIDE DEF b
    <2> QED
      BY <2>1 DEF Good, Distinct
  <1> QED
    BY <1>1, <1>2

(* The empty list, and a list of one segment that names nothing more. *)
LEMMA Empty == Good(<<>>) /\ BlocksOf(<<>>) = {}
PROOF
  <1>1. Shape(<<>>)
    BY DEF Shape
  <1>2. Distinct(<<>>)
    BY DEF Distinct, Names
  <1> QED
    BY <1>1, <1>2 DEF Good, BlocksOf

LEMMA Single ==
    ASSUME NEW b \in DataBlock
    PROVE  LET l == <<[fr_blocknum |-> b, fr_free |-> <<>>]>>
           IN  Good(l) /\ l # <<>> /\ BlocksOf(l) = {b}
PROOF
  <1> DEFINE l == <<[fr_blocknum |-> b, fr_free |-> <<>>]>>
  <1>1. /\ l \in Seq(Segment) /\ Len(l) = 1 /\ l[1].fr_blocknum = b /\ l[1].fr_free = <<>>
    BY DEF Segment
  <1>2. Shape(l)
    BY <1>1, FreeListSizes DEF Shape
  <1>3. \A i, j, x : Names(l, i, j, x) <=> i = 1 /\ j = 0 /\ x = b
    BY <1>1 DEF Names
  <1> HIDE DEF l
  <1>4. Distinct(l)
    BY <1>3 DEF Distinct
  <1>5. \A x : x \in BlocksOf(l) <=> x = b
    BY <1>2, <1>3, Named
  <1> QED
    BY <1>1, <1>2, <1>4, <1>5 DEF l, Good

(* The head's last entry is taken off. *)
LEMMA PopsTo ==
    ASSUME NEW l, Good(l), l # <<>>, l[1].fr_free # <<>>
    PROVE  LET new == [l EXCEPT ![1].fr_free = Front(@)]
               s   == l[1].fr_free
               n   == Len(s)
           IN  /\ l \in Seq(Segment) /\ Len(l) \in Nat /\ 1 \in 1 .. Len(l)
               /\ s \in Seq(DataBlock) /\ n \in Nat /\ n > 0 /\ n <= FREEBLOCKMAX /\ Last(s) = s[n]
               /\ Front(s) \in Seq(DataBlock) /\ Len(Front(s)) = n - 1
               /\ \A j \in 1 .. n - 1 : Front(s)[j] = s[j]
               /\ new \in Seq(Segment) /\ Len(new) = Len(l)
               /\ new[1].fr_free = Front(s) /\ new[1].fr_blocknum = l[1].fr_blocknum
               /\ \A i \in 2 .. Len(l) : new[i] = l[i]
PROOF
  <1> DEFINE s == l[1].fr_free  n == Len(s)  b == Last(s)
             new == [l EXCEPT ![1].fr_free = Front(@)]
  <1>1. /\ l \in Seq(Segment) /\ Len(l) \in Nat /\ 1 \in 1 .. Len(l)
        /\ \A i \in 1 .. Len(l) : l[i] \in Segment
    BY DEF Good, Shape
  <1>2. s \in Seq(DataBlock) /\ n \in Nat /\ n > 0 /\ n <= FREEBLOCKMAX /\ b = s[n]
    <2>1. s \in Seq(DataBlock) /\ n <= FREEBLOCKMAX
      BY <1>1 DEF Segment, Good, Shape
    <2>2. n \in Nat /\ n > 0
      BY <2>1
    <2> QED
      BY <2>1, <2>2 DEF Last
  <1>3. /\ Front(s) \in Seq(DataBlock) /\ Len(Front(s)) = n - 1
        /\ \A j \in 1 .. n - 1 : Front(s)[j] = s[j]
    BY <1>2 DEF Front
  <1>4. /\ new \in Seq(Segment) /\ Len(new) = Len(l)
        /\ new[1].fr_free = Front(s) /\ new[1].fr_blocknum = l[1].fr_blocknum
        /\ \A i \in 2 .. Len(l) : new[i] = l[i]
    <2>1. [l[1] EXCEPT !.fr_free = Front(s)] \in Segment
      BY <1>1, <1>3 DEF Segment
    <2>2. new = [l EXCEPT ![1] = [l[1] EXCEPT !.fr_free = Front(s)]]
      BY <1>1
    <2>3. [l[1] EXCEPT !.fr_free = Front(s)].fr_free = Front(s)
      BY <1>1 DEF Segment
    <2>4. [l[1] EXCEPT !.fr_free = Front(s)].fr_blocknum = l[1].fr_blocknum
      BY <1>1 DEF Segment
    <2> DEFINE x == [l[1] EXCEPT !.fr_free = Front(s)]
    <2> HIDE DEF x
    <2>5. new \in Seq(Segment) /\ Len(new) = Len(l) /\ new[1] = x
          /\ \A i \in 2 .. Len(l) : new[i] = l[i]
      BY <1>1, <2>1, <2>2 DEF x
    <2> QED
      BY <2>3, <2>4, <2>5 DEF x
  <1> HIDE DEF new
  <1> QED
    BY <1>1, <1>2, <1>3, <1>4 DEF new

LEMMA Pops ==
    ASSUME NEW l, Good(l), l # <<>>, l[1].fr_free # <<>>
    PROVE  LET new == [l EXCEPT ![1].fr_free = Front(@)]
               b   == Last(l[1].fr_free)
           IN  Good(new) /\ new # <<>> /\ b \in BlocksOf(l) /\ BlocksOf(new) = BlocksOf(l) \ {b}
PROOF
  <1> DEFINE s == l[1].fr_free  n == Len(s)  b == Last(s)
             new == [l EXCEPT ![1].fr_free = Front(@)]
  <1>1. l \in Seq(Segment) /\ Len(l) \in Nat /\ 1 \in 1 .. Len(l)
    BY PopsTo
  <1>2. s \in Seq(DataBlock) /\ n \in Nat /\ n > 0 /\ n <= FREEBLOCKMAX /\ b = s[n]
    BY PopsTo
  <1>3. /\ Front(s) \in Seq(DataBlock) /\ Len(Front(s)) = n - 1
        /\ \A j \in 1 .. n - 1 : Front(s)[j] = s[j]
    BY PopsTo
  <1>4. /\ new \in Seq(Segment) /\ Len(new) = Len(l)
        /\ new[1].fr_free = Front(s) /\ new[1].fr_blocknum = l[1].fr_blocknum
        /\ \A i \in 2 .. Len(l) : new[i] = l[i]
    BY PopsTo
  <1> HIDE DEF new, b
  <1>5. Shape(new)
    <2>1. ASSUME NEW i \in 1 .. Len(new) PROVE Len(new[i].fr_free) <= FREEBLOCKMAX
      <3>1. CASE i = 1
        BY <1>2, <1>3, <1>4, <3>1, FreeListSizes
      <3>2. CASE i # 1
        BY <1>1, <1>4, <3>2 DEF Good, Shape
      <3> QED
        BY <3>1, <3>2
    <2> QED
      BY <1>4, <2>1 DEF Shape
  <1>6. Names(l, 1, n, b)
    BY <1>1, <1>2 DEF Names
  <1>7. \A i, j, x : Names(new, i, j, x) <=> Names(l, i, j, x) /\ ~(i = 1 /\ j = n)
    <2> TAKE i, j, x
    <2>1. CASE i = 1
      <3>1. Names(new, 1, j, x) <=> j \in 0 .. n - 1 /\ x = IF j = 0 THEN l[1].fr_blocknum ELSE s[j]
        <4>1. Names(new, 1, j, x) <=>
                j \in 0 .. n - 1 /\ x = IF j = 0 THEN l[1].fr_blocknum ELSE Front(s)[j]
          BY <1>1, <1>3, <1>4 DEF Names
        <4>2. j \in 0 .. n - 1 /\ j # 0 => Front(s)[j] = s[j]
          BY <1>2, <1>3
        <4> QED
          BY <4>1, <4>2
      <3>2. Names(l, 1, j, x) <=> j \in 0 .. n /\ x = IF j = 0 THEN l[1].fr_blocknum ELSE s[j]
        BY <1>1 DEF Names
      <3> QED
        BY <1>2, <2>1, <3>1, <3>2
    <2>2. CASE i # 1
      <3>1. i \in 1 .. Len(l) => new[i] = l[i]
        BY <1>1, <1>4, <2>2
      <3> QED
        BY <1>4, <2>2, <3>1 DEF Names
    <2> QED
      BY <2>1, <2>2
  <1>8. Distinct(new)
    BY <1>7 DEF Good, Distinct
  <1>9. \A x : x \in BlocksOf(new) <=> x \in BlocksOf(l) /\ x # b
    <2>1. \A x : x \in BlocksOf(new) <=> \E i, j : Names(l, i, j, x) /\ ~(i = 1 /\ j = n)
      BY <1>5, <1>7, Named
    <2>2. \A x : x \in BlocksOf(l) <=> \E i, j : Names(l, i, j, x)
      BY Named DEF Good
    <2>3. \A i, j : Names(l, i, j, b) => i = 1 /\ j = n
      BY <1>6 DEF Good, Distinct
    <2>5. \A x : Names(l, 1, n, x) => x = b
      BY <1>6 DEF Names
    <2> TAKE x
    <2>6. ASSUME x \in BlocksOf(new) PROVE x \in BlocksOf(l) /\ x # b
      BY <2>1, <2>2, <2>3, <2>6
    <2>7. ASSUME x \in BlocksOf(l), x # b PROVE x \in BlocksOf(new)
      BY <2>1, <2>2, <2>5, <2>7
    <2> QED
      BY <2>6, <2>7
  <1>10. b \in BlocksOf(l)
    BY <1>6, Named DEF Good
  <1>11. new # <<>>
    BY <1>1, <1>4
  <1> QED
    BY <1>5, <1>8, <1>9, <1>10, <1>11 DEF Good, new, b

(* The head takes over the next segment, whose own block is given.         *)
LEMMA TakesOverTo ==
    ASSUME NEW l, Good(l), Len(l) > 1, l[1].fr_free = <<>>
    PROVE  LET h    == [l[1] EXCEPT !.fr_free = l[2].fr_free]
               new  == <<h>> \o SubSeq(l, 3, Len(l))
           IN  /\ l \in Seq(Segment) /\ Len(l) \in Nat /\ 1 \in 1 .. Len(l) /\ 2 \in 1 .. Len(l)
               /\ \A i \in 1 .. Len(l) : l[i] \in Segment
               /\ h \in Segment /\ h.fr_free = l[2].fr_free /\ h.fr_blocknum = l[1].fr_blocknum
               /\ new \in Seq(Segment) /\ Len(new) = Len(l) - 1 /\ new[1] = h
               /\ \A i \in 2 .. Len(l) - 1 : new[i] = l[i + 1]
PROOF
  <1> DEFINE h == [l[1] EXCEPT !.fr_free = l[2].fr_free]  rest == SubSeq(l, 3, Len(l))
             new == <<h>> \o rest  b == l[2].fr_blocknum
  <1>1. /\ l \in Seq(Segment) /\ Len(l) \in Nat /\ 1 \in 1 .. Len(l) /\ 2 \in 1 .. Len(l)
        /\ \A i \in 1 .. Len(l) : l[i] \in Segment
    BY DEF Good, Shape
  <1>2. h \in Segment /\ h.fr_free = l[2].fr_free /\ h.fr_blocknum = l[1].fr_blocknum
    BY <1>1 DEF Segment
  <1> HIDE DEF h
  <1>3. rest \in Seq(Segment) /\ Len(rest) = Len(l) - 2 /\ \A i \in 1 .. Len(l) - 2 : rest[i] = l[i + 2]
    <2>1. \A i \in 3 .. Len(l) : l[i] \in Segment
      BY <1>1
    <2>2. /\ rest \in Seq(Segment) /\ Len(rest) = IF 3 <= Len(l) THEN Len(l) - 3 + 1 ELSE 0
          /\ \A i \in 1 .. Len(l) - 3 + 1 : rest[i] = l[3 + i - 1]
      BY <1>1, <2>1, SubSeqProperties
    <2> HIDE DEF rest
    <2>3. ASSUME NEW i \in 1 .. Len(l) - 2 PROVE rest[i] = l[i + 2]
      <3>1. 3 + i - 1 = i + 2 /\ i \in 1 .. Len(l) - 3 + 1
        BY <1>1
      <3>2. rest[i] = l[3 + i - 1]
        BY <2>2, <3>1
      <3> QED
        BY <3>1, <3>2
    <2>4. Len(rest) = Len(l) - 2
      <3>1. CASE 3 <= Len(l)
        <4>1. Len(rest) = Len(l) - 3 + 1
          BY <2>2, <3>1
        <4> QED
          BY <1>1, <4>1
      <3>2. CASE ~(3 <= Len(l))
        <4>1. Len(rest) = 0
          BY <2>2, <3>2
        <4>2. Len(l) = 2
          <5> DEFINE k == Len(l)
          <5>1. k \in Nat /\ k > 1
            BY <1>1
          <5> HIDE DEF k
          <5>2. k < 3
            BY <3>2, <5>1 DEF k
          <5>3. k = 2
            BY <5>1, <5>2
          <5> QED
            BY <5>3 DEF k
        <4> QED
          BY <4>1, <4>2
      <3> QED
        BY <3>1, <3>2
    <2> QED
      BY <2>2, <2>3, <2>4
  <1> HIDE DEF rest
  <1>4. /\ new \in Seq(Segment) /\ Len(new) = Len(l) - 1 /\ new[1] = h
        /\ \A i \in 2 .. Len(l) - 1 : new[i] = l[i + 1]
    BY <1>1, <1>2, <1>3
  <1> HIDE DEF new
  <1> QED
    BY <1>1, <1>2, <1>4 DEF h, new, rest

LEMMA TakesOver ==
    ASSUME NEW l, Good(l), Len(l) > 1, l[1].fr_free = <<>>
    PROVE  LET new == <<[l[1] EXCEPT !.fr_free = l[2].fr_free]>> \o SubSeq(l, 3, Len(l))
               b   == l[2].fr_blocknum
           IN  Good(new) /\ new # <<>> /\ b \in BlocksOf(l) /\ BlocksOf(new) = BlocksOf(l) \ {b}
PROOF
  <1> DEFINE h == [l[1] EXCEPT !.fr_free = l[2].fr_free]
             new == <<h>> \o SubSeq(l, 3, Len(l))  b == l[2].fr_blocknum
  <1>1. /\ l \in Seq(Segment) /\ Len(l) \in Nat /\ 1 \in 1 .. Len(l) /\ 2 \in 1 .. Len(l)
        /\ \A i \in 1 .. Len(l) : l[i] \in Segment
    BY TakesOverTo
  <1>2. h \in Segment /\ h.fr_free = l[2].fr_free /\ h.fr_blocknum = l[1].fr_blocknum
    BY TakesOverTo
  <1>4. /\ new \in Seq(Segment) /\ Len(new) = Len(l) - 1 /\ new[1] = h
        /\ \A i \in 2 .. Len(l) - 1 : new[i] = l[i + 1]
    BY TakesOverTo
  <1> HIDE DEF h
  <1> HIDE DEF new, b
  <1>5. Shape(new)
    <2>1. ASSUME NEW i \in 1 .. Len(new) PROVE Len(new[i].fr_free) <= FREEBLOCKMAX
      <3>1. CASE i = 1
        BY <1>1, <1>2, <1>4, <3>1 DEF Good, Shape
      <3>2. CASE i # 1
        <4>1. new[i] = l[i + 1] /\ i + 1 \in 1 .. Len(l)
          BY <1>1, <1>4, <3>2
        <4> QED
          BY <4>1 DEF Good, Shape
      <3> QED
        BY <3>1, <3>2
    <2> QED
      BY <1>4, <2>1 DEF Shape
  <1>6. Names(l, 2, 0, b) /\ \A j, x : Names(l, 1, j, x) => j = 0
    <2>1. l[2].fr_free \in Seq(DataBlock) /\ Len(l[2].fr_free) \in Nat
      BY <1>1 DEF Segment
    <2>2. Len(l[1].fr_free) = 0
      OBVIOUS
    <2> QED
      BY <1>1, <2>1, <2>2 DEF Names, b
  <1> DEFINE from(i, j) == IF i = 1 /\ j = 0 THEN 1 ELSE i + 1
  <1>7. \A i, j, x : Names(new, i, j, x) =>
            /\ Names(l, from(i, j), j, x) /\ ~(from(i, j) = 2 /\ j = 0) /\ i \in Nat
    <2> TAKE i, j, x
    <2> HAVE Names(new, i, j, x)
    <2>1. CASE i = 1 /\ j = 0
      <3>1. x = l[1].fr_blocknum
        BY <1>2, <1>4, <2>1 DEF Names
      <3>2. Names(l, 1, 0, x)
        BY <1>1, <3>1 DEF Names
      <3> QED
        BY <2>1, <3>2
    <2>2. CASE i = 1 /\ j # 0
      <3>1. Names(l, 2, j, x)
        BY <1>1, <1>2, <1>4, <2>2 DEF Names
      <3> QED
        BY <2>2, <3>1
    <2>3. CASE i # 1
      <3>1. i \in 2 .. Len(l) - 1
        BY <1>1, <1>4, <2>3 DEF Names
      <3>2. new[i] = l[i + 1] /\ i + 1 \in 1 .. Len(l) /\ i + 1 # 2 /\ i \in Nat
        BY <1>1, <1>4, <3>1
      <3>3. Names(l, i + 1, j, x)
        BY <3>2 DEF Names
      <3> QED
        BY <2>3, <3>2, <3>3
    <2> QED
      BY <2>1, <2>2, <2>3
  <1>8. ASSUME NEW i, NEW j, NEW x, Names(l, i, j, x), ~(i = 2 /\ j = 0) PROVE \E k : Names(new, k, j, x)
    <2>0. i \in 1 .. Len(l) /\ j \in 0 .. Len(l[i].fr_free)
      BY <1>8 DEF Names
    <2>1. CASE i = 1
      <3>1. j = 0 /\ x = l[1].fr_blocknum
        BY <1>6, <1>8, <2>1 DEF Names
      <3>2. Len(h.fr_free) \in Nat
        BY <1>2 DEF Segment
      <3>3. Names(new, 1, 0, x)
        BY <1>1, <1>2, <1>4, <3>1, <3>2 DEF Names
      <3> QED
        BY <3>1, <3>3
    <2>2. CASE i = 2
      <3>1. Names(new, 1, j, x)
        BY <1>1, <1>2, <1>4, <1>8, <2>2 DEF Names
      <3> QED
        BY <3>1
    <2>3. CASE i # 1 /\ i # 2
      <3>1. i - 1 \in 2 .. Len(l) - 1 /\ (i - 1) + 1 = i
        BY <1>1, <2>0, <2>3
      <3>2. new[i - 1] = l[i] /\ i - 1 \in 1 .. Len(new)
        BY <1>1, <1>4, <3>1
      <3>3. Names(new, i - 1, j, x)
        BY <1>8, <3>2 DEF Names
      <3> QED
        BY <3>3
    <2> QED
      BY <2>1, <2>2, <2>3
  <1>9. Distinct(new)
    <2>1. ASSUME NEW i, NEW j, NEW k, NEW m, NEW x, Names(new, i, j, x), Names(new, k, m, x)
          PROVE  i = k /\ j = m
      <3>1. /\ Names(l, from(i, j), j, x) /\ Names(l, from(k, m), m, x) /\ i \in Nat /\ k \in Nat
            /\ i >= 1 /\ k >= 1
        <4>1. i \in 1 .. Len(new) /\ k \in 1 .. Len(new)
          BY <2>1 DEF Names
        <4> QED
          BY <1>7, <2>1, <4>1
      <3>2. from(i, j) = from(k, m) /\ j = m
        BY <3>1 DEF Good, Distinct
      <3> QED
        BY <3>1, <3>2
    <2> QED
      BY <2>1 DEF Distinct
  <1>10. \A x : x \in BlocksOf(new) <=> x \in BlocksOf(l) /\ x # b
    <2>1. \A x : x \in BlocksOf(new) <=> \E i, j : Names(new, i, j, x)
      BY <1>5, Named
    <2>2. \A x : x \in BlocksOf(l) <=> \E i, j : Names(l, i, j, x)
      BY Named DEF Good
    <2>3. \A i, j : Names(l, i, j, b) => i = 2 /\ j = 0
      BY <1>6 DEF Good, Distinct
    <2>4. \A x : x \in BlocksOf(new) => x \in BlocksOf(l) /\ x # b
      BY <1>7, <2>1, <2>2, <2>3
    <2>5. \A x : x \in BlocksOf(l) /\ x # b => x \in BlocksOf(new)
      <3> TAKE x
      <3> HAVE x \in BlocksOf(l) /\ x # b
      <3>1. PICK i, j : Names(l, i, j, x)
        BY <2>2
      <3>2. ~(i = 2 /\ j = 0)
        BY <3>1 DEF Names, b
      <3> QED
        BY <1>8, <2>1, <3>1, <3>2
    <2> QED
      BY <2>4, <2>5
  <1>11. b \in BlocksOf(l)
    BY <1>6, Named DEF Good
  <1>12. new # <<>>
    BY <1>1, <1>4
  <1> QED
    BY <1>5, <1>9, <1>10, <1>11, <1>12 DEF Good, new, b, h

(* A block is added to the last segment. *)
LEMMA AppendsTo ==
    ASSUME NEW l, Good(l), l # <<>>, NEW b \in DataBlock, Len(Last(l).fr_free) # FREEBLOCKMAX
    PROVE  LET n   == Len(l)
               s   == l[n].fr_free
               m   == Len(s) + 1
               new == [l EXCEPT ![n].fr_free = Append(@, b)]
           IN  /\ l \in Seq(Segment) /\ n \in Nat /\ n \in 1 .. n /\ \A i \in 1 .. n : l[i] \in Segment
               /\ s \in Seq(DataBlock) /\ m - 1 \in Nat /\ m \in Nat /\ m # 0 /\ m <= FREEBLOCKMAX
               /\ Append(s, b) \in Seq(DataBlock) /\ Len(Append(s, b)) = m
               /\ Append(s, b)[m] = b /\ \A j \in 1 .. m - 1 : Append(s, b)[j] = s[j]
               /\ new \in Seq(Segment) /\ Len(new) = n
               /\ new[n].fr_free = Append(s, b) /\ new[n].fr_blocknum = l[n].fr_blocknum
               /\ \A i \in 1 .. n - 1 : new[i] = l[i]
PROOF
  <1> DEFINE n == Len(l)  s == l[n].fr_free  m == Len(s) + 1
             new == [l EXCEPT ![n].fr_free = Append(@, b)]
  <1>1. /\ l \in Seq(Segment) /\ n \in Nat /\ n \in 1 .. n
        /\ \A i \in 1 .. n : l[i] \in Segment
    BY DEF Good, Shape
  <1>2. s \in Seq(DataBlock) /\ m - 1 \in Nat /\ m \in Nat /\ m # 0 /\ m <= FREEBLOCKMAX /\ Len(s) = m - 1
    <2>1. s \in Seq(DataBlock) /\ Len(s) <= FREEBLOCKMAX
      BY <1>1 DEF Segment, Good, Shape
    <2>2. Last(l) = l[n]
      BY DEF Last
    <2>3. Len(s) # FREEBLOCKMAX /\ Len(s) \in Nat
      BY <2>1, <2>2
    <2> QED
      BY <2>1, <2>3, FreeListSizes
  <1>3. /\ Append(s, b) \in Seq(DataBlock) /\ Len(Append(s, b)) = m
        /\ Append(s, b)[m] = b /\ \A j \in 1 .. m - 1 : Append(s, b)[j] = s[j]
    BY <1>2, AppendProperties
  <1> HIDE DEF m
  <1>4. /\ new \in Seq(Segment) /\ Len(new) = n
        /\ new[n].fr_free = Append(s, b) /\ new[n].fr_blocknum = l[n].fr_blocknum
        /\ \A i \in 1 .. n - 1 : new[i] = l[i]
    <2> DEFINE x == [l[n] EXCEPT !.fr_free = Append(s, b)]
    <2>1. x \in Segment /\ x.fr_free = Append(s, b) /\ x.fr_blocknum = l[n].fr_blocknum
      BY <1>1, <1>3 DEF Segment
    <2>2. new = [l EXCEPT ![n] = x]
      BY <1>1
    <2> HIDE DEF x
    <2>3. new \in Seq(Segment) /\ Len(new) = n /\ new[n] = x /\ \A i \in 1 .. n - 1 : new[i] = l[i]
      <3>1. x \in Segment /\ n \in 1 .. Len(l)
        BY <1>1, <2>1
      <3> HIDE DEF n, new
      <3> QED
        BY <1>1, <2>2, <3>1, ExceptSeq DEF n
    <2> QED
      BY <2>1, <2>3
  <1> HIDE DEF new
  <1> QED
    BY <1>1, <1>2, <1>3, <1>4 DEF new, m

LEMMA Appends ==
    ASSUME NEW l, Good(l), l # <<>>, NEW b \in DataBlock, b \notin BlocksOf(l),
           Len(Last(l).fr_free) # FREEBLOCKMAX
    PROVE  LET new == [l EXCEPT ![Len(l)].fr_free = Append(@, b)]
           IN  Good(new) /\ new # <<>> /\ BlocksOf(new) = BlocksOf(l) \cup {b}
PROOF
  <1> DEFINE n == Len(l)  s == l[n].fr_free  m == Len(s) + 1
             new == [l EXCEPT ![n].fr_free = Append(@, b)]
  <1>1. /\ l \in Seq(Segment) /\ n \in Nat /\ n \in 1 .. n
        /\ \A i \in 1 .. n : l[i] \in Segment
    BY AppendsTo
  <1>2. s \in Seq(DataBlock) /\ m - 1 \in Nat /\ m \in Nat /\ m # 0 /\ m <= FREEBLOCKMAX /\ Len(s) = m - 1
    <2>1. s \in Seq(DataBlock) /\ m - 1 \in Nat /\ m \in Nat /\ m # 0 /\ m <= FREEBLOCKMAX
      BY AppendsTo
    <2> QED
      BY <2>1
  <1>3. /\ Append(s, b) \in Seq(DataBlock) /\ Len(Append(s, b)) = m
        /\ Append(s, b)[m] = b /\ \A j \in 1 .. m - 1 : Append(s, b)[j] = s[j]
    BY <1>2, AppendProperties
  <1>4. /\ new \in Seq(Segment) /\ Len(new) = n
        /\ new[n].fr_free = Append(s, b) /\ new[n].fr_blocknum = l[n].fr_blocknum
        /\ \A i \in 1 .. n - 1 : new[i] = l[i]
    BY AppendsTo
  <1> HIDE DEF m
  <1> HIDE DEF new
  <1>5. Shape(new)
    <2>1. ASSUME NEW i \in 1 .. Len(new) PROVE Len(new[i].fr_free) <= FREEBLOCKMAX
      <3>1. CASE i = n
        BY <1>2, <1>3, <1>4, <3>1
      <3>2. CASE i # n
        <4>1. i \in 1 .. n - 1
          BY <1>1, <1>4, <3>2
        <4> QED
          BY <1>1, <1>4, <4>1 DEF Good, Shape
      <3> QED
        BY <3>1, <3>2
    <2> QED
      BY <1>4, <2>1 DEF Shape
  <1>7. \A i, j, x : Names(new, i, j, x) <=> Names(l, i, j, x) \/ (i = n /\ j = m /\ x = b)
    <2> TAKE i, j, x
    <2>1. CASE i = n
      <3>1. Names(new, n, j, x) <=>
              j \in 0 .. m /\ x = IF j = 0 THEN l[n].fr_blocknum ELSE Append(s, b)[j]
        BY <1>1, <1>3, <1>4 DEF Names
      <3>2. Names(l, n, j, x) <=>
              j \in 0 .. m - 1 /\ x = IF j = 0 THEN l[n].fr_blocknum ELSE s[j]
        BY <1>1, <1>2 DEF Names
      <3>3. j \in 0 .. m - 1 /\ j # 0 => Append(s, b)[j] = s[j]
        BY <1>2, <1>3
      <3>4. m \in Nat /\ m # 0
        BY <1>2
      <3> QED
        BY <1>3, <2>1, <3>1, <3>2, <3>3, <3>4
    <2>2. CASE i # n
      <3>1. i \in 1 .. n => new[i] = l[i]
        BY <1>1, <1>4, <2>2
      <3> QED
        BY <1>4, <2>2, <3>1 DEF Names
    <2> QED
      BY <2>1, <2>2
  <1>8. \A i, j : ~Names(l, i, j, b)
    BY Named DEF Good
  <1>9. Distinct(new)
    BY <1>7, <1>8 DEF Good, Distinct
  <1>10. \A x : x \in BlocksOf(new) <=> x \in BlocksOf(l) \/ x = b
    <2>1. \A x : x \in BlocksOf(new) <=> \E i, j : Names(new, i, j, x)
      BY <1>5, Named
    <2>2. \A x : x \in BlocksOf(l) <=> \E i, j : Names(l, i, j, x)
      BY Named DEF Good
    <2> QED
      BY <1>7, <2>1, <2>2
  <1>11. new # <<>>
    BY <1>1, <1>4
  <1> QED
    BY <1>5, <1>9, <1>10, <1>11 DEF Good, new

(* The last segment is cut off and the one before it emptied. *)
LEMMA CutsTo ==
    ASSUME NEW l, Good(l), Len(l) > 1
    PROVE  LET n   == Len(l)
               new == [SubSeq(l, 1, n - 1) EXCEPT ![n - 1].fr_free = <<>>]
           IN  /\ l \in Seq(Segment) /\ n \in Nat /\ n - 1 \in 1 .. n /\ \A i \in 1 .. n : l[i] \in Segment
               /\ new \in Seq(Segment) /\ Len(new) = n - 1
               /\ new[n - 1].fr_free = <<>> /\ new[n - 1].fr_blocknum = l[n - 1].fr_blocknum
               /\ \A i \in 1 .. n - 1 : i # n - 1 => new[i] = l[i]
PROOF
  <1> DEFINE n == Len(l)  t == SubSeq(l, 1, n - 1)
             new == [t EXCEPT ![n - 1].fr_free = <<>>]
  <1>1. /\ l \in Seq(Segment) /\ n \in Nat /\ n - 1 \in 1 .. n
        /\ \A i \in 1 .. n : l[i] \in Segment
    BY DEF Good, Shape
  <1>2. t \in Seq(Segment) /\ Len(t) = n - 1 /\ \A i \in 1 .. n - 1 : t[i] = l[i]
    <2>1. \A i \in 1 .. n - 1 : l[i] \in Segment
      BY <1>1
    <2>2. /\ t \in Seq(Segment) /\ Len(t) = IF 1 <= n - 1 THEN n - 1 - 1 + 1 ELSE 0
          /\ \A i \in 1 .. n - 1 - 1 + 1 : t[i] = l[1 + i - 1]
      BY <1>1, <2>1, SubSeqProperties
    <2> HIDE DEF t
    <2>3. ASSUME NEW i \in 1 .. n - 1 PROVE t[i] = l[i]
      <3>1. 1 + i - 1 = i /\ i \in 1 .. n - 1 - 1 + 1
        BY <1>1
      <3>2. t[i] = l[1 + i - 1]
        BY <2>2, <3>1
      <3> QED
        BY <3>1, <3>2
    <2>4. Len(t) = n - 1
      BY <1>1, <2>2
    <2> QED
      BY <2>2, <2>3, <2>4
  <1> HIDE DEF t
  <1>3. /\ new \in Seq(Segment) /\ Len(new) = n - 1
        /\ new[n - 1].fr_free = <<>> /\ new[n - 1].fr_blocknum = l[n - 1].fr_blocknum
        /\ \A i \in 1 .. n - 1 : i # n - 1 => new[i] = l[i]
    <2> DEFINE x == [t[n - 1] EXCEPT !.fr_free = <<>>]
    <2>0. t[n - 1] = l[n - 1] /\ l[n - 1] \in Segment
      BY <1>1, <1>2
    <2>1. x \in Segment /\ x.fr_free = <<>> /\ x.fr_blocknum = l[n - 1].fr_blocknum
      <3> DEFINE y == l[n - 1]  none == <<>>
      <3>1. y \in Segment /\ x = [y EXCEPT !.fr_free = none] /\ none \in Seq(DataBlock)
        BY <2>0
      <3> HIDE DEF y, x, none
      <3>2. x \in Segment /\ x.fr_free = none /\ x.fr_blocknum = y.fr_blocknum
        BY <3>1 DEF Segment
      <3> QED
        BY <3>2 DEF y, none
    <2>2. new = [t EXCEPT ![n - 1] = x]
      BY <1>1, <1>2
    <2> HIDE DEF x
    <2>3. new \in Seq(Segment) /\ Len(new) = n - 1 /\ new[n - 1] = x
          /\ \A i \in 1 .. n - 1 : i # n - 1 => new[i] = t[i]
      <3> DEFINE k == n - 1
      <3>1. x \in Segment /\ k \in 1 .. Len(t) /\ Len(t) = k /\ t \in Seq(Segment) /\ new = [t EXCEPT ![k] = x]
        BY <1>1, <1>2, <2>1, <2>2
      <3> HIDE DEF k, new
      <3>2. new \in Seq(Segment) /\ Len(new) = k /\ new[k] = x
            /\ \A i \in 1 .. k : i # k => new[i] = t[i]
        BY <3>1, ExceptSeq
      <3> QED
        BY <3>2 DEF k
    <2> QED
      BY <1>2, <2>1, <2>3
  <1> HIDE DEF new
  <1> QED
    BY <1>1, <1>3 DEF new, t

LEMMA Cuts ==
    ASSUME NEW l, Good(l), Len(l) > 1
    PROVE  LET n   == Len(l)
               new == [SubSeq(l, 1, n - 1) EXCEPT ![n - 1].fr_free = <<>>]
           IN  Good(new) /\ new # <<>> /\ BlocksOf(new) \subseteq BlocksOf(l)
PROOF
  <1> DEFINE n == Len(l)
             new == [SubSeq(l, 1, n - 1) EXCEPT ![n - 1].fr_free = <<>>]
  <1>1. /\ l \in Seq(Segment) /\ n \in Nat /\ n - 1 \in 1 .. n
        /\ \A i \in 1 .. n : l[i] \in Segment
    BY CutsTo
  <1>3. /\ new \in Seq(Segment) /\ Len(new) = n - 1
        /\ new[n - 1].fr_free = <<>> /\ new[n - 1].fr_blocknum = l[n - 1].fr_blocknum
        /\ \A i \in 1 .. n - 1 : i # n - 1 => new[i] = l[i]
    BY CutsTo
  <1> HIDE DEF new
  <1>4. Shape(new)
    <2>1. ASSUME NEW i \in 1 .. Len(new) PROVE Len(new[i].fr_free) <= FREEBLOCKMAX
      <3>1. CASE i = n - 1
        BY <1>3, <3>1, FreeListSizes
      <3>2. CASE i # n - 1
        <4>1. new[i] = l[i] /\ i \in 1 .. n
          BY <1>1, <1>3, <3>2
        <4> QED
          BY <4>1 DEF Good, Shape
      <3> QED
        BY <3>1, <3>2
    <2> QED
      BY <1>3, <2>1 DEF Shape
  <1>5. \A i, j, x : Names(new, i, j, x) => Names(l, i, j, x)
    <2> TAKE i, j, x
    <2> HAVE Names(new, i, j, x)
    <2>0. i \in 1 .. n - 1 /\ i \in 1 .. n
      BY <1>1, <1>3 DEF Names
    <2>1. CASE i = n - 1
      <3>1. j = 0 /\ x = l[i].fr_blocknum
        BY <1>3, <2>1 DEF Names
      <3>2. Len(l[i].fr_free) \in Nat
        BY <1>1, <2>0 DEF Segment
      <3> QED
        BY <2>0, <3>1, <3>2 DEF Names
    <2>2. CASE i # n - 1
      <3>1. new[i] = l[i]
        BY <1>3, <2>0, <2>2
      <3> QED
        BY <2>0, <3>1 DEF Names
    <2> QED
      BY <2>1, <2>2
  <1>6. Distinct(new)
    BY <1>5 DEF Good, Distinct
  <1>7. BlocksOf(new) \subseteq BlocksOf(l)
    <2>1. \A x : x \in BlocksOf(new) <=> \E i, j : Names(new, i, j, x)
      BY <1>4, Named
    <2>2. \A x : x \in BlocksOf(l) <=> \E i, j : Names(l, i, j, x)
      BY Named DEF Good
    <2> QED
      BY <1>5, <2>1, <2>2
  <1>8. new # <<>>
    BY <1>1, <1>3
  <1> QED
    BY <1>4, <1>6, <1>7, <1>8 DEF Good, new

------------------------------------------------------------------------------
(* sbInit()'s list.  Segment k is put at Start(k), its entries follow it.   *)
Wide     == FREEBLOCKMAX + 1
Start(k) == FirstSegment + (k - 1) * Wide
Room(k)  == IF Start(k) + FREEBLOCKMAX < DISKBLOCKTOTAL THEN FREEBLOCKMAX
            ELSE DISKBLOCKTOTAL - 1 - Start(k)

LEMMA Divide ==
    ASSUME NEW x \in Int, NEW m \in Nat, m > 0
    PROVE  /\ x \div m \in Int /\ x % m \in 0 .. m - 1
           /\ x = (x \div m) * m + (x % m)
PROOF
  OBVIOUS

LEMMA Further ==
    ASSUME NEW i \in Int, NEW k \in Int, i < k, NEW w \in Nat
    PROVE  i * w + w <= k * w
PROOF
  <1> DEFINE d == k - i - 1
  <1>1. d \in Nat /\ k = i + 1 + d
    OBVIOUS
  <1> HIDE DEF d
  <1>2. d * w \in Nat
    BY <1>1
  <1>3. k * w = i * w + w + d * w
    BY <1>1
  <1>4. i * w \in Int
    OBVIOUS
  <1> QED
    BY <1>2, <1>3, <1>4

(* As many segments as the blocks need, and no more. *)
LEMMA Enough ==
    /\ Wide \in Nat /\ Wide > 0
    /\ Segments \in Nat \ {0}
    /\ Segments * Wide >= DISKBLOCKTOTAL - 2
    /\ (Segments - 1) * Wide < DISKBLOCKTOTAL - 2
PROOF
  <1> DEFINE w == Wide  x == DISKBLOCKTOTAL - 2 + FREEBLOCKMAX  q == x \div w
  <1>1. w \in Nat /\ w > 0 /\ x \in Nat /\ x >= w /\ x = DISKBLOCKTOTAL - 2 + (w - 1) /\ Segments = q
    BY FreeListSizes DEF Wide, Segments, FirstSegment, SUPERBLOCKNUM
  <1> HIDE DEF w, x
  <1>2. q \in Int /\ x % w \in 0 .. w - 1 /\ x = q * w + (x % w)
    <2>1. x \in Int /\ w \in Nat /\ w > 0
      BY <1>1
    <2> QED
      BY <2>1, Divide
  <1> HIDE DEF q
  <1>3. q * w \in Int /\ (q - 1) * w = q * w - w
    BY <1>1, <1>2
  <1>4. q * w >= DISKBLOCKTOTAL - 2 /\ (q - 1) * w < DISKBLOCKTOTAL - 2
    BY <1>1, <1>2, <1>3, FreeListSizes
  <1>5. q > 0
    <2> SUFFICES ASSUME q <= 0 PROVE FALSE
      BY <1>2
    <2>1. 0 - q \in Nat
      BY <1>2
    <2>2. (0 - q) * w >= 0 /\ (0 - q) * w = 0 - q * w
      BY <1>1, <1>2, <2>1
    <2> QED
      BY <1>3, <1>4, <2>2, FreeListSizes
  <1> QED
    BY <1>1, <1>2, <1>4, <1>5 DEF w

LEMMA Starts ==
    /\ \A k \in 1 .. Segments : Start(k) \in DataBlock
    /\ \A i, k \in 1 .. Segments : i < k => Start(i) + Wide <= Start(k)
    /\ \A b \in DataBlock : \E k \in 1 .. Segments, j \in 0 .. FREEBLOCKMAX : b = Start(k) + j
PROOF
  <1>1. ASSUME NEW k \in 1 .. Segments PROVE Start(k) \in DataBlock
    <2>1. (k - 1) * Wide <= (Segments - 1) * Wide
      <3>1. CASE k = Segments
        BY <3>1, Enough
      <3>2. CASE k # Segments
        <4>1. k - 1 \in Int /\ Segments - 1 \in Int /\ k - 1 < Segments - 1
          BY <3>2, Enough
        <4>2. (k - 1) * Wide + Wide <= (Segments - 1) * Wide
          BY <4>1, Enough, Further
        <4>3. (k - 1) * Wide \in Int /\ (Segments - 1) * Wide \in Int
          BY <4>1, Enough
        <4> QED
          BY <4>2, <4>3, Enough
      <3> QED
        BY <3>1, <3>2
    <2>2. (k - 1) * Wide \in Nat /\ (Segments - 1) * Wide \in Int
      BY Enough
    <2> QED
      BY <2>1, <2>2, Enough, FreeListSizes DEF Start, DataBlock, FirstSegment, SUPERBLOCKNUM
  <1>2. ASSUME NEW i \in 1 .. Segments, NEW k \in 1 .. Segments, i < k
        PROVE  Start(i) + Wide <= Start(k)
    <2>1. i - 1 \in Int /\ k - 1 \in Int /\ i - 1 < k - 1
      BY <1>2, Enough
    <2>2. (i - 1) * Wide + Wide <= (k - 1) * Wide
      BY <2>1, Enough, Further
    <2>3. (i - 1) * Wide \in Int /\ (k - 1) * Wide \in Int
      BY <2>1, Enough
    <2> QED
      BY <2>2, <2>3, Enough DEF Start, FirstSegment, SUPERBLOCKNUM
  <1>3. ASSUME NEW b \in DataBlock
        PROVE  \E k \in 1 .. Segments, j \in 0 .. FREEBLOCKMAX : b = Start(k) + j
    <2> DEFINE x == b - 2  q == x \div Wide  j == x % Wide
    <2>1. x \in Nat /\ x < DISKBLOCKTOTAL - 2 /\ b = 2 + x
      BY FreeListSizes DEF DataBlock, FirstSegment, SUPERBLOCKNUM
    <2> HIDE DEF x
    <2>2. q \in Int /\ j \in 0 .. Wide - 1 /\ x = q * Wide + j
      BY <2>1, Enough, Divide
    <2> HIDE DEF q, j
    <2>3. q >= 0
      <3> SUFFICES ASSUME q < 0 PROVE FALSE
        BY <2>2
      <3>1. q * Wide + Wide <= 0 * Wide
        BY <2>2, Enough, Further
      <3>2. q * Wide \in Int /\ 0 * Wide = 0
        BY <2>2, Enough
      <3> QED
        BY <2>1, <2>2, <3>1, <3>2, Enough
    <2>4. q < Segments
      <3> SUFFICES ASSUME Segments <= q PROVE FALSE
        BY <2>2, Enough
      <3>1. Segments * Wide <= q * Wide
        <4>1. CASE Segments = q
          BY <2>2, <4>1, Enough
        <4>2. CASE Segments < q
          <5>1. Segments * Wide + Wide <= q * Wide
            BY <2>2, <4>2, Enough, Further
          <5>2. Segments * Wide \in Int /\ q * Wide \in Int
            BY <2>2, Enough
          <5> QED
            BY <5>1, <5>2, Enough
        <4> QED
          BY <2>2, <4>1, <4>2, Enough
      <3>2. Segments * Wide \in Int /\ q * Wide \in Int
        BY <2>2, Enough
      <3> QED
        BY <2>1, <2>2, <3>1, <3>2, Enough, FreeListSizes
    <2>5. q + 1 \in 1 .. Segments /\ j \in 0 .. FREEBLOCKMAX
      BY <2>2, <2>3, <2>4, Enough, FreeListSizes DEF Wide
    <2>6. b = Start(q + 1) + j
      <3>1. (q + 1) - 1 = q /\ q * Wide \in Int
        BY <2>2, Enough
      <3>2. Start(q + 1) = 2 + q * Wide
        BY <3>1 DEF Start, FirstSegment, SUPERBLOCKNUM
      <3> QED
        BY <2>1, <2>2, <3>1, <3>2
    <2> QED
      BY <2>5, <2>6
  <1> QED
    BY <1>1, <1>2, <1>3

(* A segment that names the blocks up to the next one, or to the disk's end. *)
LEMMA Rest ==
    ASSUME NEW b \in DataBlock, NEW room,
           room = IF b + FREEBLOCKMAX < DISKBLOCKTOTAL THEN FREEBLOCKMAX
                  ELSE DISKBLOCKTOTAL - 1 - b
    PROVE  LET s == [j \in {i \in 1 .. FREEBLOCKMAX : b + i < DISKBLOCKTOTAL} |-> b + j]
           IN  /\ room \in 0 .. FREEBLOCKMAX
               /\ \A j \in 0 .. FREEBLOCKMAX : b + j < DISKBLOCKTOTAL <=> j <= room
               /\ s \in Seq(DataBlock) /\ Len(s) = room /\ \A j \in 1 .. room : s[j] = b + j
PROOF
  <1>1. b \in Nat /\ b >= 2 /\ b < DISKBLOCKTOTAL
    BY FreeListSizes DEF DataBlock, FirstSegment, SUPERBLOCKNUM
  <1>2. room \in 0 .. FREEBLOCKMAX /\ room \in Nat
    BY <1>1, FreeListSizes
  <1>3. \A j \in 0 .. FREEBLOCKMAX : b + j < DISKBLOCKTOTAL <=> j <= room
    BY <1>1, FreeListSizes
  <1>4. {i \in 1 .. FREEBLOCKMAX : b + i < DISKBLOCKTOTAL} = 1 .. room
    BY <1>1, <1>2, <1>3, FreeListSizes
  <1>5. \A j \in 1 .. room : b + j \in DataBlock
    BY <1>1, <1>2, <1>3, FreeListSizes DEF DataBlock, FirstSegment, SUPERBLOCKNUM
  <1> DEFINE s == [j \in 1 .. room |-> b + j]
  <1>6. s \in Seq(DataBlock) /\ Len(s) = room
    BY <1>2, <1>5
  <1> QED
    BY <1>2, <1>3, <1>4, <1>6

(* The list sbInit() makes names every block once. *)
LEMMA Fresh == Good(FreshList) /\ FreshList # <<>> /\ BlocksOf(FreshList) = DataBlock
PROOF
  <1> DEFINE new == FreshList  K == Segments
  <1>1. K \in Nat /\ K >= 1
    BY Enough
  <1>2. ASSUME NEW k \in 1 .. K
        PROVE  /\ new[k] \in Segment /\ new[k].fr_blocknum = Start(k)
               /\ Room(k) \in 0 .. FREEBLOCKMAX
               /\ \A j \in 0 .. FREEBLOCKMAX : Start(k) + j < DISKBLOCKTOTAL <=> j <= Room(k)
               /\ Len(new[k].fr_free) = Room(k)
               /\ \A j \in 1 .. Room(k) : new[k].fr_free[j] = Start(k) + j
    <2> DEFINE b == Start(k)
               s == [j \in {i \in 1 .. FREEBLOCKMAX : b + i < DISKBLOCKTOTAL} |-> b + j]
    <2>1. new[k] = [fr_blocknum |-> b, fr_free |-> s]
      BY DEF FreshList, Start, Wide
    <2>2. b \in DataBlock
      BY Starts
    <2>3. Room(k) = IF b + FREEBLOCKMAX < DISKBLOCKTOTAL THEN FREEBLOCKMAX
                    ELSE DISKBLOCKTOTAL - 1 - b
      BY DEF Room
    <2> HIDE DEF b, new
    <2>4. /\ Room(k) \in 0 .. FREEBLOCKMAX
          /\ \A j \in 0 .. FREEBLOCKMAX : b + j < DISKBLOCKTOTAL <=> j <= Room(k)
          /\ s \in Seq(DataBlock) /\ Len(s) = Room(k) /\ \A j \in 1 .. Room(k) : s[j] = b + j
      BY <2>2, <2>3, Rest
    <2> HIDE DEF s
    <2>5. new[k] \in Segment /\ new[k].fr_blocknum = b /\ new[k].fr_free = s
      BY <2>1, <2>2, <2>4 DEF Segment
    <2> QED
      BY <2>4, <2>5 DEF b
  <1>3. new = [k \in 1 .. K |-> new[k]]
    BY DEF FreshList
  <1> HIDE DEF new, K
  <1>4. new \in Seq(Segment) /\ Len(new) = K
    BY <1>1, <1>2, <1>3
  <1>5. Shape(new)
    <2>1. \A k \in 1 .. K : Len(new[k].fr_free) <= FREEBLOCKMAX
      BY <1>2, FreeListSizes
    <2> QED
      BY <1>4, <2>1 DEF Shape
  <1>6. \A k, j, x : Names(new, k, j, x) <=>
          k \in 1 .. K /\ j \in 0 .. FREEBLOCKMAX /\ x = Start(k) + j /\ x < DISKBLOCKTOTAL
    <2> TAKE k, j, x
    <2>0. \A i \in 1 .. K : Start(i) \in Int
      BY Starts, FreeListSizes DEF K, DataBlock, FirstSegment, SUPERBLOCKNUM
    <2>1. ASSUME Names(new, k, j, x)
          PROVE  k \in 1 .. K /\ j \in 0 .. FREEBLOCKMAX /\ x = Start(k) + j /\ x < DISKBLOCKTOTAL
      <3>1. k \in 1 .. K /\ j \in 0 .. Room(k)
        BY <1>2, <1>4, <2>1 DEF Names
      <3>2. j \in 0 .. FREEBLOCKMAX /\ j <= Room(k)
        BY <1>2, <3>1, FreeListSizes
      <3>3. x = Start(k) + j
        BY <1>2, <2>0, <2>1, <3>1 DEF Names
      <3> QED
        BY <1>2, <3>1, <3>2, <3>3
    <2>2. ASSUME k \in 1 .. K, j \in 0 .. FREEBLOCKMAX, x = Start(k) + j, x < DISKBLOCKTOTAL
          PROVE  Names(new, k, j, x)
      <3>1. j \in 0 .. Room(k)
        BY <1>2, <2>2, FreeListSizes
      <3>2. x = IF j = 0 THEN new[k].fr_blocknum ELSE new[k].fr_free[j]
        <4>1. CASE j = 0
          BY <1>2, <2>0, <2>2, <4>1
        <4>2. CASE j # 0
          <5>1. j \in 1 .. Room(k)
            BY <1>2, <3>1, <4>2
          <5> QED
            BY <1>2, <2>2, <4>2, <5>1
        <4> QED
          BY <4>1, <4>2
      <3> QED
        BY <1>2, <1>4, <2>2, <3>1, <3>2 DEF Names
    <2> QED
      BY <2>1, <2>2
  <1>7. Distinct(new)
    <2>1. ASSUME NEW i, NEW j, NEW k, NEW m, NEW x, Names(new, i, j, x), Names(new, k, m, x)
          PROVE  i = k /\ j = m
      <3>1. /\ i \in 1 .. K /\ k \in 1 .. K /\ j \in 0 .. FREEBLOCKMAX /\ m \in 0 .. FREEBLOCKMAX
            /\ Start(i) + j = Start(k) + m
        BY <1>6, <2>1
      <3>2. Start(i) \in Int /\ Start(k) \in Int
        BY <3>1, Starts, FreeListSizes DEF K, DataBlock, FirstSegment, SUPERBLOCKNUM
      <3>3. ~(i < k) /\ ~(k < i)
        <4>1. i < k => Start(i) + FREEBLOCKMAX < Start(k)
          BY <3>1, <3>2, Starts, FreeListSizes DEF K, Wide
        <4>2. k < i => Start(k) + FREEBLOCKMAX < Start(i)
          BY <3>1, <3>2, Starts, FreeListSizes DEF K, Wide
        <4> QED
          BY <3>1, <3>2, <4>1, <4>2, FreeListSizes
      <3>4. i = k
        BY <1>1, <3>1, <3>3
      <3> QED
        BY <3>1, <3>2, <3>4
    <2> QED
      BY <2>1 DEF Distinct
  <1>8. BlocksOf(new) = DataBlock
    <2>1. BlocksOf(new) \subseteq DataBlock /\ \A x : x \in BlocksOf(new) <=> \E k, j : Names(new, k, j, x)
      BY <1>5, Named
    <2>2. ASSUME NEW x \in DataBlock PROVE x \in BlocksOf(new)
      <3>1. PICK k \in 1 .. Segments, j \in 0 .. FREEBLOCKMAX : x = Start(k) + j
        BY Starts
      <3>2. x < DISKBLOCKTOTAL
        BY FreeListSizes DEF DataBlock, FirstSegment, SUPERBLOCKNUM
      <3>3. Names(new, k, j, x)
        BY <1>6, <3>1, <3>2 DEF K
      <3> QED
        BY <2>1, <3>3
    <2> QED
      BY <2>1, <2>2
  <1>9. new # <<>>
    BY <1>1, <1>4
  <1> QED
    BY <1>5, <1>7, <1>8, <1>9 DEF Good, new

------------------------------------------------------------------------------
(* Every set of natural numbers has a least, so what holds of 0 and passes  *)
(* from n to n + 1 holds of all.                                            *)
LEMMA Least ==
    ASSUME NEW T \in SUBSET Nat, T # {}
    PROVE  \E x \in T : \A y \in T : x <= y
PROOF
  <1> DEFINE R == {s \in Nat \X Nat : s[1] < s[2]}
  <1>1. R = OpToRel(<, Nat)
    BY DEF OpToRel
  <1>2. IsWellFoundedOn(R, Nat)
    BY <1>1, NatLessThanWellFounded
  <1>3. \E x \in T : \A y \in T : ~ (<<y, x>> \in R)
    BY <1>2, WFMin
  <1>4. \A x, y \in T : <<y, x>> \notin R => x <= y
    OBVIOUS
  <1> QED
    BY <1>3, <1>4

LEMMA Induct ==
    ASSUME NEW S, 0 \in S, \A n \in Nat : n \in S => n + 1 \in S
    PROVE  Nat \subseteq S
PROOF
  <1> SUFFICES ASSUME NEW m \in Nat, m \notin S PROVE FALSE
    OBVIOUS
  <1> DEFINE T == {n \in Nat : n \notin S}
  <1>1. T \in SUBSET Nat /\ T # {}
    OBVIOUS
  <1> HIDE DEF T
  <1>2. PICK x \in T : \A y \in T : x <= y
    BY <1>1, Least
  <1>3. x \in Nat /\ x \notin S /\ x # 0
    BY DEF T
  <1>4. x - 1 \in Nat /\ x - 1 \notin T
    BY <1>1, <1>2, <1>3
  <1>5. x - 1 \in S
    BY <1>4 DEF T
  <1> QED
    BY <1>3, <1>4, <1>5

(* The blocks met on the disk, one after the other: Way is a recursive      *)
(* function, and there is a function that obeys its equation.               *)
After(d, b)    == IF b # NULL /\ IsSegment(d[b]) THEN d[b].fr_next ELSE NULL
Meet(d, f, k)  == IF k = 1 THEN d[SUPERBLOCKNUM].sb_freelst ELSE After(d, f[k - 1])

LEMMA WayExists ==
    ASSUME NEW d, NEW n \in Nat
    PROVE  \E f : f = [k \in 1 .. n |-> Meet(d, f, k)]
PROOF
  <1> DEFINE S == {m \in Nat : \E f : f = [k \in 1 .. m |-> Meet(d, f, k)]}
  <1>1. 0 \in S
    <2>1. 1 .. 0 = {}
      OBVIOUS
    <2> DEFINE f == [k \in {} |-> 0]
    <2>2. f = [k \in {} |-> Meet(d, f, k)]
      OBVIOUS
    <2> QED
      BY <2>1, <2>2
  <1>2. ASSUME NEW m \in Nat, m \in S PROVE m + 1 \in S
    <2>1. PICK f : f = [k \in 1 .. m |-> Meet(d, f, k)]
      BY <1>2
    <2> DEFINE g == [k \in 1 .. m + 1 |-> IF k <= m THEN f[k] ELSE Meet(d, f, k)]
    <2>2. ASSUME NEW k \in 1 .. m + 1 PROVE g[k] = Meet(d, g, k)
      <3>1. k # 1 => g[k - 1] = f[k - 1]
        OBVIOUS
      <3>2. Meet(d, g, k) = Meet(d, f, k)
        BY <3>1 DEF Meet
      <3>3. k <= m => f[k] = Meet(d, f, k)
        BY <2>1
      <3> QED
        BY <3>2, <3>3
    <2>3. g = [k \in 1 .. m + 1 |-> Meet(d, g, k)]
      BY <2>2
    <2> HIDE DEF g
    <2>4. \E e : e = [k \in 1 .. m + 1 |-> Meet(d, e, k)]
      BY <2>3
    <2> QED
      BY <2>4
  <1> HIDE DEF S
  <1>3. Nat \subseteq S
    BY <1>1, <1>2, Induct
  <1> QED
    BY <1>3 DEF S

LEMMA WayIs ==
    ASSUME NEW d
    PROVE  Way(d) = [k \in 1 .. DISKBLOCKTOTAL |-> Meet(d, Way(d), k)]
PROOF
  <1> DEFINE Def(f) == [k \in 1 .. DISKBLOCKTOTAL |-> Meet(d, f, k)]
  <1>1. Way(d) = CHOOSE f : f = Def(f)
    BY DEF Way, Meet, After
  <1>2. \E f : f = Def(f)
    BY WayExists, FreeListSizes
  <1> QED
    BY <1>1, <1>2

(* A list as the disk has it. *)
HeadOf(l) == IF l = << >> THEN NULL ELSE l[1].fr_blocknum
On(d, l)  == /\ DOMAIN d = Block
             /\ d[SUPERBLOCKNUM] = Super(HeadOf(l))
             /\ \A i \in 1 .. Len(l) : d[l[i].fr_blocknum] = Image(l, i)

LEMMA ImageIs ==
    ASSUME NEW l, NEW i
    PROVE  /\ IsSegment(Image(l, i)) /\ Image(l, i).fr_free = l[i].fr_free
           /\ Image(l, i).fr_next = IF i = Len(l) THEN NULL ELSE l[i + 1].fr_blocknum
PROOF
  BY DEF Image, IsSegment

(* The segments' own blocks are blocks of the disk, none twice, so there    *)
(* are fewer segments than blocks.                                          *)
LEMMA Own1 ==
    ASSUME NEW l, Good(l)
    PROVE  /\ l \in Seq(Segment) /\ Len(l) \in Nat
           /\ \A i \in 1 .. Len(l) : l[i] \in Segment /\ l[i].fr_blocknum \in DataBlock
           /\ \A i, j \in 1 .. Len(l) : l[i].fr_blocknum = l[j].fr_blocknum => i = j
PROOF
  <1>1. l \in Seq(Segment) /\ Len(l) \in Nat /\ \A i \in 1 .. Len(l) : l[i] \in Segment
    BY DEF Good, Shape
  <1>2. \A i \in 1 .. Len(l) : l[i].fr_blocknum \in DataBlock /\ l[i].fr_free \in Seq(DataBlock)
    BY <1>1 DEF Segment
  <1>3. \A i \in 1 .. Len(l) : Names(l, i, 0, l[i].fr_blocknum)
    BY <1>1, <1>2 DEF Names
  <1> QED
    BY <1>1, <1>2, <1>3 DEF Good, Distinct

LEMMA Shorter ==
    ASSUME NEW l, Good(l)
    PROVE  Len(l) < DISKBLOCKTOTAL
PROOF
  <1> SUFFICES ASSUME Len(l) >= DISKBLOCKTOTAL PROVE FALSE
    BY Own1, FreeListSizes
  <1> DEFINE n == Len(l)  f == [i \in 1 .. n |-> l[i].fr_blocknum]
  <1>1. n \in Nat /\ n >= DISKBLOCKTOTAL /\ f \in [1 .. n -> DataBlock]
    BY Own1
  <1>2. \A i, j \in 1 .. n : f[i] = f[j] => i = j
    BY Own1
  <1> HIDE DEF n, f
  <1>3. IsFiniteSet(1 .. n) /\ Cardinality(1 .. n) = n
    <2>1. Cardinality(1 .. n) = IF 1 > n THEN 0 ELSE n - 1 + 1
      BY <1>1, FS_Interval
    <2>2. IsFiniteSet(1 .. n)
      BY <1>1, FS_Interval
    <2> QED
      BY <1>1, <2>1, <2>2, FreeListSizes
  <1>4. IsFiniteSet(DataBlock) /\ Cardinality(DataBlock) < n
    <2> DEFINE a == FirstSegment  b == DISKBLOCKTOTAL - 1
    <2>1. a \in Int /\ b \in Int /\ a = 2 /\ b = DISKBLOCKTOTAL - 1 /\ DataBlock = a .. b
      BY FreeListSizes DEF FirstSegment, SUPERBLOCKNUM, DataBlock
    <2> HIDE DEF a, b
    <2>2. IsFiniteSet(a .. b) /\ Cardinality(a .. b) = IF a > b THEN 0 ELSE b - a + 1
      BY <2>1, FS_Interval
    <2> QED
      BY <1>1, <2>1, <2>2, FreeListSizes
  <1> QED
    BY <1>1, <1>2, <1>3, <1>4, FS_PigeonHole

(* As far as the segments are on the disk, the way leads along them and to  *)
(* the one that follows.                                                    *)
LEMMA Along ==
    ASSUME NEW l, Good(l), NEW d, d[SUPERBLOCKNUM] = Super(HeadOf(l)),
           NEW m \in 0 .. Len(l), \A i \in 1 .. m : d[l[i].fr_blocknum] = Image(l, i)
    PROVE  /\ \A k \in 1 .. Len(l) : k <= m + 1 => Way(d)[k] = l[k].fr_blocknum
           /\ m = Len(l) => \A k \in 1 .. DISKBLOCKTOTAL : k > m => Way(d)[k] = NULL
PROOF
  <1> DEFINE n == Len(l)  at(k) == IF k <= n THEN l[k].fr_blocknum ELSE NULL
             S == {k \in Nat : k + 1 \in 1 .. DISKBLOCKTOTAL /\ (k <= m \/ m = n) => Way(d)[k + 1] = at(k + 1)}
  <1>1. n \in Nat /\ n < DISKBLOCKTOTAL /\ m \in Nat /\ m <= n
    BY Own1, Shorter
  <1>2. \A k \in 1 .. DISKBLOCKTOTAL : Way(d)[k] = Meet(d, Way(d), k)
    BY WayIs
  <1>3. 0 \in S
    <2>1. HeadOf(l) = at(1)
      BY <1>1, Own1 DEF HeadOf
    <2>2. Way(d)[1] = HeadOf(l)
      BY <1>2, FreeListSizes DEF Meet, Super
    <2> QED
      BY <2>1, <2>2
  <1>4. ASSUME NEW k \in Nat, k \in S PROVE k + 1 \in S
    <2> SUFFICES ASSUME k + 2 \in 1 .. DISKBLOCKTOTAL, k + 1 <= m \/ m = n
                 PROVE  Way(d)[k + 2] = at(k + 2)
      <3>1. (k + 1) + 1 = k + 2
        OBVIOUS
      <3> QED
        BY <3>1
    <2>1. Way(d)[k + 1] = at(k + 1)
      <3>1. k + 1 \in 1 .. DISKBLOCKTOTAL /\ (k <= m \/ m = n)
        BY <1>1, FreeListSizes
      <3> QED
        BY <1>4, <3>1
    <2>2. Way(d)[k + 2] = After(d, at(k + 1))
      <3>1. (k + 2) - 1 = k + 1 /\ k + 2 # 1
        OBVIOUS
      <3> QED
        BY <1>2, <2>1, <3>1 DEF Meet
    <2>3. CASE k + 1 <= n
      <3>1. k + 1 \in 1 .. m /\ k + 1 \in 1 .. n
        BY <1>1, <2>3
      <3>2. at(k + 1) = l[k + 1].fr_blocknum /\ d[at(k + 1)] = Image(l, k + 1) /\ at(k + 1) # NULL
        BY <2>3, <3>1, Own1, FreeListSizes DEF DataBlock, FirstSegment, SUPERBLOCKNUM, NULL
      <3>3. After(d, at(k + 1)) = IF k + 1 = n THEN NULL ELSE l[(k + 1) + 1].fr_blocknum
        BY <3>2 DEF After, Image, IsSegment
      <3>4. (k + 1) + 1 = k + 2
        OBVIOUS
      <3> QED
        BY <1>1, <2>2, <2>3, <3>3, <3>4
    <2>4. CASE ~(k + 1 <= n)
      <3>1. at(k + 1) = NULL /\ at(k + 2) = NULL
        BY <1>1, <2>4
      <3> QED
        BY <2>2, <3>1 DEF After
    <2> QED
      BY <2>3, <2>4
  <1> HIDE DEF S
  <1>5. Nat \subseteq S
    BY <1>3, <1>4, Induct
  <1>6. ASSUME NEW k \in 1 .. DISKBLOCKTOTAL, k <= m + 1 \/ m = n PROVE Way(d)[k] = at(k)
    <2>1. k - 1 \in Nat /\ (k - 1) + 1 = k /\ (k - 1 <= m \/ m = n)
      BY <1>1, <1>6, FreeListSizes
    <2>2. k - 1 \in S
      BY <1>5, <2>1
    <2> QED
      BY <2>1, <2>2 DEF S
  <1>7. ASSUME NEW k \in 1 .. n, k <= m + 1 PROVE Way(d)[k] = l[k].fr_blocknum
    <2>1. k \in 1 .. DISKBLOCKTOTAL /\ k <= n
      BY <1>1, FreeListSizes
    <2> QED
      BY <1>6, <1>7, <2>1
  <1>8. ASSUME m = n, NEW k \in 1 .. DISKBLOCKTOTAL, k > m PROVE Way(d)[k] = NULL
    BY <1>1, <1>6, <1>8, FreeListSizes
  <1> QED
    BY <1>7, <1>8

(* What sbOpen() makes of the disk is the list that is on it.               *)
LEMMA Opened ==
    ASSUME NEW l, Good(l), NEW d, On(d, l)
    PROVE  ChainWhole(d) /\ sbOpenFreeList(d) = l
PROOF
  <1> DEFINE n == Len(l)
  <1>1. n \in Nat /\ n < DISKBLOCKTOTAL
    BY Own1, Shorter
  <1>2. /\ \A k \in 1 .. n : Way(d)[k] = l[k].fr_blocknum
        /\ \A k \in 1 .. DISKBLOCKTOTAL : k > n => Way(d)[k] = NULL
    <2>1. n \in 0 .. Len(l) /\ \A i \in 1 .. n : d[l[i].fr_blocknum] = Image(l, i)
      BY <1>1 DEF On
    <2>2. d[SUPERBLOCKNUM] = Super(HeadOf(l))
      BY DEF On
    <2>3. /\ \A k \in 1 .. Len(l) : k <= n + 1 => Way(d)[k] = l[k].fr_blocknum
          /\ n = Len(l) => \A k \in 1 .. DISKBLOCKTOTAL : k > n => Way(d)[k] = NULL
      BY <2>1, <2>2, Along
    <2> QED
      BY <1>1, <2>3
  <1>3. \A k \in 1 .. n : l[k].fr_blocknum # NULL /\ k \in 1 .. DISKBLOCKTOTAL
    BY <1>1, Own1, FreeListSizes DEF DataBlock, FirstSegment, SUPERBLOCKNUM, NULL
  <1>4. {j \in 1 .. DISKBLOCKTOTAL : Way(d)[j] # NULL} = 1 .. n
    BY <1>1, <1>2, <1>3, FreeListSizes
  <1>5. Chain(d) = [k \in 1 .. n |-> l[k].fr_blocknum]
    BY <1>2, <1>4 DEF Chain
  <1>6. Chain(d) \in Seq(DataBlock) /\ Len(Chain(d)) = n /\ \A k \in 1 .. n : Chain(d)[k] = l[k].fr_blocknum
    <2>1. \A k \in 1 .. n : l[k].fr_blocknum \in DataBlock
      BY Own1
    <2> HIDE DEF n
    <2> QED
      BY <1>1, <1>5, <2>1
  <1>7. \A k \in 1 .. n : d[l[k].fr_blocknum] = Image(l, k)
    BY DEF On
  <1>8. ChainWhole(d)
    <2>1. Magic(d)
      BY DEF On, Magic, Super
    <2>2. \A b \in ToSet(Chain(d)) : \E k \in 1 .. n : b = l[k].fr_blocknum
      BY <1>6 DEF ToSet
    <2>3. \A k \in 1 .. n : IsSegment(d[l[k].fr_blocknum])
      BY <1>7, ImageIs
    <2> QED
      BY <2>1, <2>2, <2>3 DEF ChainWhole
  <1>9. ASSUME NEW k \in 1 .. n
        PROVE  [fr_blocknum |-> Chain(d)[k], fr_free |-> d[Chain(d)[k]].fr_free] = l[k]
    <2>1. l[k] \in Segment /\ d[l[k].fr_blocknum].fr_free = l[k].fr_free
      BY <1>7, Own1, ImageIs
    <2> QED
      BY <1>6, <2>1 DEF Segment
  <1>10. sbOpenFreeList(d) = [k \in 1 .. n |-> l[k]]
    BY <1>6, <1>9 DEF sbOpenFreeList
  <1>11. l = [k \in 1 .. n |-> l[k]]
    BY Own1
  <1> QED
    BY <1>8, <1>10, <1>11

(* Where sbInit() has come to segment m only, the way ends at a block that  *)
(* is none.                                                                 *)
LEMMA Unfinished ==
    ASSUME NEW l, Good(l), NEW d, d[SUPERBLOCKNUM] = Super(HeadOf(l)),
           NEW m \in Nat, m < Len(l), \A i \in 1 .. m : d[l[i].fr_blocknum] = Image(l, i),
           ~IsSegment(d[l[m + 1].fr_blocknum])
    PROVE  ~ChainWhole(d)
PROOF
  <1> DEFINE b == l[m + 1].fr_blocknum
  <1>1. m + 1 \in 1 .. Len(l) /\ m \in 0 .. Len(l) /\ m + 1 \in 1 .. DISKBLOCKTOTAL
    BY Own1, Shorter, FreeListSizes
  <1>2. Way(d)[m + 1] = b
    <2>1. \A k \in 1 .. Len(l) : k <= m + 1 => Way(d)[k] = l[k].fr_blocknum
      BY <1>1, Along
    <2> QED
      BY <1>1, <2>1
  <1>3. b # NULL
    BY <1>1, Own1, FreeListSizes DEF DataBlock, FirstSegment, SUPERBLOCKNUM, NULL
  <1>4. b \in ToSet(Chain(d))
    BY <1>1, <1>2, <1>3 DEF Chain, ToSet
  <1> QED
    BY <1>4 DEF ChainWhole
------------------------------------------------------------------------------
(* What a write does to the list on the disk.  A block that is none of the  *)
(* list's may hold anything.                                                *)
LEMMA Elsewhere ==
    ASSUME NEW l, Good(l), NEW d, On(d, l), NEW b \in DataBlock, b \notin BlocksOf(l), NEW c
    PROVE  On([d EXCEPT ![b] = c], l)
PROOF
  <1>1. \A i \in 1 .. Len(l) : l[i].fr_blocknum \in BlocksOf(l)
    BY DEF BlocksOf
  <1>2. b # SUPERBLOCKNUM /\ b \in Block
    BY FreeListSizes DEF DataBlock, FirstSegment, SUPERBLOCKNUM, Block
  <1> QED
    BY <1>1, <1>2, Own1 DEF On

(* One segment is written, and the others are on the disk already as they   *)
(* are to be.                                                               *)
LEMMA Rewritten ==
    ASSUME NEW l, Good(l), NEW d, On(d, l), NEW new, Good(new), NEW i \in 1 .. Len(new),
           HeadOf(new) = HeadOf(l),
           \A j \in 1 .. Len(new) : j # i =>
               \E k \in 1 .. Len(l) :
                   new[j].fr_blocknum = l[k].fr_blocknum /\ Image(new, j) = Image(l, k)
    PROVE  On([d EXCEPT ![new[i].fr_blocknum] = Image(new, i)], new)
PROOF
  <1> DEFINE b == new[i].fr_blocknum  c == Image(new, i)  e == [d EXCEPT ![b] = c]
  <1>1. b \in DataBlock /\ b # SUPERBLOCKNUM /\ b \in Block
    BY Own1, FreeListSizes DEF DataBlock, FirstSegment, SUPERBLOCKNUM, Block
  <1>2. DOMAIN d = Block /\ d[SUPERBLOCKNUM] = Super(HeadOf(l))
    BY DEF On
  <1>3. \A k \in 1 .. Len(l) : d[l[k].fr_blocknum] = Image(l, k)
    BY DEF On
  <1>4. \A j \in 1 .. Len(new) : new[j].fr_blocknum \in Block
    BY Own1, FreeListSizes DEF DataBlock, FirstSegment, SUPERBLOCKNUM, Block
  <1>5. ASSUME NEW j \in 1 .. Len(new), j # i PROVE e[new[j].fr_blocknum] = Image(new, j)
    <2>1. new[j].fr_blocknum # b
      BY <1>5, Own1
    <2>2. d[new[j].fr_blocknum] = Image(new, j)
      BY <1>3, <1>5
    <2> QED
      BY <1>2, <1>4, <2>1, <2>2
  <1>6. e[b] = c /\ e[SUPERBLOCKNUM] = d[SUPERBLOCKNUM] /\ DOMAIN e = DOMAIN d
    BY <1>1, <1>2
  <1> HIDE DEF e
  <1>7. \A j \in 1 .. Len(new) : e[new[j].fr_blocknum] = Image(new, j)
    BY <1>5, <1>6
  <1>8. On(e, new)
    BY <1>2, <1>6, <1>7 DEF On
  <1> QED
    BY <1>8 DEF e

LEMMA SameSegment ==
    ASSUME NEW x \in Segment, NEW y \in Segment,
           x.fr_free = y.fr_free, x.fr_blocknum = y.fr_blocknum
    PROVE  x = y
PROOF
  BY DEF Segment

LEMMA SameImage ==
    ASSUME NEW l, NEW j, NEW m, NEW k, m[j].fr_free = l[k].fr_free,
           j = Len(m) <=> k = Len(l),
           j # Len(m) => m[j + 1].fr_blocknum = l[k + 1].fr_blocknum
    PROVE  Image(m, j) = Image(l, k)
PROOF
  BY DEF Image

(* The list on the disk may be longer than that in memory: a full list was  *)
(* cut off there only, and its last segment but one emptied.                *)
CutOf(e, l) ==
    /\ Len(l) >= 1 /\ Len(e) = Len(l) + 1
    /\ l[Len(l)].fr_free = << >> /\ e[Len(l)].fr_blocknum = l[Len(l)].fr_blocknum
    /\ \A i \in 1 .. Len(l) : i # Len(l) => e[i] = l[i]

(* sbGetBlock() takes the head's last entry.  The disk had e for l; it has  *)
(* a list like it for the new one, less the block taken.                    *)
LEMMA EntryTaken ==
    ASSUME NEW l, Good(l), l # <<>>, l[1].fr_free # <<>>,
           NEW e, Good(e), e = l \/ CutOf(e, l), NEW d, On(d, e)
    PROVE  LET new == [l EXCEPT ![1].fr_free = Front(@)]
               b   == Last(l[1].fr_free)
           IN  \E f : /\ Good(f) /\ On([d EXCEPT ![l[1].fr_blocknum] = Image(new, 1)], f)
                      /\ f = new \/ (CutOf(e, l) /\ CutOf(f, new))
                      /\ BlocksOf(f) \subseteq BlocksOf(new) \cup (BlocksOf(e) \ {b})
PROOF
  <1> DEFINE new == [l EXCEPT ![1].fr_free = Front(@)]
             b   == Last(l[1].fr_free)
             f   == [e EXCEPT ![1].fr_free = Front(@)]
             w   == [d EXCEPT ![l[1].fr_blocknum] = Image(new, 1)]
  <1>1. /\ Len(l) \in Nat /\ 1 \in 1 .. Len(l) /\ Len(new) = Len(l)
        /\ new[1].fr_free = Front(l[1].fr_free) /\ new[1].fr_blocknum = l[1].fr_blocknum
        /\ \A i \in 2 .. Len(l) : new[i] = l[i]
    BY PopsTo
  <1>2. e[1] = l[1] /\ e # <<>> /\ (CutOf(e, l) => Len(l) # 1)
    <2>1. CASE e = l
      BY <1>1, <2>1 DEF CutOf
    <2>2. CASE CutOf(e, l)
      BY <1>1, <2>2 DEF CutOf
    <2> QED
      BY <2>1, <2>2
  <1>3. /\ Len(e) \in Nat /\ 1 \in 1 .. Len(e) /\ Len(f) = Len(e)
        /\ f[1].fr_free = Front(l[1].fr_free) /\ f[1].fr_blocknum = l[1].fr_blocknum
        /\ \A i \in 2 .. Len(e) : f[i] = e[i]
    BY <1>2, PopsTo
  <1>4. Good(f) /\ f # <<>> /\ BlocksOf(f) = BlocksOf(e) \ {b} /\ Good(new)
    BY <1>2, Pops
  <1> HIDE DEF new, f, b
  <1>5. Image(f, 1) = Image(new, 1)
    <2>1. 1 = Len(f) <=> 1 = Len(new)
      BY <1>1, <1>2, <1>3 DEF CutOf
    <2>2. 1 # Len(f) => f[2].fr_blocknum = new[2].fr_blocknum
      <3> SUFFICES ASSUME 1 # Len(f) PROVE f[2].fr_blocknum = new[2].fr_blocknum
        OBVIOUS
      <3>1. 2 \in 2 .. Len(e) /\ 2 \in 2 .. Len(l)
        BY <1>1, <1>3, <2>1
      <3>2. e[2].fr_blocknum = l[2].fr_blocknum
        BY <3>1 DEF CutOf
      <3> QED
        BY <1>1, <1>3, <3>1, <3>2
    <2> QED
      BY <1>1, <1>3, <2>1, <2>2, SameImage
  <1>6. On(w, f)
    <2>1. HeadOf(f) = HeadOf(e)
      BY <1>2, <1>3, <1>4 DEF HeadOf
    <2>2. ASSUME NEW j \in 1 .. Len(f), j # 1
          PROVE  f[j].fr_blocknum = e[j].fr_blocknum /\ Image(f, j) = Image(e, j) /\ j \in 1 .. Len(e)
      <3>1. j \in 2 .. Len(e) /\ f[j] = e[j]
        BY <1>3, <2>2
      <3>2. j # Len(f) => f[j + 1] = e[j + 1]
        BY <1>3, <3>1
      <3> QED
        BY <1>3, <3>1, <3>2, SameImage
    <2>3. On([d EXCEPT ![f[1].fr_blocknum] = Image(f, 1)], f)
      <3>1. 1 \in 1 .. Len(f)
        BY <1>3
      <3> QED
        BY <1>4, <2>1, <2>2, <3>1, Rewritten
    <2> QED
      BY <1>3, <1>5, <2>3
  <1>7. f = new \/ (CutOf(e, l) /\ CutOf(f, new))
    <2>1. CASE e = l
      BY <2>1 DEF f, new
    <2>2. CASE CutOf(e, l)
      <3> DEFINE n == Len(l)
      <3>1. n \in Nat /\ n >= 1 /\ n # 1 /\ Len(new) = n /\ Len(f) = n + 1
        BY <1>1, <1>2, <1>3, <2>2 DEF CutOf
      <3>2. n \in 2 .. n /\ n \in 2 .. Len(e)
        BY <1>3, <3>1
      <3>3. new[n].fr_free = <<>> /\ f[n].fr_blocknum = new[n].fr_blocknum
        BY <1>1, <1>3, <2>2, <3>2 DEF CutOf
      <3>4. ASSUME NEW i \in 1 .. n, i # n PROVE f[i] = new[i]
        <4>1. CASE i = 1
          <5>1. f[1] \in Segment /\ new[1] \in Segment
            BY <1>1, <1>3, <1>4, Own1
          <5>2. f[1] = new[1]
            BY <1>1, <1>3, <5>1, SameSegment
          <5> QED
            BY <4>1, <5>2
        <4>2. CASE i # 1
          <5>1. i \in 2 .. n /\ i \in 2 .. Len(e)
            BY <1>3, <3>1, <4>2
          <5>2. e[i] = l[i]
            BY <2>2, <3>4 DEF CutOf
          <5> QED
            BY <1>1, <1>3, <5>1, <5>2
        <4> QED
          BY <4>1, <4>2
      <3> HIDE DEF n
      <3>5. CutOf(f, new)
        BY <3>1, <3>3, <3>4 DEF CutOf
      <3> QED
        BY <2>2, <3>5
    <2> QED
      BY <2>1, <2>2
  <1> HIDE DEF w
  <1>8. \E g : /\ Good(g) /\ On(w, g)
               /\ g = new \/ (CutOf(e, l) /\ CutOf(g, new))
               /\ BlocksOf(g) \subseteq BlocksOf(new) \cup (BlocksOf(e) \ {b})
    BY <1>4, <1>6, <1>7
  <1> QED
    BY <1>8 DEF w, new, b

(* It takes over the next segment's entries: if that was the last, cut or   *)
(* not, the disk has the new list itself.                                   *)
LEMMA SegmentTaken ==
    ASSUME NEW l, Good(l), Len(l) > 1, l[1].fr_free = <<>>,
           NEW e, Good(e), e = l \/ CutOf(e, l), NEW d, On(d, e)
    PROVE  LET new == <<[l[1] EXCEPT !.fr_free = l[2].fr_free]>> \o SubSeq(l, 3, Len(l))
               b   == l[2].fr_blocknum
           IN  \E f : /\ Good(f) /\ On([d EXCEPT ![l[1].fr_blocknum] = Image(new, 1)], f)
                      /\ f = new \/ (CutOf(e, l) /\ CutOf(f, new))
                      /\ BlocksOf(f) \subseteq BlocksOf(new) \cup (BlocksOf(e) \ {b})
PROOF
  <1> DEFINE new == <<[l[1] EXCEPT !.fr_free = l[2].fr_free]>> \o SubSeq(l, 3, Len(l))
             b   == l[2].fr_blocknum
             w   == [d EXCEPT ![l[1].fr_blocknum] = Image(new, 1)]
  <1>1. /\ Len(l) \in Nat /\ 1 \in 1 .. Len(l) /\ 2 \in 1 .. Len(l)
        /\ Len(new) = Len(l) - 1
        /\ new[1].fr_free = l[2].fr_free /\ new[1].fr_blocknum = l[1].fr_blocknum
        /\ \A i \in 2 .. Len(l) - 1 : new[i] = l[i + 1]
    BY TakesOverTo
  <1>2. Good(new) /\ new # <<>>
    BY TakesOver
  <1> HIDE DEF new
  <1>3. /\ Len(e) \in Nat /\ Len(e) > 1 /\ e[1] = l[1] /\ e # <<>> /\ l # <<>>
        /\ HeadOf(new) = HeadOf(e)
    <2>1. Len(e) \in Nat /\ Len(e) > 1 /\ e[1] = l[1]
      BY <1>1, Own1 DEF CutOf
    <2>2. e # <<>> /\ l # <<>>
      BY <1>1, <2>1
    <2> QED
      BY <1>1, <1>2, <2>1, <2>2 DEF HeadOf
  <1>4. CASE e = l \/ Len(l) # 2
    <2> DEFINE f == <<[e[1] EXCEPT !.fr_free = e[2].fr_free]>> \o SubSeq(e, 3, Len(e))
    <2>1. e[1].fr_free = <<>>
      BY <1>3
    <2>2. e[2] = l[2]
      BY <1>1, <1>4 DEF CutOf
    <2>3. /\ Len(f) = Len(e) - 1
          /\ f[1].fr_free = l[2].fr_free /\ f[1].fr_blocknum = l[1].fr_blocknum
          /\ \A i \in 2 .. Len(e) - 1 : f[i] = e[i + 1]
      BY <1>3, <2>1, <2>2, TakesOverTo
    <2>4. Good(f) /\ f # <<>> /\ BlocksOf(f) = BlocksOf(e) \ {b}
      BY <1>3, <2>1, <2>2, TakesOver
    <2>5. f = new \/ (CutOf(e, l) /\ CutOf(f, new))
      <3>1. CASE e = l
        BY <3>1 DEF f, new
      <3>2. CASE e # l
        <4> HIDE DEF f
        <4> DEFINE n == Len(l)
        <4>1. CutOf(e, l) /\ n \in Nat /\ n > 2 /\ Len(e) = n + 1 /\ Len(new) = n - 1 /\ Len(f) = n
          BY <1>1, <1>4, <2>3, <3>2 DEF CutOf
        <4>2. new[n - 1] = l[n] /\ f[n - 1] = e[n]
          <5>1. n - 1 \in 2 .. n - 1 /\ n - 1 \in 2 .. Len(e) - 1 /\ (n - 1) + 1 = n
            BY <4>1
          <5> QED
            BY <1>1, <2>3, <5>1
        <4>3. new[n - 1].fr_free = <<>> /\ f[n - 1].fr_blocknum = new[n - 1].fr_blocknum
          BY <4>1, <4>2 DEF CutOf
        <4>4. ASSUME NEW i \in 1 .. n - 1, i # n - 1 PROVE f[i] = new[i]
          <5>1. CASE i = 1
            <6>1. 1 \in 1 .. Len(f) /\ 1 \in 1 .. Len(new)
              BY <4>1
            <6>2. f[1] \in Segment /\ new[1] \in Segment
              BY <1>2, <2>4, <6>1, Own1
            <6>3. f[1] = new[1]
              BY <1>1, <2>3, <6>2, SameSegment
            <6> QED
              BY <5>1, <6>3
          <5>2. CASE i # 1
            <6>1. i \in 2 .. n - 1 /\ i \in 2 .. Len(e) - 1 /\ i + 1 \in 1 .. n /\ i + 1 # n
              BY <4>1, <4>4, <5>2
            <6>2. e[i + 1] = l[i + 1]
              BY <4>1, <6>1 DEF CutOf
            <6> QED
              BY <1>1, <2>3, <6>1, <6>2
          <5> QED
            BY <5>1, <5>2
        <4> HIDE DEF n
        <4>5. CutOf(f, new)
          BY <4>1, <4>3, <4>4 DEF CutOf
        <4> QED
          BY <4>1, <4>5
      <3> QED
        BY <3>1, <3>2
    <2> HIDE DEF f, b
    <2>6. Image(f, 1) = Image(new, 1)
      <3>1. 1 = Len(f) <=> 1 = Len(new)
        BY <1>1, <1>3, <1>4, <2>3 DEF CutOf
      <3>2. 1 # Len(f) => f[2].fr_blocknum = new[2].fr_blocknum
        <4>1. CASE f = new
          BY <4>1
        <4>2. CASE f # new
          <5>1. CutOf(e, l) /\ CutOf(f, new) /\ Len(l) > 2
            BY <1>1, <1>4, <2>5, <4>2 DEF CutOf
          <5>2. 2 \in 1 .. Len(new)
            BY <1>1, <5>1
          <5> QED
            BY <5>1, <5>2 DEF CutOf
        <4> QED
          BY <4>1, <4>2
      <3> QED
        BY <1>1, <2>3, <3>1, <3>2, SameImage
    <2>7. On(w, f)
      <3>1. HeadOf(f) = HeadOf(e) /\ 1 \in 1 .. Len(f)
        BY <1>3, <2>3, <2>4 DEF HeadOf
      <3>2. ASSUME NEW j \in 1 .. Len(f), j # 1
            PROVE  \E k \in 1 .. Len(e) :
                      f[j].fr_blocknum = e[k].fr_blocknum /\ Image(f, j) = Image(e, k)
        <4>1. j \in 2 .. Len(e) - 1 /\ f[j] = e[j + 1] /\ j + 1 \in 1 .. Len(e)
          BY <1>3, <2>3, <3>2
        <4>2. j # Len(f) => f[j + 1] = e[(j + 1) + 1]
          BY <1>3, <2>3, <4>1
        <4>3. j = Len(f) <=> j + 1 = Len(e)
          BY <1>3, <2>3, <4>1
        <4>4. Image(f, j) = Image(e, j + 1)
          BY <4>1, <4>2, <4>3, SameImage
        <4> QED
          BY <4>1, <4>4
      <3>3. On([d EXCEPT ![f[1].fr_blocknum] = Image(f, 1)], f)
        BY <2>4, <3>1, <3>2, Rewritten
      <3> QED
        BY <2>3, <2>6, <3>3
    <2> HIDE DEF w
    <2>8. \E g : /\ Good(g) /\ On(w, g)
                 /\ g = new \/ (CutOf(e, l) /\ CutOf(g, new))
                 /\ BlocksOf(g) \subseteq BlocksOf(new) \cup (BlocksOf(e) \ {b})
      BY <2>4, <2>5, <2>7
    <2> QED
      BY <2>8 DEF w, new, b
  <1>5. CASE e # l /\ Len(l) = 2
    <2>1. Len(new) = 1 /\ 1 \in 1 .. Len(new)
      BY <1>1, <1>5
    <2>2. \A j \in 1 .. Len(new) : j = 1
      BY <2>1
    <2>3. On([d EXCEPT ![new[1].fr_blocknum] = Image(new, 1)], new)
      BY <1>2, <1>3, <2>1, <2>2, Rewritten
    <2>4. On(w, new)
      BY <1>1, <2>3
    <2> HIDE DEF w, b
    <2>5. \E g : /\ Good(g) /\ On(w, g)
                 /\ g = new \/ (CutOf(e, l) /\ CutOf(g, new))
                 /\ BlocksOf(g) \subseteq BlocksOf(new) \cup (BlocksOf(e) \ {b})
      BY <1>2, <2>4
    <2> QED
      BY <2>5 DEF w, new, b
  <1> QED
    BY <1>4, <1>5

(* The last segment is written with the block added: the disk has the new   *)
(* list, even if the old one was longer there.                              *)
LEMMA EntryAdded ==
    ASSUME NEW l, Good(l), l # <<>>, NEW b \in DataBlock, b \notin BlocksOf(l),
           Len(Last(l).fr_free) # FREEBLOCKMAX,
           NEW e, Good(e), e = l \/ CutOf(e, l), NEW d, On(d, e)
    PROVE  LET new == [l EXCEPT ![Len(l)].fr_free = Append(@, b)]
           IN  On([d EXCEPT ![Last(l).fr_blocknum] = Image(new, Len(new))], new)
PROOF
  <1> DEFINE n   == Len(l)
             new == [l EXCEPT ![n].fr_free = Append(@, b)]
  <1>1. /\ n \in Nat /\ n \in 1 .. n /\ Len(new) = n
        /\ new[n].fr_blocknum = l[n].fr_blocknum
        /\ \A i \in 1 .. n - 1 : new[i] = l[i]
    BY AppendsTo
  <1>2. Good(new) /\ new # <<>>
    BY Appends
  <1>3. Last(l).fr_blocknum = new[n].fr_blocknum
    BY <1>1 DEF Last
  <1> HIDE DEF new
  <1>4. /\ Len(e) \in Nat /\ Len(e) >= n
        /\ \A j \in 1 .. n : e[j].fr_blocknum = new[j].fr_blocknum
        /\ \A j \in 1 .. n - 1 : e[j] = new[j]
    <2>1. \A j \in 1 .. n - 1 : e[j] = l[j]
      BY <1>1 DEF CutOf
    <2>2. Len(e) \in Nat /\ Len(e) >= n /\ e[n].fr_blocknum = l[n].fr_blocknum
      BY <1>1, Own1 DEF CutOf
    <2>3. ASSUME NEW j \in 1 .. n PROVE e[j].fr_blocknum = new[j].fr_blocknum
      <3>1. CASE j = n
        BY <1>1, <2>2, <3>1
      <3>2. CASE j # n
        <4>1. j \in 1 .. n - 1
          BY <1>1, <3>2
        <4> QED
          BY <1>1, <2>1, <4>1
      <3> QED
        BY <3>1, <3>2
    <2> QED
      BY <1>1, <2>1, <2>2, <2>3
  <1> HIDE DEF n
  <1>5. ASSUME NEW j \in 1 .. Len(new), j # n
        PROVE  new[j].fr_blocknum = e[j].fr_blocknum /\ Image(new, j) = Image(e, j) /\ j \in 1 .. Len(e)
    <2>1. j \in 1 .. n - 1 /\ j + 1 \in 1 .. n /\ j \in 1 .. n /\ j \in 1 .. Len(e) /\ j # Len(e)
      BY <1>1, <1>4, <1>5
    <2>2. Image(new, j) = Image(e, j)
      BY <1>1, <1>4, <1>5, <2>1, SameImage
    <2> QED
      BY <1>4, <2>1, <2>2
  <1>6. HeadOf(new) = HeadOf(e)
    <2>1. 1 \in 1 .. n /\ e # <<>>
      BY <1>1, <1>4
    <2> QED
      BY <1>2, <1>4, <2>1 DEF HeadOf
  <1>7. n \in 1 .. Len(new)
    BY <1>1
  <1>8. On([d EXCEPT ![new[n].fr_blocknum] = Image(new, n)], new)
    BY <1>2, <1>5, <1>6, <1>7, Rewritten
  <1> QED
    BY <1>1, <1>3, <1>8 DEF new, n

(* A full list that is cut was not cut before, and the disk keeps all of it. *)
LEMMA CutInMemory ==
    ASSUME NEW l, Good(l), Len(l) > 1, Len(Last(l).fr_free) = FREEBLOCKMAX,
           NEW e, e = l \/ CutOf(e, l)
    PROVE  LET n   == Len(l)
               new == [SubSeq(l, 1, n - 1) EXCEPT ![n - 1].fr_free = <<>>]
           IN  e = l /\ CutOf(e, new)
PROOF
  <1> DEFINE n   == Len(l)
             new == [SubSeq(l, 1, n - 1) EXCEPT ![n - 1].fr_free = <<>>]
  <1>1. e = l
    <2>1. Last(l) = l[n]
      BY DEF Last
    <2>2. l[n].fr_free # <<>>
      BY <2>1, FreeListSizes
    <2> QED
      BY <2>2 DEF CutOf
  <1>2. /\ n \in Nat /\ Len(new) = n - 1
        /\ new[n - 1].fr_free = <<>> /\ new[n - 1].fr_blocknum = l[n - 1].fr_blocknum
        /\ \A i \in 1 .. n - 1 : i # n - 1 => new[i] = l[i]
    BY CutsTo
  <1>3. n - 1 >= 1 /\ n = (n - 1) + 1
    BY <1>2
  <1> HIDE DEF new
  <1>4. CutOf(l, new)
    BY <1>2, <1>3 DEF CutOf
  <1> QED
    BY <1>1, <1>4 DEF new

(* The first segment and the superblock.                                    *)
LEMMA FirstMade ==
    ASSUME NEW b \in DataBlock, NEW d, On(d, <<>>)
    PROVE  LET l == <<[fr_blocknum |-> b, fr_free |-> <<>>]>>
           IN  /\ On([[d EXCEPT ![b] = Image(l, 1)] EXCEPT ![SUPERBLOCKNUM] = Super(l[1].fr_blocknum)], l)
               /\ On([d EXCEPT ![b] = Image(l, 1)], <<>>)
PROOF
  <1> DEFINE l == <<[fr_blocknum |-> b, fr_free |-> <<>>]>>
             e == [d EXCEPT ![b] = Image(l, 1)]
             f == [e EXCEPT ![SUPERBLOCKNUM] = Super(l[1].fr_blocknum)]
  <1>1. Len(l) = 1 /\ l[1].fr_blocknum = b /\ l # <<>>
    OBVIOUS
  <1> HIDE DEF l
  <1>2. b # SUPERBLOCKNUM /\ b \in Block /\ SUPERBLOCKNUM \in Block
    BY FreeListSizes DEF DataBlock, FirstSegment, SUPERBLOCKNUM, Block
  <1>3. DOMAIN d = Block
    BY DEF On
  <1>4. On(e, <<>>)
    BY Empty, Elsewhere
  <1>5. e[b] = Image(l, 1) /\ DOMAIN e = Block
    BY <1>2, <1>3
  <1> HIDE DEF e
  <1>6. DOMAIN f = Block /\ f[SUPERBLOCKNUM] = Super(b) /\ f[b] = Image(l, 1)
    BY <1>1, <1>2, <1>5
  <1> HIDE DEF f
  <1>7. On(f, l)
    BY <1>1, <1>6 DEF On, HeadOf
  <1> QED
    BY <1>4, <1>7 DEF f, e, l

LEMMA LastTaken ==
    ASSUME NEW l, NEW d, On(d, l)
    PROVE  On([d EXCEPT ![SUPERBLOCKNUM] = Super(NULL)], <<>>)
PROOF
  <1>1. SUPERBLOCKNUM \in Block
    BY FreeListSizes DEF SUPERBLOCKNUM, Block
  <1> QED
    BY <1>1 DEF On, HeadOf

------------------------------------------------------------------------------
(* sbInit() after n of its writes, if none failed: the blocks it has not    *)
(* come to are as the disk was.                                             *)
Made(d, n) ==
    /\ DOMAIN d = Block
    /\ \A k \in 0 .. n - 1 : d[InitBlock(k)] = InitImage(k)
    /\ \A b \in Block : (\A k \in 0 .. n - 1 : b # InitBlock(k)) => d[b] = Blank

LEMMA FreshIs ==
    /\ Len(FreshList) = Segments /\ Segments \in Nat /\ Segments >= 1
    /\ \A k \in 1 .. Segments : FreshList[k].fr_blocknum = Start(k)
    /\ HeadOf(FreshList) = FirstSegment
PROOF
  <1>1. Segments \in Nat /\ Segments >= 1
    BY Enough
  <1>2. \A k \in 1 .. Segments : FreshList[k].fr_blocknum = Start(k)
    BY DEF FreshList, Start, Wide
  <1>3. Len(FreshList) = Segments
    <2>1. DOMAIN FreshList = 1 .. Segments
      BY DEF FreshList
    <2>2. FreshList \in Seq(Segment)
      BY Fresh DEF Good, Shape
    <2> QED
      BY <1>1, <2>1, <2>2
  <1>4. Start(1) = FirstSegment
    <2>1. (1 - 1) * Wide = 0
      BY Enough
    <2> QED
      BY <2>1 DEF Start, FirstSegment, SUPERBLOCKNUM
  <1>5. HeadOf(FreshList) = FreshList[1].fr_blocknum
    BY Fresh DEF HeadOf
  <1> QED
    BY <1>1, <1>2, <1>3, <1>4, <1>5

(* Each write has a block of its own.                                       *)
LEMMA InitBlocks ==
    /\ \A k \in 0 .. Segments + 1 : InitBlock(k) \in Block
    /\ \A k \in 1 .. Segments : InitBlock(k) = FreshList[k].fr_blocknum /\ InitBlock(k) \in DataBlock
    /\ \A j, k \in 0 .. Segments + 1 : InitBlock(j) = InitBlock(k) => j = k
    /\ InitBlock(0) = SUPERBLOCKNUM
PROOF
  <1>1. Segments \in Nat /\ Segments >= 1
    BY Enough
  <1>2. ASSUME NEW k \in 1 .. Segments
        PROVE  InitBlock(k) = FreshList[k].fr_blocknum /\ InitBlock(k) \in DataBlock
    BY <1>1, Fresh, FreshIs, Own1 DEF InitBlock
  <1>3. \A j, k \in 1 .. Segments : InitBlock(j) = InitBlock(k) => j = k
    BY <1>2, Fresh, FreshIs, Own1
  <1>4. InitBlock(0) = 0 /\ InitBlock(Segments + 1) = 1
    BY <1>1 DEF InitBlock, SUPERBLOCKNUM, DirBlock
  <1>5. \A b \in DataBlock : b \in Block /\ b # 0 /\ b # 1
    BY FreeListSizes DEF DataBlock, FirstSegment, SUPERBLOCKNUM, Block
  <1>6. 0 \in Block /\ 1 \in Block
    BY FreeListSizes DEF Block
  <1>7. \A k \in 0 .. Segments + 1 : k = 0 \/ k = Segments + 1 \/ k \in 1 .. Segments
    BY <1>1
  <1>8. \A k \in 0 .. Segments + 1 : InitBlock(k) \in Block
    BY <1>2, <1>4, <1>5, <1>6, <1>7
  <1>9. ASSUME NEW j \in 0 .. Segments + 1, NEW k \in 0 .. Segments + 1, InitBlock(j) = InitBlock(k)
        PROVE  j = k
    <2>1. \A i \in 1 .. Segments : InitBlock(i) # 0 /\ InitBlock(i) # 1
      BY <1>2, <1>5
    <2> QED
      BY <1>3, <1>4, <1>7, <1>9, <2>1
  <1> QED
    BY <1>2, <1>4, <1>8, <1>9 DEF SUPERBLOCKNUM

LEMMA MadeNone == ASSUME NEW d, Made(d, 0) PROVE ~Magic(d)
PROOF
  BY FreeListSizes DEF Made, Magic, Block, Blank, SUPERBLOCKNUM

LEMMA MadeOne == ASSUME NEW d, NEW n \in Nat, n > 0, Made(d, n) PROVE Magic(d)
PROOF
  <1>1. d[InitBlock(0)] = InitImage(0)
    BY DEF Made
  <1>2. InitImage(0).kind = "super"
    BY DEF InitImage, Super
  <1> QED
    BY <1>1, <1>2, InitBlocks DEF Magic

LEMMA MadeNext ==
    ASSUME NEW d, NEW n \in 0 .. Segments + 1, Made(d, n)
    PROVE  Made([d EXCEPT ![InitBlock(n)] = InitImage(n)], n + 1)
PROOF
  <1> DEFINE b == InitBlock(n)  c == InitImage(n)  e == [d EXCEPT ![b] = c]
  <1>1. b \in Block /\ DOMAIN d = Block
    BY InitBlocks DEF Made
  <1>2. \A k \in 0 .. n - 1 : InitBlock(k) # b /\ InitBlock(k) \in Block
    BY Enough, InitBlocks
  <1>3. 0 .. (n + 1) - 1 = 0 .. n /\ \A k \in 0 .. n : k = n \/ k \in 0 .. n - 1
    OBVIOUS
  <1>4. e[b] = c /\ DOMAIN e = Block /\ \A a \in Block : a # b => e[a] = d[a]
    BY <1>1
  <1> HIDE DEF e
  <1>5. \A k \in 0 .. n - 1 : e[InitBlock(k)] = InitImage(k)
    BY <1>2, <1>4 DEF Made
  <1>6. \A k \in 0 .. n : e[InitBlock(k)] = InitImage(k)
    BY <1>3, <1>4, <1>5
  <1>7. ASSUME NEW a \in Block, \A k \in 0 .. n : a # InitBlock(k) PROVE e[a] = Blank
    <2>1. a # b /\ \A k \in 0 .. n - 1 : a # InitBlock(k)
      BY <1>7
    <2> QED
      BY <1>4, <2>1 DEF Made
  <1>8. Made(e, n + 1)
    BY <1>3, <1>4, <1>6, <1>7 DEF Made
  <1> QED
    BY <1>8 DEF e

(* The superblock leads to segments that are not written yet.               *)
LEMMA MadePart ==
    ASSUME NEW d, NEW n \in 0 .. Segments, Made(d, n)
    PROVE  ~ChainWhole(d)
PROOF
  <1>1. CASE n = 0
    BY <1>1, MadeNone DEF ChainWhole
  <1>2. CASE n # 0
    <2> DEFINE m == n - 1  l == FreshList
    <2>1. /\ m \in Nat /\ m < Len(l) /\ m + 1 = n /\ n \in 1 .. Segments /\ n \in 0 .. Segments + 1
          /\ Segments \in Nat
      BY <1>2, FreshIs
    <2>2. d[SUPERBLOCKNUM] = Super(HeadOf(l))
      BY <2>1, InitBlocks, FreshIs DEF Made, InitImage
    <2>3. ASSUME NEW i \in 1 .. m PROVE d[l[i].fr_blocknum] = Image(l, i)
      <3>1. i \in 0 .. n - 1 /\ i \in 1 .. Segments /\ i # 0 /\ i # Segments + 1
        BY <2>1
      <3> QED
        BY <3>1, InitBlocks DEF Made, InitImage
    <2>4. ~IsSegment(d[l[m + 1].fr_blocknum])
      <3>1. InitBlock(n) = l[m + 1].fr_blocknum /\ InitBlock(n) \in Block
        BY <2>1, InitBlocks
      <3>2. \A k \in 0 .. n - 1 : InitBlock(n) # InitBlock(k)
        BY <2>1, InitBlocks
      <3>3. d[InitBlock(n)] = Blank
        BY <3>1, <3>2 DEF Made
      <3> QED
        BY <3>1, <3>3 DEF Blank, IsSegment
    <2> HIDE DEF m, l
    <2>5. Good(l)
      BY Fresh DEF l
    <2> QED
      BY <2>1, <2>2, <2>3, <2>4, <2>5, Unfinished
  <1> QED
    BY <1>1, <1>2

LEMMA MadeWhole ==
    ASSUME NEW d, NEW n \in Nat, n > Segments, Made(d, n)
    PROVE  On(d, FreshList)
PROOF
  <1>1. d[SUPERBLOCKNUM] = Super(HeadOf(FreshList))
    BY FreshIs, InitBlocks DEF Made, InitImage
  <1>2. ASSUME NEW i \in 1 .. Len(FreshList) PROVE d[FreshList[i].fr_blocknum] = Image(FreshList, i)
    <2>1. i \in 1 .. Segments /\ i \in 0 .. n - 1 /\ i # 0 /\ i # Segments + 1
      BY FreshIs
    <2> QED
      BY <2>1, InitBlocks DEF Made, InitImage
  <1> QED
    BY <1>1, <1>2 DEF On, Made
------------------------------------------------------------------------------
(* Where a process keeps a block, and where it puts the first segment.      *)
Asking  == {"getWrite", "wantFree", "free"}
Linking == {"freeSegment", "freeSuper"}

OneEach == \A p, q \in Procs :
               pc[p] \in Asking /\ pc[q] \in Asking /\ local[p] = local[q] => p = q
Linked  == \A p \in Procs : pc[p] \in Linking => local[p] # NULL /\ list # <<>>
Listed  == Good(list) /\ (sb_freelst = NULL <=> list = <<>>)

(* The blocks of the list, those held, those in calls and those lost. *)
Own(all, h, c, x) ==
    /\ DataBlock = all \cup h \cup c \cup x
    /\ all \cap (h \cup c \cup x) = {}
    /\ h \cap (c \cup x) = {} /\ c \cap x = {}

Booting ==
    /\ boot \in {Down} \cup 0 .. Up
    /\ boot = Down /\ reboots = 0 => ~Magic(disk) /\ faults = 0
    /\ boot # Up => list = <<>> /\ \A p \in Procs : pc[p] = "idle"
    /\ boot \in 0 .. Up - 1 => held = {} /\ lost = {}
    /\ held \subseteq DataBlock

(* Between two calls of the driver nobody else moves its position: either   *)
(* no files are written, or there is one process.                           *)
Lone == ~FileWrites \/ \A p, q \in Procs : p = q

(* Until the first restart a write may fail; after it, what the disk has is *)
(* known as long as none has failed.                                        *)
Known == reboots = 0 \/ (faults = 0 /\ Lone)

(* Two calls under way never have the same block, and a first segment that  *)
(* is being written is in the list.                                         *)
Placed ==
    /\ reboots \in Nat
    /\ Known =>
        /\ DOMAIN local = Procs
        /\ Listed /\ OneEach /\ Linked /\ Booting
        /\ boot = Up => Own(BlocksOf(list), held, InCall, lost)

(* A process that has positioned the driver and is going to write.          *)
Writing == {"getWrite", "freeSegment", "freeSuper", "freeWrite", "freeSpill", "fileWrite"}

(* What disk d will be when a process at the given place has written, with  *)
(* the driver at b and the list l.                                          *)
Soon(d, b, l, at) ==
    CASE at = "getWrite"    -> [d EXCEPT ![b] = IF l = << >> THEN Super(NULL) ELSE Image(l, 1)]
      [] at = "freeSegment" -> [[d EXCEPT ![b] = Image(l, 1)]
                                   EXCEPT ![SUPERBLOCKNUM] = Super(l[1].fr_blocknum)]
      [] at = "freeSuper"   -> [d EXCEPT ![b] = Super(l[1].fr_blocknum)]
      [] at = "freeWrite"   -> [d EXCEPT ![b] = Image(l, Len(l))]
      [] OTHER              -> [d EXCEPT ![b] = Other]

(* The list on disk d names no block of h; it is l, or what l was cut from,  *)
(* and the blocks it names are those of l and of x.                         *)
Safe(d, h) == \E e : Good(e) /\ On(d, e) /\ BlocksOf(e) \cap h = {}
Like(d, e, l, x, cut) ==
    /\ Good(e) /\ On(d, e)
    /\ e = l \/ (cut /\ CutOf(e, l))
    /\ BlocksOf(e) \subseteq BlocksOf(l) \cup x
Leads(d, l, x, cut) == \E e : Like(d, e, l, x, cut)

(* The disk follows the list: at once where nobody is about to write, and   *)
(* otherwise when that has been done.  At every step it has a list that is  *)
(* safe to open, or sbInit() has not come to the end of its own.            *)
Follows ==
    /\ ~FileWrites => \A p \in Procs : pc[p] # "fileWrite"
    /\ faults = 0 /\ Lone =>
        /\ boot = Down => \/ Safe(disk, held)
                          \/ held = {} /\ \E n \in 0 .. Segments : Made(disk, n)
        /\ boot \in 0 .. Up - 1 => Made(disk, boot) /\ position = InitBlock(boot)
        /\ boot = Up =>
            /\ Safe(disk, held)
            /\ (\A p \in Procs : pc[p] \notin Writing) => Leads(disk, list, lost, apart)
            /\ \A p \in Procs : pc[p] \in Writing =>
                   Leads(Soon(disk, position, list, pc[p]), list, lost, apart)
            /\ \A p \in Procs : pc[p] = "freeSegment" =>
                   On(disk, << >>) /\ position \in DataBlock

LEMMA PlacedInit == Init => Placed
PROOF
  <1> SUFFICES ASSUME Init PROVE Placed
    OBVIOUS
  <1>1. Listed
    BY Empty DEF Init, Listed
  <1>2. Segments \in Nat
    BY Enough
  <1>3. boot = Down /\ Down # Up /\ boot \notin 0 .. Up - 1
    BY <1>2 DEF Init, Down, Up
  <1>4. ~Magic(disk)
    BY FreeListSizes DEF Init, Magic, Block, Blank, SUPERBLOCKNUM
  <1>5. OneEach /\ Linked /\ Booting
    BY <1>3, <1>4 DEF Init, OneEach, Linked, Booting, Asking, Linking
  <1> QED
    BY <1>1, <1>3, <1>5 DEF Init, Placed

(* What a process changes by going on: its own place and what it keeps.     *)
LEMMA Goes ==
    ASSUME Kept, DOMAIN local = Procs, NEW p \in Procs, NEW at, NEW kept, Goto(p, at, kept)
    PROVE  /\ DOMAIN local' = Procs /\ pc'[p] = at /\ local'[p] = kept
           /\ \A q \in Procs \ {p} : pc'[q] = pc[q] /\ local'[q] = local[q]
PROOF
  BY DEF Kept, Types, Goto

LEMMA CallEnters ==
    ASSUME Kept, DOMAIN local = Procs, OneEach, NEW p \in Procs, NEW at, NEW kept,
           Goto(p, at, kept), pc[p] \notin Asking, at \in Asking, kept \notin InCall
    PROVE  OneEach' /\ InCall' = InCall \cup {kept}
PROOF
  BY Goes DEF OneEach, InCall, Asking

LEMMA CallLeaves ==
    ASSUME Kept, DOMAIN local = Procs, OneEach, NEW p \in Procs, NEW at, NEW kept,
           Goto(p, at, kept), pc[p] \in Asking, at \notin Asking
    PROVE  OneEach' /\ local[p] \in InCall /\ InCall' = InCall \ {local[p]}
PROOF
  BY Goes DEF OneEach, InCall, Asking

LEMMA CallStays ==
    ASSUME Kept, DOMAIN local = Procs, OneEach, NEW p \in Procs, NEW at, NEW kept,
           Goto(p, at, kept), pc[p] \in Asking <=> at \in Asking,
           at \in Asking => kept = local[p]
    PROVE  OneEach' /\ InCall' = InCall
PROOF
  BY Goes DEF OneEach, InCall, Asking

(* Who links a segment has the lock: the list is not emptied meanwhile.     *)
LEMMA Links ==
    ASSUME Kept, DOMAIN local = Procs, Linked, NEW p \in Procs, NEW at, NEW kept,
           Goto(p, at, kept), at \in Linking => kept # NULL /\ list' # <<>>,
           list' = list \/ list' # <<>> \/ pc[p] \in Holding
    PROVE  Linked'
PROOF
  <1>1. ASSUME NEW q \in Procs \ {p}, pc[q] \in Linking, pc[p] \in Holding PROVE FALSE
    BY <1>1 DEF Kept, OneHolder, Linking, Holding
  <1> QED
    BY <1>1, Goes DEF Linked

(* A process's step, once it is known what it does to each part.            *)
LEMMA Keeps ==
    ASSUME Placed, boot = Up, boot' = boot, reboots' = reboots, faults' = 0 => faults = 0,
           Known => /\ DOMAIN local' = Procs
                          /\ Listed' /\ OneEach' /\ Linked'
                          /\ Own(BlocksOf(list)', held', InCall', lost')
    PROVE  Placed'
PROOF
  <1>1. Down # Up /\ Up \notin 0 .. Up - 1
    BY Enough DEF Down, Up
  <1>2. Known' => Known
    BY DEF Known, Lone
  <1>3. ASSUME Known PROVE Booting'
    <2>1. held' \subseteq DataBlock
      BY <1>3 DEF Own
    <2> QED
      BY <1>1, <1>3, <2>1 DEF Placed, Booting
  <1>4. BlocksOf(list') = BlocksOf(list)'
    OBVIOUS
  <1> QED
    BY <1>2, <1>3, <1>4 DEF Placed

LEMMA Unknown ==
    ASSUME Placed, reboots' = reboots, faults' = 0 => faults = 0, ~Known
    PROVE  Placed'
PROOF
  BY DEF Placed, Known, Lone

(* A step that leaves the list and the blocks with callers alone.           *)
LEMMA Walks ==
    ASSUME Kept, Placed, NEW p \in Procs, NEW at, NEW kept, Goto(p, at, kept),
           boot = Up, boot' = boot, reboots' = reboots, faults' = 0 => faults = 0, list' = list,
           sb_freelst' = sb_freelst \/ (sb_freelst' # NULL /\ list # <<>>),
           held' = held, lost' = lost,
           pc[p] \in Asking <=> at \in Asking, at \in Asking => kept = local[p],
           at \in Linking => kept # NULL /\ list # <<>>
    PROVE  Placed'
PROOF
  <1> SUFFICES ASSUME Known
               PROVE  /\ DOMAIN local' = Procs /\ Listed' /\ OneEach' /\ Linked'
                      /\ Own(BlocksOf(list)', held', InCall', lost')
    BY Keeps
  <1>1. DOMAIN local = Procs /\ Listed /\ OneEach /\ Linked /\ Own(BlocksOf(list), held, InCall, lost)
    BY DEF Placed
  <1>2. DOMAIN local' = Procs
    BY <1>1, Goes
  <1>3. OneEach' /\ InCall' = InCall
    BY <1>1, CallStays
  <1>4. Linked'
    BY <1>1, Links
  <1>5. Listed' /\ BlocksOf(list)' = BlocksOf(list)
    BY <1>1 DEF Listed
  <1> QED
    BY <1>1, <1>2, <1>3, <1>4, <1>5

(* A step that leaves everything but the disk, the lock and the program's   *)
(* good sense alone.                                                        *)
LEMMA Rests ==
    ASSUME Placed, boot = Up, boot' = boot, reboots' = reboots, faults' = 0 => faults = 0, UNCHANGED <<memory, where, owners>>
    PROVE  Placed'
PROOF
  <1> SUFFICES ASSUME Known
               PROVE  /\ DOMAIN local' = Procs /\ Listed' /\ OneEach' /\ Linked'
                      /\ Own(BlocksOf(list)', held', InCall', lost')
    BY Keeps
  <1>1. DOMAIN local = Procs /\ Listed /\ OneEach /\ Linked /\ Own(BlocksOf(list), held, InCall, lost)
    BY DEF Placed
  <1>2. /\ list' = list /\ sb_freelst' = sb_freelst /\ pc' = pc /\ local' = local
        /\ held' = held /\ lost' = lost
    BY DEF memory, where, owners
  <1>3. InCall' = InCall /\ BlocksOf(list)' = BlocksOf(list)
    BY <1>2 DEF InCall
  <1> QED
    BY <1>1, <1>2, <1>3 DEF Listed, OneEach, Linked

(* sbOpen() and sbInit(): what they leave is every block in the list, or    *)
(* with a caller, or lost.                                                  *)
LEMMA BootPlaces == ASSUME Placed, Follows, faults' = 0 => faults = 0, Boot PROVE Placed'
PROOF
  <1>0. Segments \in Nat /\ Up = Segments + 2 /\ Down = -1
    BY Enough DEF Up, Down
  <1>K. ASSUME reboots' = reboots, Known' PROVE Known
    BY <1>K DEF Known, Lone
  <1>1. CASE Mount
    <2>1. /\ boot = Down /\ ChainWhole(disk) /\ Magic(disk) /\ boot' = Up /\ reboots' = reboots
          /\ list' = sbOpenFreeList(disk)
          /\ lost' = DataBlock \ (held \cup BlocksOf(list')) /\ held' = held
          /\ pc' = pc /\ local' = local /\ faults' = faults
          /\ sb_freelst' = NULL <=> list' = <<>>
      BY <1>1, FreeListSizes DEF Mount, ChainWhole, where, NULL
    <2> SUFFICES ASSUME Known PROVE Placed'
      BY <2>1, Unknown
    <2>2. boot # Up /\ Up \in 0 .. Up /\ Up # Down /\ Up \notin 0 .. Up - 1
      BY <1>0, <2>1
    <2>3. reboots # 0 /\ faults = 0 /\ Lone
      BY <2>1 DEF Known, Placed, Booting
    <2>4. DOMAIN local = Procs /\ held \subseteq DataBlock /\ \A p \in Procs : pc[p] = "idle"
      BY <2>2 DEF Placed, Booting
    <2>5. PICK e : Good(e) /\ On(disk, e) /\ BlocksOf(e) \cap held = {}
      BY <2>1, <2>3, MadePart DEF Follows, Safe
    <2>6. list' = e
      BY <2>1, <2>5, Opened
    <2>7. InCall' = {} /\ OneEach' /\ Linked'
      BY <2>1, <2>4 DEF InCall, OneEach, Linked, Asking, Linking
    <2>8. Listed' /\ BlocksOf(list)' = BlocksOf(e) /\ BlocksOf(e) \subseteq DataBlock
      BY <2>1, <2>5, <2>6, Named DEF Listed, Good
    <2>9. Own(BlocksOf(list)', held', InCall', lost')
      BY <2>1, <2>4, <2>5, <2>6, <2>7, <2>8 DEF Own
    <2>10. Booting'
      BY <2>1, <2>2, <2>4 DEF Booting
    <2> QED
      BY <2>1, <2>4, <2>7, <2>8, <2>9, <2>10 DEF Placed
  <1>2. CASE MountAstray
    <2>1. /\ boot = Down /\ boot' = boot /\ reboots' = reboots /\ faults' = faults /\ disk' = disk
          /\ list' = list /\ sb_freelst' = sb_freelst /\ pc' = pc /\ local' = local
          /\ held' = held /\ lost' = lost
      BY <1>2 DEF MountAstray, driver, memory, where, owners, trouble
    <2>2. boot # Up
      BY <1>0, <2>1
    <2>3. ASSUME Known PROVE Booting' /\ Listed' /\ OneEach' /\ Linked' /\ DOMAIN local' = Procs
      BY <2>1, <2>3 DEF Placed, Booting, Listed, OneEach, Linked, Magic
    <2> QED
      BY <2>1, <2>2, <2>3, <1>K DEF Placed
  <1>3. CASE InitDisk
    <2>1. /\ boot = Down /\ boot' = 0 /\ held' = {} /\ lost' = {} /\ reboots' = reboots
          /\ list' = list /\ sb_freelst' = sb_freelst /\ pc' = pc /\ local' = local
      BY <1>3 DEF InitDisk, memory, where
    <2>2. 0 # Up /\ 0 # Down /\ 0 \in 0 .. Up /\ Down # Up
      BY <1>0
    <2>3. ASSUME Known PROVE Booting' /\ Listed' /\ OneEach' /\ Linked' /\ DOMAIN local' = Procs
      BY <2>1, <2>2, <2>3 DEF Placed, Booting, Listed, OneEach, Linked
    <2> QED
      BY <2>1, <2>2, <2>3, <1>K DEF Placed
  <1>4. CASE InitWrite
    <2>1. /\ boot \in 0 .. Segments + 1 /\ boot' = boot + 1 /\ reboots' = reboots
          /\ pc' = pc /\ local' = local /\ held' = held /\ lost' = lost
      BY <1>4 DEF InitWrite, where, owners
    <2>2. boot # Up /\ boot' # Down /\ boot' \in 0 .. Up /\ boot \in 0 .. Up - 1
      BY <1>0, <2>1
    <2>3. ASSUME Known
          PROVE  /\ held = {} /\ lost = {} /\ list = <<>> /\ DOMAIN local = Procs
                 /\ Listed /\ \A p \in Procs : pc[p] = "idle"
      BY <2>2, <2>3 DEF Placed, Booting
    <2>4. ASSUME Known PROVE OneEach' /\ Linked' /\ InCall' = {}
      BY <2>1, <2>3, <2>4 DEF OneEach, Linked, InCall, Asking, Linking
    <2>5. CASE boot' = Up
      <3>1. list' = FreshList /\ sb_freelst' # NULL
        BY <1>4, <2>5, FreeListSizes DEF InitWrite, NULL
      <3>2. Listed'
        BY <3>1, Fresh DEF Listed
      <3>3. BlocksOf(list)' = DataBlock
        BY <3>1, Fresh
      <3>4. ASSUME Known PROVE Own(BlocksOf(list)', held', InCall', lost')
        BY <2>1, <2>3, <2>4, <3>3, <3>4 DEF Own
      <3>5. ASSUME Known PROVE Booting' /\ DOMAIN local' = Procs
        <4>1. Up \notin 0 .. Up - 1
          BY <1>0
        <4> QED
          BY <2>1, <2>2, <2>3, <2>5, <3>5, <4>1 DEF Booting
      <3> QED
        BY <2>1, <2>4, <3>2, <3>4, <3>5, <1>K DEF Placed
    <2>6. CASE boot' # Up
      <3>1. list' = list /\ sb_freelst' = sb_freelst
        BY <1>4, <2>6 DEF InitWrite, memory
      <3>2. ASSUME Known PROVE Booting' /\ Listed' /\ DOMAIN local' = Procs
        BY <2>1, <2>2, <2>3, <3>1, <3>2 DEF Booting, Listed
      <3> QED
        BY <2>1, <2>4, <2>6, <3>2, <1>K DEF Placed
    <2> QED
      BY <2>5, <2>6
  <1>5. CASE Reboot
    <2>1. /\ reboots' = reboots + 1 /\ boot' = Down /\ list' = <<>> /\ sb_freelst' = NULL
          /\ pc' = [p \in Procs |-> "idle"] /\ local' = [p \in Procs |-> 0]
          /\ held' = held /\ lost' = lost /\ boot # Down
      BY <1>5 DEF Reboot, owners
    <2>2. reboots' \in Nat /\ reboots' # 0
      BY <2>1 DEF Placed
    <2> SUFFICES ASSUME Known' PROVE Placed'
      BY <2>2 DEF Placed
    <2>3. Known
      BY <2>2 DEF Known, Lone
    <2>4. Down # Up /\ Down \notin 0 .. Up - 1
      BY <1>0
    <2>5. Listed' /\ OneEach' /\ Linked' /\ DOMAIN local' = Procs
      BY <2>1, Empty DEF Listed, OneEach, Linked, Asking, Linking
    <2>6. held' \subseteq DataBlock
      BY <2>1, <2>3 DEF Placed, Booting
    <2>7. Booting'
      BY <2>1, <2>2, <2>4, <2>6 DEF Booting
    <2> QED
      BY <2>1, <2>2, <2>4, <2>5, <2>7 DEF Placed
  <1> QED
    BY <1>1, <1>2, <1>3, <1>4, <1>5 DEF Boot

(* A block is taken off the list: it belongs to the call from now on.       *)
LEMMA Takes ==
    ASSUME Kept, Placed, faults' = 0 => faults = 0, NEW p \in Procs, Running, pc[p] = "get",
           NEW b, NEW l, NEW at, Take(p, b, l, at), sb_freelst' = NULL <=> l = <<>>,
           Known => Good(l) /\ b \in BlocksOf(list) /\ BlocksOf(l) = BlocksOf(list) \ {b}
    PROVE  Placed'
PROOF
  <1>1. /\ list' = l /\ Goto(p, "getWrite", b) /\ boot' = boot /\ reboots' = reboots
        /\ held' = held /\ lost' = lost /\ boot = Up
    BY DEF Take, machine, owners, Running
  <1> SUFFICES ASSUME Known
               PROVE  /\ DOMAIN local' = Procs /\ Listed' /\ OneEach' /\ Linked'
                      /\ Own(BlocksOf(list)', held', InCall', lost')
    BY <1>1, Keeps
  <1>2. DOMAIN local = Procs /\ Listed /\ OneEach /\ Linked /\ Own(BlocksOf(list), held, InCall, lost)
    BY <1>1 DEF Placed
  <1>3. DOMAIN local' = Procs
    BY <1>1, <1>2, Goes
  <1>4. b \notin InCall
    BY <1>2 DEF Own
  <1>5. OneEach' /\ InCall' = InCall \cup {b}
    BY <1>1, <1>2, <1>4, CallEnters DEF Asking
  <1>6. Linked'
    BY <1>1, <1>2, Links DEF Linking, Holding
  <1>7. Listed' /\ BlocksOf(list)' = BlocksOf(list) \ {b}
    BY <1>1 DEF Listed
  <1>8. Own(BlocksOf(list)', held', InCall', lost')
    BY <1>1, <1>2, <1>5, <1>7 DEF Own
  <1> QED
    BY <1>3, <1>5, <1>6, <1>7, <1>8

LEMMA GetPlaces == ASSUME Kept, Placed, faults' = 0 => faults = 0, NEW p \in Procs, Get(p) PROVE Placed'
PROOF
  <1>1. CASE GetHead(p)
    <2>1. /\ boot = Up /\ boot' = boot /\ reboots' = reboots /\ list' = list
          /\ sb_freelst' = sb_freelst /\ held' = held /\ lost' = lost
          /\ pc[p] = "idle" /\ Goto(p, "wantGet", sb_freelst)
      BY <1>1 DEF GetHead, Running, machine, memory, owners
    <2> QED
      BY <2>1, Walks DEF Asking, Linking
  <1>2. CASE GetLock(p)
    <2>1. /\ boot = Up /\ boot' = boot /\ reboots' = reboots /\ list' = list
          /\ sb_freelst' = sb_freelst /\ held' = held /\ lost' = lost
          /\ pc[p] = "wantGet" /\ Goto(p, "get", local[p])
      BY <1>2 DEF GetLock, Lock, Running, machine, memory, owners
    <2> QED
      BY <2>1, Walks DEF Asking, Linking
  <1>3. CASE GetAstray(p)
    BY <1>3, Rests DEF GetAstray, Running
  <1>4. CASE GetEntry(p)
    <2> DEFINE b == Last(list[1].fr_free)  l == [list EXCEPT ![1].fr_free = Front(@)]
               at == list[1].fr_blocknum
    <2>1. /\ Running /\ pc[p] = "get" /\ Take(p, b, l, at) /\ sb_freelst' = sb_freelst
          /\ sb_freelst # NULL
      BY <1>4, FreeListSizes DEF GetEntry, HasHead, NULL
    <2>2. list[1].fr_free # <<>> /\ reboots \in Nat
      BY <1>4 DEF GetEntry, Placed
    <2>3. ASSUME Known
          PROVE  /\ Good(l) /\ l # <<>> /\ b \in BlocksOf(list)
                 /\ BlocksOf(l) = BlocksOf(list) \ {b}
      BY <2>1, <2>2, <2>3, Pops DEF Placed, Listed
    <2> HIDE DEF b, l, at
    <2>4. ASSUME Known PROVE Placed'
      BY <2>1, <2>3, <2>4, Takes
    <2>5. reboots' = reboots
      BY <2>1 DEF Take, machine
    <2> QED
      BY <2>4, <2>5, Unknown
  <1>5. CASE GetSegment(p)
    <2> DEFINE b == list[2].fr_blocknum  at == list[1].fr_blocknum
               l == <<[list[1] EXCEPT !.fr_free = list[2].fr_free]>> \o SubSeq(list, 3, Len(list))
    <2>1. /\ Running /\ pc[p] = "get" /\ Take(p, b, l, at) /\ sb_freelst' = sb_freelst
          /\ sb_freelst # NULL
      BY <1>5, FreeListSizes DEF GetSegment, HasHead, NULL
    <2>2. list[1].fr_free = <<>> /\ Len(list) > 1 /\ reboots \in Nat
      BY <1>5 DEF GetSegment, Placed
    <2>3. ASSUME Known
          PROVE  /\ Good(l) /\ l # <<>> /\ b \in BlocksOf(list)
                 /\ BlocksOf(l) = BlocksOf(list) \ {b}
      BY <2>2, <2>3, TakesOver DEF Placed, Listed
    <2> HIDE DEF b, l, at
    <2>4. ASSUME Known PROVE Placed'
      BY <2>1, <2>3, <2>4, Takes
    <2>5. reboots' = reboots
      BY <2>1 DEF Take, machine
    <2> QED
      BY <2>4, <2>5, Unknown
  <1>6. CASE GetLast(p)
    <2> DEFINE b == list[1].fr_blocknum
    <2>1. /\ Running /\ pc[p] = "get" /\ Take(p, b, <<>>, SUPERBLOCKNUM) /\ sb_freelst' = NULL
      BY <1>6 DEF GetLast
    <2>2. list[1].fr_free = <<>> /\ Len(list) = 1
      BY <1>6 DEF GetLast
    <2>3. ASSUME Known PROVE BlocksOf(list) = {b}
      <3>1. Good(list)
        BY <2>3 DEF Placed, Listed
      <3>2. ToSet(list[1].fr_free) = {}
        BY <2>2 DEF ToSet
      <3> QED
        BY <2>2, <3>2 DEF BlocksOf
    <2> HIDE DEF b
    <2>4. Good(<<>>) /\ BlocksOf(<<>>) = {}
      BY Empty
    <2> DEFINE l == <<>>
    <2>5. Take(p, b, l, SUPERBLOCKNUM) /\ Good(l) /\ BlocksOf(l) = {} /\ l = <<>>
      BY <2>1, <2>4
    <2> HIDE DEF l
    <2> QED
      BY <2>1, <2>3, <2>5, Takes
  <1>7. CASE GetWrite(p)
    <2>1. /\ boot = Up /\ boot' = boot /\ reboots' = reboots /\ list' = list
          /\ sb_freelst' = sb_freelst /\ pc[p] = "getWrite" /\ Goto(p, "idle", 0)
          /\ \/ held' = held \cup {local[p]} /\ lost' = lost
             \/ lost' = lost \cup {local[p]} /\ held' = held
      BY <1>7 DEF GetWrite, Running, machine, memory
    <2> SUFFICES ASSUME Known
                 PROVE  /\ DOMAIN local' = Procs /\ Listed' /\ OneEach' /\ Linked'
                        /\ Own(BlocksOf(list)', held', InCall', lost')
      BY <2>1, Keeps
    <2>2. /\ DOMAIN local = Procs /\ Listed /\ OneEach /\ Linked
          /\ Own(BlocksOf(list), held, InCall, lost)
      BY <2>1 DEF Placed
    <2>3. DOMAIN local' = Procs
      BY <2>1, <2>2, Goes
    <2>4. OneEach' /\ local[p] \in InCall /\ InCall' = InCall \ {local[p]}
      BY <2>1, <2>2, CallLeaves DEF Asking
    <2>5. Linked'
      BY <2>1, <2>2, Links DEF Linking
    <2>6. Listed' /\ BlocksOf(list)' = BlocksOf(list)
      BY <2>1, <2>2 DEF Listed
    <2>7. Own(BlocksOf(list)', held', InCall', lost')
      BY <2>1, <2>2, <2>4, <2>6 DEF Own
    <2> QED
      BY <2>3, <2>4, <2>5, <2>6, <2>7
  <1> QED
    BY <1>1, <1>2, <1>3, <1>4, <1>5, <1>6, <1>7 DEF Get

(* A block given back leaves the call: it and the list's blocks are in the  *)
(* new list, or lost.                                                       *)
LEMMA Gives ==
    ASSUME Kept, Placed, faults' = 0 => faults = 0, NEW p \in Procs, Running, pc[p] = "free",
           NEW at, at \notin Asking, NEW kept, Goto(p, at, kept), NEW l, list' = l,
           UNCHANGED machine, held' = held, sb_freelst' # NULL,
           at \in Linking => kept # NULL,
           Known => /\ Good(l) /\ l # <<>>
                          /\ BlocksOf(l) \subseteq BlocksOf(list) \cup {local[p]}
                          /\ lost' = lost \cup ((BlocksOf(list) \cup {local[p]}) \ BlocksOf(l))
    PROVE  Placed'
PROOF
  <1>1. boot' = boot /\ reboots' = reboots /\ boot = Up
    BY DEF machine, Running
  <1> SUFFICES ASSUME Known
               PROVE  /\ DOMAIN local' = Procs /\ Listed' /\ OneEach' /\ Linked'
                      /\ Own(BlocksOf(list)', held', InCall', lost')
    BY <1>1, Keeps
  <1>2. DOMAIN local = Procs /\ Listed /\ OneEach /\ Linked /\ Own(BlocksOf(list), held, InCall, lost)
    BY <1>1 DEF Placed
  <1>3. DOMAIN local' = Procs
    BY <1>2, Goes
  <1>4. OneEach' /\ local[p] \in InCall /\ InCall' = InCall \ {local[p]}
    BY <1>2, CallLeaves DEF Asking
  <1>5. Linked'
    BY <1>2, Links
  <1>6. Listed' /\ BlocksOf(list)' = BlocksOf(l)
    BY DEF Listed
  <1>7. Own(BlocksOf(l), held', InCall', lost')
    BY <1>2, <1>4 DEF Own
  <1> QED
    BY <1>3, <1>4, <1>5, <1>6, <1>7

LEMMA FreePlaces == ASSUME Kept, Placed, faults' = 0 => faults = 0, NEW p \in Procs, Free(p) PROVE Placed'
PROOF
  <1>1. ASSUME NEW block \in held, FreeRefused(p, block) PROVE Placed'
    <2>1. /\ boot = Up /\ boot' = boot /\ reboots' = reboots /\ list' = list
          /\ sb_freelst' = sb_freelst /\ pc' = pc /\ local' = local
          /\ held' = held \ {block} /\ lost' = lost \cup {block}
      BY <1>1 DEF FreeRefused, Running, machine, memory, where
    <2> SUFFICES ASSUME Known
                 PROVE  /\ DOMAIN local' = Procs /\ Listed' /\ OneEach' /\ Linked'
                        /\ Own(BlocksOf(list)', held', InCall', lost')
      BY <2>1, Keeps
    <2>2. /\ DOMAIN local = Procs /\ Listed /\ OneEach /\ Linked
          /\ Own(BlocksOf(list), held, InCall, lost)
      BY <2>1 DEF Placed
    <2>3. InCall' = InCall /\ BlocksOf(list)' = BlocksOf(list)
      BY <2>1 DEF InCall
    <2>4. Own(BlocksOf(list)', held', InCall', lost')
      BY <2>1, <2>2, <2>3 DEF Own
    <2> QED
      BY <2>1, <2>2, <2>4 DEF Listed, OneEach, Linked
  <1>2. ASSUME NEW block \in held, FreeCall(p, block) PROVE Placed'
    <2>1. /\ boot = Up /\ boot' = boot /\ reboots' = reboots /\ list' = list
          /\ sb_freelst' = sb_freelst /\ pc[p] = "idle" /\ Goto(p, "wantFree", block)
          /\ held' = held \ {block} /\ lost' = lost
      BY <1>2 DEF FreeCall, Running, machine, memory
    <2> SUFFICES ASSUME Known
                 PROVE  /\ DOMAIN local' = Procs /\ Listed' /\ OneEach' /\ Linked'
                        /\ Own(BlocksOf(list)', held', InCall', lost')
      BY <2>1, Keeps
    <2>2. /\ DOMAIN local = Procs /\ Listed /\ OneEach /\ Linked
          /\ Own(BlocksOf(list), held, InCall, lost)
      BY <2>1 DEF Placed
    <2>3. DOMAIN local' = Procs
      BY <2>1, <2>2, Goes
    <2>4. block \notin InCall
      BY <2>2 DEF Own
    <2>5. OneEach' /\ InCall' = InCall \cup {block}
      BY <2>1, <2>2, <2>4, CallEnters DEF Asking
    <2>6. Linked'
      BY <2>1, <2>2, Links DEF Linking
    <2>7. Listed' /\ BlocksOf(list)' = BlocksOf(list)
      BY <2>1, <2>2 DEF Listed
    <2>8. Own(BlocksOf(list)', held', InCall', lost')
      BY <2>1, <2>2, <2>5, <2>7 DEF Own
    <2> QED
      BY <2>3, <2>5, <2>6, <2>7, <2>8
  <1>3. CASE FreeLock(p)
    <2>1. /\ boot = Up /\ boot' = boot /\ reboots' = reboots /\ list' = list
          /\ sb_freelst' = sb_freelst /\ held' = held /\ lost' = lost
          /\ pc[p] = "wantFree" /\ Goto(p, "free", local[p])
      BY <1>3 DEF FreeLock, Lock, Running, machine, memory, owners
    <2> QED
      BY <2>1, Walks DEF Asking, Linking
  <1>4. CASE FreeAstray(p)
    BY <1>4, Rests DEF FreeAstray, Running
  <1>5. CASE FreeFirst(p)
    <2> DEFINE b == local[p]  l == <<[fr_blocknum |-> b, fr_free |-> <<>>]>>
    <2>1. PICK a \in Addr : sb_freelst' = a /\ Goto(p, "freeSegment", a)
      BY <1>5 DEF FreeFirst
    <2>2. /\ Running /\ pc[p] = "free" /\ sb_freelst = NULL /\ list' = l
          /\ UNCHANGED machine /\ held' = held /\ lost' = lost /\ boot = Up
      BY <1>5 DEF FreeFirst, owners, Running
    <2>3. a # NULL
      BY FreeListSizes DEF NULL
    <2>4. ASSUME Known
          PROVE  /\ Good(l) /\ l # <<>>
                 /\ BlocksOf(l) \subseteq BlocksOf(list) \cup {b}
                 /\ lost' = lost \cup ((BlocksOf(list) \cup {b}) \ BlocksOf(l))
      <3>1. b \in InCall /\ Own(BlocksOf(list), held, InCall, lost) /\ list = <<>>
        BY <2>2, <2>4 DEF Placed, Listed, InCall
      <3>2. b \in DataBlock
        BY <3>1 DEF Own
      <3>3. Good(l) /\ l # <<>> /\ BlocksOf(l) = {b}
        BY <3>2, Single
      <3> QED
        BY <2>2, <3>1, <3>3, Empty
    <2> HIDE DEF l
    <2>5. Goto(p, "freeSegment", a) /\ sb_freelst' # NULL /\ "freeSegment" \notin Asking
      BY <2>1, <2>3 DEF Asking
    <2> QED
      BY <2>2, <2>3, <2>4, <2>5, Gives
  <1>6. CASE FreeSegment(p)
    <2>1. /\ boot = Up /\ boot' = boot /\ reboots' = reboots /\ list' = list
          /\ held' = held /\ lost' = lost /\ sb_freelst' = list[1].fr_blocknum
          /\ pc[p] = "freeSegment" /\ Goto(p, "freeSuper", local[p])
      BY <1>6 DEF FreeSegment, Running, machine, owners
    <2>2. ASSUME Known PROVE local[p] # NULL /\ list # <<>> /\ sb_freelst' # NULL
      <3>1. Good(list) /\ local[p] # NULL /\ list # <<>>
        BY <2>1, <2>2 DEF Placed, Listed, Linked, Linking
      <3>2. list \in Seq(Segment)
        BY <3>1 DEF Good, Shape
      <3>3. list[1] \in Segment
        BY <3>1, <3>2
      <3>4. list[1].fr_blocknum \in DataBlock
        BY <3>3 DEF Segment
      <3>5. list[1].fr_blocknum # NULL
        BY <3>4, FreeListSizes DEF DataBlock, FirstSegment, SUPERBLOCKNUM, NULL
      <3> QED
        BY <2>1, <3>1, <3>5
    <2>3. ASSUME Known PROVE Placed'
      BY <2>1, <2>2, <2>3, Walks DEF Asking
    <2> QED
      BY <2>1, <2>3, Unknown
  <1>7. CASE FreeSuper(p)
    <2>1. /\ boot = Up /\ boot' = boot /\ reboots' = reboots /\ list' = list
          /\ held' = held /\ lost' = lost /\ (sb_freelst' = local[p] \/ sb_freelst' = sb_freelst)
          /\ pc[p] = "freeSuper" /\ Goto(p, "idle", 0)
      BY <1>7 DEF FreeSuper, Running, machine, owners
    <2>2. ASSUME Known PROVE local[p] # NULL /\ list # <<>>
      BY <2>1, <2>2 DEF Placed, Linked, Linking
    <2>3. ASSUME Known PROVE Placed'
      BY <2>1, <2>2, <2>3, Walks DEF Asking, Linking
    <2> QED
      BY <2>1, <2>3, Unknown
  <1>8. CASE FreeAppend(p)
    <2> DEFINE b == local[p]  l == [list EXCEPT ![Len(list)].fr_free = Append(@, b)]
    <2>1. /\ Running /\ pc[p] = "free" /\ list' = l /\ UNCHANGED machine
          /\ held' = held /\ lost' = lost /\ sb_freelst' = sb_freelst /\ sb_freelst # NULL
          /\ Goto(p, "freeWrite", b) /\ boot = Up
      BY <1>8, FreeListSizes DEF FreeAppend, owners, Running, NULL
    <2>2. Len(Last(list).fr_free) # FREEBLOCKMAX
      BY <1>8 DEF FreeAppend, LastFull
    <2>3. ASSUME Known
          PROVE  /\ Good(l) /\ l # <<>>
                 /\ BlocksOf(l) \subseteq BlocksOf(list) \cup {b}
                 /\ lost' = lost \cup ((BlocksOf(list) \cup {b}) \ BlocksOf(l))
      <3>1. /\ b \in InCall /\ Own(BlocksOf(list), held, InCall, lost)
            /\ Good(list) /\ list # <<>>
        BY <2>1, <2>3 DEF Placed, Listed, InCall
      <3>2. b \in DataBlock /\ b \notin BlocksOf(list)
        BY <3>1 DEF Own
      <3> HIDE DEF b
      <3>3. Good(l) /\ l # <<>> /\ BlocksOf(l) = BlocksOf(list) \cup {b}
        BY <2>2, <3>1, <3>2, Appends
      <3> QED
        BY <2>1, <3>3
    <2> HIDE DEF l
    <2> QED
      BY <2>1, <2>3, Gives DEF Asking, Linking
  <1>9. CASE FreeFull(p)
    <2> DEFINE b == local[p]
               l == [SubSeq(list, 1, Len(list) - 1) EXCEPT ![Len(list) - 1].fr_free = <<>>]
    <2>1. /\ Running /\ pc[p] = "free" /\ list' = l /\ UNCHANGED machine
          /\ held' = held /\ sb_freelst' = sb_freelst /\ sb_freelst # NULL
          /\ Goto(p, "freeSpill", b) /\ boot = Up
      BY <1>9, FreeListSizes DEF FreeFull, Running, NULL
    <2>2. Len(list) > 1 /\ lost' = lost \cup {b} \cup (BlocksOf(list) \ BlocksOf(list'))
      BY <1>9 DEF FreeFull
    <2>3. ASSUME Known
          PROVE  /\ Good(l) /\ l # <<>>
                 /\ BlocksOf(l) \subseteq BlocksOf(list) \cup {b}
                 /\ lost' = lost \cup ((BlocksOf(list) \cup {b}) \ BlocksOf(l))
      <3>1. /\ b \in InCall /\ Own(BlocksOf(list), held, InCall, lost) /\ Good(list)
        BY <2>1, <2>3 DEF Placed, Listed, InCall
      <3>2. b \notin BlocksOf(list)
        BY <3>1 DEF Own
      <3>3. Good(l) /\ l # <<>> /\ BlocksOf(l) \subseteq BlocksOf(list)
        BY <2>2, <3>1, Cuts
      <3>4. BlocksOf(list') = BlocksOf(l)
        BY <2>1
      <3> HIDE DEF l, b
      <3> QED
        BY <2>2, <3>2, <3>3, <3>4
    <2> HIDE DEF l
    <2> QED
      BY <2>1, <2>3, Gives DEF Asking, Linking
  <1>10. CASE FreeWrite(p)
    <2>1. /\ boot = Up /\ boot' = boot /\ reboots' = reboots /\ list' = list
          /\ sb_freelst' = sb_freelst /\ held' = held /\ lost' = lost
          /\ pc[p] \in {"freeWrite", "freeSpill"} /\ Goto(p, "idle", 0)
      BY <1>10 DEF FreeWrite, Running, machine, memory, owners
    <2> QED
      BY <2>1, Walks DEF Asking, Linking
  <1> QED
    BY <1>1, <1>2, <1>3, <1>4, <1>5, <1>6, <1>7, <1>8, <1>9, <1>10 DEF Free

LEMMA FilePlaces == ASSUME Kept, Placed, faults' = 0 => faults = 0, NEW p \in Procs, File(p) PROVE Placed'
PROOF
  <1>1. ASSUME NEW block \in held, FileSeek(p, block) PROVE Placed'
    <2>1. /\ boot = Up /\ boot' = boot /\ reboots' = reboots /\ list' = list
          /\ sb_freelst' = sb_freelst /\ held' = held /\ lost' = lost
          /\ pc[p] = "idle" /\ Goto(p, "fileWrite", block)
      BY <1>1 DEF FileSeek, Running, machine, memory, owners
    <2> QED
      BY <2>1, Walks DEF Asking, Linking
  <1>2. CASE FileWrite(p)
    <2>1. /\ boot = Up /\ boot' = boot /\ reboots' = reboots /\ list' = list
          /\ sb_freelst' = sb_freelst /\ held' = held /\ lost' = lost
          /\ pc[p] = "fileWrite" /\ Goto(p, "idle", 0)
      BY <1>2 DEF FileWrite, Running, machine, memory, owners
    <2> QED
      BY <2>1, Walks DEF Asking, Linking
  <1> QED
    BY <1>1, <1>2 DEF File

------------------------------------------------------------------------------
LEMMA FollowsInit == Init => Follows
PROOF
  <1> SUFFICES ASSUME Init PROVE Follows
    OBVIOUS
  <1>1. boot = Down /\ Down # Up /\ Down \notin 0 .. Up - 1 /\ 0 \in 0 .. Segments
    BY Enough DEF Init, Down, Up
  <1>2. Made(disk, 0)
    BY DEF Init, Made
  <1>3. held = {} /\ \A p \in Procs : pc[p] # "fileWrite"
    BY DEF Init
  <1> QED
    BY <1>1, <1>2, <1>3 DEF Follows

(* Where files are written there is one process, otherwise the lock keeps   *)
(* the others out: nobody else is about to write.                           *)
LEMMA Alone ==
    ASSUME Kept, Follows, Lone, NEW p \in Procs, pc[p] \in Holding \/ FileWrites,
           NEW q \in Procs, q # p
    PROVE  pc[q] \notin Writing
PROOF
  <1>1. ~FileWrites
    BY DEF Lone
  <1>2. pc[q] \in Writing => pc[q] \in Holding \/ pc[q] = "fileWrite"
    BY DEF Writing, Holding
  <1> QED
    BY <1>1, <1>2 DEF Kept, OneHolder, Follows

(* What follows from what the list and the disk are like, once the list is  *)
(* known to be apart from the blocks with callers.                          *)
LEMMA LeadsSafe ==
    ASSUME NEW d, NEW l, NEW x, NEW h, NEW cut, Leads(d, l, x, cut),
           BlocksOf(l) \cap h = {}, x \cap h = {}
    PROVE  Safe(d, h)
PROOF
  BY DEF Leads, Like, Safe

LEMMA Apart ==
    ASSUME Placed, Known, boot = Up
    PROVE  BlocksOf(list) \cap held = {} /\ lost \cap held = {} /\ held \subseteq DataBlock
PROOF
  <1>1. Own(BlocksOf(list), held, InCall, lost)
    BY DEF Placed
  <1> QED
    BY <1>1 DEF Own

(* A step that writes nothing and is no step towards a write.               *)
LEMMA Idles ==
    ASSUME Follows, boot = Up, boot' = boot, disk' = disk, position' = position, list' = list,
           faults' = faults, apart' = apart, lost \subseteq lost', held' \subseteq held,
           \A q \in Procs : /\ pc[q] \in Writing \/ pc'[q] \in Writing => pc'[q] = pc[q]
    PROVE  Follows'
PROOF
  <1>0. boot \notin 0 .. Up - 1 /\ boot # Down
    BY Enough DEF Up, Down
  <1>1. \A d : Leads(d, list, lost, apart) => Leads(d, list, lost', apart)
    BY DEF Leads, Like
  <1>2. Safe(disk, held) => Safe(disk, held')
    BY DEF Safe
  <1>3. \A q \in Procs : pc'[q] \in {"fileWrite", "freeSegment"} => pc'[q] = pc[q]
    BY DEF Writing
  <1>4. ~FileWrites => \A q \in Procs : pc'[q] # "fileWrite"
    BY <1>3 DEF Follows
  <1> SUFFICES ASSUME faults = 0, Lone
               PROVE  /\ Safe(disk, held')
                      /\ (\A q \in Procs : pc'[q] \notin Writing) => Leads(disk, list, lost', apart)
                      /\ \A q \in Procs : pc'[q] \in Writing =>
                            Leads(Soon(disk, position, list, pc'[q]), list, lost', apart)
                      /\ \A q \in Procs : pc'[q] = "freeSegment" =>
                            On(disk, <<>>) /\ position \in DataBlock
    BY <1>0, <1>4 DEF Follows, Lone
  <1>5. /\ Safe(disk, held)
        /\ (\A q \in Procs : pc[q] \notin Writing) => Leads(disk, list, lost, apart)
        /\ \A q \in Procs : pc[q] \in Writing =>
              Leads(Soon(disk, position, list, pc[q]), list, lost, apart)
        /\ \A q \in Procs : pc[q] = "freeSegment" =>
              On(disk, <<>>) /\ position \in DataBlock
    BY DEF Follows
  <1>6. (\A q \in Procs : pc'[q] \notin Writing) => \A q \in Procs : pc[q] \notin Writing
    OBVIOUS
  <1> QED
    BY <1>1, <1>2, <1>3, <1>5, <1>6

(* A process changes the list and positions the driver; what the disk has   *)
(* leads to the new list once it has written.                               *)
LEMMA Enters ==
    ASSUME Kept, Follows, DOMAIN local = Procs, NEW p \in Procs, pc[p] \in Holding \/ FileWrites,
           pc[p] \notin Writing,
           NEW at \in Writing, NEW kept, Goto(p, at, kept), at = "fileWrite" => FileWrites,
           boot = Up, boot' = boot, disk' = disk, held' = held, faults' = faults,
           faults = 0 /\ Lone =>
               \A e : Like(disk, e, list, lost, apart) =>
                   /\ Leads(Soon(disk, position', list', at), list', lost', apart')
                   /\ at = "freeSegment" => On(disk, <<>>) /\ position' \in DataBlock
    PROVE  Follows'
PROOF
  <1>0. boot \notin 0 .. Up - 1 /\ boot # Down
    BY Enough DEF Up, Down
  <1>1. pc'[p] = at /\ \A q \in Procs \ {p} : pc'[q] = pc[q]
    BY Goes
  <1>2. ~FileWrites => \A q \in Procs : pc'[q] # "fileWrite"
    BY <1>1 DEF Follows
  <1> SUFFICES ASSUME faults = 0, Lone
               PROVE  /\ Safe(disk, held)
                      /\ ~ \A q \in Procs : pc'[q] \notin Writing
                      /\ \A q \in Procs : pc'[q] \in Writing =>
                            Leads(Soon(disk, position', list', pc'[q]), list', lost', apart')
                      /\ \A q \in Procs : pc'[q] = "freeSegment" =>
                            On(disk, <<>>) /\ position' \in DataBlock
    BY <1>0, <1>2 DEF Follows, Lone
  <1>3. \A q \in Procs : pc[q] \notin Writing
    BY Alone
  <1>4. PICK e : Like(disk, e, list, lost, apart)
    BY <1>3 DEF Follows, Leads
  <1>5. Safe(disk, held)
    BY DEF Follows
  <1>6. \A q \in Procs : pc'[q] \in Writing => q = p
    BY <1>1, <1>3
  <1>7. "freeSegment" \in Writing
    BY DEF Writing
  <1> QED
    BY <1>1, <1>4, <1>5, <1>6, <1>7

(* It has written, and nothing of the list is left to write.                *)
LEMMA LeavesOff ==
    ASSUME Kept, Follows, DOMAIN local = Procs, NEW p \in Procs, pc[p] \in Writing,
           pc[p] = "fileWrite" => FileWrites,
           NEW kept, Goto(p, "idle", kept),
           boot = Up, boot' = boot, list' = list, Placed', faults' = 0 => faults = 0,
           faults' = 0 => /\ disk' = Soon(disk, position, list, pc[p])
                          /\ lost' = lost /\ apart' = apart
    PROVE  Follows'
PROOF
  <1>0. boot \notin 0 .. Up - 1 /\ boot # Down
    BY Enough DEF Up, Down
  <1>1. pc'[p] = "idle" /\ \A q \in Procs \ {p} : pc'[q] = pc[q]
    BY Goes
  <1>2. ~FileWrites => \A q \in Procs : pc'[q] # "fileWrite"
    BY <1>1 DEF Follows
  <1> SUFFICES ASSUME faults' = 0, Lone
               PROVE  /\ Safe(disk', held')
                      /\ Leads(disk', list, lost, apart)
                      /\ \A q \in Procs : pc'[q] \notin Writing
                      /\ \A q \in Procs : pc'[q] # "freeSegment"
    BY <1>0, <1>2 DEF Follows, Lone
  <1>3. \A q \in Procs : q # p => pc[q] \notin Writing
    BY Alone DEF Writing, Holding
  <1>4. \A q \in Procs : pc'[q] \notin Writing
    BY <1>1, <1>3 DEF Writing
  <1>5. Leads(disk', list, lost, apart)
    BY DEF Follows
  <1>6. BlocksOf(list') \cap held' = {} /\ lost' \cap held' = {}
    <2>1. Own(BlocksOf(list)', held', InCall', lost')
      BY DEF Placed, Known, Lone
    <2>2. BlocksOf(list)' = BlocksOf(list')
      OBVIOUS
    <2> QED
      BY <2>1, <2>2 DEF Own
  <1>7. Safe(disk', held')
    BY <1>5, <1>6, LeadsSafe
  <1> QED
    BY <1>4, <1>5, <1>7 DEF Writing

(* A write that did not fail.                                               *)
LEMMA Wrote ==
    ASSUME Kept, NEW c, Written(c) \/ WriteFails, faults' = 0
    PROVE  disk' = [disk EXCEPT ![position] = c] /\ faults = 0
PROOF
  BY DEF Kept, Types, Written, WriteFails

LEMMA BootFollows == ASSUME Kept, Placed, Follows, Boot PROVE Follows'
PROOF
  <1>0. Segments \in Nat /\ Segments >= 1 /\ Up = Segments + 2 /\ Down = -1
    BY FreshIs DEF Up, Down
  <1>1. CASE Mount
    <2>1. /\ boot = Down /\ ChainWhole(disk) /\ boot' = Up /\ list' = sbOpenFreeList(disk)
          /\ held' = held /\ pc' = pc /\ disk' = disk /\ faults' = faults
      BY <1>1 DEF Mount, driver, where
    <2>2. Up # Down /\ Up \notin 0 .. Up - 1
      BY <1>0
    <2>3. ~FileWrites => \A q \in Procs : pc'[q] # "fileWrite"
      BY <2>1 DEF Follows
    <2> SUFFICES ASSUME faults = 0, Lone
                 PROVE  /\ Safe(disk, held)
                        /\ Leads(disk, list', lost', apart')
                        /\ \A q \in Procs : pc[q] = "idle"
      BY <2>1, <2>2, <2>3 DEF Follows, Lone, Writing
    <2>4. PICK e : Good(e) /\ On(disk, e) /\ BlocksOf(e) \cap held = {}
      BY <2>1, MadePart DEF Follows, Safe
    <2>5. list' = e
      BY <2>1, <2>4, Opened
    <2>6. Like(disk, e, list', lost', apart')
      BY <2>4, <2>5 DEF Like
    <2>7. \A q \in Procs : pc[q] = "idle"
      BY <2>1, <2>2 DEF Placed, Booting, Known
    <2> QED
      BY <2>4, <2>6, <2>7 DEF Safe, Leads
  <1>2. CASE MountAstray
    <2>1. /\ boot' = boot /\ pc' = pc /\ disk' = disk /\ held' = held /\ faults' = faults
          /\ boot = Down
      BY <1>2 DEF MountAstray, driver, where, owners, trouble
    <2>2. Down # Up /\ Down \notin 0 .. Up - 1
      BY <1>0
    <2> QED
      BY <2>1, <2>2 DEF Follows, Lone
  <1>3. CASE InitDisk
    <2>1. /\ boot = Down /\ ~Magic(disk) /\ boot' = 0 /\ held' = {} /\ pc' = pc
          /\ disk' = disk /\ faults' = faults /\ position' = SUPERBLOCKNUM
      BY <1>3 DEF InitDisk, where
    <2>2. 0 # Down /\ 0 # Up /\ 0 \in 0 .. Up - 1
      BY <1>0
    <2>3. ~FileWrites => \A q \in Procs : pc'[q] # "fileWrite"
      BY <2>1 DEF Follows
    <2> SUFFICES ASSUME faults = 0, Lone PROVE Made(disk, 0)
      BY <2>1, <2>2, <2>3, InitBlocks DEF Follows, Lone
    <2>4. ~Safe(disk, held)
      BY <2>1, Opened DEF Safe, ChainWhole
    <2>5. PICK n \in 0 .. Segments : Made(disk, n)
      BY <2>1, <2>4 DEF Follows
    <2>6. n = 0
      BY <2>1, <2>5, MadeOne
    <2> QED
      BY <2>5, <2>6
  <1>4. CASE InitWrite
    <2>1. /\ boot \in 0 .. Segments + 1 /\ boot' = boot + 1 /\ pc' = pc /\ held' = held
      BY <1>4 DEF InitWrite, where, owners
    <2>2. boot \in 0 .. Up - 1 /\ boot' # Down /\ boot # Up /\ boot # Down
      BY <1>0, <2>1
    <2>3. ~FileWrites => \A q \in Procs : pc'[q] # "fileWrite"
      BY <2>1 DEF Follows
    <2>4. ASSUME faults' = 0, Lone
          PROVE  /\ faults = 0 /\ Made(disk', boot') /\ held = {} /\ \A q \in Procs : pc[q] = "idle"
      <3>1. disk' = [disk EXCEPT ![position] = InitImage(boot)] /\ faults = 0
        BY <1>4, <2>4, Wrote DEF InitWrite
      <3>2. Made(disk, boot) /\ position = InitBlock(boot)
        BY <2>2, <2>4, <3>1 DEF Follows
      <3>3. Made(disk', boot + 1)
        BY <2>1, <3>1, <3>2, MadeNext
      <3> QED
        BY <2>1, <2>2, <2>4, <3>1, <3>3 DEF Placed, Booting, Known
    <2>5. CASE boot' = Up
      <3>1. list' = FreshList /\ Up \notin 0 .. Up - 1 /\ Up # Down
        BY <1>0, <1>4, <2>5 DEF InitWrite
      <3> SUFFICES ASSUME faults' = 0, Lone
                   PROVE  /\ Safe(disk', held') /\ Leads(disk', list', lost', apart')
                          /\ \A q \in Procs : pc'[q] = "idle"
        BY <2>3, <2>5, <3>1 DEF Follows, Lone, Writing
      <3>2. On(disk', FreshList)
        <4>1. boot' \in Nat /\ boot' > Segments
          BY <1>0, <2>5
        <4> QED
          BY <2>4, <4>1, MadeWhole
      <3>3. Like(disk', FreshList, list', lost', apart')
        BY <3>1, <3>2, Fresh DEF Like
      <3> QED
        BY <2>1, <2>4, <3>2, <3>3, Fresh DEF Safe, Leads
    <2>6. CASE boot' # Up
      <3>1. position' = InitBlock(boot')
        BY <1>4, <2>6 DEF InitWrite
      <3> QED
        BY <2>2, <2>3, <2>4, <2>6, <3>1 DEF Follows, Lone
    <2> QED
      BY <2>5, <2>6
  <1>5. CASE Reboot
    <2>1. /\ boot' = Down /\ pc' = [q \in Procs |-> "idle"] /\ disk' = disk
          /\ held' = held /\ faults' = faults
      BY <1>5 DEF Reboot, driver, owners, trouble
    <2>2. Down # Up /\ Down \notin 0 .. Up - 1
      BY <1>0
    <2>3. ~FileWrites => \A q \in Procs : pc'[q] # "fileWrite"
      BY <2>1
    <2> SUFFICES ASSUME faults = 0, Lone
                 PROVE  \/ Safe(disk, held)
                        \/ held = {} /\ \E n \in 0 .. Segments : Made(disk, n)
      BY <2>1, <2>2, <2>3 DEF Follows, Lone
    <2>4. CASE boot \in 0 .. Up - 1
      <3>1. held = {} /\ Made(disk, boot)
        BY <2>4 DEF Follows, Placed, Booting, Known
      <3>2. CASE boot \in 0 .. Segments
        BY <3>1, <3>2
      <3>3. CASE boot \notin 0 .. Segments
        <4>1. boot \in Nat /\ boot > Segments
          BY <1>0, <2>4, <3>3
        <4>2. On(disk, FreshList)
          BY <3>1, <4>1, MadeWhole
        <4> QED
          BY <3>1, <4>2, Fresh DEF Safe
      <3> QED
        BY <3>2, <3>3
    <2>5. CASE boot = Up
      BY <2>5 DEF Follows
    <2>6. boot \in {Down} \cup 0 .. Up
      BY DEF Placed, Booting, Known
    <2>7. boot \in 0 .. Up - 1 \/ boot = Up
      <3>1. boot # Down
        BY <1>5 DEF Reboot
      <3> QED
        BY <1>0, <2>6, <3>1
    <2> QED
      BY <2>4, <2>5, <2>7
  <1> QED
    BY <1>1, <1>2, <1>3, <1>4, <1>5 DEF Boot

(* sbGetBlock(): a block is taken off, from the disk's list too.            *)
LEMMA TakeFollows ==
    ASSUME Kept, Placed, Follows, NEW p \in Procs, Running, pc[p] = "get",
           NEW b, NEW l, NEW at, Take(p, b, l, at),
           faults = 0 /\ Lone =>
               \A e : Like(disk, e, list, lost, apart) =>
                   Leads(Soon(disk, at, l, "getWrite"), l, lost, apart)
    PROVE  Follows'
PROOF
  <1>1. /\ boot = Up /\ boot' = boot /\ disk' = disk /\ held' = held /\ lost' = lost
        /\ faults' = faults /\ apart' = apart /\ list' = l /\ position' = at
        /\ Goto(p, "getWrite", b)
    BY DEF Running, Take, machine, owners, trouble
  <1>2. /\ "getWrite" \in Writing /\ pc[p] \in Holding /\ pc[p] \notin Writing
        /\ "getWrite" # "fileWrite" /\ "getWrite" # "freeSegment"
    BY DEF Writing, Holding
  <1>3. ASSUME ~(faults = 0 /\ Lone) PROVE Follows'
    <2>1. DOMAIN pc = Procs /\ pc' = [pc EXCEPT ![p] = "getWrite"]
      BY <1>1 DEF Kept, Types, Goto
    <2> QED
      BY <1>1, <1>3, <2>1 DEF Follows, Lone
  <1>4. ASSUME faults = 0, Lone PROVE Follows'
    <2>1. DOMAIN local = Procs
      BY <1>4 DEF Placed, Known
    <2> QED
      BY <1>1, <1>2, <2>1, Enters
  <1> QED
    BY <1>3, <1>4

LEMMA GetFollows ==
    ASSUME Kept, Placed, Placed', Follows, faults' = 0 => faults = 0, NEW p \in Procs, Get(p)
    PROVE  Follows'
PROOF
  <1>1. CASE GetHead(p) \/ GetLock(p)
    <2>1. /\ boot = Up /\ boot' = boot /\ disk' = disk /\ position' = position /\ list' = list
          /\ faults' = faults /\ apart' = apart /\ lost' = lost /\ held' = held
          /\ pc[p] \in {"idle", "wantGet"}
          /\ \E at \in {"wantGet", "get"} : pc' = [pc EXCEPT ![p] = at]
      BY <1>1 DEF GetHead, GetLock, Lock, Goto, Running, machine, driver, memory, owners, trouble
    <2>2. \A q \in Procs : pc[q] \in Writing \/ pc'[q] \in Writing => pc'[q] = pc[q]
      BY <2>1 DEF Kept, Types, Writing
    <2> QED
      BY <2>1, <2>2, Idles
  <1>2. CASE GetAstray(p)
    <2>1. /\ boot = Up /\ boot' = boot /\ disk' = disk /\ position' = position /\ list' = list
          /\ faults' = faults /\ apart' = apart /\ lost' = lost /\ held' = held /\ pc' = pc
      BY <1>2 DEF GetAstray, Running, driver, memory, where, owners, trouble
    <2> QED
      BY <2>1, Idles
  <1>3. CASE GetEntry(p)
    <2> DEFINE b == Last(list[1].fr_free)  l == [list EXCEPT ![1].fr_free = Front(@)]
               at == list[1].fr_blocknum
    <2>1. /\ Running /\ pc[p] = "get" /\ Take(p, b, l, at) /\ sb_freelst # NULL
          /\ list[1].fr_free # <<>> /\ boot = Up
      BY <1>3, FreeListSizes DEF GetEntry, HasHead, NULL, Running
    <2>2. ASSUME faults = 0, Lone, NEW e, Like(disk, e, list, lost, apart)
          PROVE  Leads(Soon(disk, at, l, "getWrite"), l, lost, apart)
      <3>1. Good(list) /\ list # <<>>
        BY <2>1, <2>2 DEF Placed, Known, Listed
      <3>2. l # <<>>
        BY <2>1, <3>1, Pops
      <3>3. Good(e) /\ On(disk, e) /\ (e = list \/ CutOf(e, list))
        BY <2>2 DEF Like
      <3>4. BlocksOf(l) = BlocksOf(list) \ {b}
        BY <2>1, <3>1, Pops
      <3>5. \E f : /\ Good(f) /\ On([disk EXCEPT ![at] = Image(l, 1)], f)
                   /\ f = l \/ (CutOf(e, list) /\ CutOf(f, l))
                   /\ BlocksOf(f) \subseteq BlocksOf(l) \cup (BlocksOf(e) \ {b})
        BY <2>1, <3>1, <3>3, EntryTaken
      <3> HIDE DEF l, b, at
      <3>6. PICK f : /\ Good(f) /\ On([disk EXCEPT ![at] = Image(l, 1)], f)
                     /\ f = l \/ (CutOf(e, list) /\ CutOf(f, l))
                     /\ BlocksOf(f) \subseteq BlocksOf(l) \cup (BlocksOf(e) \ {b})
        BY <3>5
      <3>7. Soon(disk, at, l, "getWrite") = [disk EXCEPT ![at] = Image(l, 1)]
        BY <3>2 DEF Soon
      <3>8. f = l \/ (apart /\ CutOf(f, l))
        <4>1. CutOf(e, list) => apart
          BY <2>2 DEF Like, CutOf
        <4> QED
          BY <3>6, <4>1
      <3>9. BlocksOf(f) \subseteq BlocksOf(l) \cup lost
        BY <2>2, <3>4, <3>6 DEF Like
      <3> QED
        BY <3>6, <3>7, <3>8, <3>9 DEF Leads, Like
    <2> HIDE DEF b, l, at
    <2> QED
      BY <2>1, <2>2, TakeFollows
  <1>4. CASE GetSegment(p)
    <2> DEFINE b == list[2].fr_blocknum  at == list[1].fr_blocknum
               l == <<[list[1] EXCEPT !.fr_free = list[2].fr_free]>> \o SubSeq(list, 3, Len(list))
    <2>1. /\ Running /\ pc[p] = "get" /\ Take(p, b, l, at)
          /\ list[1].fr_free = <<>> /\ Len(list) > 1 /\ boot = Up
      BY <1>4 DEF GetSegment, Running
    <2>2. ASSUME faults = 0, Lone, NEW e, Like(disk, e, list, lost, apart)
          PROVE  Leads(Soon(disk, at, l, "getWrite"), l, lost, apart)
      <3>1. Good(list)
        BY <2>1, <2>2 DEF Placed, Known, Listed
      <3>2. l # <<>> /\ BlocksOf(l) = BlocksOf(list) \ {b}
        BY <2>1, <3>1, TakesOver
      <3>3. Good(e) /\ On(disk, e) /\ (e = list \/ CutOf(e, list))
        BY <2>2 DEF Like
      <3>5. \E f : /\ Good(f) /\ On([disk EXCEPT ![at] = Image(l, 1)], f)
                   /\ f = l \/ (CutOf(e, list) /\ CutOf(f, l))
                   /\ BlocksOf(f) \subseteq BlocksOf(l) \cup (BlocksOf(e) \ {b})
        BY <2>1, <3>1, <3>3, SegmentTaken
      <3> HIDE DEF l, b, at
      <3>6. PICK f : /\ Good(f) /\ On([disk EXCEPT ![at] = Image(l, 1)], f)
                     /\ f = l \/ (CutOf(e, list) /\ CutOf(f, l))
                     /\ BlocksOf(f) \subseteq BlocksOf(l) \cup (BlocksOf(e) \ {b})
        BY <3>5
      <3>7. Soon(disk, at, l, "getWrite") = [disk EXCEPT ![at] = Image(l, 1)]
        BY <3>2 DEF Soon
      <3>8. f = l \/ (apart /\ CutOf(f, l))
        <4>1. CutOf(e, list) => apart
          BY <2>2 DEF Like, CutOf
        <4> QED
          BY <3>6, <4>1
      <3>9. BlocksOf(f) \subseteq BlocksOf(l) \cup lost
        BY <2>2, <3>2, <3>6 DEF Like
      <3> QED
        BY <3>6, <3>7, <3>8, <3>9 DEF Leads, Like
    <2> HIDE DEF b, l, at
    <2> QED
      BY <2>1, <2>2, TakeFollows
  <1>5. CASE GetLast(p)
    <2> DEFINE b == list[1].fr_blocknum  l == <<>>
    <2>1. Running /\ pc[p] = "get" /\ Take(p, b, l, SUPERBLOCKNUM)
      BY <1>5 DEF GetLast
    <2>2. ASSUME NEW e, Like(disk, e, list, lost, apart)
          PROVE  Leads(Soon(disk, SUPERBLOCKNUM, l, "getWrite"), l, lost, apart)
      <3>1. Soon(disk, SUPERBLOCKNUM, <<>>, "getWrite") = [disk EXCEPT ![SUPERBLOCKNUM] = Super(NULL)]
        BY DEF Soon
      <3>2. On([disk EXCEPT ![SUPERBLOCKNUM] = Super(NULL)], <<>>)
        BY <2>2, LastTaken DEF Like
      <3>3. Like(Soon(disk, SUPERBLOCKNUM, <<>>, "getWrite"), <<>>, <<>>, lost, apart)
        BY <3>1, <3>2, Empty DEF Like
      <3> QED
        BY <3>3 DEF Leads
    <2> HIDE DEF b, l
    <2> QED
      BY <2>1, <2>2, TakeFollows
  <1>6. CASE GetWrite(p)
    <2> DEFINE c == IF list = << >> THEN Super(NULL) ELSE Image(list, 1)
    <2>1. /\ boot = Up /\ boot' = boot /\ list' = list /\ pc[p] = "getWrite" /\ Goto(p, "idle", 0)
          /\ \/ Written(c) /\ lost' = lost /\ apart' = apart
             \/ WriteFails
      BY <1>6 DEF GetWrite, Running, machine, memory
    <2>2. ASSUME faults' = 0
          PROVE  disk' = Soon(disk, position, list, pc[p]) /\ lost' = lost /\ apart' = apart
      <3>1. ~WriteFails
        BY <2>2 DEF WriteFails, Kept, Types
      <3>2. disk' = [disk EXCEPT ![position] = c]
        BY <2>1, <2>2, <3>1, Wrote
      <3> QED
        BY <2>1, <3>1, <3>2 DEF Soon
    <2> HIDE DEF c
    <2>3. pc[p] \in Writing /\ pc[p] # "fileWrite"
      BY <2>1 DEF Writing
    <2>4. CASE faults' = 0 /\ Lone
      <3>1. DOMAIN local = Procs
        BY <2>4 DEF Placed, Known
      <3> QED
        BY <2>1, <2>2, <2>3, <3>1, LeavesOff
    <2>5. CASE ~(faults' = 0 /\ Lone)
      <3>1. DOMAIN pc = Procs /\ pc' = [pc EXCEPT ![p] = "idle"]
        BY <2>1 DEF Kept, Types, Goto
      <3> QED
        BY <2>5, <3>1 DEF Follows, Lone
    <2> QED
      BY <2>4, <2>5
  <1> QED
    BY <1>1, <1>2, <1>3, <1>4, <1>5, <1>6 DEF Get

(* Where it is not known what the disk has, nothing is to be shown of it.   *)
LEMMA Unheeded ==
    ASSUME Kept, Follows, NEW p \in Procs, NEW at, NEW kept, Goto(p, at, kept),
           at = "fileWrite" => FileWrites, ~(faults' = 0 /\ Lone)
    PROVE  Follows'
PROOF
  <1>1. DOMAIN pc = Procs /\ pc' = [pc EXCEPT ![p] = at]
    BY DEF Kept, Types, Goto
  <1> QED
    BY <1>1 DEF Follows, Lone

(* sbFreeBlock() puts the block it was given into the list.                 *)
LEMMA PutFollows ==
    ASSUME Kept, Placed, Follows, NEW p \in Procs, Running, pc[p] = "free",
           NEW at \in {"freeSegment", "freeWrite", "freeSpill"}, NEW kept, Goto(p, at, kept),
           boot' = boot, disk' = disk, held' = held, faults' = faults,
           faults = 0 /\ Lone =>
               \A e : Like(disk, e, list, lost, apart) =>
                   /\ Leads(Soon(disk, position', list', at), list', lost', apart')
                   /\ at = "freeSegment" => On(disk, << >>) /\ position' \in DataBlock
    PROVE  Follows'
PROOF
  <1>1. boot = Up
    BY DEF Running
  <1>2. /\ at \in Writing /\ pc[p] \in Holding /\ pc[p] \notin Writing /\ at # "fileWrite"
    BY DEF Writing, Holding
  <1>3. CASE ~(faults = 0 /\ Lone)
    BY <1>2, <1>3, Unheeded
  <1>4. CASE faults = 0 /\ Lone
    <2>1. DOMAIN local = Procs
      BY <1>1, <1>4 DEF Placed, Known
    <2> QED
      BY <1>1, <1>2, <2>1, Enters
  <1> QED
    BY <1>3, <1>4

(* What the block is that it was given.                                     *)
LEMMA Given ==
    ASSUME Placed, Known, boot = Up, NEW p \in Procs, pc[p] = "free"
    PROVE  local[p] \in DataBlock /\ local[p] \notin BlocksOf(list) /\ Good(list)
PROOF
  <1>1. Own(BlocksOf(list), held, InCall, lost) /\ Good(list)
    BY DEF Placed, Listed
  <1>2. local[p] \in InCall
    BY DEF InCall
  <1> QED
    BY <1>1, <1>2 DEF Own

LEMMA FreeFollows ==
    ASSUME Kept, Placed, Placed', Follows, faults' = 0 => faults = 0, NEW p \in Procs, Free(p)
    PROVE  Follows'
PROOF
  <1>1. ASSUME NEW block \in held, FreeRefused(p, block) PROVE Follows'
    <2>1. /\ boot = Up /\ boot' = boot /\ disk' = disk /\ position' = position /\ list' = list
          /\ faults' = faults /\ apart' = apart /\ lost \subseteq lost' /\ held' \subseteq held
          /\ pc' = pc
      BY <1>1 DEF FreeRefused, Running, machine, driver, memory, where, trouble
    <2> QED
      BY <2>1, Idles
  <1>2. ASSUME NEW block \in held, FreeCall(p, block) PROVE Follows'
    <2>1. /\ boot = Up /\ boot' = boot /\ disk' = disk /\ position' = position /\ list' = list
          /\ faults' = faults /\ apart' = apart /\ lost \subseteq lost' /\ held' \subseteq held
          /\ pc[p] = "idle" /\ pc' = [pc EXCEPT ![p] = "wantFree"]
      BY <1>2 DEF FreeCall, Goto, Running, machine, driver, memory, trouble
    <2>2. \A q \in Procs : pc[q] \in Writing \/ pc'[q] \in Writing => pc'[q] = pc[q]
      BY <2>1 DEF Kept, Types, Writing
    <2> QED
      BY <2>1, <2>2, Idles
  <1>3. CASE FreeLock(p)
    <2>1. /\ boot = Up /\ boot' = boot /\ disk' = disk /\ position' = position /\ list' = list
          /\ faults' = faults /\ apart' = apart /\ lost' = lost /\ held' = held
          /\ pc[p] = "wantFree" /\ pc' = [pc EXCEPT ![p] = "free"]
      BY <1>3 DEF FreeLock, Lock, Goto, Running, machine, driver, memory, owners, trouble
    <2>2. \A q \in Procs : pc[q] \in Writing \/ pc'[q] \in Writing => pc'[q] = pc[q]
      BY <2>1 DEF Kept, Types, Writing
    <2> QED
      BY <2>1, <2>2, Idles
  <1>4. CASE FreeAstray(p)
    <2>1. /\ boot = Up /\ boot' = boot /\ disk' = disk /\ position' = position /\ list' = list
          /\ faults' = faults /\ apart' = apart /\ lost' = lost /\ held' = held /\ pc' = pc
      BY <1>4 DEF FreeAstray, Running, driver, memory, where, owners, trouble
    <2> QED
      BY <2>1, Idles
  <1>5. CASE FreeFirst(p)
    <2> DEFINE b == local[p]  l == <<[fr_blocknum |-> b, fr_free |-> <<>>]>>
    <2>1. /\ Running /\ pc[p] = "free" /\ boot = Up /\ boot' = boot /\ disk' = disk
          /\ held' = held /\ lost' = lost /\ faults' = faults /\ apart' = apart
          /\ sb_freelst = NULL /\ list' = l /\ position' = b
          /\ \E a : Goto(p, "freeSegment", a)
      BY <1>5 DEF FreeFirst, Running, machine, owners, trouble
    <2>2. ASSUME faults = 0, Lone, NEW e, Like(disk, e, list, lost, apart)
          PROVE  /\ Leads(Soon(disk, b, l, "freeSegment"), l, lost, apart)
                 /\ On(disk, <<>>) /\ b \in DataBlock
      <3>1. b \in DataBlock /\ list = <<>>
        BY <2>1, <2>2, Given DEF Placed, Known, Listed
      <3>2. e = <<>>
        BY <2>2, <3>1 DEF Like, CutOf
      <3>3. On(disk, <<>>)
        BY <2>2, <3>2 DEF Like
      <3>4. On([[disk EXCEPT ![b] = Image(l, 1)]
                    EXCEPT ![SUPERBLOCKNUM] = Super(l[1].fr_blocknum)], l)
        BY <3>1, <3>3, FirstMade
      <3>5. Good(l)
        BY <3>1, Single
      <3> HIDE DEF l, b
      <3>6. Soon(disk, b, l, "freeSegment") =
                [[disk EXCEPT ![b] = Image(l, 1)]
                    EXCEPT ![SUPERBLOCKNUM] = Super(l[1].fr_blocknum)]
        BY DEF Soon
      <3> QED
        BY <3>1, <3>3, <3>4, <3>5, <3>6 DEF Leads, Like
    <2> HIDE DEF l, b
    <2> QED
      BY <2>1, <2>2, PutFollows
  <1>6. CASE FreeSegment(p)
    <2>1. /\ boot = Up /\ boot' = boot /\ list' = list /\ held' = held /\ lost' = lost
          /\ pc[p] = "freeSegment" /\ Goto(p, "freeSuper", local[p])
          /\ position' = SUPERBLOCKNUM
          /\ \/ Written(Image(list, 1)) /\ apart' = apart
             \/ WriteFails
      BY <1>6 DEF FreeSegment, Running, machine, owners
    <2>2. CASE ~(faults' = 0 /\ Lone)
      BY <2>1, <2>2, Unheeded
    <2>3. CASE faults' = 0 /\ Lone
      <3>1. ~WriteFails
        BY <2>3 DEF WriteFails, Kept, Types
      <3>2. disk' = [disk EXCEPT ![position] = Image(list, 1)] /\ apart' = apart /\ faults = 0
        BY <2>1, <2>3, <3>1, Wrote
      <3>3. pc'[p] = "freeSuper" /\ \A q \in Procs \ {p} : pc'[q] = pc[q]
        <4>1. DOMAIN local = Procs
          BY <2>1, <2>3, <3>2 DEF Placed, Known
        <4> QED
          BY <2>1, <4>1, Goes
      <3>4. \A q \in Procs : q # p => pc[q] \notin Writing
        BY <2>1, <2>3, Alone DEF Holding
      <3>5. /\ On(disk, <<>>) /\ position \in DataBlock
            /\ Leads(Soon(disk, position, list, "freeSegment"), list, lost, apart)
        BY <2>1, <2>3, <3>2 DEF Follows, Writing
      <3>6. Soon(disk', SUPERBLOCKNUM, list, "freeSuper")
                = Soon(disk, position, list, "freeSegment")
        BY <3>2 DEF Soon
      <3>7. Safe(disk', held)
        <4> DEFINE none == << >>  c == Image(list, 1)
        <4>1. Good(none) /\ BlocksOf(none) = {} /\ On(disk, none)
          BY <3>5, Empty
        <4> HIDE DEF none, c
        <4>2. On([disk EXCEPT ![position] = c], none)
          BY <3>5, <4>1, Elsewhere
        <4>3. disk' = [disk EXCEPT ![position] = c]
          BY <3>2 DEF c
        <4> QED
          BY <4>1, <4>2, <4>3 DEF Safe
      <3>8. Up \notin 0 .. Up - 1 /\ Up # Down
        BY Enough DEF Up, Down
      <3>9. ~FileWrites => \A q \in Procs : pc'[q] # "fileWrite"
        BY <3>3 DEF Follows
      <3>10. \A q \in Procs : q # p => pc'[q] \notin Writing /\ pc'[q] # "freeSegment"
        BY <3>3, <3>4 DEF Writing
      <3>11. "freeSuper" \in Writing
        BY DEF Writing
      <3>12. \A q \in Procs : pc'[q] \in Writing =>
                   Leads(Soon(disk', position', list', pc'[q]), list', lost', apart')
        BY <2>1, <3>2, <3>3, <3>5, <3>6, <3>10
      <3>13. \A q \in Procs : pc'[q] # "freeSegment"
        BY <3>3, <3>10
      <3>14. ~ \A q \in Procs : pc'[q] \notin Writing
        BY <3>3, <3>11
      <3>15. boot' = Up /\ held' = held
        BY <2>1
      <3> QED
        BY <3>7, <3>8, <3>9, <3>12, <3>13, <3>14, <3>15 DEF Follows
    <2> QED
      BY <2>2, <2>3
  <1>7. CASE FreeSuper(p)
    <2> DEFINE c == Super(list[1].fr_blocknum)
    <2>1. /\ boot = Up /\ boot' = boot /\ list' = list /\ lost' = lost
          /\ pc[p] = "freeSuper" /\ Goto(p, "idle", 0)
          /\ \/ Written(c) /\ apart' = apart
             \/ WriteFails
      BY <1>7 DEF FreeSuper, Running, machine, owners
    <2>2. ASSUME faults' = 0
          PROVE  disk' = Soon(disk, position, list, pc[p]) /\ lost' = lost /\ apart' = apart
      <3>1. ~WriteFails
        BY <2>2 DEF WriteFails, Kept, Types
      <3>2. disk' = [disk EXCEPT ![position] = c]
        BY <2>1, <2>2, <3>1, Wrote
      <3> QED
        BY <2>1, <3>1, <3>2 DEF Soon
    <2> HIDE DEF c
    <2>3. pc[p] \in Writing /\ pc[p] # "fileWrite"
      BY <2>1 DEF Writing
    <2>4. CASE faults' = 0 /\ Lone
      <3>1. DOMAIN local = Procs
        BY <2>1, <2>4 DEF Placed, Known
      <3> QED
        BY <2>1, <2>2, <2>3, <3>1, LeavesOff
    <2> QED
      BY <2>1, <2>4, Unheeded
  <1>8. CASE FreeAppend(p)
    <2> DEFINE b == local[p]  l == [list EXCEPT ![Len(list)].fr_free = Append(@, b)]
               at == Last(list).fr_blocknum
    <2>1. /\ Running /\ pc[p] = "free" /\ boot = Up /\ boot' = boot /\ disk' = disk
          /\ held' = held /\ lost' = lost /\ faults' = faults /\ apart' = apart
          /\ list' = l /\ position' = at /\ sb_freelst # NULL
          /\ Goto(p, "freeWrite", b)
      BY <1>8, FreeListSizes DEF FreeAppend, Running, machine, owners, trouble, NULL
    <2>2. Len(Last(list).fr_free) # FREEBLOCKMAX
      BY <1>8 DEF FreeAppend, LastFull
    <2>3. ASSUME faults = 0, Lone, NEW e, Like(disk, e, list, lost, apart)
          PROVE  Leads(Soon(disk, at, l, "freeWrite"), l, lost, apart)
      <3>1. b \in DataBlock /\ b \notin BlocksOf(list) /\ Good(list) /\ list # <<>>
        BY <2>1, <2>3, Given DEF Placed, Known, Listed
      <3> HIDE DEF b
      <3>2. Good(l) /\ BlocksOf(l) = BlocksOf(list) \cup {b}
        BY <2>2, <3>1, Appends
      <3>3. Good(e) /\ On(disk, e) /\ (e = list \/ CutOf(e, list))
        BY <2>3 DEF Like
      <3>4. On([disk EXCEPT ![at] = Image(l, Len(l))], l)
        BY <2>2, <3>1, <3>3, EntryAdded
      <3> HIDE DEF l, at
      <3>5. Soon(disk, at, l, "freeWrite") = [disk EXCEPT ![at] = Image(l, Len(l))]
        BY DEF Soon
      <3> QED
        BY <3>2, <3>4, <3>5 DEF Leads, Like
    <2> HIDE DEF l, at, b
    <2> QED
      BY <2>1, <2>3, PutFollows
  <1>9. CASE FreeFull(p)
    <2> DEFINE b == local[p]
               l == [SubSeq(list, 1, Len(list) - 1) EXCEPT ![Len(list) - 1].fr_free = <<>>]
    <2>1. /\ Running /\ pc[p] = "free" /\ boot = Up /\ boot' = boot /\ disk' = disk
          /\ held' = held /\ faults' = faults /\ apart' = TRUE
          /\ list' = l /\ position' = b /\ Len(list) > 1
          /\ Goto(p, "freeSpill", b)
      BY <1>9 DEF FreeFull, Running, machine
    <2>2. /\ Len(Last(list).fr_free) = FREEBLOCKMAX
          /\ lost' = lost \cup {b} \cup (BlocksOf(list) \ BlocksOf(l))
      <3>1. lost' = lost \cup {b} \cup (BlocksOf(list) \ BlocksOf(list'))
        BY <1>9 DEF FreeFull
      <3>2. BlocksOf(list') = BlocksOf(l)
        BY <2>1
      <3> HIDE DEF l
      <3> QED
        BY <1>9, <3>1, <3>2 DEF FreeFull, LastFull
    <2>3. ASSUME faults = 0, Lone, NEW e, Like(disk, e, list, lost, apart)
          PROVE  Leads(Soon(disk, b, l, "freeSpill"), l, lost', TRUE)
      <3>1. b \in DataBlock /\ b \notin BlocksOf(list) /\ Good(list)
        BY <2>1, <2>3, Given DEF Known
      <3>2. Good(e) /\ On(disk, e) /\ (e = list \/ CutOf(e, list))
        BY <2>3 DEF Like
      <3>3. e = list /\ CutOf(e, l)
        BY <2>1, <2>2, <3>1, <3>2, CutInMemory
      <3> HIDE DEF l, b
      <3>4. On([disk EXCEPT ![b] = Other], e)
        BY <3>1, <3>2, <3>3, Elsewhere
      <3>5. Soon(disk, b, l, "freeSpill") = [disk EXCEPT ![b] = Other]
        BY DEF Soon
      <3>6. BlocksOf(e) \subseteq BlocksOf(l) \cup lost'
        BY <2>2, <3>3
      <3> QED
        BY <3>2, <3>3, <3>4, <3>5, <3>6 DEF Leads, Like
    <2> HIDE DEF l, b
    <2> QED
      BY <2>1, <2>3, PutFollows
  <1>10. CASE FreeWrite(p)
    <2> DEFINE c == IF pc[p] = "freeWrite" THEN Image(list, Len(list)) ELSE Other
    <2>1. /\ boot = Up /\ boot' = boot /\ list' = list /\ lost' = lost
          /\ pc[p] \in {"freeWrite", "freeSpill"} /\ Goto(p, "idle", 0)
          /\ \/ Written(c) /\ apart' = apart
             \/ WriteFails
      BY <1>10 DEF FreeWrite, Running, machine, memory, owners
    <2>2. ASSUME faults' = 0
          PROVE  disk' = Soon(disk, position, list, pc[p]) /\ lost' = lost /\ apart' = apart
      <3>1. ~WriteFails
        BY <2>2 DEF WriteFails, Kept, Types
      <3>2. disk' = [disk EXCEPT ![position] = c]
        BY <2>1, <2>2, <3>1, Wrote
      <3> QED
        BY <2>1, <3>1, <3>2 DEF Soon
    <2> HIDE DEF c
    <2>3. pc[p] \in Writing /\ pc[p] # "fileWrite"
      BY <2>1 DEF Writing
    <2>4. CASE faults' = 0 /\ Lone
      <3>1. DOMAIN local = Procs
        BY <2>1, <2>4 DEF Placed, Known
      <3> QED
        BY <2>1, <2>2, <2>3, <3>1, LeavesOff
    <2> QED
      BY <2>1, <2>4, Unheeded
  <1> QED
    BY <1>1, <1>2, <1>3, <1>4, <1>5, <1>6, <1>7, <1>8, <1>9, <1>10 DEF Free

(* A file's block is none of the list's, on the disk neither: it may be     *)
(* written.                                                                 *)
LEMMA FileFollows ==
    ASSUME Kept, Placed, Placed', Follows, faults' = 0 => faults = 0, NEW p \in Procs, File(p)
    PROVE  Follows'
PROOF
  <1>1. ASSUME NEW block \in held, FileSeek(p, block) PROVE Follows'
    <2>1. /\ boot = Up /\ boot' = boot /\ disk' = disk /\ list' = list /\ FileWrites
          /\ held' = held /\ lost' = lost /\ faults' = faults /\ apart' = apart
          /\ pc[p] = "idle" /\ Goto(p, "fileWrite", block) /\ position' = block
      BY <1>1 DEF FileSeek, Running, machine, memory, owners, trouble
    <2>2. ASSUME faults = 0, Lone, NEW e, Like(disk, e, list, lost, apart)
          PROVE  Leads(Soon(disk, block, list, "fileWrite"), list, lost, apart)
      <3>1. BlocksOf(list) \cap held = {} /\ lost \cap held = {} /\ held \subseteq DataBlock
        BY <2>1, <2>2, Apart DEF Known
      <3>2. block \in DataBlock /\ block \notin BlocksOf(e) /\ Good(e) /\ On(disk, e)
        BY <2>2, <3>1 DEF Like
      <3>3. On([disk EXCEPT ![block] = Other], e)
        BY <3>2, Elsewhere
      <3>4. Soon(disk, block, list, "fileWrite") = [disk EXCEPT ![block] = Other]
        BY DEF Soon
      <3> QED
        BY <2>2, <3>3, <3>4 DEF Leads, Like
    <2>3. "fileWrite" \in Writing /\ "idle" \notin Writing
      BY DEF Writing
    <2>4. CASE faults = 0 /\ Lone
      <3>1. DOMAIN local = Procs
        BY <2>1, <2>4 DEF Placed, Known
      <3> QED
        BY <2>1, <2>2, <2>3, <3>1, Enters
    <2> QED
      BY <2>1, <2>4, Unheeded
  <1>2. CASE FileWrite(p)
    <2>1. /\ boot = Up /\ boot' = boot /\ list' = list /\ lost' = lost /\ apart' = apart
          /\ pc[p] = "fileWrite" /\ Goto(p, "idle", 0) /\ Written(Other)
      BY <1>2 DEF FileWrite, Running, machine, memory, owners
    <2>2. FileWrites
      BY <2>1 DEF Follows
    <2>3. ASSUME faults' = 0 PROVE disk' = Soon(disk, position, list, pc[p])
      BY <2>1, <2>3, Wrote DEF Soon
    <2>4. pc[p] \in Writing
      BY <2>1 DEF Writing
    <2>5. CASE faults' = 0 /\ Lone
      <3>1. DOMAIN local = Procs
        BY <2>1, <2>5 DEF Placed, Known
      <3> QED
        BY <2>1, <2>2, <2>3, <2>4, <3>1, LeavesOff
    <2> QED
      BY <2>1, <2>5, Unheeded
  <1> QED
    BY <1>1, <1>2 DEF File

(* A write that fails is counted, and the count is never taken back.        *)
LEMMA FaultsStay == ASSUME Kept, [Next]_vars PROVE faults' = 0 => faults = 0
PROOF
  <1>1. faults \in Nat
    BY DEF Kept, Types
  <1>2. faults' = faults \/ WriteFails
    <2>1. CASE UNCHANGED vars
      BY <2>1 DEF vars
    <2>2. CASE Boot
      BY <2>2 DEF Boot, Mount, MountAstray, InitDisk, InitWrite, Written, Reboot, trouble
    <2>3. ASSUME NEW p \in Procs, Get(p) PROVE faults' = faults \/ WriteFails
      BY <2>3 DEF Get, GetHead, GetLock, Lock, GetAstray, GetEntry, GetSegment, GetLast, Take,
                  GetWrite, Written, trouble
    <2>4. ASSUME NEW p \in Procs, Free(p) PROVE faults' = faults \/ WriteFails
      BY <2>4 DEF Free, FreeRefused, FreeCall, FreeLock, Lock, FreeAstray, FreeFirst,
                  FreeSegment, FreeSuper, FreeAppend, FreeFull, FreeWrite, Written, trouble
    <2>5. ASSUME NEW p \in Procs, File(p) PROVE faults' = faults \/ WriteFails
      BY <2>5 DEF File, FileSeek, FileWrite, Written, trouble
    <2> QED
      BY <2>1, <2>2, <2>3, <2>4, <2>5 DEF Next
  <1> QED
    BY <1>1, <1>2 DEF WriteFails

(* Until the first restart memory and disk are taken to be apart from the   *)
(* first write on that fails: sbOpen() finds nothing on an unused disk, so  *)
(* it cannot have made them one again.                                      *)
Noticed == reboots = 0 /\ ~apart => faults = 0

LEMMA NoticedStep == ASSUME Kept, Placed, Noticed, [Next]_vars PROVE Noticed'
PROOF
  <1> DEFINE Same == faults' = faults /\ apart' = apart /\ reboots' = reboots
  <1>1. ASSUME Same \/ apart' = TRUE PROVE Noticed'
    BY <1>1 DEF Noticed
  <1>2. CASE UNCHANGED vars
    BY <1>1, <1>2 DEF vars
  <1>3. CASE Mount \/ InitDisk
    <2>1. boot = Down /\ reboots' = reboots /\ faults' = faults
      BY <1>3 DEF Mount, InitDisk
    <2> QED
      BY <2>1 DEF Noticed, Placed, Known, Booting
  <1>4. CASE MountAstray
    BY <1>1, <1>4 DEF MountAstray, trouble
  <1>5. CASE InitWrite
    BY <1>1, <1>5 DEF InitWrite, Written
  <1>6. CASE Reboot
    <2>1. reboots' # 0
      BY <1>6 DEF Reboot, Placed
    <2> QED
      BY <2>1 DEF Noticed
  <1>7. ASSUME NEW p \in Procs, Get(p) PROVE Noticed'
    <2>1. Same \/ apart' = TRUE
      BY <1>7 DEF Get, GetHead, GetLock, Lock, GetAstray, GetEntry, GetSegment, GetLast, Take,
                  GetWrite, Written, trouble, machine
    <2> QED
      BY <1>1, <2>1
  <1>8. ASSUME NEW p \in Procs, Free(p) PROVE Noticed'
    <2>1. Same \/ apart' = TRUE
      BY <1>8 DEF Free, FreeRefused, FreeCall, FreeLock, Lock, FreeAstray, FreeFirst,
                  FreeSegment, FreeSuper, FreeAppend, FreeFull, FreeWrite, Written,
                  trouble, machine
    <2> QED
      BY <1>1, <2>1
  <1>9. ASSUME NEW p \in Procs, File(p) PROVE Noticed'
    <2>1. Same \/ apart' = TRUE
      BY <1>9 DEF File, FileSeek, FileWrite, Written, trouble, machine
    <2> QED
      BY <1>1, <2>1
  <1> QED
    BY <1>2, <1>3, <1>4, <1>5, <1>6, <1>7, <1>8, <1>9 DEF Next, Boot

(* What memory has, what the disk has, and how the two differ, step by step. *)
Together == Kept /\ Placed /\ Follows /\ Noticed

LEMMA TogetherInit == Init => Together
PROOF
  BY KeptInit, PlacedInit, FollowsInit DEF Together, Noticed, Init

LEMMA TogetherStep == ASSUME Together, [Next]_vars PROVE Together'
PROOF
  <1>1. Kept /\ Placed /\ Follows /\ Noticed
    BY DEF Together
  <1>2. faults' = 0 => faults = 0
    BY <1>1, FaultsStay
  <1>3. Placed'
    <2>1. CASE UNCHANGED vars
      BY <1>1, <2>1 DEF vars, Placed, Known, Lone, Listed, OneEach, Linked, Booting, InCall
    <2> QED
      BY <1>1, <1>2, <2>1, BootPlaces, GetPlaces, FreePlaces, FilePlaces DEF Next
  <1>4. Follows'
    <2>1. CASE UNCHANGED vars
      BY <1>1, <2>1 DEF vars, Follows, Lone
    <2> QED
      BY <1>1, <1>2, <1>3, <2>1, BootFollows, GetFollows, FreeFollows, FileFollows DEF Next
  <1> QED
    BY <1>1, <1>3, <1>4, KeptStep, NoticedStep DEF Together

LEMMA StaysTogether == Spec => []Together
PROOF
  BY TogetherInit, TogetherStep, PTL DEF Spec

(* Every block of the disk has one place: whatever calls do at the same     *)
(* time, a block is never given to two of them, named twice by the list, or *)
(* forgotten, on any disk: until the machine is started again even if       *)
(* writes fail, and after any number of restarts, at any step of any call,  *)
(* as long as none has.                                                     *)
THEOREM OwnedOnce == Spec => [](Known => OnePlace)
PROOF
  <1>1. Together => (Known => OnePlace)
    <2> SUFFICES ASSUME Placed, Known, boot = Up PROVE OnePlace
      BY DEF OnePlace, Together
    <2>1. Good(list) /\ Own(BlocksOf(list), held, InCall, lost)
      BY DEF Placed, Listed
    <2>2. \A d, e \in Entries(list) : EntryAt(list, d) = EntryAt(list, e) => d = e
      BY <2>1, DistinctIs
    <2> QED
      BY <2>1, <2>2 DEF OnePlace, Own
  <1> QED
    BY <1>1, StaysTogether, PTL

(* However many blocks the disk has and however long its list is, a restart *)
(* in the middle of any call finds a chain of segments that were written.   *)
THEOREM ChainIsFound == Spec => [](Lone => RestartFinds)
PROOF
  <1>1. Together => (Lone => RestartFinds)
    <2> SUFFICES ASSUME Follows, Lone, boot = Up, faults = 0 PROVE ChainWhole(disk)
      BY DEF RestartFinds, Together
    <2>1. PICK e : Good(e) /\ On(disk, e)
      BY DEF Follows, Safe
    <2> QED
      BY <2>1, Opened
  <1> QED
    BY <1>1, StaysTogether, PTL

(* Between two calls sbOpen() would make of the disk the very list there is *)
(* in memory, unless the code cut a full list off or a write has failed.    *)
THEOREM DiskHasTheList == Spec => [](Known /\ Lone => DiskFollows)
PROOF
  <1>1. Together => (Known /\ Lone => DiskFollows)
    <2> SUFFICES ASSUME Together, Known, Lone, Quiet, ~apart
                 PROVE  ChainWhole(disk) /\ sbOpenFreeList(disk) = list
      BY DEF DiskFollows
    <2>1. faults = 0
      BY DEF Together, Noticed, Known
    <2>2. boot = Up /\ \A p \in Procs : pc[p] \notin Writing
      BY DEF Quiet, Writing
    <2>3. Leads(disk, list, lost, apart)
      BY <2>1, <2>2 DEF Together, Follows
    <2>4. Good(list) /\ On(disk, list)
      BY <2>3 DEF Leads, Like
    <2> QED
      BY <2>4, Opened
  <1> QED
    BY <1>1, StaysTogether, PTL

(* While no write fails, no step of any call leaves a disk from which a     *)
(* restart would give a caller's block away a second time.                  *)
THEOREM OneOwnerAfterRestart == Spec => [](faults = 0 /\ Lone => NoSecondOwner)
PROOF
  <1>1. Together => (faults = 0 /\ Lone => NoSecondOwner)
    <2> SUFFICES ASSUME Placed, Follows, faults = 0, Lone, ChainWhole(disk)
                 PROVE  held \cap BlocksOf(sbOpenFreeList(disk)) = {}
      BY DEF NoSecondOwner, Together
    <2>1. boot \in {Down} \cup 0 .. Up /\ (boot \in 0 .. Up - 1 => held = {})
      BY DEF Placed, Known, Booting
    <2>2. boot = Down \/ boot \in 0 .. Up - 1 \/ boot = Up
      <3>1. Up \in Nat
        BY Enough DEF Up
      <3> QED
        BY <2>1, <3>1
    <2>3. held = {} \/ Safe(disk, held)
      BY <2>1, <2>2 DEF Follows
    <2>4. ASSUME Safe(disk, held) PROVE held \cap BlocksOf(sbOpenFreeList(disk)) = {}
      <3>1. PICK e : Good(e) /\ On(disk, e) /\ BlocksOf(e) \cap held = {}
        BY <2>4 DEF Safe
      <3>2. sbOpenFreeList(disk) = e
        BY <3>1, Opened
      <3> QED
        BY <3>1, <3>2
    <2> QED
      BY <2>3, <2>4
  <1> QED
    BY <1>1, StaysTogether, PTL
===============================================================================
