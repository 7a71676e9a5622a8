----------------------------- MODULE Kernel_proof -----------------------------
(***************************************************************************)
(* The kernel under its processes.  First the pages: for any memory, any   *)
(* number of processes and any addresses, no page has two owners and each  *)
(* table maps what was asked for; the tables are address spaces.  Then     *)
(* the traps: registers, calls and ticks over any sequence of them, for    *)
(* any values of registers and arguments.                                  *)
(***************************************************************************)
EXTENDS Memory, Trap, SequenceTheorems, FiniteSetTheorems, FunctionTheorems, TLAPS

(* The last whole page of RAM. *)
LastPage == maxaddr + 1 - PAGE_SIZE

(* Whole numbers divided by a number of pages or bytes. *)
LEMMA Divide ==
    ASSUME NEW x \in Int, NEW m \in Nat, m > 0
    PROVE  /\ x \div m \in Int /\ x % m \in 0 .. m - 1
           /\ x = (x \div m) * m + (x % m)
PROOF
  OBVIOUS

(* A quotient and a remainder are what multiplication says.                *)
LEMMA Divides ==
    ASSUME NEW q \in Int, NEW m \in Nat, NEW r \in Int, 0 <= r, r < m
    PROVE  (q * m + r) \div m = q /\ (q * m + r) % m = r
PROOF
  OBVIOUS

(* Whole pages further on, an address is as aligned as before.             *)
LEMMA StaysAligned ==
    ASSUME NEW a \in Int, NEW k \in Int, NEW m \in Nat, m > 0, a % m = 0
    PROVE  (a + k * m) % m = 0
PROOF
  <1> DEFINE q == a \div m
  <1>1. a = q * m /\ q \in Int
    BY Divide
  <1> HIDE DEF q
  <1>2. a + k * m = (q + k) * m + 0 /\ q + k \in Int
    BY <1>1
  <1>3. ((q + k) * m + 0) % m = 0
    BY <1>2, Divides
  <1> QED
    BY <1>2, <1>3

(* Of a multiple nothing is lost.                                          *)
LEMMA Exact ==
    ASSUME NEW x \in Int, NEW m \in Nat, m > 0, x % m = 0
    PROVE  (x \div m) * m = x
PROOF
  BY Divide

(* Rounding up gives the least multiple that is not below.                 *)
LEMMA RoundsUp ==
    ASSUME NEW x \in Int, NEW m \in Nat, m > 0
    PROVE  LET q == (x + m - 1) \div m
           IN  /\ q \in Int /\ q * m >= x /\ q * m < x + m
               /\ (q * m) \div m = q /\ (q * m) % m = 0
PROOF
  <1> DEFINE q == (x + m - 1) \div m
  <1>1. x + m - 1 = q * m + ((x + m - 1) % m) /\ q \in Int /\ (x + m - 1) % m \in 0 .. m - 1
    BY Divide
  <1> HIDE DEF q
  <1>2. q * m \in Int /\ q * m = q * m + 0
    BY <1>1
  <1>3. (q * m + 0) \div m = q /\ (q * m + 0) % m = 0
    BY <1>1, Divides
  <1> QED
    BY <1>1, <1>2, <1>3 DEF q

(* The constants, as the proofs use them. *)
LEMMA Layout ==
    /\ PAGE_SIZE \in Nat /\ PAGE_SIZE > 1 /\ Fan \in Nat /\ Fan > 1
    /\ memheap \in Nat /\ maxaddr \in Nat /\ memheap < maxaddr
    /\ HeapPage \subseteq Nat /\ HeapPage \subseteq memheap .. maxaddr
    /\ 0 \in Index /\ Fan - 1 \in Index
PROOF
  <1>1. PAGE_SIZE \in Nat /\ PAGE_SIZE > 1 /\ Fan \in Nat /\ Fan > 1 /\ maxaddr \in Nat
    BY MemoryLayout
  <1>2. _end \in Nat /\ KernelStack \in Nat
    BY MemoryLayout
  <1>3. memheap \in Nat
    BY <1>2 DEF memheap
  <1>4. memheap < maxaddr
    <2>1. memheap + PAGE_SIZE <= maxaddr
      BY MemoryLayout
    <2> QED
      BY <1>1, <1>3, <2>1
  <1>5. HeapPage \subseteq Nat /\ HeapPage \subseteq memheap .. maxaddr
    BY <1>1, <1>3 DEF HeapPage
  <1>6. 0 \in Index /\ Fan - 1 \in Index
    BY <1>1 DEF Index
  <1> QED
    BY <1>1, <1>3, <1>4, <1>5, <1>6

(* The three indices of an address are entries of a table.                 *)
LEMMA Indices ==
    ASSUME NEW va \in Nat
    PROVE  VPN2(va) \in Index /\ VPN1(va) \in Index /\ VPN0(va) \in Index
PROOF
  <1>1. ASSUME NEW n \in Nat, n > 0 PROVE (va \div n) % Fan \in Index
    <2>1. va \div n \in Int
      BY <1>1, Divide
    <2> QED
      BY <2>1, Divide, Layout DEF Index
  <1>2. ASSUME NEW a \in Nat, NEW b \in Nat, a > 0, b > 0 PROVE a * b \in Nat /\ a * b > 0
    BY <1>2
  <1>3. PAGE_SIZE * Fan \in Nat /\ PAGE_SIZE * Fan > 0
    BY <1>2, Layout
  <1>4. PAGE_SIZE * Fan * Fan \in Nat /\ PAGE_SIZE * Fan * Fan > 0
    BY <1>2, <1>3, Layout
  <1> QED
    BY <1>1, <1>3, <1>4, Layout DEF VPN2, VPN1, VPN0

------------------------------------------------------------------------------
(* The tables of some roots in a memory, level by level. *)
LinkAt(mem, t, i) == i \in DOMAIN mem[t] /\ ~IsLeaf(mem[t][i])
Under(mem, t)     == {mem[t][i].to : i \in {j \in Index : LinkAt(mem, t, j)}}
Mids(mem, rs)     == UNION {Under(mem, r) : r \in rs}
Lows(mem, rs)     == UNION {Under(mem, t) : t \in Mids(mem, rs)}
Trunk(mem, rs)    == rs \cup Mids(mem, rs)
TreeOf(mem, r) ==
    {r} \cup Under(mem, r) \cup UNION {Under(mem, t) : t \in Under(mem, r)}

(* The list names pages of the heap, from the highest on. *)
Listing(free) == /\ free \in Seq(HeapPage)
                 /\ \A j, k \in DOMAIN free : j < k => free[j] > free[k]
                 /\ \A k \in DOMAIN free : k > 1 => free[k] + PAGE_SIZE = free[k - 1]

(* Each page is in one place: free, a table of one level, or in rest. *)
Placed(free, mem, rs, rest) ==
    /\ rs \cup Mids(mem, rs) \cup Lows(mem, rs) \cup rest \subseteq HeapPage
    /\ ToSet(free) \cap (Trunk(mem, rs) \cup Lows(mem, rs) \cup rest) = {}
    /\ rs \cap (Mids(mem, rs) \cup Lows(mem, rs) \cup rest) = {}
    /\ Mids(mem, rs) \cap (Lows(mem, rs) \cup rest) = {}
    /\ Lows(mem, rs) \cap rest = {}

(* The upper tables hold links only, the lowest none; no two links lead to  *)
(* the same page.                                                           *)
Branches(mem, rs) ==
    /\ \A t \in Trunk(mem, rs), i \in Index : i \in DOMAIN mem[t] => LinkAt(mem, t, i)
    /\ \A t \in Lows(mem, rs), i \in Index : ~LinkAt(mem, t, i)
    /\ \A t, u \in Trunk(mem, rs), i, j \in Index :
          LinkAt(mem, t, i) /\ LinkAt(mem, u, j) /\ mem[t][i].to = mem[u][j].to
            => t = u /\ i = j

(* A memory has the pages of the heap, and no others.                      *)
Whole(mem) == mem = [x \in HeapPage |-> mem[x]]

(* All of it: list, memory, places and tables.                             *)
Forest(free, mem, rs, rest) ==
    Listing(free) /\ Whole(mem) /\ Placed(free, mem, rs, rest) /\ Branches(mem, rs)

------------------------------------------------------------------------------
(* Taking the first page off the list. *)
LEMMA TakeHead ==
    ASSUME NEW free, Listing(free), free # <<>>
    PROVE  /\ Listing(Tail(free)) /\ Head(free) \in HeapPage
           /\ ToSet(free) = ToSet(Tail(free)) \cup {Head(free)}
           /\ Head(free) \notin ToSet(Tail(free))
           /\ \A x \in ToSet(free) : x <= Head(free)
           /\ Tail(free) # <<>> => Head(Tail(free)) + PAGE_SIZE = Head(free)
PROOF
  <1> DEFINE n == Len(free)  rest == Tail(free)
  <1>1. /\ n \in Nat \ {0} /\ DOMAIN free = 1 .. n /\ Head(free) = free[1]
        /\ rest \in Seq(HeapPage) /\ DOMAIN rest = 1 .. n - 1
        /\ \A k \in 1 .. n - 1 : rest[k] = free[k + 1]
        /\ \A k \in 1 .. n : free[k] \in HeapPage
    BY DEF Listing
  <1>2. /\ \A j, k \in 1 .. n : j < k => free[j] > free[k]
        /\ \A k \in 1 .. n : k > 1 => free[k] + PAGE_SIZE = free[k - 1]
    BY <1>1 DEF Listing
  <1>3. \A k \in 2 .. n : k - 1 \in 1 .. n - 1 /\ rest[k - 1] = free[k]
    BY <1>1
  <1>9. rest # <<>> => 2 \in 1 .. n /\ Head(rest) = free[2]
    BY <1>1
  <1> HIDE DEF n, rest
  <1>4. Listing(rest)
    <2>1. ASSUME NEW j \in 1 .. n - 1, NEW k \in 1 .. n - 1, j < k PROVE rest[j] > rest[k]
      <3>1. j + 1 \in 1 .. n /\ k + 1 \in 1 .. n /\ j + 1 < k + 1
        BY <1>1, <2>1
      <3> QED
        BY <1>1, <1>2, <3>1
    <2>2. ASSUME NEW k \in 1 .. n - 1, k > 1 PROVE rest[k] + PAGE_SIZE = rest[k - 1]
      <3>1. k + 1 \in 1 .. n /\ k + 1 > 1 /\ (k + 1) - 1 = k /\ k - 1 \in 1 .. n - 1
            /\ (k - 1) + 1 = k
        BY <1>1, <2>2
      <3>2. free[k + 1] + PAGE_SIZE = free[k] /\ rest[k] = free[k + 1] /\ rest[k - 1] = free[k]
        BY <1>1, <1>2, <3>1
      <3> QED
        BY <3>2
    <2> QED
      BY <1>1, <2>1, <2>2 DEF Listing
  <1>10. rest # <<>> => Head(rest) + PAGE_SIZE = Head(free)
    BY <1>1, <1>2, <1>9
  <1>5. ASSUME NEW x
        PROVE  /\ x \in ToSet(free) <=> \E k \in 1 .. n : x = free[k]
               /\ x \in ToSet(rest) <=> \E k \in 1 .. n - 1 : x = rest[k]
    BY <1>1 DEF ToSet
  <1>6. ASSUME NEW x \in ToSet(free) PROVE x \in ToSet(rest) \cup {Head(free)}
    <2>1. PICK k \in 1 .. n : x = free[k]
      BY <1>5
    <2>2. CASE k = 1
      BY <1>1, <2>1, <2>2
    <2>3. CASE k # 1
      <3>1. k - 1 \in 1 .. n - 1 /\ x = rest[k - 1]
        BY <1>1, <1>3, <2>1, <2>3
      <3> QED
        BY <1>5, <3>1
    <2> QED
      BY <2>2, <2>3
  <1>8. ASSUME NEW x \in ToSet(rest) PROVE x \in ToSet(free) /\ x < Head(free) /\ x \in Nat
    <2>1. PICK k \in 1 .. n - 1 : x = rest[k]
      BY <1>5
    <2>2. k + 1 \in 1 .. n /\ x = free[k + 1] /\ 1 \in 1 .. n /\ 1 < k + 1
      BY <1>1, <2>1
    <2>3. free[1] > free[k + 1] /\ free[1] \in Nat /\ free[k + 1] \in Nat
      BY <1>1, <1>2, <2>2, Layout
    <2> QED
      BY <1>1, <1>5, <2>2, <2>3
  <1>7. Head(free) \in HeapPage /\ Head(free) \in Nat /\ Head(free) \in ToSet(free)
    <2>1. 1 \in 1 .. n
      BY <1>1
    <2> QED
      BY <1>1, <1>5, <2>1, Layout
  <1> QED
    BY <1>4, <1>6, <1>7, <1>8, <1>10 DEF rest

(* What lies under a table. *)
LEMMA UnderIs ==
    ASSUME NEW mem, NEW t, NEW x
    PROVE  x \in Under(mem, t) <=> \E j \in Index : LinkAt(mem, t, j) /\ mem[t][j].to = x
PROOF
  BY DEF Under

(* A root's tree is made of its tables of the second and the third level.  *)
LEMMA TreeIs ==
    ASSUME NEW mem, NEW rs, NEW r \in rs
    PROVE  /\ TreeOf(mem, r) \subseteq Trunk(mem, rs) \cup Lows(mem, rs)
           /\ Under(mem, r) \subseteq Mids(mem, rs)
PROOF
  BY DEF TreeOf, Trunk, Lows, Mids

(* Other tables than those of the roots do not matter. *)
LEMMA SameTrees ==
    ASSUME NEW mem, NEW new, NEW rs,
           \A t \in Trunk(mem, rs) : Under(new, t) = Under(mem, t)
    PROVE  /\ Mids(new, rs) = Mids(mem, rs) /\ Lows(new, rs) = Lows(mem, rs)
           /\ Trunk(new, rs) = Trunk(mem, rs)
           /\ \A r \in rs : TreeOf(new, r) = TreeOf(mem, r)
PROOF
  <1>1. Mids(new, rs) = Mids(mem, rs)
    BY DEF Trunk, Mids
  <1>2. Lows(new, rs) = Lows(mem, rs)
    BY <1>1 DEF Trunk, Lows
  <1>3. ASSUME NEW r \in rs PROVE TreeOf(new, r) = TreeOf(mem, r)
    <2>1. Under(new, r) = Under(mem, r) /\ Under(mem, r) \subseteq Trunk(mem, rs)
      BY TreeIs DEF Trunk
    <2> QED
      BY <2>1 DEF TreeOf
  <1> QED
    BY <1>1, <1>2, <1>3 DEF Trunk

(* The memory after one page or one word has changed. *)
Emptied(free, mem, new) ==
    /\ Whole(new) /\ new[Head(free)] = Zeroed
    /\ \A x \in HeapPage \ {Head(free)} : new[x] = mem[x]
Used(free, mem, new) ==
    Whole(new) /\ \A x \in HeapPage \ {Head(free)} : new[x] = mem[x]
Extended(free, mem, new, t, i) ==
    /\ Whole(new) /\ i \notin DOMAIN mem[t]
    /\ new[Head(free)] = Zeroed /\ new[t] = Put(mem[t], i, Link(Head(free)))
    /\ \A x \in HeapPage \ {Head(free), t} : new[x] = mem[x]
Worded(mem, new, p, i, word) ==
    /\ Whole(new)
    /\ p \in HeapPage => new[p] = Put(mem[p], i, word)
    /\ \A x \in HeapPage \ {p} : new[x] = mem[x]
Agree(mem, new, tables) == \A x \in tables : new[x] = mem[x]
NoLinks(mem, tables)    == \A x \in tables, j \in Index : ~LinkAt(mem, x, j)
Joined(more, some, free) == more = some \cup {Head(free)}

(* What the upper tables hold has not changed, and the lowest have no link. *)
LEMMA Unchanged ==
    ASSUME NEW mem, NEW new, NEW rs, Branches(mem, rs),
           Agree(mem, new, Trunk(mem, rs)), NoLinks(new, Lows(mem, rs))
    PROVE  /\ Mids(new, rs) = Mids(mem, rs) /\ Lows(new, rs) = Lows(mem, rs)
           /\ Trunk(new, rs) = Trunk(mem, rs)
           /\ \A r \in rs : TreeOf(new, r) = TreeOf(mem, r)
           /\ Branches(new, rs)
PROOF
  <1>1. \A x \in Trunk(mem, rs) : \A i : LinkAt(new, x, i) <=> LinkAt(mem, x, i)
    BY DEF Agree, LinkAt
  <1>2. \A t \in Trunk(mem, rs) : Under(new, t) = Under(mem, t)
    BY <1>1 DEF Agree, Under, LinkAt
  <1>3. /\ Mids(new, rs) = Mids(mem, rs) /\ Lows(new, rs) = Lows(mem, rs)
        /\ Trunk(new, rs) = Trunk(mem, rs)
        /\ \A r \in rs : TreeOf(new, r) = TreeOf(mem, r)
    BY <1>2, SameTrees
  <1>4. \A t \in Lows(mem, rs), i \in Index : ~LinkAt(new, t, i)
    BY DEF NoLinks
  <1>5. \A t \in Trunk(mem, rs), i \in Index : i \in DOMAIN new[t] => LinkAt(new, t, i)
    BY <1>1 DEF Agree, Branches, LinkAt
  <1>6. ASSUME NEW t \in Trunk(mem, rs), NEW u \in Trunk(mem, rs), NEW i \in Index,
               NEW j \in Index, LinkAt(new, t, i), LinkAt(new, u, j), new[t][i].to = new[u][j].to
        PROVE  t = u /\ i = j
    BY <1>1, <1>6 DEF Agree, Branches, LinkAt
  <1> QED
    BY <1>3, <1>4, <1>5, <1>6 DEF Branches

(* A new root, an empty page. *)
LEMMA Roots ==
    ASSUME NEW free, NEW mem, NEW rs, NEW rest, NEW new, NEW more,
           Forest(free, mem, rs, rest), free # <<>>,
           Emptied(free, mem, new), Joined(more, rs, free)
    PROVE  /\ Forest(Tail(free), new, more, rest)
           /\ Mids(new, more) = Mids(mem, rs)
           /\ Lows(new, more) = Lows(mem, rs)
           /\ TreeOf(new, Head(free)) = {Head(free)}
           /\ \A r \in rs : TreeOf(new, r) = TreeOf(mem, r)
PROOF
  <1> DEFINE h == Head(free)
  <1>0. more = rs \cup {h}
    BY DEF Joined
  <1>1. /\ h \in HeapPage /\ h \in ToSet(free) /\ h \notin ToSet(Tail(free))
        /\ ToSet(Tail(free)) \subseteq ToSet(free) /\ Listing(Tail(free))
    BY TakeHead DEF Forest
  <1>3. h \notin Trunk(mem, rs) \cup Lows(mem, rs) \cup rest
        /\ Trunk(mem, rs) \cup Lows(mem, rs) \subseteq HeapPage
    BY <1>1 DEF Forest, Placed, Trunk
  <1>2. Whole(new) /\ new[h] = Zeroed /\ \A x \in HeapPage \ {h} : new[x] = mem[x]
    BY DEF Emptied
  <1> HIDE DEF h
  <1>4. \A x \in Trunk(mem, rs) \cup Lows(mem, rs) : new[x] = mem[x]
    BY <1>2, <1>3
  <1>5. new[h] = Zeroed /\ DOMAIN new[h] = {}
    BY <1>2 DEF Zeroed
  <1>6. \A x \in Trunk(mem, rs) \cup Lows(mem, rs) : \A i : LinkAt(new, x, i) <=> LinkAt(mem, x, i)
    BY <1>4 DEF LinkAt
  <1>7. \A t \in Trunk(mem, rs) : Under(new, t) = Under(mem, t)
    BY <1>4, <1>6 DEF Under
  <1>8. Under(new, h) = {}
    BY <1>5 DEF Under, LinkAt
  <1>9. /\ Mids(new, rs) = Mids(mem, rs) /\ Lows(new, rs) = Lows(mem, rs)
        /\ \A r \in rs : TreeOf(new, r) = TreeOf(mem, r)
    BY <1>7, SameTrees
  <1>10. Mids(new, more) = Mids(mem, rs)
    BY <1>0, <1>8, <1>9 DEF Mids
  <1>11. Lows(new, more) = Lows(mem, rs) /\ Trunk(new, more) = Trunk(mem, rs) \cup {h}
    BY <1>0, <1>9, <1>10 DEF Lows, Trunk
  <1>12. TreeOf(new, h) = {h}
    BY <1>8 DEF TreeOf
  <1>13. Placed(Tail(free), new, more, rest)
    <2>1. Placed(free, mem, rs, rest)
      BY DEF Forest
    <2>2. rs \cup {h} \cup Mids(mem, rs) \cup Lows(mem, rs) \cup rest \subseteq HeapPage
      BY <1>1, <2>1 DEF Placed
    <2>3. (rs \cup {h}) \cap (Mids(mem, rs) \cup Lows(mem, rs) \cup rest) = {}
      BY <1>3, <2>1 DEF Placed, Trunk
    <2>4. ToSet(Tail(free)) \cap (rs \cup {h} \cup Mids(mem, rs) \cup Lows(mem, rs) \cup rest) = {}
      BY <1>1, <2>1 DEF Placed, Trunk
    <2>5. Trunk(new, more) = rs \cup {h} \cup Mids(mem, rs) /\ Lows(new, more) = Lows(mem, rs)
      BY <1>11 DEF Trunk
    <2> QED
      BY <1>0, <1>10, <2>1, <2>2, <2>3, <2>4, <2>5 DEF Placed
  <1>14. Branches(new, more)
    <2>0. Branches(mem, rs)
      BY DEF Forest
    <2>1. \A i : ~LinkAt(new, h, i) /\ i \notin DOMAIN new[h]
      BY <1>5 DEF LinkAt
    <2>2. \A t \in Trunk(new, more), i \in Index : i \in DOMAIN new[t] => LinkAt(new, t, i)
      BY <1>4, <1>6, <1>11, <2>0, <2>1 DEF Branches
    <2>3. \A t \in Lows(new, more), i \in Index : ~LinkAt(new, t, i)
      BY <1>6, <1>11, <2>0 DEF Branches
    <2>4. ASSUME NEW t \in Trunk(new, more), NEW u \in Trunk(new, more), NEW i \in Index,
                 NEW j \in Index, LinkAt(new, t, i), LinkAt(new, u, j), new[t][i].to = new[u][j].to
          PROVE  t = u /\ i = j
      <3>1. t \in Trunk(mem, rs) /\ u \in Trunk(mem, rs)
        BY <1>11, <2>1, <2>4
      <3>2. LinkAt(mem, t, i) /\ LinkAt(mem, u, j) /\ mem[t][i].to = mem[u][j].to
        BY <1>4, <1>6, <2>4, <3>1
      <3> QED
        BY <2>0, <3>1, <3>2 DEF Branches
    <2> QED
      BY <2>0, <2>2, <2>3, <2>4 DEF Branches
  <1> QED
    BY <1>0, <1>1, <1>2, <1>9, <1>10, <1>11, <1>12, <1>13, <1>14 DEF Forest, h

(* A page taken for something else than a table. *)
LEMMA Others ==
    ASSUME NEW free, NEW mem, NEW rs, NEW rest, NEW new, NEW more,
           Forest(free, mem, rs, rest), free # <<>>, Used(free, mem, new),
           Joined(more, rest, free)
    PROVE  /\ Forest(Tail(free), new, rs, more)
           /\ Mids(new, rs) = Mids(mem, rs) /\ Lows(new, rs) = Lows(mem, rs)
           /\ \A r \in rs : TreeOf(new, r) = TreeOf(mem, r)
PROOF
  <1> DEFINE h == Head(free)
  <1>1. /\ h \in HeapPage /\ h \in ToSet(free) /\ h \notin ToSet(Tail(free))
        /\ ToSet(Tail(free)) \subseteq ToSet(free) /\ Listing(Tail(free))
    BY TakeHead DEF Forest
  <1>2. h \notin Trunk(mem, rs) \cup Lows(mem, rs) \cup rest
        /\ Trunk(mem, rs) \cup Lows(mem, rs) \subseteq HeapPage
    BY <1>1 DEF Forest, Placed, Trunk
  <1>3. \A x \in Trunk(mem, rs) \cup Lows(mem, rs) : new[x] = mem[x]
    BY <1>2 DEF Used
  <1>7. more = rest \cup {h}
    BY DEF Joined
  <1> HIDE DEF h
  <1>4. Branches(mem, rs) /\ Placed(free, mem, rs, rest)
    BY DEF Forest
  <1>5. /\ Mids(new, rs) = Mids(mem, rs) /\ Lows(new, rs) = Lows(mem, rs)
        /\ Trunk(new, rs) = Trunk(mem, rs)
        /\ \A r \in rs : TreeOf(new, r) = TreeOf(mem, r)
        /\ Branches(new, rs)
    <2>1. Agree(mem, new, Trunk(mem, rs)) /\ NoLinks(new, Lows(mem, rs))
      BY <1>3, <1>4 DEF Agree, NoLinks, Branches, LinkAt
    <2> QED
      BY <1>4, <2>1, Unchanged
  <1>6. Placed(Tail(free), new, rs, more)
    BY <1>1, <1>2, <1>4, <1>5, <1>7 DEF Placed, Trunk
  <1> QED
    BY <1>1, <1>5, <1>6 DEF Forest, Used, h

(* A word in a page that is no upper table: it is a leaf, or the page is no *)
(* table.                                                                   *)
LEMMA Words ==
    ASSUME NEW free, NEW mem, NEW rs, NEW rest, NEW new, NEW p, NEW i, NEW word,
           Forest(free, mem, rs, rest), Worded(mem, new, p, i, word),
           p \notin Trunk(mem, rs), p \in Lows(mem, rs) => IsLeaf(word)
    PROVE  /\ Forest(free, new, rs, rest)
           /\ Mids(new, rs) = Mids(mem, rs) /\ Lows(new, rs) = Lows(mem, rs)
           /\ \A r \in rs : TreeOf(new, r) = TreeOf(mem, r)
PROOF
  <1>1. Branches(mem, rs) /\ Placed(free, mem, rs, rest) /\ Listing(free)
        /\ Trunk(mem, rs) \cup Lows(mem, rs) \subseteq HeapPage
    BY DEF Forest, Placed, Trunk
  <1>5. /\ Whole(new)
        /\ p \in HeapPage => new[p] = Put(mem[p], i, word)
        /\ \A x \in HeapPage \ {p} : new[x] = mem[x]
    BY DEF Worded
  <1>2. \A x \in Trunk(mem, rs) : new[x] = mem[x]
    BY <1>1, <1>5
  <1>3. \A x \in Lows(mem, rs), j \in Index : ~LinkAt(new, x, j)
    <2>1. \A x \in Lows(mem, rs), j \in Index : ~LinkAt(mem, x, j)
      BY <1>1 DEF Branches
    <2>2. ASSUME NEW j \in Index, p \in Lows(mem, rs) PROVE ~LinkAt(new, p, j)
      <3>1. new[p] = Put(mem[p], i, word) /\ ~LinkAt(mem, p, j) /\ IsLeaf(word)
        BY <1>1, <1>5, <2>1, <2>2
      <3>2. j = i => new[p][j] = word
        BY <3>1 DEF Put
      <3>3. j # i /\ j \in DOMAIN new[p] => j \in DOMAIN mem[p] /\ new[p][j] = mem[p][j]
        BY <3>1 DEF Put
      <3> QED
        BY <3>1, <3>2, <3>3 DEF LinkAt
    <2> QED
      BY <1>1, <1>5, <2>1, <2>2 DEF LinkAt
  <1>4. /\ Mids(new, rs) = Mids(mem, rs) /\ Lows(new, rs) = Lows(mem, rs)
        /\ Trunk(new, rs) = Trunk(mem, rs)
        /\ \A r \in rs : TreeOf(new, r) = TreeOf(mem, r)
        /\ Branches(new, rs)
    <2>1. Agree(mem, new, Trunk(mem, rs)) /\ NoLinks(new, Lows(mem, rs))
      BY <1>2, <1>3 DEF Agree, NoLinks
    <2> QED
      BY <1>1, <2>1, Unchanged
  <1> QED
    BY <1>1, <1>4, <1>5 DEF Forest, Placed

(* A table made under another. *)
LEMMA Tables ==
    ASSUME NEW free, NEW mem, NEW rs, NEW rest, NEW new, NEW t, NEW i \in Index,
           Forest(free, mem, rs, rest), free # <<>>, t \in Trunk(mem, rs),
           Extended(free, mem, new, t, i)
    PROVE  /\ Forest(Tail(free), new, rs, rest)
           /\ LinkAt(new, t, i) /\ new[t][i].to = Head(free)
           /\ \/ /\ t \in rs /\ Mids(new, rs) = Mids(mem, rs) \cup {Head(free)}
                 /\ Lows(new, rs) = Lows(mem, rs)
              \/ /\ t \in Mids(mem, rs) /\ Mids(new, rs) = Mids(mem, rs)
                 /\ Lows(new, rs) = Lows(mem, rs) \cup {Head(free)}
           /\ \A r \in rs : TreeOf(new, r) = IF t \in TreeOf(mem, r)
                THEN TreeOf(mem, r) \cup {Head(free)} ELSE TreeOf(mem, r)
PROOF
  <1> DEFINE h == Head(free)
  <1>1. /\ h \in HeapPage /\ h \in ToSet(free) /\ h \notin ToSet(Tail(free))
        /\ ToSet(Tail(free)) \subseteq ToSet(free) /\ Listing(Tail(free))
    BY TakeHead DEF Forest
  <1>2. Branches(mem, rs) /\ Placed(free, mem, rs, rest)
    BY DEF Forest
  <1>3. /\ h \notin Trunk(mem, rs) \cup Lows(mem, rs) \cup rest
        /\ Trunk(mem, rs) \cup Lows(mem, rs) \subseteq HeapPage
        /\ Trunk(mem, rs) \cap Lows(mem, rs) = {} /\ rs \cap Mids(mem, rs) = {}
        /\ Trunk(mem, rs) = rs \cup Mids(mem, rs)
    BY <1>1, <1>2 DEF Placed, Trunk
  <1>4. /\ new[h] = Zeroed /\ new[t] = Put(mem[t], i, Link(h)) /\ h # t
        /\ \A x \in HeapPage \ {h, t} : new[x] = mem[x]
        /\ Whole(new) /\ i \notin DOMAIN mem[t]
    BY <1>3 DEF Extended
  <1> HIDE DEF h
  <1>5. \A j : ~LinkAt(new, h, j) /\ j \notin DOMAIN new[h]
    BY <1>4 DEF LinkAt, Zeroed
  <1>6. \A x \in HeapPage \ {h, t} : \A j : LinkAt(new, x, j) <=> LinkAt(mem, x, j)
    BY <1>4 DEF LinkAt
  <1>7. /\ LinkAt(new, t, i) /\ new[t][i].to = h
        /\ \A j : j # i => /\ j \in DOMAIN new[t] <=> j \in DOMAIN mem[t]
                           /\ j \in DOMAIN mem[t] => new[t][j] = mem[t][j]
                           /\ LinkAt(new, t, j) <=> LinkAt(mem, t, j)
    <2>1. ~IsLeaf(Link(h)) /\ Link(h).to = h
      BY DEF IsLeaf, Link
    <2> HIDE DEF h
    <2>2. i \in DOMAIN new[t] /\ new[t][i] = Link(h)
      BY <1>4 DEF Put
    <2>3. \A j : j # i => /\ j \in DOMAIN new[t] <=> j \in DOMAIN mem[t]
                          /\ j \in DOMAIN mem[t] => new[t][j] = mem[t][j]
      BY <1>4 DEF Put
    <2> QED
      BY <2>1, <2>2, <2>3 DEF LinkAt
  <1>8. Under(new, h) = {}
    BY <1>5 DEF Under
  <1>9. Under(new, t) = Under(mem, t) \cup {h}
    <2>1. ~LinkAt(mem, t, i)
      BY <1>4 DEF LinkAt
    <2>2. ASSUME NEW x PROVE x \in Under(new, t) <=> x \in Under(mem, t) \cup {h}
      <3>1. x \in Under(new, t) <=> \E j \in Index : LinkAt(new, t, j) /\ new[t][j].to = x
        BY UnderIs
      <3>2. x \in Under(mem, t) <=> \E j \in Index : LinkAt(mem, t, j) /\ mem[t][j].to = x
        BY UnderIs
      <3>3. \A j \in Index : LinkAt(new, t, j) /\ new[t][j].to = x <=>
               (j = i /\ x = h) \/ (LinkAt(mem, t, j) /\ mem[t][j].to = x)
        BY <1>7, <2>1 DEF LinkAt
      <3> QED
        BY <3>1, <3>2, <3>3
    <2> QED
      BY <2>2
  <1>10. \A x \in HeapPage \ {h, t} : Under(new, x) = Under(mem, x)
    BY <1>4, <1>6 DEF Under, LinkAt
  <1>11. \/ /\ t \in rs /\ Mids(new, rs) = Mids(mem, rs) \cup {h}
            /\ Lows(new, rs) = Lows(mem, rs)
         \/ /\ t \in Mids(mem, rs) /\ Mids(new, rs) = Mids(mem, rs)
            /\ Lows(new, rs) = Lows(mem, rs) \cup {h}
    <2>1. CASE t \in rs
      <3>1. \A r \in rs : Under(new, r) = IF r = t THEN Under(mem, r) \cup {h} ELSE Under(mem, r)
        BY <1>3, <1>9, <1>10
      <3>2. Mids(new, rs) = Mids(mem, rs) \cup {h}
        BY <2>1, <3>1 DEF Mids
      <3>3. \A x \in Mids(mem, rs) : Under(new, x) = Under(mem, x)
        BY <1>3, <1>10, <2>1
      <3>4. Lows(new, rs) = Lows(mem, rs)
        BY <1>8, <3>2, <3>3 DEF Lows
      <3> QED
        BY <2>1, <3>2, <3>4
    <2>2. CASE t \in Mids(mem, rs)
      <3>1. \A r \in rs : Under(new, r) = Under(mem, r)
        BY <1>3, <1>10, <2>2
      <3>2. Mids(new, rs) = Mids(mem, rs)
        BY <3>1 DEF Mids
      <3>3. \A x \in Mids(mem, rs) :
              Under(new, x) = IF x = t THEN Under(mem, x) \cup {h} ELSE Under(mem, x)
        BY <1>3, <1>9, <1>10
      <3>4. Lows(new, rs) = Lows(mem, rs) \cup {h}
        BY <2>2, <3>2, <3>3 DEF Lows
      <3> QED
        BY <2>2, <3>2, <3>4
    <2> QED
      BY <1>3, <2>1, <2>2
  <1>12. ASSUME NEW r \in rs
         PROVE  TreeOf(new, r) = IF t \in TreeOf(mem, r) THEN TreeOf(mem, r) \cup {h}
                                                         ELSE TreeOf(mem, r)
    <2>0. /\ Under(mem, r) \subseteq Mids(mem, rs) /\ r \in HeapPage \ {h}
          /\ Under(mem, r) \subseteq HeapPage \ {h}
          /\ \A x \in Under(mem, r) : Under(mem, x) \subseteq Lows(mem, rs)
      BY <1>3, TreeIs DEF Lows, Trunk
    <2>1. CASE t = r
      <3>1. Under(new, r) = Under(mem, r) \cup {h}
        BY <1>9, <2>1
      <3>2. \A x \in Under(mem, r) : Under(new, x) = Under(mem, x)
        BY <1>3, <1>10, <2>0, <2>1
      <3> QED
        BY <1>8, <2>1, <3>1, <3>2 DEF TreeOf
    <2>2. CASE t \in Under(mem, r)
      <3>1. Under(new, r) = Under(mem, r)
        BY <1>3, <1>10, <2>0, <2>2
      <3>2. \A x \in Under(mem, r) :
              Under(new, x) = IF x = t THEN Under(mem, x) \cup {h} ELSE Under(mem, x)
        BY <1>9, <1>10, <2>0
      <3> QED
        BY <2>2, <3>1, <3>2 DEF TreeOf
    <2>3. CASE t # r /\ t \notin Under(mem, r)
      <3>1. Under(new, r) = Under(mem, r) /\ \A x \in Under(mem, r) : Under(new, x) = Under(mem, x)
        BY <1>10, <2>0, <2>3
      <3>2. t \notin TreeOf(mem, r)
        BY <1>3, <2>0, <2>3 DEF TreeOf
      <3> QED
        BY <3>1, <3>2 DEF TreeOf
    <2> QED
      BY <2>1, <2>2, <2>3
  <1>13. Placed(Tail(free), new, rs, rest)
    BY <1>1, <1>2, <1>3, <1>11 DEF Placed, Trunk
  <1>14. Branches(new, rs)
    <2>1. Trunk(new, rs) \subseteq Trunk(mem, rs) \cup {h}
          /\ Lows(new, rs) \subseteq Lows(mem, rs) \cup {h}
      BY <1>11 DEF Trunk
    <2>2. \A x \in Trunk(new, rs), j \in Index : j \in DOMAIN new[x] => LinkAt(new, x, j)
      BY <1>2, <1>3, <1>4, <1>5, <1>6, <1>7, <2>1 DEF Branches
    <2>3. \A x \in Lows(new, rs), j \in Index : ~LinkAt(new, x, j)
      BY <1>2, <1>3, <1>5, <1>6, <2>1 DEF Branches
    <2>4. \A x \in Trunk(mem, rs), j \in Index : LinkAt(mem, x, j) => mem[x][j].to # h
      <3>1. ASSUME NEW x \in Trunk(mem, rs), NEW j \in Index, LinkAt(mem, x, j)
            PROVE  mem[x][j].to # h
        <4>1. mem[x][j].to \in Under(mem, x)
          BY <3>1, UnderIs
        <4>2. mem[x][j].to \in Mids(mem, rs) \cup Lows(mem, rs)
          BY <4>1 DEF Trunk, Mids, Lows
        <4> QED
          BY <1>3, <4>2 DEF Trunk
      <3> QED
        BY <3>1
    <2>5. \A x \in Trunk(mem, rs), j \in Index : LinkAt(new, x, j) =>
             \/ x = t /\ j = i /\ new[x][j].to = h
             \/ LinkAt(mem, x, j) /\ new[x][j].to = mem[x][j].to
      BY <1>3, <1>4, <1>6, <1>7 DEF LinkAt
    <2>6. ASSUME NEW x \in Trunk(new, rs), NEW y \in Trunk(new, rs), NEW j \in Index,
                 NEW k \in Index, LinkAt(new, x, j), LinkAt(new, y, k), new[x][j].to = new[y][k].to
          PROVE  x = y /\ j = k
      <3>1. x \in Trunk(mem, rs) /\ y \in Trunk(mem, rs)
        BY <1>5, <2>1, <2>6
      <3> QED
        BY <1>2, <2>4, <2>5, <2>6, <3>1 DEF Branches
    <2> QED
      BY <2>2, <2>3, <2>6 DEF Branches
  <1> QED
    BY <1>1, <1>4, <1>7, <1>11, <1>12, <1>13, <1>14 DEF Forest, h

(* A page has a place in one tree only. *)
LEMMA OneTree ==
    ASSUME NEW free, NEW mem, NEW rs, NEW rest, Forest(free, mem, rs, rest),
           NEW r \in rs, NEW q \in rs, NEW x, x \in TreeOf(mem, r), x \in TreeOf(mem, q)
    PROVE  r = q
PROOF
  <1>1. Placed(free, mem, rs, rest) /\ Branches(mem, rs)
    BY DEF Forest
  <1>2. ASSUME NEW t \in Trunk(mem, rs), NEW u \in Trunk(mem, rs), NEW y,
               y \in Under(mem, t), y \in Under(mem, u)
        PROVE  t = u
    <2>1. PICK i \in Index : LinkAt(mem, t, i) /\ mem[t][i].to = y
      BY <1>2, UnderIs
    <2>2. PICK j \in Index : LinkAt(mem, u, j) /\ mem[u][j].to = y
      BY <1>2, UnderIs
    <2> QED
      BY <1>1, <2>1, <2>2 DEF Branches
  <1>3. \A s \in rs : /\ s \in Trunk(mem, rs) /\ Under(mem, s) \subseteq Mids(mem, rs)
                      /\ Under(mem, s) \subseteq Trunk(mem, rs)
                      /\ \A y \in Under(mem, s) : Under(mem, y) \subseteq Lows(mem, rs)
    BY DEF Trunk, Mids, Lows
  <1>4. /\ rs \cap Mids(mem, rs) = {} /\ rs \cap Lows(mem, rs) = {}
        /\ Mids(mem, rs) \cap Lows(mem, rs) = {}
    BY <1>1 DEF Placed
  <1>5. CASE x \in rs
    BY <1>3, <1>4, <1>5 DEF TreeOf
  <1>6. CASE x \in Mids(mem, rs)
    <2>1. x \in Under(mem, r) /\ x \in Under(mem, q)
      BY <1>3, <1>4, <1>6 DEF TreeOf
    <2> QED
      BY <1>2, <1>3, <2>1
  <1>7. CASE x \notin rs \cup Mids(mem, rs)
    <2>1. PICK t \in Under(mem, r) : x \in Under(mem, t)
      BY <1>3, <1>7 DEF TreeOf
    <2>2. PICK u \in Under(mem, q) : x \in Under(mem, u)
      BY <1>3, <1>7 DEF TreeOf
    <2>3. t = u
      BY <1>2, <1>3, <2>1, <2>2
    <2> QED
      BY <1>2, <1>3, <2>1, <2>2, <2>3
  <1> QED
    BY <1>5, <1>6, <1>7

------------------------------------------------------------------------------
(* The words a walk from a root ends at: three indices, and the word.       *)
Reads(mem, r, i2, i1, i0, w) ==
    LET t == mem[r][i2].to
        u == mem[t][i1].to
    IN  /\ LinkAt(mem, r, i2) /\ LinkAt(mem, t, i1)
        /\ i0 \in DOMAIN mem[u] /\ mem[u][i0] = w

SameWords(mem, new, rs) ==
    \A r \in rs, i2, i1, i0 \in Index : \A w :
        Reads(new, r, i2, i1, i0, w) <=> Reads(mem, r, i2, i1, i0, w)

OneWord(mem, new, rs, root, j2, j1, j0, word) ==
    \A r \in rs, i2, i1, i0 \in Index : \A w :
        Reads(new, r, i2, i1, i0, w) <=>
            IF r = root /\ i2 = j2 /\ i1 = j1 /\ i0 = j0 THEN w = word
            ELSE Reads(mem, r, i2, i1, i0, w)

(* The entries of a page are at places a walk can look at.                  *)
Narrow(mem) == \A p \in HeapPage : DOMAIN mem[p] \subseteq Index

(* Where a walk goes.                                                       *)
LEMMA PathIs ==
    ASSUME NEW mem, NEW rs, NEW r \in rs, NEW i2 \in Index, NEW i1 \in Index,
           LinkAt(mem, r, i2), LinkAt(mem, mem[r][i2].to, i1)
    PROVE  LET t == mem[r][i2].to
               u == mem[t][i1].to
           IN  /\ r \in Trunk(mem, rs) /\ r \in TreeOf(mem, r)
               /\ t \in Trunk(mem, rs) /\ t \in TreeOf(mem, r) /\ t \in Mids(mem, rs)
               /\ u \in Lows(mem, rs) /\ u \in TreeOf(mem, r)
PROOF
  <1> DEFINE t == mem[r][i2].to  u == mem[t][i1].to
  <1>1. t \in Under(mem, r) /\ u \in Under(mem, t)
    BY DEF Under
  <1> HIDE DEF t, u
  <1>2. t \in Mids(mem, rs)
    BY <1>1 DEF Mids
  <1>3. u \in Lows(mem, rs)
    BY <1>1, <1>2 DEF Lows
  <1> QED
    BY <1>1, <1>2, <1>3 DEF Trunk, TreeOf, t, u

(* Two walks that end at one page are one.                                  *)
LEMMA OnePath ==
    ASSUME NEW mem, NEW rs, Branches(mem, rs),
           NEW r \in rs, NEW i2 \in Index, NEW i1 \in Index,
           NEW q \in rs, NEW j2 \in Index, NEW j1 \in Index,
           LinkAt(mem, r, i2), LinkAt(mem, mem[r][i2].to, i1),
           LinkAt(mem, q, j2), LinkAt(mem, mem[q][j2].to, j1),
           mem[mem[r][i2].to][i1].to = mem[mem[q][j2].to][j1].to
    PROVE  r = q /\ i2 = j2 /\ i1 = j1
PROOF
  <1> DEFINE t == mem[r][i2].to  s == mem[q][j2].to
  <1>1. t \in Trunk(mem, rs) /\ s \in Trunk(mem, rs) /\ r \in Trunk(mem, rs) /\ q \in Trunk(mem, rs)
    BY PathIs
  <1>2. t = s /\ i1 = j1
    <2> HIDE DEF t, s
    <2>1. LinkAt(mem, t, i1) /\ LinkAt(mem, s, j1) /\ mem[t][i1].to = mem[s][j1].to
      BY DEF t, s
    <2> QED
      BY <1>1, <2>1 DEF Branches
  <1> QED
    BY <1>1, <1>2 DEF Branches

(* A tree whose pages have not changed reads as before.                     *)
LEMMA TreeReads ==
    ASSUME NEW mem, NEW new, NEW r, \A x \in TreeOf(mem, r) : new[x] = mem[x]
    PROVE  SameWords(mem, new, {r})
PROOF
  <1> SUFFICES ASSUME NEW i2 \in Index, NEW i1 \in Index, NEW i0 \in Index, NEW w
               PROVE  Reads(new, r, i2, i1, i0, w) <=> Reads(mem, r, i2, i1, i0, w)
    BY DEF SameWords
  <1> DEFINE t == mem[r][i2].to  u == mem[t][i1].to
  <1>1. new[r] = mem[r]
    BY DEF TreeOf
  <1>2. LinkAt(new, r, i2) <=> LinkAt(mem, r, i2)
    BY <1>1 DEF LinkAt
  <1>3. new[r][i2].to = t
    BY <1>1
  <1> HIDE DEF t
  <1>4. ASSUME LinkAt(mem, r, i2)
        PROVE  new[t] = mem[t] /\ (LinkAt(new, t, i1) <=> LinkAt(mem, t, i1)) /\ t \in TreeOf(mem, r)
    <2>1. t \in Under(mem, r)
      BY <1>4 DEF Under, t
    <2>2. t \in TreeOf(mem, r)
      BY <2>1 DEF TreeOf
    <2>3. new[t] = mem[t]
      BY <2>2
    <2> QED
      BY <2>2, <2>3 DEF LinkAt
  <1>5. ASSUME LinkAt(mem, r, i2), LinkAt(mem, t, i1) PROVE new[u] = mem[u]
    <2>1. t \in Under(mem, r) /\ u \in Under(mem, t)
      BY <1>5 DEF Under, t
    <2> HIDE DEF u
    <2> QED
      BY <2>1 DEF TreeOf
  <1>6. Reads(mem, r, i2, i1, i0, w) <=>
          /\ LinkAt(mem, r, i2) /\ LinkAt(mem, t, i1)
          /\ i0 \in DOMAIN mem[u] /\ mem[u][i0] = w
    BY DEF Reads, t
  <1>7. Reads(new, r, i2, i1, i0, w) <=>
          /\ LinkAt(new, r, i2) /\ LinkAt(new, t, i1)
          /\ i0 \in DOMAIN new[new[t][i1].to] /\ new[new[t][i1].to][i0] = w
    BY <1>3 DEF Reads
  <1>8. CASE LinkAt(mem, r, i2) /\ LinkAt(mem, t, i1)
    <2>1. new[t] = mem[t] /\ new[u] = mem[u] /\ LinkAt(new, r, i2) /\ LinkAt(new, t, i1)
      BY <1>2, <1>4, <1>5, <1>8
    <2>2. new[t][i1].to = u
      BY <2>1
    <2> HIDE DEF u
    <2> QED
      BY <1>6, <1>7, <1>8, <2>1, <2>2
  <1>9. CASE ~(LinkAt(mem, r, i2) /\ LinkAt(mem, t, i1))
    BY <1>2, <1>4, <1>6, <1>7, <1>9
  <1> QED
    BY <1>8, <1>9

(* A table made under another reads nothing new.                            *)
LEMMA TableReads ==
    ASSUME NEW free, NEW mem, NEW rs, NEW rest, NEW new, NEW t, NEW i \in Index,
           Forest(free, mem, rs, rest), free # <<>>, t \in Trunk(mem, rs),
           Extended(free, mem, new, t, i)
    PROVE  SameWords(mem, new, rs) /\ (Narrow(mem) => Narrow(new))
PROOF
  <1> DEFINE h == Head(free)
  <1>1. h \in HeapPage /\ h \in ToSet(free)
    BY TakeHead DEF Forest
  <1>2. h \notin Trunk(mem, rs) \cup Lows(mem, rs) /\ Trunk(mem, rs) \cap Lows(mem, rs) = {}
        /\ Trunk(mem, rs) \cup Lows(mem, rs) \subseteq HeapPage
    BY <1>1 DEF Forest, Placed, Trunk
  <1>3. /\ new[h] = Zeroed /\ new[t] = Put(mem[t], i, Link(h)) /\ i \notin DOMAIN mem[t]
        /\ \A x \in HeapPage \ {h, t} : new[x] = mem[x]
    BY DEF Extended
  <1> HIDE DEF h
  <1>4. \A j : ~LinkAt(new, h, j)
    BY <1>3 DEF LinkAt, Zeroed
  <1>5. \A x \in Lows(mem, rs) : new[x] = mem[x]
    BY <1>2, <1>3
  <1>6. ASSUME NEW x \in Trunk(mem, rs), NEW j
        PROVE  \/ /\ LinkAt(new, x, j) <=> LinkAt(mem, x, j)
                  /\ LinkAt(mem, x, j) => new[x][j] = mem[x][j]
               \/ /\ ~LinkAt(mem, x, j) /\ LinkAt(new, x, j) => new[x][j].to = h
                  /\ ~LinkAt(mem, x, j)
    <2>1. CASE x # t
      BY <1>2, <1>3, <2>1 DEF LinkAt
    <2>2. CASE x = t /\ j = i
      <3>1. new[x][j] = Link(h)
        BY <1>3, <2>2 DEF Put
      <3>2. ~LinkAt(mem, x, j)
        BY <1>3, <2>2 DEF LinkAt
      <3> QED
        BY <3>1, <3>2 DEF Link
    <2>3. CASE x = t /\ j # i
      <3>1. j \in DOMAIN new[x] <=> j \in DOMAIN mem[x]
        BY <1>3, <2>3 DEF Put
      <3>2. j \in DOMAIN mem[x] => new[x][j] = mem[x][j]
        BY <1>3, <2>3 DEF Put
      <3> QED
        BY <3>1, <3>2 DEF LinkAt
    <2> QED
      BY <2>1, <2>2, <2>3
  <1>7. ASSUME NEW r \in rs, NEW i2 \in Index, NEW i1 \in Index, NEW i0 \in Index, NEW w,
               Reads(mem, r, i2, i1, i0, w)
        PROVE  Reads(new, r, i2, i1, i0, w)
    <2> DEFINE s == mem[r][i2].to  u == mem[s][i1].to
    <2>1. LinkAt(mem, r, i2) /\ LinkAt(mem, s, i1) /\ i0 \in DOMAIN mem[u] /\ mem[u][i0] = w
      BY <1>7 DEF Reads
    <2>2. r \in Trunk(mem, rs) /\ s \in Trunk(mem, rs) /\ u \in Lows(mem, rs)
      BY <2>1, PathIs
    <2>3. LinkAt(new, r, i2) /\ new[r][i2] = mem[r][i2] /\ new[r][i2].to = s
      BY <1>6, <2>1, <2>2
    <2> HIDE DEF s
    <2>4. LinkAt(new, s, i1) /\ new[s][i1] = mem[s][i1] /\ new[s][i1].to = u
      BY <1>6, <2>1, <2>2
    <2> HIDE DEF u
    <2>5. new[u] = mem[u]
      BY <1>5, <2>2
    <2> QED
      BY <2>1, <2>3, <2>4, <2>5 DEF Reads
  <1>8. ASSUME NEW r \in rs, NEW i2 \in Index, NEW i1 \in Index, NEW i0 \in Index, NEW w,
               Reads(new, r, i2, i1, i0, w)
        PROVE  Reads(mem, r, i2, i1, i0, w)
    <2> DEFINE s == new[r][i2].to  u == new[s][i1].to
    <2>1. LinkAt(new, r, i2) /\ LinkAt(new, s, i1) /\ i0 \in DOMAIN new[u] /\ new[u][i0] = w
      BY <1>8 DEF Reads
    <2>2. r \in Trunk(mem, rs)
      BY DEF Trunk
    <2>3. s # h
      BY <1>4, <2>1
    <2>4. u # h
      <3> HIDE DEF u
      <3> QED
        BY <1>3, <2>1 DEF Zeroed
    <2>5. LinkAt(mem, r, i2) /\ mem[r][i2].to = s
      BY <1>6, <2>1, <2>2, <2>3
    <2> HIDE DEF s
    <2>6. s \in Trunk(mem, rs)
      BY <2>5 DEF Trunk, Mids, Under
    <2>7. LinkAt(mem, s, i1) /\ mem[s][i1].to = u
      BY <1>6, <2>1, <2>4, <2>6
    <2>8. u \in Lows(mem, rs)
      BY <2>5, <2>7, PathIs
    <2> HIDE DEF u
    <2>9. new[u] = mem[u]
      BY <1>5, <2>8
    <2> QED
      BY <2>1, <2>5, <2>7, <2>9 DEF Reads
  <1>9. SameWords(mem, new, rs)
    BY <1>7, <1>8 DEF SameWords
  <1>10. ASSUME Narrow(mem), NEW p \in HeapPage PROVE DOMAIN new[p] \subseteq Index
    <2>1. DOMAIN new[h] = {}
      BY <1>3 DEF Zeroed
    <2>2. t \in HeapPage => DOMAIN new[t] = DOMAIN mem[t] \cup {i}
      BY <1>3 DEF Put
    <2> QED
      BY <1>3, <1>10, <2>1, <2>2 DEF Narrow
  <1> QED
    BY <1>9, <1>10 DEF Narrow

(* A word written in a lowest table is what one walk ends at.               *)
LEMMA WordReads ==
    ASSUME NEW free, NEW mem, NEW rs, NEW rest, NEW new, NEW word, Forest(free, mem, rs, rest),
           NEW root \in rs, NEW j2 \in Index, NEW j1 \in Index, NEW j0 \in Index,
           LinkAt(mem, root, j2), LinkAt(mem, mem[root][j2].to, j1),
           Worded(mem, new, mem[mem[root][j2].to][j1].to, j0, word)
    PROVE  OneWord(mem, new, rs, root, j2, j1, j0, word)
PROOF
  <1> DEFINE p == mem[mem[root][j2].to][j1].to
  <1>1. p \in Lows(mem, rs)
    BY PathIs
  <1>2. Trunk(mem, rs) \cap Lows(mem, rs) = {} /\ Branches(mem, rs)
        /\ Trunk(mem, rs) \cup Lows(mem, rs) \subseteq HeapPage
    BY DEF Forest, Placed, Trunk
  <1>3. new[p] = Put(mem[p], j0, word) /\ \A x \in HeapPage \ {p} : new[x] = mem[x]
    BY <1>1, <1>2 DEF Worded
  <1>4. \A x \in Trunk(mem, rs) : new[x] = mem[x] /\ \A j : LinkAt(new, x, j) <=> LinkAt(mem, x, j)
    <2> HIDE DEF p
    <2>1. \A x \in Trunk(mem, rs) : new[x] = mem[x]
      BY <1>1, <1>2, <1>3
    <2> QED
      BY <2>1 DEF LinkAt
  <1> SUFFICES ASSUME NEW r \in rs, NEW i2 \in Index, NEW i1 \in Index, NEW i0 \in Index, NEW w
               PROVE  Reads(new, r, i2, i1, i0, w) <=>
                        IF r = root /\ i2 = j2 /\ i1 = j1 /\ i0 = j0 THEN w = word
                        ELSE Reads(mem, r, i2, i1, i0, w)
    BY DEF OneWord
  <1> DEFINE s == mem[r][i2].to  u == mem[s][i1].to
  <1>5. r \in Trunk(mem, rs) /\ root \in Trunk(mem, rs)
    BY DEF Trunk
  <1>6. new[r] = mem[r] /\ (LinkAt(new, r, i2) <=> LinkAt(mem, r, i2)) /\ new[r][i2].to = s
    BY <1>4, <1>5
  <1>7. LinkAt(mem, r, i2) => s \in Trunk(mem, rs)
    BY DEF Trunk, Mids, Under
  <1>8. Reads(mem, r, i2, i1, i0, w) <=>
          /\ LinkAt(mem, r, i2) /\ LinkAt(mem, s, i1)
          /\ i0 \in DOMAIN mem[u] /\ mem[u][i0] = w
    BY DEF Reads
  <1>9. Reads(new, r, i2, i1, i0, w) <=>
          /\ LinkAt(new, r, i2) /\ LinkAt(new, s, i1)
          /\ i0 \in DOMAIN new[new[s][i1].to] /\ new[new[s][i1].to][i0] = w
    BY <1>6 DEF Reads
  <1>10. CASE LinkAt(mem, r, i2) /\ LinkAt(mem, s, i1)
    <2>1. u \in Lows(mem, rs)
      BY <1>10, PathIs
    <2>2. u = p => r = root /\ i2 = j2 /\ i1 = j1
      BY <1>2, <1>10, OnePath
    <2>3. r = root /\ i2 = j2 /\ i1 = j1 => u = p
      OBVIOUS
    <2> HIDE DEF s
    <2>4. new[s] = mem[s] /\ LinkAt(new, r, i2) /\ LinkAt(new, s, i1) /\ new[s][i1].to = u
      BY <1>4, <1>6, <1>7, <1>10
    <2> HIDE DEF u, p
    <2>5. Reads(new, r, i2, i1, i0, w) <=> i0 \in DOMAIN new[u] /\ new[u][i0] = w
      BY <1>9, <2>4
    <2>6. CASE u # p
      BY <1>2, <1>3, <1>8, <1>10, <2>1, <2>3, <2>5, <2>6
    <2>7. CASE u = p /\ i0 = j0
      <3>1. i0 \in DOMAIN new[u] /\ new[u][i0] = word
        BY <1>3, <2>7 DEF Put
      <3> QED
        BY <2>2, <2>5, <2>7, <3>1
    <2>8. CASE u = p /\ i0 # j0
      <3>1. i0 \in DOMAIN new[u] <=> i0 \in DOMAIN mem[u]
        BY <1>3, <2>8 DEF Put
      <3>2. i0 \in DOMAIN mem[u] => new[u][i0] = mem[u][i0]
        BY <1>3, <2>8 DEF Put
      <3> QED
        BY <1>8, <1>10, <2>5, <2>8, <3>1, <3>2
    <2> QED
      BY <2>6, <2>7, <2>8
  <1>11. CASE ~(LinkAt(mem, r, i2) /\ LinkAt(mem, s, i1))
    <2>1. ~Reads(mem, r, i2, i1, i0, w)
      BY <1>8, <1>11
    <2>2. ~(r = root /\ i2 = j2 /\ i1 = j1)
      BY <1>11
    <2> HIDE DEF s
    <2>3. ~Reads(new, r, i2, i1, i0, w)
      BY <1>4, <1>6, <1>7, <1>9, <1>11
    <2> QED
      BY <2>1, <2>2, <2>3
  <1> QED
    BY <1>10, <1>11

(* A word leaves the pages narrow, if its index is one.                     *)
LEMMA WordNarrow ==
    ASSUME NEW mem, NEW new, NEW p, NEW i \in Index, NEW word, Worded(mem, new, p, i, word),
           Narrow(mem)
    PROVE  Narrow(new)
PROOF
  <1>1. p \in HeapPage => DOMAIN new[p] = DOMAIN mem[p] \cup {i}
    BY DEF Worded, Put
  <1> QED
    BY <1>1 DEF Worded, Narrow

------------------------------------------------------------------------------
(* What happens to the free pages and the memory when one root's tree is    *)
(* added to: pages go from the list to it, words are links or ok.           *)
Entered(old, new, was, tree, ok) ==
    \A p \in HeapPage : \A j \in DOMAIN new[p] :
        \/ j \in DOMAIN old[p] /\ new[p][j] = old[p][j] /\ (p \in tree => p \in was)
        \/ p \in tree /\ (new[p][j] \in ok \/ \E x : new[p][j] = Link(x))

Grown(free, mem, less, new, rs, rest, root, ok) ==
    /\ Forest(less, new, rs, rest)
    /\ ToSet(less) \subseteq ToSet(free) /\ Trunk(mem, rs) \subseteq Trunk(new, rs)
    /\ ToSet(less) \cup Trunk(new, rs) \cup Lows(new, rs)
         = ToSet(free) \cup Trunk(mem, rs) \cup Lows(mem, rs)
    /\ Trunk(new, rs) \subseteq Trunk(mem, rs) \cup ToSet(free)
    /\ \A r \in rs : r # root => TreeOf(new, r) = TreeOf(mem, r)
    /\ TreeOf(mem, root) \subseteq TreeOf(new, root)
    /\ TreeOf(new, root) \subseteq TreeOf(mem, root) \cup ToSet(free)
    /\ Entered(mem, new, TreeOf(mem, root), TreeOf(new, root), ok)
    /\ \A t \in Trunk(mem, rs), i \in Index :
          LinkAt(mem, t, i) => LinkAt(new, t, i) /\ new[t][i] = mem[t][i]

(* Growing twice is growing.                                               *)
LEMMA GrownTwice ==
    ASSUME NEW f1, NEW m1, NEW f2, NEW m2, NEW f3, NEW m3, NEW rs, NEW rest, NEW root, NEW ok,
           Grown(f1, m1, f2, m2, rs, rest, root, ok),
           Grown(f2, m2, f3, m3, rs, rest, root, ok)
    PROVE  Grown(f1, m1, f3, m3, rs, rest, root, ok)
PROOF
  <1>1. Entered(m1, m3, TreeOf(m1, root), TreeOf(m3, root), ok)
    <2>1. /\ Entered(m1, m2, TreeOf(m1, root), TreeOf(m2, root), ok)
          /\ Entered(m2, m3, TreeOf(m2, root), TreeOf(m3, root), ok)
          /\ TreeOf(m2, root) \subseteq TreeOf(m3, root)
      BY DEF Grown
    <2> QED
      BY <2>1 DEF Entered
  <1>2. \A t \in Trunk(m1, rs), i \in Index :
          LinkAt(m1, t, i) => LinkAt(m3, t, i) /\ m3[t][i] = m1[t][i]
    BY DEF Grown
  <1>3. /\ Forest(f3, m3, rs, rest)
        /\ ToSet(f3) \subseteq ToSet(f1) /\ Trunk(m1, rs) \subseteq Trunk(m3, rs)
    BY DEF Grown
  <1>4. /\ ToSet(f3) \cup Trunk(m3, rs) \cup Lows(m3, rs)
             = ToSet(f1) \cup Trunk(m1, rs) \cup Lows(m1, rs)
        /\ Trunk(m3, rs) \subseteq Trunk(m1, rs) \cup ToSet(f1)
    BY DEF Grown
  <1>5. /\ \A r \in rs : r # root => TreeOf(m3, r) = TreeOf(m1, r)
        /\ TreeOf(m1, root) \subseteq TreeOf(m3, root)
        /\ TreeOf(m3, root) \subseteq TreeOf(m1, root) \cup ToSet(f1)
    BY DEF Grown
  <1> QED
    BY <1>1, <1>2, <1>3, <1>4, <1>5 DEF Grown

(* So is leaving everything as it was.                                     *)
LEMMA NotGrown ==
    ASSUME NEW free, NEW mem, NEW rs, NEW rest, NEW root, NEW ok,
           Forest(free, mem, rs, rest)
    PROVE  Grown(free, mem, free, mem, rs, rest, root, ok)
PROOF
  <1>1. Entered(mem, mem, TreeOf(mem, root), TreeOf(mem, root), ok)
    BY DEF Entered
  <1>2. \A t \in Trunk(mem, rs), i \in Index :
          LinkAt(mem, t, i) => LinkAt(mem, t, i) /\ mem[t][i] = mem[t][i]
    OBVIOUS
  <1> QED
    BY <1>1, <1>2, Zenon DEF Grown

(* One table more under a table of the root. *)
LEMMA TableGrows ==
    ASSUME NEW free, NEW mem, NEW rs, NEW rest, NEW new, NEW t, NEW i \in Index,
           NEW root \in rs, NEW ok,
           Forest(free, mem, rs, rest), free # <<>>,
           t \in Trunk(mem, rs), t \in TreeOf(mem, root), Extended(free, mem, new, t, i)
    PROVE  Grown(free, mem, Tail(free), new, rs, rest, root, ok)
PROOF
  <1> DEFINE h == Head(free)
  <1>1. /\ Forest(Tail(free), new, rs, rest)
        /\ LinkAt(new, t, i) /\ new[t][i].to = h
    BY Tables
  <1>9. \/ /\ t \in rs /\ Mids(new, rs) = Mids(mem, rs) \cup {h}
           /\ Lows(new, rs) = Lows(mem, rs)
        \/ /\ t \in Mids(mem, rs) /\ Mids(new, rs) = Mids(mem, rs)
           /\ Lows(new, rs) = Lows(mem, rs) \cup {h}
    BY Tables
  <1>10. \A r \in rs : TreeOf(new, r) = IF t \in TreeOf(mem, r)
             THEN TreeOf(mem, r) \cup {h} ELSE TreeOf(mem, r)
    BY Tables
  <1>2. /\ ToSet(free) = ToSet(Tail(free)) \cup {h} /\ h \in ToSet(free) /\ h \in HeapPage
    BY TakeHead DEF Forest
  <1>3. /\ new[h] = Zeroed /\ new[t] = Put(mem[t], i, Link(h))
        /\ \A x \in HeapPage \ {h, t} : new[x] = mem[x]
        /\ i \notin DOMAIN mem[t]
    BY DEF Extended
  <1> HIDE DEF h
  <1>4. \A r \in rs : r # root => TreeOf(new, r) = TreeOf(mem, r)
    BY <1>10, OneTree
  <1>5. TreeOf(new, root) = TreeOf(mem, root) \cup {h} /\ t \in TreeOf(new, root)
    BY <1>10
  <1>6. Entered(mem, new, TreeOf(mem, root), TreeOf(new, root), ok)
    <2>1. ASSUME NEW j \in DOMAIN new[t]
          PROVE  (j \in DOMAIN mem[t] /\ new[t][j] = mem[t][j]) \/ new[t][j] = Link(h)
      BY <1>3, <2>1 DEF Put
    <2>2. DOMAIN new[h] = {}
      BY <1>3 DEF Zeroed
    <2> QED
      BY <1>3, <1>5, <2>1, <2>2 DEF Entered
  <1>7. ASSUME NEW u \in Trunk(mem, rs), NEW j \in Index, LinkAt(mem, u, j)
        PROVE  LinkAt(new, u, j) /\ new[u][j] = mem[u][j]
    <2>1. u # h /\ u \in HeapPage
      BY <1>2 DEF Forest, Placed, Trunk
    <2>2. CASE u = t
      <3>1. j # i /\ j \in DOMAIN mem[t]
        <4>1. LinkAt(mem, t, j)
          BY <1>7, <2>2
        <4> QED
          BY <1>3, <4>1 DEF LinkAt
      <3>2. j \in DOMAIN new[t] /\ new[t][j] = mem[t][j]
        BY <1>3, <3>1 DEF Put
      <3> QED
        BY <1>7, <2>2, <3>2 DEF LinkAt
    <2> QED
      BY <1>3, <1>7, <2>1, <2>2 DEF LinkAt
  <1>8. /\ ToSet(Tail(free)) \cup Trunk(new, rs) \cup Lows(new, rs)
             = ToSet(free) \cup Trunk(mem, rs) \cup Lows(mem, rs)
        /\ Trunk(new, rs) \subseteq Trunk(mem, rs) \cup ToSet(free)
        /\ Trunk(mem, rs) \subseteq Trunk(new, rs)
    BY <1>2, <1>9 DEF Trunk
  <1> QED
    BY <1>1, <1>2, <1>4, <1>5, <1>6, <1>7, <1>8 DEF Grown

------------------------------------------------------------------------------
(* What pgalloc() and pgTraverseAndCreate() do when they do not fault.      *)
Fields(m) == DOMAIN m = {"free", "mem", "fault"}

(* pgalloc() hands out the first page of the list and clears it.           *)
LEMMA Alloc ==
    ASSUME NEW m, Fields(m), ~pgalloc(m).fault
    PROVE  /\ Fields(pgalloc(m)) /\ ~m.fault /\ m.free # <<>>
           /\ pgalloc(m).free = Tail(m.free)
           /\ pgalloc(m).mem = [m.mem EXCEPT ![Head(m.free)] = Zeroed]
PROOF
  <1>1. [m EXCEPT !.fault = TRUE].fault
    BY DEF Fields
  <1>2. /\ ~m.fault /\ m.free # <<>>
        /\ pgalloc(m) = [m EXCEPT !.free = Tail(@), !.mem[Head(m.free)] = Zeroed]
    BY <1>1 DEF pgalloc
  <1> DEFINE s == pgalloc(m)  t == Head(m.free)
  <1>3. s = [m EXCEPT !.free = Tail(@), !.mem[t] = Zeroed]
    BY <1>2
  <1> HIDE DEF s, t
  <1>4. Fields(s) /\ s.free = Tail(m.free) /\ s.mem = [m.mem EXCEPT ![t] = Zeroed]
    BY <1>3 DEF Fields
  <1> QED
    BY <1>2, <1>4 DEF s, t

(* One level down: the table is there, or the next page becomes it.        *)
LEMMA Descends ==
    ASSUME NEW m, NEW t, NEW i, Fields(m), ~Descend(m, t, i).fault
    PROVE  LET n == Descend(m, t, i)
           IN  /\ Fields(n) /\ ~m.fault
               /\ \/ i \in DOMAIN m.mem[t] /\ n.free = m.free /\ n.mem = m.mem
                  \/ /\ i \notin DOMAIN m.mem[t] /\ m.free # <<>>
                     /\ n.free = Tail(m.free)
                     /\ n.mem = [[m.mem EXCEPT ![Head(m.free)] = Zeroed]
                                    EXCEPT ![t] = Put(@, i, Link(Head(m.free)))]
PROOF
  <1>1. [m EXCEPT !.fault = TRUE].fault
    BY DEF Fields
  <1>2. CASE i \in DOMAIN m.mem[t]
    <2>1. Descend(m, t, i) = m /\ ~m.fault
      BY <1>1, <1>2 DEF Descend
    <2> QED
      BY <1>2, <2>1
  <1>3. CASE i \notin DOMAIN m.mem[t]
    <2> DEFINE n == pgalloc(m)
    <2>1. \/ Descend(m, t, i) = [m EXCEPT !.fault = TRUE]
          \/ n.fault /\ Descend(m, t, i) = n
          \/ ~n.fault /\ Descend(m, t, i) = [n EXCEPT !.mem[t] = Put(@, i, Link(Head(m.free)))]
      BY <1>3 DEF Descend
    <2>2. ~n.fault /\ Descend(m, t, i) = [n EXCEPT !.mem[t] = Put(@, i, Link(Head(m.free)))]
      BY <1>1, <2>1
    <2>3. /\ Fields(n) /\ ~m.fault /\ m.free # <<>> /\ n.free = Tail(m.free)
          /\ n.mem = [m.mem EXCEPT ![Head(m.free)] = Zeroed]
      BY <2>2, Alloc
    <2> HIDE DEF n
    <2>4. ASSUME NEW s, NEW w, s = [n EXCEPT !.mem[t] = w]
          PROVE  Fields(s) /\ s.free = n.free /\ s.mem = [n.mem EXCEPT ![t] = w]
      BY <2>3, <2>4 DEF Fields
    <2> DEFINE s == Descend(m, t, i)  w == Put(n.mem[t], i, Link(Head(m.free)))
    <2>5. s = [n EXCEPT !.mem[t] = w]
      BY <2>2
    <2>6. [n.mem EXCEPT ![t] = w] = [n.mem EXCEPT ![t] = Put(@, i, Link(Head(m.free)))]
      OBVIOUS
    <2> HIDE DEF s, w
    <2>7. Fields(s) /\ s.free = n.free /\ s.mem = [n.mem EXCEPT ![t] = w]
      BY <2>4, <2>5
    <2> QED
      BY <1>3, <2>3, <2>6, <2>7 DEF s
  <1> QED
    BY <1>2, <1>3

(* A step down that does not fault finds a table there, or makes it.        *)
Descended(m, n, t, i, rs, rest, root, ok) ==
    /\ Fields(n) /\ LinkAt(n.mem, t, i)
    /\ Grown(m.free, m.mem, n.free, n.mem, rs, rest, root, ok)
    /\ SameWords(m.mem, n.mem, rs) /\ (Narrow(m.mem) => Narrow(n.mem))
    /\ \/ i \in DOMAIN m.mem[t] /\ n.free = m.free /\ n.mem = m.mem
       \/ /\ i \notin DOMAIN m.mem[t] /\ DOMAIN n.mem[n.mem[t][i].to] = {}
          /\ n.free # <<>> => Head(n.free) + PAGE_SIZE = n.mem[t][i].to

(* One level down is a step of growth, and tells where the new table is.   *)
LEMMA DescendGrows ==
    ASSUME NEW m, NEW rs, NEW rest, NEW root \in rs, NEW ok, NEW t, NEW i \in Index,
           Fields(m), Forest(m.free, m.mem, rs, rest),
           t \in Trunk(m.mem, rs), t \in TreeOf(m.mem, root), ~Descend(m, t, i).fault
    PROVE  Descended(m, Descend(m, t, i), t, i, rs, rest, root, ok)
PROOF
  <1> DEFINE n == Descend(m, t, i)  h == Head(m.free)
  <1>1. /\ Fields(n) /\ ~m.fault
        /\ \/ i \in DOMAIN m.mem[t] /\ n.free = m.free /\ n.mem = m.mem
           \/ /\ i \notin DOMAIN m.mem[t] /\ m.free # <<>> /\ n.free = Tail(m.free)
              /\ n.mem = [[m.mem EXCEPT ![h] = Zeroed] EXCEPT ![t] = Put(@, i, Link(h))]
    BY Descends
  <1> HIDE DEF n
  <1>2. CASE i \in DOMAIN m.mem[t] /\ n.free = m.free /\ n.mem = m.mem
    <2>1. LinkAt(n.mem, t, i)
      BY <1>2 DEF Forest, Branches
    <2>2. Grown(m.free, m.mem, n.free, n.mem, rs, rest, root, ok)
      BY <1>2, NotGrown
    <2>3. SameWords(m.mem, n.mem, rs) /\ (Narrow(m.mem) => Narrow(n.mem))
      BY <1>2 DEF SameWords
    <2> QED
      BY <1>1, <1>2, <2>1, <2>2, <2>3 DEF n, Descended
  <1>3. CASE /\ i \notin DOMAIN m.mem[t] /\ m.free # <<>> /\ n.free = Tail(m.free)
             /\ n.mem = [[m.mem EXCEPT ![h] = Zeroed] EXCEPT ![t] = Put(@, i, Link(h))]
    <2>1. /\ h \in HeapPage /\ h \notin Trunk(m.mem, rs) /\ t \in HeapPage
          /\ Tail(m.free) # <<>> => Head(Tail(m.free)) + PAGE_SIZE = h
      BY <1>3, TakeHead DEF Forest, Placed, Trunk
    <2>2. Extended(m.free, m.mem, n.mem, t, i)
      <3> DEFINE mem == m.mem  new == n.mem
      <3>1. mem = [x \in HeapPage |-> mem[x]]
        BY DEF Forest, Whole
      <3>2. t # h /\ t \in HeapPage /\ h \in HeapPage
        BY <2>1
      <3> HIDE DEF mem, new, h
      <3>3. new = [[mem EXCEPT ![h] = Zeroed] EXCEPT ![t] = Put(@, i, Link(h))]
        BY <1>3 DEF mem, new
      <3>4. new = [x \in HeapPage |-> IF x = t THEN Put(mem[t], i, Link(h))
                                      ELSE IF x = h THEN Zeroed ELSE mem[x]]
        BY <3>1, <3>2, <3>3
      <3>5. Whole(new)
        BY <3>4 DEF Whole
      <3>6. new[h] = Zeroed /\ new[t] = Put(mem[t], i, Link(h))
        BY <3>2, <3>4
      <3>7. \A x \in HeapPage \ {h, t} : new[x] = mem[x]
        BY <3>4
      <3> QED
        BY <1>3, <3>5, <3>6, <3>7 DEF Extended, mem, new, h
    <2>3. Grown(m.free, m.mem, n.free, n.mem, rs, rest, root, ok)
      BY <1>3, <2>2, TableGrows
    <2>4. LinkAt(n.mem, t, i) /\ n.mem[t][i].to = h
      BY <1>3, <2>2, Tables
    <2>5. DOMAIN n.mem[h] = {}
      BY <2>2 DEF Extended, Zeroed
    <2>6. SameWords(m.mem, n.mem, rs) /\ (Narrow(m.mem) => Narrow(n.mem))
      BY <1>3, <2>2, TableReads
    <2> QED
      BY <1>1, <1>3, <2>1, <2>3, <2>4, <2>5, <2>6 DEF n, Descended
  <1> QED
    BY <1>1, <1>2, <1>3

(* An entry in a lowest table. *)
LEMMA LeafGrows ==
    ASSUME NEW free, NEW mem, NEW rs, NEW rest, NEW new, NEW t, NEW i, NEW root \in rs,
           NEW word, NEW ok, word \in ok,
           Forest(free, mem, rs, rest), IsLeaf(word),
           t \in Lows(mem, rs), t \in TreeOf(mem, root), Worded(mem, new, t, i, word)
    PROVE  /\ Grown(free, mem, free, new, rs, rest, root, ok)
           /\ Lows(new, rs) = Lows(mem, rs)
PROOF
  <1>1. t \notin Trunk(mem, rs) /\ t \in HeapPage
    BY DEF Forest, Placed, Trunk
  <1>2. /\ Forest(free, new, rs, rest)
        /\ Mids(new, rs) = Mids(mem, rs) /\ Lows(new, rs) = Lows(mem, rs)
    BY <1>1, Words
  <1>3. \A r \in rs : TreeOf(new, r) = TreeOf(mem, r)
    BY <1>1, Words
  <1>4. /\ new[t] = Put(mem[t], i, word)
        /\ \A x \in HeapPage \ {t} : new[x] = mem[x]
    BY <1>1 DEF Worded
  <1>5. Entered(mem, new, TreeOf(mem, root), TreeOf(new, root), ok)
    <2>1. ASSUME NEW j \in DOMAIN new[t]
          PROVE  (j \in DOMAIN mem[t] /\ new[t][j] = mem[t][j]) \/ new[t][j] = word
      BY <1>4, <2>1 DEF Put
    <2>2. t \in TreeOf(new, root)
      BY <1>3
    <2> QED
      BY <1>3, <1>4, <2>1, <2>2 DEF Entered
  <1>6. \A u \in Trunk(mem, rs), j \in Index :
          LinkAt(mem, u, j) => LinkAt(new, u, j) /\ new[u][j] = mem[u][j]
    <2>1. \A u \in Trunk(mem, rs) : new[u] = mem[u]
      BY <1>1, <1>4 DEF Forest, Placed, Trunk
    <2> QED
      BY <2>1 DEF LinkAt
  <1>7. Trunk(new, rs) = Trunk(mem, rs)
    BY <1>2 DEF Trunk
  <1> QED
    BY <1>2, <1>3, <1>5, <1>6, <1>7 DEF Grown

(* What a whole request does: at most two tables and one entry, and where   *)
(* the list stands afterwards.                                              *)
ReachedIn(mem, root, va) ==
    /\ LinkAt(mem, root, VPN2(va))
    /\ LinkAt(mem, mem[root][VPN2(va)].to, VPN1(va))

Served(m, n, rs, rest, root, req) ==
    /\ Grown(m.free, m.mem, n.free, n.mem, rs, rest, root, {Leaf(req.pa, req.attr)})
    /\ ReachedIn(n.mem, root, req.va)
    /\ ReachedIn(m.mem, root, req.va) => n.free = m.free
    /\ OneWord(m.mem, n.mem, rs, root, VPN2(req.va), VPN1(req.va), VPN0(req.va),
               Leaf(req.pa, req.attr))
    /\ Narrow(m.mem) => Narrow(n.mem)
    /\ \/ n.free = m.free /\ DOMAIN m.mem[root] # {}
       \/ n.free # <<>> => Head(n.free) + PAGE_SIZE \in Lows(n.mem, rs)

(* pgTraverseAndCreate() is growth by at most two tables and one word, and *)
(* leaves the list just below the lowest table it made.                    *)
LEMMA MapGrows ==
    ASSUME NEW m, NEW rs, NEW rest, NEW root \in rs, NEW req, req.va \in Nat,
           IsLeaf(Leaf(req.pa, req.attr)),
           Fields(m), Forest(m.free, m.mem, rs, rest), ~pgTraverseAndCreate(m, root, req).fault
    PROVE  Served(m, pgTraverseAndCreate(m, root, req), rs, rest, root, req)
PROOF
  <1> DEFINE n    == pgTraverseAndCreate(m, root, req)
             m1   == Descend(m, root, VPN2(req.va))
             l1   == m1.mem[root][VPN2(req.va)].to
             m2   == Descend(m1, l1, VPN1(req.va))
             l0   == m2.mem[l1][VPN1(req.va)].to
             word == Leaf(req.pa, req.attr)
             i2   == VPN2(req.va)
             i1   == VPN1(req.va)
             i0   == VPN0(req.va)
             ok   == {word}
  <1>1. i2 \in Index /\ i1 \in Index /\ i0 \in Index
    BY Indices
  <1>2. n = IF m1.fault THEN m1
            ELSE IF m2.fault \/ ~Reaches(l0) THEN [m2 EXCEPT !.fault = TRUE]
            ELSE [m2 EXCEPT !.mem[l0] = Put(@, i0, word)]
    BY DEF pgTraverseAndCreate
  <1>3. ~n.fault
    OBVIOUS
  <1>4. ~m1.fault
    BY <1>2, <1>3
  <1>5. root \in Trunk(m.mem, rs) /\ root \in TreeOf(m.mem, root)
    BY DEF Trunk, TreeOf
  <1> HIDE DEF n, m1, l1, m2, l0, i2, i1, i0, word, ok
  <1>6. /\ Fields(m1) /\ LinkAt(m1.mem, root, i2)
        /\ Grown(m.free, m.mem, m1.free, m1.mem, rs, rest, root, ok)
        /\ \/ i2 \in DOMAIN m.mem[root] /\ m1.free = m.free /\ m1.mem = m.mem
           \/ /\ i2 \notin DOMAIN m.mem[root] /\ DOMAIN m1.mem[l1] = {}
              /\ m1.free # <<>> => Head(m1.free) + PAGE_SIZE = l1
        /\ SameWords(m.mem, m1.mem, rs) /\ (Narrow(m.mem) => Narrow(m1.mem))
    <2>1. m1 = Descend(m, root, i2) /\ l1 = m1.mem[root][i2].to
      BY DEF m1, l1, i2
    <2>2. ~Descend(m, root, i2).fault
      BY <1>4, <2>1
    <2>3. Descended(m, m1, root, i2, rs, rest, root, ok)
      BY <1>1, <1>5, <2>1, <2>2, DescendGrows
    <2> QED
      BY <2>1, <2>3 DEF Descended
  <1>7. Forest(m1.free, m1.mem, rs, rest)
    BY <1>6 DEF Grown
  <1>8. l1 \in Under(m1.mem, root) /\ l1 \in Mids(m1.mem, rs)
        /\ l1 \in Trunk(m1.mem, rs) /\ l1 \in TreeOf(m1.mem, root)
    <2>1. l1 = m1.mem[root][i2].to
      BY DEF l1, i2
    <2>2. l1 \in Under(m1.mem, root)
      BY <1>1, <1>6, <2>1, UnderIs
    <2> QED
      BY <2>2 DEF Mids, Trunk, TreeOf
  <1>9. \A x : DOMAIN x = {"free", "mem", "fault"} => [x EXCEPT !.fault = TRUE].fault
    OBVIOUS
  <1>10. ASSUME ~m2.fault
         PROVE  /\ Fields(m2) /\ LinkAt(m2.mem, l1, i1)
                /\ Grown(m1.free, m1.mem, m2.free, m2.mem, rs, rest, root, ok)
                /\ \/ i1 \in DOMAIN m1.mem[l1] /\ m2.free = m1.free /\ m2.mem = m1.mem
                   \/ /\ i1 \notin DOMAIN m1.mem[l1]
                      /\ m2.free # <<>> => Head(m2.free) + PAGE_SIZE = l0
                /\ SameWords(m1.mem, m2.mem, rs) /\ (Narrow(m1.mem) => Narrow(m2.mem))
    <2>1. m2 = Descend(m1, l1, i1) /\ l0 = m2.mem[l1][i1].to
      BY DEF m2, l0, i1
    <2>2. ~Descend(m1, l1, i1).fault
      BY <1>10, <2>1
    <2>3. Descended(m1, m2, l1, i1, rs, rest, root, ok)
      BY <1>1, <1>6, <1>7, <1>8, <2>1, <2>2, DescendGrows
    <2> QED
      BY <2>1, <2>3 DEF Descended
  <1>11. ASSUME m2.fault \/ ~Reaches(l0), n = [m2 EXCEPT !.fault = TRUE] PROVE FALSE
    <2>1. CASE ~m2.fault
      BY <1>3, <1>9, <1>10, <1>11, <2>1 DEF Fields
    <2>2. CASE m2.fault
      <3>1. [m2 EXCEPT !.fault = TRUE].fault = m2.fault \/ [m2 EXCEPT !.fault = TRUE].fault
        OBVIOUS
      <3> QED
        BY <1>3, <1>11, <2>2, <3>1
    <2> QED
      BY <2>1, <2>2
  <1>12. ~m2.fault /\ n = [m2 EXCEPT !.mem[l0] = Put(@, i0, word)]
    BY <1>2, <1>4, <1>11
  <1>13. /\ Fields(m2) /\ LinkAt(m2.mem, l1, i1)
         /\ Grown(m1.free, m1.mem, m2.free, m2.mem, rs, rest, root, ok)
         /\ \/ i1 \in DOMAIN m1.mem[l1] /\ m2.free = m1.free /\ m2.mem = m1.mem
            \/ /\ i1 \notin DOMAIN m1.mem[l1]
               /\ m2.free # <<>> => Head(m2.free) + PAGE_SIZE = l0
         /\ SameWords(m1.mem, m2.mem, rs) /\ (Narrow(m1.mem) => Narrow(m2.mem))
    BY <1>10, <1>12
  <1>14. n.free = m2.free /\ n.mem = [m2.mem EXCEPT ![l0] = Put(@, i0, word)]
    <2>1. ASSUME NEW s, NEW u, NEW w, Fields(s), n = [s EXCEPT !.mem[u] = Put(@, i0, word)]
          PROVE  n.free = s.free /\ n.mem = [s.mem EXCEPT ![u] = Put(@, i0, word)]
      BY <2>1 DEF Fields
    <2> QED
      BY <1>12, <1>13, <2>1
  <1>15. Forest(m2.free, m2.mem, rs, rest)
    BY <1>13 DEF Grown
  <1>16. LinkAt(m2.mem, root, i2) /\ m2.mem[root][i2] = m1.mem[root][i2]
    <2>1. root \in Trunk(m1.mem, rs)
      BY DEF Trunk
    <2> QED
      BY <1>1, <1>6, <1>13, <2>1 DEF Grown, i2
  <1>17. l1 \in Under(m2.mem, root) /\ l0 \in Under(m2.mem, l1)
    BY <1>1, <1>13, <1>16 DEF Under, l1, l0, i2, i1
  <1>18. l0 \in Lows(m2.mem, rs) /\ l0 \in TreeOf(m2.mem, root) /\ l1 \in Trunk(m2.mem, rs)
    BY <1>17 DEF Lows, Mids, TreeOf, Trunk
  <1>19. Worded(m2.mem, n.mem, l0, i0, word)
    <2>1. l0 \in HeapPage
      BY <1>15, <1>18 DEF Forest, Placed
    <2>2. Whole(m2.mem)
      BY <1>15 DEF Forest
    <2> QED
      BY <1>14, <2>1, <2>2 DEF Worded, Whole
  <1>20. /\ Grown(m2.free, m2.mem, n.free, n.mem, rs, rest, root, ok)
         /\ Lows(n.mem, rs) = Lows(m2.mem, rs)
    <2>1. IsLeaf(word)
      BY DEF word
    <2>2. word \in ok
      BY DEF ok
    <2>3. Grown(m2.free, m2.mem, m2.free, n.mem, rs, rest, root, ok)
      BY <1>15, <1>18, <1>19, <2>1, <2>2, LeafGrows
    <2> QED
      BY <1>14, <1>15, <1>18, <1>19, <2>1, <2>2, <2>3, LeafGrows
  <1>21. Grown(m.free, m.mem, n.free, n.mem, rs, rest, root, ok)
    BY <1>6, <1>13, <1>20, GrownTwice
  <1>22. ReachedIn(n.mem, root, req.va)
    <2>1. root \in Trunk(m2.mem, rs)
      BY DEF Trunk
    <2>2. LinkAt(n.mem, root, i2) /\ n.mem[root][i2] = m2.mem[root][i2]
          /\ LinkAt(n.mem, l1, i1)
      BY <1>1, <1>13, <1>16, <1>18, <1>20, <2>1 DEF Grown, i2, i1
    <2> QED
      BY <1>16, <2>2 DEF ReachedIn, i2, i1, l1
  <1>23. ASSUME ReachedIn(m.mem, root, req.va) PROVE n.free = m.free
    <2>1. i2 \in DOMAIN m.mem[root] /\ i1 \in DOMAIN m.mem[m.mem[root][i2].to]
      BY <1>23 DEF ReachedIn, LinkAt, i2, i1
    <2>2. m1.free = m.free /\ m1.mem = m.mem /\ l1 = m.mem[root][i2].to
      BY <1>6, <2>1 DEF l1, i2
    <2> QED
      BY <1>13, <1>14, <2>1, <2>2
  <1>24. \/ n.free = m.free /\ DOMAIN m.mem[root] # {}
         \/ n.free # <<>> => Head(n.free) + PAGE_SIZE \in Lows(n.mem, rs)
    BY <1>6, <1>13, <1>14, <1>18, <1>20
  <1>25. OneWord(m.mem, n.mem, rs, root, i2, i1, i0, word) /\ (Narrow(m.mem) => Narrow(n.mem))
    <2>1. OneWord(m2.mem, n.mem, rs, root, i2, i1, i0, word)
      <3>1. l1 = m2.mem[root][i2].to /\ l0 = m2.mem[l1][i1].to
        BY <1>16 DEF l1, l0, i2, i1
      <3> DEFINE mem == m2.mem  new == n.mem
      <3>2. /\ LinkAt(mem, root, i2) /\ LinkAt(mem, mem[root][i2].to, i1)
            /\ Worded(mem, new, mem[mem[root][i2].to][i1].to, i0, word)
        BY <1>13, <1>16, <1>19, <3>1
      <3>3. Forest(m2.free, mem, rs, rest)
        BY <1>15
      <3> HIDE DEF mem, new
      <3>4. OneWord(mem, new, rs, root, i2, i1, i0, word)
        BY <1>1, <3>2, <3>3, WordReads
      <3> QED
        BY <3>4 DEF mem, new
    <2>2. SameWords(m.mem, m2.mem, rs)
      BY <1>6, <1>13 DEF SameWords
    <2>3. Narrow(m2.mem) => Narrow(n.mem)
      BY <1>1, <1>19, WordNarrow
    <2> QED
      BY <1>6, <1>13, <2>1, <2>2, <2>3 DEF OneWord, SameWords
  <1> QED
    BY <1>21, <1>22, <1>23, <1>24, <1>25 DEF n, ok, word, i2, i1, i0, Served

------------------------------------------------------------------------------
(* The page above a stack is no free page, no upper table and in no tree of *)
(* us; only there can the magic word be; the words of us are harmless.      *)
OkWord(pte) ==
    "U" \in pte.attr => /\ pte.to \notin HeapPage
                        /\ "W" \in pte.attr => pte.to \in {UART_BASE, SWAPAREAADDR}

AboveOf(free, mem, rs, st, us) ==
    \A s \in st : /\ s + PAGE_SIZE \notin ToSet(free) \cup Trunk(mem, rs)
                  /\ \A u \in us : s + PAGE_SIZE \notin TreeOf(mem, u)

Harmless(mem, us) ==
    \A u \in us : \A t \in TreeOf(mem, u) : \A i \in DOMAIN mem[t] : OkWord(mem[t][i])

Magic(free, mem, st) ==
    \A p \in HeapPage : 0 \in DOMAIN mem[p] /\ mem[p][0] = STACKMAGIC =>
        p - PAGE_SIZE \in st /\ p \notin ToSet(free)

(* Growth keeps what is above the stacks out of the tables: it takes free  *)
(* pages.                                                                  *)
LEMMA GrownAbove ==
    ASSUME NEW free, NEW mem, NEW less, NEW new, NEW rs, NEW rest, NEW root, NEW ok,
           NEW st, NEW us, Grown(free, mem, less, new, rs, rest, root, ok),
           us \subseteq rs, AboveOf(free, mem, rs, st, us)
    PROVE  AboveOf(less, new, rs, st, us)
PROOF
  <1>1. /\ ToSet(less) \subseteq ToSet(free)
        /\ Trunk(new, rs) \subseteq Trunk(mem, rs) \cup ToSet(free)
        /\ \A u \in us : TreeOf(new, u) \subseteq TreeOf(mem, u) \cup ToSet(free)
    BY DEF Grown
  <1> QED
    BY <1>1 DEF AboveOf

(* Growth keeps the words of the users harmless, if the new ones are.      *)
LEMMA GrownHarmless ==
    ASSUME NEW free, NEW mem, NEW less, NEW new, NEW rs, NEW rest, NEW root, NEW ok,
           NEW us, Grown(free, mem, less, new, rs, rest, root, ok), us \subseteq rs, root \in rs,
           Forest(free, mem, rs, rest), Harmless(mem, us),
           root \in us => \A w \in ok : OkWord(w)
    PROVE  Harmless(new, us)
PROOF
  <1>1. /\ Forest(less, new, rs, rest)
        /\ Entered(mem, new, TreeOf(mem, root), TreeOf(new, root), ok)
        /\ \A r \in rs : r # root => TreeOf(new, r) = TreeOf(mem, r)
        /\ TreeOf(new, root) \subseteq TreeOf(mem, root) \cup ToSet(free)
    BY DEF Grown
  <1> SUFFICES ASSUME NEW u \in us, NEW t \in TreeOf(new, u), NEW i \in DOMAIN new[t]
               PROVE  OkWord(new[t][i])
    BY DEF Harmless
  <1>2. t \in HeapPage
    BY <1>1, TreeIs DEF Forest, Placed, Trunk
  <1>3. \/ i \in DOMAIN mem[t] /\ new[t][i] = mem[t][i] /\ t \in TreeOf(mem, u)
        \/ t \in TreeOf(new, root) /\ (new[t][i] \in ok \/ \E x : new[t][i] = Link(x))
    BY <1>1, <1>2 DEF Entered
  <1>4. CASE t \in TreeOf(new, root) /\ (new[t][i] \in ok \/ \E x : new[t][i] = Link(x))
    <2>1. u = root
      BY <1>1, <1>4, OneTree
    <2>2. \A x : OkWord(Link(x))
      BY DEF OkWord, Link
    <2> QED
      BY <1>4, <2>1, <2>2
  <1>5. CASE i \in DOMAIN mem[t] /\ new[t][i] = mem[t][i] /\ t \in TreeOf(mem, u)
    BY <1>5 DEF Harmless
  <1> QED
    BY <1>3, <1>4, <1>5

(* Growth brings no magic word.                                            *)
LEMMA GrownMagic ==
    ASSUME NEW free, NEW mem, NEW less, NEW new, NEW rs, NEW rest, NEW root, NEW ok, NEW st,
           Grown(free, mem, less, new, rs, rest, root, ok), Magic(free, mem, st),
           STACKMAGIC \notin ok
    PROVE  Magic(less, new, st)
PROOF
  <1>1. /\ Entered(mem, new, TreeOf(mem, root), TreeOf(new, root), ok)
        /\ ToSet(less) \subseteq ToSet(free)
    BY DEF Grown
  <1>2. \A x : Link(x) # STACKMAGIC
    BY DEF Link, STACKMAGIC
  <1> QED
    BY <1>1, <1>2 DEF Entered, Magic

(* A page taken for a root, a stack or a swap area. *)
LEMMA TakenAbove ==
    ASSUME NEW free, NEW mem, NEW new, NEW rs, NEW rest, NEW st, NEW us,
           Forest(free, mem, rs, rest), free # <<>>, Used(free, mem, new),
           us \subseteq rs, AboveOf(free, mem, rs, st, us)
    PROVE  AboveOf(Tail(free), new, rs, st, us)
PROOF
  <1>1. /\ Trunk(new, rs) = Trunk(mem, rs) /\ \A u \in us : TreeOf(new, u) = TreeOf(mem, u)
    <2>1. PICK more : Joined(more, rest, free)
      BY DEF Joined
    <2>3. Forest(Tail(free), new, rs, more)
      BY <2>1, Others
    <2>2. Mids(new, rs) = Mids(mem, rs) /\ \A r \in rs : TreeOf(new, r) = TreeOf(mem, r)
      BY <2>1, <2>3, Others
    <2> QED
      BY <2>2 DEF Trunk
  <1>2. ToSet(Tail(free)) \subseteq ToSet(free)
    BY TakeHead DEF Forest
  <1> QED
    BY <1>1, <1>2 DEF AboveOf

(* Nor does a new root come to be above a stack.                           *)
LEMMA RootAbove ==
    ASSUME NEW free, NEW mem, NEW new, NEW rs, NEW rest, NEW st, NEW us, NEW vs, NEW more,
           Forest(free, mem, rs, rest), free # <<>>, Emptied(free, mem, new),
           Joined(more, rs, free),
           us \subseteq rs, AboveOf(free, mem, rs, st, us), vs \subseteq us \cup {Head(free)}
    PROVE  AboveOf(Tail(free), new, more, st, vs)
PROOF
  <1>1. /\ Trunk(new, more) = Trunk(mem, rs) \cup {Head(free)}
        /\ TreeOf(new, Head(free)) = {Head(free)}
        /\ \A u \in us : TreeOf(new, u) = TreeOf(mem, u)
    <2>2. Forest(Tail(free), new, more, rest)
      BY Roots
    <2>1. /\ Mids(new, more) = Mids(mem, rs)
          /\ TreeOf(new, Head(free)) = {Head(free)}
          /\ \A r \in rs : TreeOf(new, r) = TreeOf(mem, r)
      BY <2>2, Roots
    <2> QED
      BY <2>1 DEF Trunk, Joined
  <1>2. ToSet(free) = ToSet(Tail(free)) \cup {Head(free)}
    BY TakeHead DEF Forest
  <1> QED
    BY <1>1, <1>2 DEF AboveOf

(* A page taken from the list was in no tree.                              *)
LEMMA TakenHarmless ==
    ASSUME NEW free, NEW mem, NEW new, NEW rs, NEW rest, NEW us,
           Forest(free, mem, rs, rest), free # <<>>, Used(free, mem, new),
           us \subseteq rs, Harmless(mem, us)
    PROVE  Harmless(new, us)
PROOF
  <1>1. \A u \in us : TreeOf(new, u) = TreeOf(mem, u) /\ Head(free) \notin TreeOf(mem, u)
                      /\ TreeOf(mem, u) \subseteq HeapPage
    <2>1. Head(free) \in ToSet(free)
      BY TakeHead DEF Forest
    <2>2. \A u \in us : TreeOf(mem, u) \subseteq Trunk(mem, rs) \cup Lows(mem, rs)
      BY TreeIs
    <2>4. PICK more : Joined(more, rest, free)
      BY DEF Joined
    <2>5. Forest(Tail(free), new, rs, more)
      BY <2>4, Others
    <2>3. \A r \in rs : TreeOf(new, r) = TreeOf(mem, r)
      BY <2>4, <2>5, Others
    <2> QED
      BY <2>1, <2>2, <2>3 DEF Forest, Placed, Trunk
  <1> QED
    BY <1>1 DEF Used, Harmless

(* A new root is empty, so a new user's words are harmless.                *)
LEMMA RootHarmless ==
    ASSUME NEW free, NEW mem, NEW new, NEW rs, NEW rest, NEW us, NEW vs,
           Forest(free, mem, rs, rest), free # <<>>, Emptied(free, mem, new),
           us \subseteq rs, Harmless(mem, us), vs \subseteq us \cup {Head(free)}
    PROVE  Harmless(new, vs)
PROOF
  <1>1. Used(free, mem, new)
    BY DEF Used, Emptied
  <1>2. Harmless(new, us)
    BY <1>1, TakenHarmless
  <1>3. TreeOf(new, Head(free)) = {Head(free)}
    <2>1. PICK more : Joined(more, rs, free)
      BY DEF Joined
    <2>2. Forest(Tail(free), new, more, rest)
      BY <2>1, Roots
    <2> QED
      BY <2>1, <2>2, Roots
  <1>4. DOMAIN new[Head(free)] = {}
    BY DEF Emptied, Zeroed
  <1> QED
    BY <1>2, <1>3, <1>4 DEF Harmless

(* A page that is taken without the magic word brings none.                *)
LEMMA TakenMagic ==
    ASSUME NEW free, NEW mem, NEW new, NEW st, NEW more,
           Listing(free), free # <<>>, Used(free, mem, new), Magic(free, mem, st),
           st \subseteq more,
           0 \notin DOMAIN new[Head(free)] \/ new[Head(free)][0] # STACKMAGIC
    PROVE  Magic(Tail(free), new, more)
PROOF
  <1>1. ToSet(Tail(free)) \subseteq ToSet(free)
    BY TakeHead
  <1> QED
    BY <1>1 DEF Used, Magic

(* A word written into a page that is no upper table. *)
Writable(mem, rs, p, word) == p \notin Trunk(mem, rs) /\ (p \in Lows(mem, rs) => IsLeaf(word))

(* A word that leads nowhere, in a page that is no upper table, changes no *)
(* tree.                                                                   *)
LEMMA WordedTrees ==
    ASSUME NEW free, NEW mem, NEW rs, NEW rest, NEW new, NEW p, NEW i, NEW word,
           Forest(free, mem, rs, rest), Worded(mem, new, p, i, word),
           Writable(mem, rs, p, word)
    PROVE  /\ Forest(free, new, rs, rest)
           /\ Trunk(new, rs) = Trunk(mem, rs) /\ Lows(new, rs) = Lows(mem, rs)
           /\ \A r \in rs : TreeOf(new, r) = TreeOf(mem, r)
PROOF
  <1>1. Forest(free, new, rs, rest)
    BY Words DEF Writable
  <1>2. /\ Mids(new, rs) = Mids(mem, rs) /\ Lows(new, rs) = Lows(mem, rs)
        /\ \A r \in rs : TreeOf(new, r) = TreeOf(mem, r)
    BY <1>1, Words DEF Writable
  <1> QED
    BY <1>1, <1>2 DEF Trunk

(* Nor what is above the stacks.                                           *)
LEMMA WordedAbove ==
    ASSUME NEW free, NEW mem, NEW rs, NEW rest, NEW new, NEW p, NEW i, NEW word, NEW st, NEW us,
           Forest(free, mem, rs, rest), Worded(mem, new, p, i, word),
           Writable(mem, rs, p, word), us \subseteq rs, AboveOf(free, mem, rs, st, us)
    PROVE  AboveOf(free, new, rs, st, us)
PROOF
  <1>1. Forest(free, new, rs, rest)
    BY WordedTrees
  <1>2. /\ Trunk(new, rs) = Trunk(mem, rs) /\ \A r \in rs : TreeOf(new, r) = TreeOf(mem, r)
    BY <1>1, WordedTrees
  <1> QED
    BY <1>2 DEF AboveOf

(* Nor, outside their trees, the words of the users.                       *)
LEMMA WordedHarmless ==
    ASSUME NEW free, NEW mem, NEW rs, NEW rest, NEW new, NEW p, NEW i, NEW word, NEW us,
           Forest(free, mem, rs, rest), Worded(mem, new, p, i, word),
           Writable(mem, rs, p, word), us \subseteq rs,
           \A u \in us : p \notin TreeOf(mem, u), Harmless(mem, us)
    PROVE  Harmless(new, us)
PROOF
  <1>1. Forest(free, new, rs, rest)
    BY WordedTrees
  <1>2. \A r \in rs : TreeOf(new, r) = TreeOf(mem, r)
    BY <1>1, WordedTrees
  <1>3. \A u \in us : TreeOf(mem, u) \subseteq HeapPage
    BY TreeIs DEF Forest, Placed, Trunk
  <1> QED
    BY <1>2, <1>3 DEF Worded, Harmless

(* The magic word may go to a page above a stack.                          *)
LEMMA WordedMagic ==
    ASSUME NEW free, NEW mem, NEW new, NEW p, NEW i, NEW word, NEW st,
           Worded(mem, new, p, i, word), Magic(free, mem, st),
           i = 0 /\ word = STACKMAGIC => p - PAGE_SIZE \in st /\ p \notin ToSet(free)
    PROVE  Magic(free, new, st)
PROOF
  <1> SUFFICES ASSUME NEW x \in HeapPage, 0 \in DOMAIN new[x], new[x][0] = STACKMAGIC
               PROVE  x - PAGE_SIZE \in st /\ x \notin ToSet(free)
    BY DEF Magic
  <1>1. CASE x # p
    BY <1>1 DEF Worded, Magic
  <1>2. CASE x = p
    <2>1. new[p] = Put(mem[p], i, word)
      BY <1>2 DEF Worded
    <2>2. \/ 0 \in DOMAIN mem[p] /\ mem[p][0] = STACKMAGIC
          \/ i = 0 /\ word = STACKMAGIC
      BY <1>2, <2>1 DEF Put
    <2> QED
      BY <1>2, <2>2 DEF Magic
  <1> QED
    BY <1>1, <1>2

(* A record is two words, one in the stack and one above it.                *)
LEMMA RecordWords ==
    ASSUME NEW mem, NEW s \in HeapPage, Whole(mem)
    PROVE  LET one == [mem EXCEPT ![s] = Put(@, Fan - 1, Data)]
           IN  /\ Worded(mem, one, s, Fan - 1, Data)
               /\ Worded(one, WriteRecord(mem, s), s + PAGE_SIZE, 0, STACKMAGIC)
PROOF
  <1> DEFINE one == [mem EXCEPT ![s] = Put(@, Fan - 1, Data)]
             t   == s + PAGE_SIZE
             new == WriteRecord(mem, s)
  <1>1. Whole(mem) /\ s \in Nat /\ t # s
    BY Layout
  <1>2. Worded(mem, one, s, Fan - 1, Data)
    BY <1>1 DEF Worded, Whole
  <1>3. Worded(one, new, t, 0, STACKMAGIC)
    <2>1. new = [mem EXCEPT ![s] = Put(@, Fan - 1, Data), ![t] = Put(@, 0, STACKMAGIC)]
      BY DEF WriteRecord
    <2>2. mem = [x \in HeapPage |-> mem[x]]
      BY <1>1 DEF Whole
    <2> HIDE DEF new, t
    <2>3. new = [x \in HeapPage |-> IF x = t THEN Put(mem[t], 0, STACKMAGIC)
                                    ELSE IF x = s THEN Put(mem[s], Fan - 1, Data) ELSE mem[x]]
      BY <1>1, <2>1, <2>2
    <2>4. one = [x \in HeapPage |-> IF x = s THEN Put(mem[s], Fan - 1, Data) ELSE mem[x]]
      BY <2>2
    <2> HIDE DEF one
    <2> QED
      BY <1>1, <2>3, <2>4 DEF Worded, Whole
  <1> QED
    BY <1>2, <1>3

(* The record of a new stack: a word in it and the magic word above it.     *)
LEMMA RecordKeeps ==
    ASSUME NEW free, NEW mem, NEW rs, NEW rest, NEW s \in HeapPage, NEW st, NEW us,
           Forest(free, mem, rs, rest), s \in st, st \subseteq rest, us \subseteq rs,
           AboveOf(free, mem, rs, st, us), Harmless(mem, us), Magic(free, mem, st)
    PROVE  LET new == WriteRecord(mem, s)
           IN  /\ Forest(free, new, rs, rest)
               /\ Trunk(new, rs) = Trunk(mem, rs) /\ Lows(new, rs) = Lows(mem, rs)
               /\ \A r \in rs : TreeOf(new, r) = TreeOf(mem, r)
               /\ AboveOf(free, new, rs, st, us) /\ Harmless(new, us) /\ Magic(free, new, st)
PROOF
  <1> DEFINE one == [mem EXCEPT ![s] = Put(@, Fan - 1, Data)]
             t   == s + PAGE_SIZE
             new == WriteRecord(mem, s)
  <1>1. Whole(mem) /\ s \in Nat /\ t # s /\ t - PAGE_SIZE = s /\ Fan - 1 # 0
    BY Layout DEF Forest
  <1>2. /\ s \notin Trunk(mem, rs) /\ s \notin Lows(mem, rs)
        /\ \A u \in us : s \notin TreeOf(mem, u)
    <2>1. \A u \in us : TreeOf(mem, u) \subseteq Trunk(mem, rs) \cup Lows(mem, rs)
      BY TreeIs
    <2>2. rest \cap (Trunk(mem, rs) \cup Lows(mem, rs)) = {}
      BY DEF Forest, Placed, Trunk
    <2> QED
      BY <2>1, <2>2
  <1>3. Worded(mem, one, s, Fan - 1, Data) /\ Worded(one, new, t, 0, STACKMAGIC)
    BY <1>1, RecordWords
  <1> HIDE DEF one, new
  <1>5. Writable(mem, rs, s, Data)
    BY <1>2 DEF Writable
  <1>6. Forest(free, one, rs, rest)
    BY <1>3, <1>5, WordedTrees
  <1>7. /\ Trunk(one, rs) = Trunk(mem, rs) /\ Lows(one, rs) = Lows(mem, rs)
        /\ \A r \in rs : TreeOf(one, r) = TreeOf(mem, r)
    BY <1>3, <1>5, <1>6, WordedTrees
  <1>8. AboveOf(free, one, rs, st, us)
    BY <1>3, <1>5, WordedAbove
  <1>9. Harmless(one, us)
    BY <1>2, <1>3, <1>5, WordedHarmless
  <1>10. Magic(free, one, st)
    BY <1>1, <1>3, WordedMagic
  <1>11. t \notin ToSet(free) /\ t \notin Trunk(one, rs) /\ \A u \in us : t \notin TreeOf(one, u)
    BY <1>8 DEF AboveOf
  <1> HIDE DEF t
  <1>12. Writable(one, rs, t, STACKMAGIC)
    BY <1>11 DEF Writable, IsLeaf, STACKMAGIC
  <1>13. Forest(free, new, rs, rest)
    BY <1>3, <1>6, <1>12, WordedTrees
  <1>14. /\ Trunk(new, rs) = Trunk(one, rs) /\ Lows(new, rs) = Lows(one, rs)
         /\ \A r \in rs : TreeOf(new, r) = TreeOf(one, r)
    BY <1>3, <1>6, <1>12, <1>13, WordedTrees
  <1>15. AboveOf(free, new, rs, st, us)
    BY <1>3, <1>6, <1>8, <1>12, WordedAbove
  <1>16. Harmless(new, us)
    BY <1>3, <1>6, <1>9, <1>11, <1>12, WordedHarmless
  <1>17. Magic(free, new, st)
    BY <1>1, <1>3, <1>10, <1>11, WordedMagic
  <1> QED
    BY <1>7, <1>13, <1>14, <1>15, <1>16, <1>17 DEF new

------------------------------------------------------------------------------
(* The table that the test cases make by hand: a root, a table under it, a  *)
(* lowest table under that, and a leaf.                                     *)
LEMMA AllocFields ==
    ASSUME NEW m, Fields(m)
    PROVE  Fields(pgalloc(m))
PROOF
  <1>1. \/ pgalloc(m) = [m EXCEPT !.fault = TRUE]
        \/ pgalloc(m) = [m EXCEPT !.free = Tail(@), !.mem[Head(m.free)] = Zeroed]
    BY DEF pgalloc
  <1> QED
    BY <1>1 DEF Fields

(* The word createFakeTable() writes, and the address it is for.           *)
FakeWord == Leaf(FakeMap[1].pa, FakeMap[1].attr)
FakeVa   == FakeMap[1].va

Cleared(f, x)     == [f EXCEPT ![x] = Zeroed]
Entry(f, x, i, w) == [f EXCEPT ![x] = Put(@, i, w)]

(* createFakeTable(), when it does not fault: three pages are cleared and  *)
(* linked.                                                                 *)
LEMMA FakeFields ==
    ASSUME NEW m, Fields(m), ~FakeTable(m).fault
    PROVE  /\ m.free # <<>> /\ Tail(m.free) # <<>> /\ Tail(Tail(m.free)) # <<>>
           /\ m.free \in Seq(HeapPage) => Len(m.free) >= 3
           /\ FakeTable(m).free = Tail(Tail(Tail(m.free)))
           /\ \E f1, f2, f3, f4, f5 :
                /\ f1 = Cleared(m.mem, Head(m.free)) /\ f2 = Cleared(f1, Head(Tail(m.free)))
                /\ f3 = Cleared(f2, Head(Tail(Tail(m.free))))
                /\ f4 = Entry(f3, m.free[1], VPN2(FakeVa), Link(m.free[2]))
                /\ f5 = Entry(f4, m.free[2], VPN1(FakeVa), Link(m.free[3]))
                /\ FakeTable(m).mem = Entry(f5, m.free[3], VPN0(FakeVa), FakeWord)
PROOF
  <1> DEFINE a1 == pgalloc(m)  a2 == pgalloc(a1)  a3 == pgalloc(a2)
             s  == FakeTable(m)
             r  == m.free[1]  t == m.free[2]  u == m.free[3]
             i  == VPN2(FakeVa)  j == VPN1(FakeVa)  k == VPN0(FakeVa)
  <1>1. Fields(a1) /\ Fields(a2) /\ Fields(a3)
    BY AllocFields
  <1>2. \/ s = [a3 EXCEPT !.fault = TRUE]
        \/ /\ ~a3.fault /\ ~(Len(m.free) < 3)
           /\ s = [a3 EXCEPT !.mem[r] = Put(@, i, Link(t)), !.mem[t] = Put(@, j, Link(u)),
                             !.mem[u] = Put(@, k, FakeWord)]
    BY DEF FakeTable, FakeVa, FakeWord
  <1> HIDE DEF a1, a2, a3, s, r, t, u, i, j, k
  <1>3. ~s.fault
    BY DEF s
  <1>4. /\ ~a3.fault /\ ~(Len(m.free) < 3)
        /\ s = [a3 EXCEPT !.mem[r] = Put(@, i, Link(t)), !.mem[t] = Put(@, j, Link(u)),
                          !.mem[u] = Put(@, k, FakeWord)]
    <2>1. [a3 EXCEPT !.fault = TRUE].fault
      BY <1>1 DEF Fields
    <2> QED
      BY <1>2, <1>3, <2>1
  <1>5. /\ ~a2.fault /\ a2.free # <<>> /\ a3.free = Tail(a2.free)
        /\ a3.mem = Cleared(a2.mem, Head(a2.free))
    BY <1>1, <1>4, Alloc DEF a3, Cleared
  <1>6. /\ ~a1.fault /\ a1.free # <<>> /\ a2.free = Tail(a1.free)
        /\ a2.mem = Cleared(a1.mem, Head(a1.free))
    BY <1>1, <1>5, Alloc DEF a2, Cleared
  <1>7. /\ m.free # <<>> /\ a1.free = Tail(m.free)
        /\ a1.mem = Cleared(m.mem, Head(m.free))
    BY <1>6, Alloc DEF a1, Cleared
  <1>8. s.free = a3.free
    BY <1>1, <1>4 DEF Fields
  <1>9. s.mem = Entry(Entry(Entry(a3.mem, r, i, Link(t)), t, j, Link(u)), u, k, FakeWord)
    BY <1>1, <1>4 DEF Fields, Entry
  <1>10. m.free \in Seq(HeapPage) => Len(m.free) >= 3
    BY <1>4
  <1>11. /\ m.free # <<>> /\ Tail(m.free) # <<>> /\ Tail(Tail(m.free)) # <<>>
         /\ s.free = Tail(Tail(Tail(m.free)))
         /\ a3.mem = Cleared(Cleared(Cleared(m.mem, Head(m.free)), Head(Tail(m.free))),
                             Head(Tail(Tail(m.free))))
    BY <1>5, <1>6, <1>7, <1>8
  <1> QED
    BY <1>9, <1>10, <1>11 DEF s, r, t, u, i, j, k

(* So createFakeTable() is a new root, grown.                              *)
LEMMA FakeGrows ==
    ASSUME NEW m, NEW rs, NEW rest, NEW more, Fields(m), Forest(m.free, m.mem, rs, rest),
           Joined(more, rs, m.free), ~FakeTable(m).fault
    PROVE  LET n == FakeTable(m)
           IN  /\ m.free # <<>>
               /\ \E mid : /\ Emptied(m.free, m.mem, mid)
                           /\ Grown(Tail(m.free), mid, n.free, n.mem, more, rest,
                                    Head(m.free), {FakeWord})
                           /\ OneWord(mid, n.mem, more, Head(m.free), VPN2(FakeVa),
                                      VPN1(FakeVa), VPN0(FakeVa), FakeWord)
               /\ Narrow(m.mem) => Narrow(n.mem)
               /\ n.free # <<>> => Head(n.free) + PAGE_SIZE \in Lows(n.mem, more)
PROOF
  <1> DEFINE free == m.free  mem == m.mem  n == FakeTable(m)
             r  == Head(free)  t == Head(Tail(free))  u == Head(Tail(Tail(free)))
             i2 == VPN2(FakeVa)  i1 == VPN1(FakeVa)  i0 == VPN0(FakeVa)
             ok == {FakeWord}
             g1 == [x \in HeapPage |-> IF x = r THEN Zeroed ELSE mem[x]]
             g2 == [x \in HeapPage |-> IF x = r THEN Put(Zeroed, i2, Link(t))
                                       ELSE IF x = t THEN Zeroed ELSE mem[x]]
             g3 == [x \in HeapPage |-> IF x = r THEN Put(Zeroed, i2, Link(t))
                                       ELSE IF x = t THEN Put(Zeroed, i1, Link(u))
                                       ELSE IF x = u THEN Zeroed ELSE mem[x]]
             g4 == [x \in HeapPage |-> IF x = r THEN Put(Zeroed, i2, Link(t))
                                       ELSE IF x = t THEN Put(Zeroed, i1, Link(u))
                                       ELSE IF x = u THEN Put(Zeroed, i0, FakeWord)
                                       ELSE mem[x]]
  <1>1. /\ free # <<>> /\ Tail(free) # <<>> /\ Tail(Tail(free)) # <<>>
        /\ n.free = Tail(Tail(Tail(free)))
    BY FakeFields
  <1>2. i2 \in Index /\ i1 \in Index /\ i0 \in Index
    <2>1. truncpage(PROCSTACKADDR) \in Nat
      BY MemoryLayout, Divide DEF truncpage
    <2>2. FakeVa \in Nat
      BY <2>1 DEF FakeVa, FakeMap, mapPage
    <2> QED
      BY <2>2, Indices
  <1>3. Whole(mem) /\ Listing(free)
    BY DEF Forest
  <1>4. Listing(Tail(free)) /\ Listing(Tail(Tail(free))) /\ Listing(Tail(Tail(Tail(free))))
    BY <1>1, <1>3, TakeHead
  <1>5. /\ r \in HeapPage /\ r \notin ToSet(Tail(free))
        /\ ToSet(Tail(free)) = ToSet(Tail(Tail(free))) \cup {t}
        /\ t \in HeapPage /\ t \notin ToSet(Tail(Tail(free)))
        /\ ToSet(Tail(Tail(free))) = ToSet(Tail(Tail(Tail(free)))) \cup {u}
        /\ u \in HeapPage
        /\ Tail(Tail(Tail(free))) # <<>> => Head(Tail(Tail(Tail(free)))) + PAGE_SIZE = u
    BY <1>1, <1>3, <1>4, TakeHead
  <1>6. r # t /\ r # u /\ t # u
    BY <1>5
  <1>7. free[1] = r /\ free[2] = t /\ free[3] = u
    <2>1. free \in Seq(HeapPage) /\ Len(free) >= 3
      BY <1>3, FakeFields DEF Listing
    <2> QED
      BY <2>1
  <1>8. n.mem = g4
    <2>1. PICK f1, f2, f3, f4, f5 :
             /\ f1 = Cleared(mem, r) /\ f2 = Cleared(f1, t) /\ f3 = Cleared(f2, u)
             /\ f4 = Entry(f3, r, i2, Link(t)) /\ f5 = Entry(f4, t, i1, Link(u))
             /\ n.mem = Entry(f5, u, i0, FakeWord)
      BY <1>7, FakeFields
    <2>2. mem = [x \in HeapPage |-> mem[x]]
      BY <1>3 DEF Whole
    <2> HIDE DEF free, mem, n, r, t, u, i2, i1, i0
    <2>3. f1 = [x \in HeapPage |-> IF x = r THEN Zeroed ELSE mem[x]]
      BY <2>1, <2>2 DEF Cleared
    <2>4. f2 = [x \in HeapPage |-> IF x = r \/ x = t THEN Zeroed ELSE mem[x]]
      BY <2>1, <2>3 DEF Cleared
    <2>5. f3 = [x \in HeapPage |-> IF x = r \/ x = t \/ x = u THEN Zeroed ELSE mem[x]]
      BY <2>1, <2>4 DEF Cleared
    <2>6. f4 = [x \in HeapPage |-> IF x = r THEN Put(Zeroed, i2, Link(t))
                                   ELSE IF x = t \/ x = u THEN Zeroed ELSE mem[x]]
      BY <1>5, <2>1, <2>5 DEF Entry
    <2>7. f5 = [x \in HeapPage |-> IF x = r THEN Put(Zeroed, i2, Link(t))
                                   ELSE IF x = t THEN Put(Zeroed, i1, Link(u))
                                   ELSE IF x = u THEN Zeroed ELSE mem[x]]
      BY <1>5, <1>6, <2>1, <2>6 DEF Entry
    <2>8. Entry(f5, u, i0, FakeWord) = [x \in HeapPage |->
             IF x = r THEN Put(Zeroed, i2, Link(t))
             ELSE IF x = t THEN Put(Zeroed, i1, Link(u))
             ELSE IF x = u THEN Put(Zeroed, i0, FakeWord) ELSE mem[x]]
      BY <1>5, <1>6, <2>7 DEF Entry
    <2> QED
      BY <2>1, <2>8
  <1>9. Emptied(free, mem, g1)
    BY <1>5 DEF Emptied, Whole
  <1>10. Extended(Tail(free), g1, g2, r, i2)
    <2>1. i2 \notin DOMAIN g1[r] /\ g1[r] = Zeroed
      BY <1>5 DEF Zeroed
    <2> HIDE DEF free, mem, r, t, u, i2, i1, i0
    <2>2. /\ Whole(g2) /\ g2[t] = Zeroed /\ g2[r] = Put(Zeroed, i2, Link(t))
          /\ \A x \in HeapPage \ {t, r} : g2[x] = g1[x]
      BY <1>5, <1>6 DEF Whole
    <2> QED
      BY <2>1, <2>2 DEF Extended, t
  <1>11. Extended(Tail(Tail(free)), g2, g3, t, i1)
    <2>1. i1 \notin DOMAIN g2[t] /\ g2[t] = Zeroed
      BY <1>5, <1>6 DEF Zeroed
    <2> HIDE DEF free, mem, r, t, u, i2, i1, i0
    <2>2. /\ Whole(g3) /\ g3[u] = Zeroed /\ g3[t] = Put(Zeroed, i1, Link(u))
          /\ \A x \in HeapPage \ {u, t} : g3[x] = g2[x]
      BY <1>5, <1>6 DEF Whole
    <2> QED
      BY <2>1, <2>2 DEF Extended, u
  <1>12. Worded(g3, g4, u, i0, FakeWord)
    <2> HIDE DEF free, mem, r, t, u, i2, i1, i0
    <2>2. /\ Whole(g4) /\ g3[u] = Zeroed /\ g4[u] = Put(Zeroed, i0, FakeWord)
          /\ \A x \in HeapPage \ {u} : g4[x] = g3[x]
      BY <1>5, <1>6 DEF Whole
    <2> QED
      BY <2>2 DEF Worded
  <1> HIDE DEF g1, g2, g3, g4, i2, i1, i0, n
  <1>13. Forest(Tail(free), g1, more, rest)
    BY <1>1, <1>9, Roots
  <1>14. r \in more /\ r \in Trunk(g1, more) /\ r \in TreeOf(g1, r)
    BY DEF Joined, Trunk, TreeOf
  <1>15. Grown(Tail(free), g1, Tail(Tail(free)), g2, more, rest, r, ok)
    BY <1>1, <1>2, <1>10, <1>13, <1>14, TableGrows
  <1>16. Forest(Tail(Tail(free)), g2, more, rest)
    BY <1>15 DEF Grown
  <1>17. t \in Trunk(g2, more) /\ t \in TreeOf(g2, r)
    <2>1. LinkAt(g2, r, i2) /\ g2[r][i2].to = t
      <3>1. g2[r] = Put(g1[r], i2, Link(t))
        BY <1>10 DEF Extended
      <3> HIDE DEF t, r
      <3> QED
        BY <3>1 DEF Put, Link, LinkAt, IsLeaf
    <2>2. t \in Under(g2, r)
      BY <1>2, <2>1, UnderIs
    <2> QED
      BY <1>14, <2>2 DEF Trunk, Mids, TreeOf
  <1>18. Grown(Tail(Tail(free)), g2, Tail(Tail(Tail(free))), g3, more, rest, r, ok)
    BY <1>1, <1>2, <1>11, <1>14, <1>16, <1>17, TableGrows
  <1>19. Forest(Tail(Tail(Tail(free))), g3, more, rest)
    BY <1>18 DEF Grown
  <1>27. LinkAt(g3, r, i2) /\ g3[r][i2].to = t /\ LinkAt(g3, t, i1) /\ g3[t][i1].to = u
    <2>1. LinkAt(g3, t, i1) /\ g3[t][i1].to = u
      <3>1. g3[t] = Put(g2[t], i1, Link(u))
        BY <1>11 DEF Extended
      <3> HIDE DEF t, u
      <3> QED
        BY <3>1 DEF Put, Link, LinkAt, IsLeaf
    <2>2. LinkAt(g3, r, i2) /\ g3[r][i2].to = t
      <3>1. g2[r] = Put(g1[r], i2, Link(t)) /\ g3[r] = g2[r]
        <4>1. \A x \in HeapPage \ {u, t} : g3[x] = g2[x]
          BY <1>11 DEF Extended
        <4> QED
          BY <1>5, <1>6, <1>10, <4>1 DEF Extended
      <3> HIDE DEF t, r
      <3> QED
        BY <3>1 DEF Put, Link, LinkAt, IsLeaf
    <2> QED
      BY <2>1, <2>2
  <1>20. u \in Lows(g3, more) /\ u \in TreeOf(g3, r)
    <2>3. u \in Under(g3, t) /\ t \in Under(g3, r)
      BY <1>2, <1>27, UnderIs
    <2> QED
      BY <1>14, <2>3 DEF Lows, Mids, TreeOf
  <1>21. /\ Grown(Tail(Tail(Tail(free))), g3, Tail(Tail(Tail(free))), g4, more, rest, r, ok)
         /\ Lows(g4, more) = Lows(g3, more)
    <2>1. IsLeaf(FakeWord)
      BY DEF IsLeaf, FakeWord, FakeMap, mapPage, Leaf
    <2>2. FakeWord \in ok
      OBVIOUS
    <2> HIDE DEF free, mem, r, t, u, ok
    <2>3. Grown(Tail(Tail(Tail(free))), g3, Tail(Tail(Tail(free))), g4, more, rest, r, ok)
      BY <1>12, <1>14, <1>19, <1>20, <2>1, <2>2, LeafGrows
    <2> QED
      BY <1>12, <1>14, <1>19, <1>20, <2>1, <2>2, <2>3, LeafGrows
  <1>22. Grown(Tail(free), g1, Tail(Tail(Tail(free))), g4, more, rest, r, ok)
    BY <1>15, <1>18, <1>21, GrownTwice
  <1>23. n.free # <<>> => Head(n.free) + PAGE_SIZE \in Lows(n.mem, more)
    BY <1>1, <1>5, <1>8, <1>20, <1>21
  <1>24. SameWords(g1, g2, more) /\ (Narrow(g1) => Narrow(g2))
    BY <1>1, <1>2, <1>10, <1>13, <1>14, TableReads
  <1>25. SameWords(g2, g3, more) /\ (Narrow(g2) => Narrow(g3))
    <2>1. Tail(Tail(free)) # <<>> /\ t \in Trunk(g2, more)
      BY <1>1, <1>17
    <2> DEFINE l == Tail(Tail(free))
    <2>2. l # <<>> /\ Forest(l, g2, more, rest) /\ Extended(l, g2, g3, t, i1)
      BY <1>11, <1>16, <2>1
    <2> HIDE DEF l, t
    <2> QED
      BY <1>2, <2>1, <2>2, TableReads
  <1>26. OneWord(g3, g4, more, r, i2, i1, i0, FakeWord) /\ (Narrow(g3) => Narrow(g4))
    <2>1. LinkAt(g3, r, i2) /\ g3[r][i2].to = t /\ LinkAt(g3, t, i1) /\ g3[t][i1].to = u
      BY <1>27
    <2>2. Worded(g3, g4, g3[g3[r][i2].to][i1].to, i0, FakeWord)
      BY <1>12, <2>1
    <2> HIDE DEF r, t, u
    <2>3. LinkAt(g3, g3[r][i2].to, i1)
      BY <2>1
    <2>4. OneWord(g3, g4, more, r, i2, i1, i0, FakeWord)
      BY <1>2, <1>14, <1>19, <2>1, <2>2, <2>3, WordReads
    <2>5. Narrow(g3) => Narrow(g4)
      BY <1>2, <1>12, WordNarrow
    <2> QED
      BY <2>4, <2>5
  <1>28. OneWord(g1, g4, more, r, i2, i1, i0, FakeWord)
    BY <1>24, <1>25, <1>26 DEF SameWords, OneWord
  <1>29. Narrow(mem) => Narrow(g4)
    <2>1. Narrow(mem) => Narrow(g1)
      BY <1>9 DEF Emptied, Narrow, Zeroed
    <2> QED
      BY <1>24, <1>25, <1>26, <2>1
  <1> QED
    BY <1>1, <1>8, <1>9, <1>22, <1>23, <1>28, <1>29 DEF n, i2, i1, i0

------------------------------------------------------------------------------
(* The addresses that a table of three levels can hold.                     *)
Span == Fan * Fan * Fan * PAGE_SIZE
Va   == {x \in 0 .. Span - 1 : PageAligned(x)}

(* One step of a number fits below the next.                                *)
LEMMA Fits ==
    ASSUME NEW a \in Nat, NEW b \in Nat, NEW m \in Nat, a < b
    PROVE  a * m \in Nat /\ a * m + m <= b * m
PROOF
  <1>1. b - a - 1 \in Nat
    OBVIOUS
  <1> DEFINE c == b - a - 1
  <1>2. c \in Nat /\ b = a + 1 + c
    BY <1>1
  <1> HIDE DEF c
  <1>3. b * m = a * m + m + c * m /\ c * m \in Nat /\ a * m \in Nat
    BY <1>2
  <1> QED
    BY <1>3

(* The sizes of a page, a lowest table's reach and an upper table's.        *)
LEMMA Sizes ==
    /\ PAGE_SIZE * Fan \in Nat /\ PAGE_SIZE * Fan > 0
    /\ PAGE_SIZE * Fan * Fan \in Nat /\ PAGE_SIZE * Fan * Fan > 0
    /\ Span \in Nat /\ Span = Fan * (PAGE_SIZE * Fan * Fan)
PROOF
  <1>1. ASSUME NEW a \in Nat, NEW b \in Nat, a > 0, b > 0 PROVE a * b \in Nat /\ a * b > 0
    BY <1>1
  <1> DEFINE p == PAGE_SIZE  f == Fan  s == p * f
  <1>2. s \in Nat /\ s > 0 /\ p \in Nat /\ f \in Nat /\ f > 0
    BY <1>1, Layout
  <1>3. s * f \in Nat /\ s * f > 0
    BY <1>1, <1>2
  <1>4. f * f * f * p = f * (p * f * f) /\ f * f * f * p \in Nat
    BY <1>2
  <1> QED
    BY <1>2, <1>3, <1>4 DEF Span

(* Three indices are the address's own.                                     *)
LEMMA Digits ==
    ASSUME NEW i2 \in Index, NEW i1 \in Index, NEW i0 \in Index
    PROVE  LET a == PageOf(i2, i1, i0)
           IN  a \in Va /\ VPN2(a) = i2 /\ VPN1(a) = i1 /\ VPN0(a) = i0
PROOF
  <1> DEFINE p == PAGE_SIZE  f == Fan  n1 == i2 * f + i1  n0 == n1 * f + i0
             a == PageOf(i2, i1, i0)  k == i1 * f + i0
  <1>1. /\ p \in Nat /\ p > 0 /\ f \in Nat /\ f > 0
        /\ i2 \in Nat /\ i1 \in Nat /\ i0 \in Nat /\ i2 < f /\ i1 < f /\ i0 < f
        /\ i2 \in Int /\ i1 \in Int /\ i0 \in Int /\ 0 <= i2 /\ 0 <= i1 /\ 0 <= i0
    BY Layout DEF Index
  <1>2. a = n0 * p
    BY DEF PageOf
  <1> HIDE DEF p, f, a
  <1>3. i2 * f \in Nat /\ i1 * f \in Nat /\ i1 * f + f <= f * f
    BY <1>1, Fits
  <1>4. n1 \in Nat /\ k \in Nat /\ k < f * f /\ f * f \in Nat
    BY <1>1, <1>3
  <1>5. n1 * f \in Nat
    BY <1>1, <1>4
  <1>6. n0 \in Nat
    BY <1>1, <1>5
  <1>7. n1 \div f = i2 /\ n1 % f = i1
    <2>1. (i2 * f + i1) \div f = i2 /\ (i2 * f + i1) % f = i1
      BY <1>1, Divides
    <2> QED
      BY <2>1
  <1> HIDE DEF n1
  <1>8. n0 \div f = n1 /\ n0 % f = i0
    <2>1. n1 \in Int
      BY <1>4
    <2>2. (n1 * f + i0) \div f = n1 /\ (n1 * f + i0) % f = i0
      BY <1>1, <2>1, Divides
    <2> QED
      BY <2>2
  <1> HIDE DEF n0
  <1>9. a \div p = n0 /\ a % p = 0
    <2>1. a = n0 * p + 0 /\ n0 * p \in Nat
      BY <1>1, <1>2, <1>6
    <2>2. (n0 * p + 0) \div p = n0 /\ (n0 * p + 0) % p = 0
      BY <1>1, <1>6, Divides
    <2> QED
      BY <2>1, <2>2
  <1>10. a \div (p * f) = n1
    <2> DEFINE m == p * f  r == i0 * p
    <2>1. m \in Nat /\ m > 0
      BY Sizes DEF p, f
    <2>2. r \in Nat /\ r + p <= f * p /\ f * p = m
      BY <1>1, Fits
    <2>3. a = n1 * m + r
      <3>1. n0 = n1 * f + i0
        BY DEF n0
      <3>2. (n1 * f + i0) * p = n1 * (p * f) + i0 * p
        BY <1>1, <1>4
      <3> QED
        BY <1>2, <3>1, <3>2
    <2> HIDE DEF m, r
    <2>4. r < m
      BY <1>1, <2>1, <2>2
    <2>5. (n1 * m + r) \div m = n1
      <3>1. n1 \in Int /\ r \in Int /\ 0 <= r
        BY <1>4, <2>2
      <3> QED
        BY <2>1, <2>4, <3>1, Divides
    <2> QED
      BY <2>3, <2>5 DEF m
  <1>11. a \div (p * f * f) = i2 /\ a \in Nat /\ a < f * (p * f * f)
    <2> DEFINE m == p * f * f  r == k * p
    <2>1. m \in Nat /\ m > 0
      BY Sizes DEF p, f
    <2>2. r \in Nat /\ r + p <= (f * f) * p /\ (f * f) * p = m
      <3>1. (f * f) * p = m
        BY <1>1
      <3> HIDE DEF k, m
      <3> QED
        BY <1>1, <1>4, <3>1, Fits
    <2>3. a = i2 * m + r
      <3>1. n0 = (i2 * f + i1) * f + i0
        BY DEF n0, n1
      <3>2. ((i2 * f + i1) * f + i0) * p = i2 * (p * f * f) + (i1 * f + i0) * p
        BY <1>1
      <3> QED
        BY <1>2, <3>1, <3>2
    <2> HIDE DEF m, r
    <2>4. r < m
      BY <1>1, <2>1, <2>2
    <2>5. (i2 * m + r) \div m = i2
      BY <1>1, <2>1, <2>2, <2>4, Divides
    <2>6. i2 * m \in Nat /\ i2 * m + m <= f * m
      BY <1>1, <2>1, Fits
    <2>7. f * m \in Nat
      BY <1>1, <2>1
    <2>8. a \in Nat /\ a < f * m
      BY <2>1, <2>2, <2>3, <2>4, <2>6, <2>7
    <2> QED
      BY <2>3, <2>5, <2>8 DEF m
  <1>12. i2 % f = i2
    <2>1. 0 \in Int /\ f \in Nat /\ i2 \in Int /\ 0 <= i2 /\ i2 < f
      BY <1>1
    <2>2. (0 * f + i2) % f = i2
      BY <2>1, Divides
    <2>3. 0 * f + i2 = i2
      BY <1>1
    <2> QED
      BY <2>2, <2>3
  <1>13. VPN2(a) = i2 /\ VPN1(a) = i1 /\ VPN0(a) = i0
    BY <1>7, <1>8, <1>9, <1>10, <1>11, <1>12 DEF VPN2, VPN1, VPN0, p, f
  <1>14. a \in Va
    <2>1. Span \in Nat /\ Span = f * (p * f * f)
      BY Sizes DEF p, f
    <2>2. a \in 0 .. Span - 1
      BY <1>11, <2>1
    <2> QED
      BY <1>9, <2>2 DEF Va, PageAligned, p
  <1> QED
    BY <1>13, <1>14 DEF a

(* An address is that of its three indices.                                 *)
LEMMA PageIs ==
    ASSUME NEW va \in Va
    PROVE  /\ va \in Nat /\ VPN2(va) \in Index /\ VPN1(va) \in Index /\ VPN0(va) \in Index
           /\ PageOf(VPN2(va), VPN1(va), VPN0(va)) = va
PROOF
  <1> DEFINE p == PAGE_SIZE  f == Fan  q0 == va \div p  q1 == q0 \div f  q2 == q1 \div f
             r0 == q0 % f  r1 == q1 % f
  <1>1. /\ va \in Nat /\ va % p = 0 /\ p \in Nat /\ p > 0 /\ f \in Nat /\ f > 0
        /\ va < f * (p * f * f)
    BY Layout, Sizes DEF Va, PageAligned
  <1> HIDE DEF p, f
  <1>2. q0 \in Int /\ va = q0 * p
    BY <1>1, Divide
  <1>3. q0 \in Nat
    <2>1. ASSUME q0 < 0 PROVE FALSE
      <3>1. 0 - q0 \in Nat /\ 0 - q0 > 0
        BY <1>2, <2>1
      <3>2. (0 - q0) * p > 0 /\ (0 - q0) * p = 0 - q0 * p
        BY <1>1, <1>2, <3>1
      <3> QED
        BY <1>1, <1>2, <3>2
    <2> QED
      BY <1>2, <2>1
  <1> HIDE DEF q0
  <1>4. q1 \in Int /\ r0 \in 0 .. f - 1 /\ q0 = q1 * f + r0
    BY <1>1, <1>3, Divide
  <1>5. q1 \in Nat
    <2>1. ASSUME q1 < 0 PROVE FALSE
      <3>1. 0 - q1 - 1 \in Nat
        BY <1>4, <2>1
      <3>2. (0 - q1 - 1) * f \in Nat /\ (0 - q1 - 1) * f = 0 - q1 * f - f
        BY <1>1, <1>4, <3>1
      <3> HIDE DEF q1, r0
      <3> QED
        BY <1>1, <1>3, <1>4, <3>2
    <2> QED
      BY <1>4, <2>1
  <1> HIDE DEF q1, r0
  <1>6. q2 \in Int /\ r1 \in 0 .. f - 1 /\ q1 = q2 * f + r1
    BY <1>1, <1>5, Divide
  <1>7. q2 \in Nat
    <2>1. ASSUME q2 < 0 PROVE FALSE
      <3>1. 0 - q2 - 1 \in Nat
        BY <1>6, <2>1
      <3>2. (0 - q2 - 1) * f \in Nat /\ (0 - q2 - 1) * f = 0 - q2 * f - f
        BY <1>1, <1>6, <3>1
      <3> HIDE DEF q2, r1
      <3> QED
        BY <1>1, <1>5, <1>6, <3>2
    <2> QED
      BY <1>6, <2>1
  <1> HIDE DEF q2, r1
  <1>8. va = ((q2 * f + r1) * f + r0) * p
    BY <1>2, <1>4, <1>6
  <1>9. q2 < f
    <2>1. ASSUME q2 >= f PROVE FALSE
      <3> DEFINE m == p * f * f  d == q2 - f  k == r1 * f + r0
      <3>1. m \in Nat /\ d \in Nat /\ q2 = d + f
        BY <1>1, <1>7, <2>1, Sizes DEF p, f
      <3>2. r1 \in Nat /\ r0 \in Nat
        BY <1>1, <1>4, <1>6
      <3>3. k \in Nat
        BY <1>1, <3>2
      <3>4. ((q2 * f + r1) * f + r0) * p = q2 * (p * f * f) + (r1 * f + r0) * p
        BY <1>1, <1>7, <3>2
      <3>5. va = q2 * m + k * p
        BY <1>8, <3>4
      <3> HIDE DEF m, k, d
      <3>6. k * p \in Nat /\ d * m \in Nat /\ q2 * m = d * m + f * m /\ f * m \in Nat
        BY <1>1, <3>1, <3>3
      <3>7. va < f * m
        BY <1>1 DEF m
      <3> QED
        BY <1>1, <3>5, <3>6, <3>7
    <2> QED
      BY <1>1, <1>7, <2>1
  <1>10. q2 \in Index /\ r1 \in Index /\ r0 \in Index
    BY <1>1, <1>4, <1>6, <1>7, <1>9 DEF Index, f
  <1>11. va = PageOf(q2, r1, r0)
    BY <1>8 DEF PageOf, p, f
  <1>12. VPN2(va) = q2 /\ VPN1(va) = r1 /\ VPN0(va) = r0
    BY <1>10, <1>11, Digits
  <1> QED
    BY <1>1, <1>10, <1>11, <1>12

(* Two addresses with the same indices are one.                             *)
LEMMA SamePage ==
    ASSUME NEW a \in Va, NEW b \in Va, VPN2(a) = VPN2(b), VPN1(a) = VPN1(b), VPN0(a) = VPN0(b)
    PROVE  a = b
PROOF
  BY PageIs

------------------------------------------------------------------------------
(* What is asked to be mapped: readable pages, and for a process nothing    *)
(* that would let it at the heap.                                           *)
Attr     == {"R", "W", "X", "U", "A", "D", "G"}
Asks     == {q \in [va : Va, pa : Nat, attr : SUBSET Attr] : "R" \in q.attr}
UserAsks == {q \in Asks : OkWord(Leaf(q.pa, q.attr))}

(* The pages of a range lie in it.                                         *)
LEMMA Steps ==
    ASSUME NEW n \in Nat, NEW i \in 1 .. n, NEW m \in Nat
    PROVE  (i - 1) * m \in Nat /\ (i - 1) * m + m <= n * m
PROOF
  <1>1. n - i \in Nat /\ i - 1 \in Nat
    OBVIOUS
  <1>2. (n - i) * m \in Nat /\ (i - 1) * m \in Nat
    BY <1>1
  <1>3. n * m = (i - 1) * m + m + (n - i) * m
    OBVIOUS
  <1> QED
    BY <1>2, <1>3

(* As many pages as mapAddressRange() counts cover the length, none is     *)
(* left over.                                                              *)
LEMMA PageCount ==
    ASSUME NEW length \in Nat
    PROVE  LET n == roundpage(length) \div PAGE_SIZE
           IN  /\ n \in Nat /\ n * PAGE_SIZE >= length /\ n * PAGE_SIZE < length + PAGE_SIZE
               /\ length > 0 => n > 0
PROOF
  <1> DEFINE n == (length + PAGE_SIZE - 1) \div PAGE_SIZE
  <1>1. /\ n \in Int /\ n * PAGE_SIZE >= length /\ n * PAGE_SIZE < length + PAGE_SIZE
        /\ (n * PAGE_SIZE) \div PAGE_SIZE = n
    BY Layout, RoundsUp
  <1>2. roundpage(length) \div PAGE_SIZE = n
    BY <1>1 DEF roundpage
  <1> HIDE DEF n
  <1>3. ASSUME n <= -1 PROVE FALSE
    <2>1. n * PAGE_SIZE <= -PAGE_SIZE
      BY <1>1, <1>3, Layout
    <2> QED
      BY <1>1, <2>1, Layout
  <1>4. length > 0 => n # 0
    BY <1>1, Layout
  <1> QED
    BY <1>1, <1>2, <1>3, <1>4

(* The sum of page addresses is one.                                       *)
LEMMA Adjacent ==
    ASSUME NEW x \in Nat, NEW y \in Nat, PageAligned(x), PageAligned(y)
    PROVE  PageAligned(x + y)
PROOF
  <1>1. x % PAGE_SIZE = 0 /\ y % PAGE_SIZE = 0
    BY DEF PageAligned
  <1> DEFINE k == y \div PAGE_SIZE
  <1>2. k \in Int /\ k * PAGE_SIZE = y
    BY <1>1, Layout, Exact, Divide
  <1> HIDE DEF k
  <1>3. (x + k * PAGE_SIZE) % PAGE_SIZE = 0
    <2>1. PAGE_SIZE \in Nat /\ PAGE_SIZE > 0 /\ x % PAGE_SIZE = 0 /\ x \in Int
      BY <1>1, Layout
    <2> QED
      BY <1>2, <2>1, StaysAligned
  <1> QED
    BY <1>2, <1>3 DEF PageAligned

(* The bounds of the image's parts. *)
LEMMA Parts ==
    /\ UART_BASE \in Nat /\ PageAligned(UART_BASE) /\ UART_BASE + PAGE_SIZE \in Nat
    /\ PageAligned(UART_BASE + PAGE_SIZE) /\ UART_BASE + PAGE_SIZE <= memheap
    /\ _start \in Nat /\ PageAligned(_start) /\ _ctxsws \in Nat /\ PageAligned(_ctxsws)
    /\ _start <= _ctxsws /\ _ctxsws <= memheap /\ _ctxsws + 2 * PAGE_SIZE \in Nat
    /\ _ctxsws <= _ctxsws + 2 * PAGE_SIZE
    /\ _interrupte \in Nat /\ PageAligned(_interrupte) /\ _interrupte <= _datas
    /\ _datas \in Nat /\ PageAligned(_datas) /\ _datas <= memheap
    /\ memheap \in Nat /\ PageAligned(memheap) /\ memheap <= maxaddr /\ maxaddr \in Nat
    /\ PROCSTACKADDR \in Nat /\ PageAligned(PROCSTACKADDR)
    /\ SWAPAREAADDR \in Nat /\ PageAligned(SWAPAREAADDR) /\ SWAPAREAADDR \notin HeapPage
    /\ MagicPage \in Nat
PROOF
  <1>1. ASSUME NEW x \in Nat, PageAligned(x) PROVE PageAligned(x + PAGE_SIZE)
    <2>1. (0 * PAGE_SIZE + 0) % PAGE_SIZE = 0 /\ (1 * PAGE_SIZE + 0) % PAGE_SIZE = 0
      BY Layout, Divides
    <2>2. PageAligned(PAGE_SIZE)
      BY <2>1, Layout DEF PageAligned
    <2> QED
      BY <1>1, <2>2, Layout, Adjacent
  <1>2. PageAligned(memheap)
    <2>1. _end \in Nat /\ PageAligned(_end) /\ KernelStack \in Nat /\ PageAligned(KernelStack)
      BY MemoryLayout
    <2> QED
      BY <2>1, Adjacent DEF memheap
  <1>3. /\ UART_BASE \in Nat /\ PageAligned(UART_BASE) /\ UART_BASE + PAGE_SIZE <= _start
        /\ _start \in Nat /\ PageAligned(_start) /\ _ctxsws \in Nat /\ PageAligned(_ctxsws)
        /\ _interrupte \in Nat /\ PageAligned(_interrupte)
        /\ _datas \in Nat /\ PageAligned(_datas) /\ _end \in Nat /\ KernelStack \in Nat
        /\ PROCSTACKADDR \in Nat /\ PageAligned(PROCSTACKADDR)
        /\ SWAPAREAADDR \in Nat /\ PageAligned(SWAPAREAADDR) /\ SWAPAREAADDR > maxaddr
        /\ MagicPage \in Nat
        /\ _start < _ctxsws /\ _ctxsws < _interrupte /\ _interrupte <= _datas /\ _datas <= _end
    BY MemoryLayout
  <1>4. memheap = _end + KernelStack
    BY DEF memheap
  <1>5. PageAligned(UART_BASE + PAGE_SIZE)
    BY <1>1, <1>3
  <1> QED
    BY <1>2, <1>3, <1>4, <1>5, Layout

(* Nothing is cut from a page's address.                                   *)
LEMMA Truncated ==
    ASSUME NEW x \in Nat, PageAligned(x)
    PROVE  truncpage(x) = x
PROOF
  BY Layout, Exact DEF truncpage, PageAligned

(* The addresses the kernel uses are among them.                            *)
LEMMA InSpan ==
    /\ memheap <= Span /\ maxaddr + 1 <= Span /\ _ctxsws + 2 * PAGE_SIZE <= Span
    /\ PROCSTACKADDR \in Va /\ SWAPAREAADDR \in Va
    /\ UART_BASE + PAGE_SIZE <= Span /\ _datas <= Span
PROOF
  <1>1. Span \in Nat
    BY Sizes
  <1>2. /\ PROCSTACKADDR \in Nat /\ SWAPAREAADDR \in Nat
        /\ PageAligned(PROCSTACKADDR) /\ PageAligned(SWAPAREAADDR)
        /\ maxaddr < PROCSTACKADDR /\ PROCSTACKADDR < Span /\ SWAPAREAADDR < Span
    BY MemoryLayout DEF Span
  <1>3. PROCSTACKADDR \in Va /\ SWAPAREAADDR \in Va
    BY <1>1, <1>2 DEF Va
  <1>4. maxaddr + 1 <= Span
    BY <1>1, <1>2, Layout
  <1>5. PROCSTACKADDR + PAGE_SIZE <= Span
    <2> DEFINE k == PROCSTACKADDR \div PAGE_SIZE  n == Fan * Fan * Fan  m == PAGE_SIZE
    <2>1. /\ PROCSTACKADDR = k * m /\ k \in Int /\ m \in Nat /\ m > 0 /\ n \in Int
          /\ Span = n * m
      BY <1>2, Layout, Exact, Divide DEF PageAligned, Span
    <2> HIDE DEF k, n, m
    <2>2. k < n
      <3>1. ASSUME k >= n PROVE FALSE
        <4>1. k - n \in Nat /\ (k - n) * m \in Nat /\ k * m = (k - n) * m + n * m
          BY <2>1, <3>1
        <4> QED
          BY <1>1, <1>2, <2>1, <4>1
      <3> QED
        BY <2>1, <3>1
    <2>3. n - k - 1 \in Nat /\ (n - k - 1) * m \in Nat /\ n * m = k * m + m + (n - k - 1) * m
      BY <2>1, <2>2
    <2>4. PROCSTACKADDR + m <= Span
      BY <1>1, <1>2, <2>1, <2>3
    <2> QED
      BY <2>4 DEF m
  <1>6. /\ memheap \in Nat /\ memheap + PAGE_SIZE <= maxaddr /\ _ctxsws \in Nat /\ _ctxsws < memheap
        /\ _datas \in Nat /\ _datas <= memheap /\ UART_BASE + PAGE_SIZE <= memheap
    <2>1. /\ _ctxsws \in Nat /\ _interrupte \in Nat /\ _datas \in Nat /\ _end \in Nat
          /\ KernelStack \in Nat /\ _ctxsws < _interrupte /\ _interrupte <= _datas /\ _datas <= _end
          /\ memheap + PAGE_SIZE <= maxaddr
      BY MemoryLayout
    <2> QED
      BY <2>1, Parts DEF memheap
  <1>7. PAGE_SIZE \in Nat /\ PAGE_SIZE > 1 /\ maxaddr \in Nat /\ UART_BASE \in Nat
    BY Layout, Parts
  <1>8. _ctxsws + 2 * PAGE_SIZE <= Span
    BY <1>1, <1>2, <1>5, <1>6, <1>7
  <1>9. memheap <= Span /\ UART_BASE + PAGE_SIZE <= Span /\ _datas <= Span
    BY <1>1, <1>4, <1>6, <1>7
  <1> QED
    BY <1>3, <1>4, <1>8, <1>9

(* The pages of a range that keep their address are readable, and each is   *)
(* an address of the tables.                                                *)
LEMMA SameAsks ==
    ASSUME NEW from \in Nat, NEW to \in Nat, from <= to, PageAligned(from), to <= Span,
           NEW attr \in SUBSET Attr, "R" \in attr
    PROVE  /\ Same(from, to, attr) \in Seq(Asks)
           /\ \A i \in DOMAIN Same(from, to, attr) :
                Same(from, to, attr)[i] = [va |-> from + (i - 1) * PAGE_SIZE,
                                           pa |-> from + (i - 1) * PAGE_SIZE, attr |-> attr]
PROOF
  <1> DEFINE length == to - from  n == roundpage(length) \div PAGE_SIZE  s == Same(from, to, attr)
             q(i) == [va |-> from + (i - 1) * PAGE_SIZE, pa |-> from + (i - 1) * PAGE_SIZE,
                      attr |-> attr]
  <1>1. length \in Nat
    OBVIOUS
  <1>2. n \in Nat /\ n * PAGE_SIZE < length + PAGE_SIZE
    BY <1>1, PageCount
  <1>3. s = [i \in 1 .. n |-> q(i)]
    BY Truncated DEF Same, mapAddress
  <1> HIDE DEF n, s
  <1>4. ASSUME NEW i \in 1 .. n PROVE q(i) \in Asks
    <2> DEFINE d == (i - 1) * PAGE_SIZE
    <2>1. d \in Nat /\ d + PAGE_SIZE <= n * PAGE_SIZE
      BY <1>2, Steps, Layout
    <2>2. (from + (i - 1) * PAGE_SIZE) % PAGE_SIZE = 0
      <3>1. from \in Int /\ i - 1 \in Int /\ PAGE_SIZE > 0 /\ from % PAGE_SIZE = 0
        BY <1>2, Layout DEF PageAligned
      <3> QED
        BY <3>1, Layout, StaysAligned
    <2>3. q(i) = [va |-> from + d, pa |-> from + d, attr |-> attr] /\ PageAligned(from + d)
      BY <2>2 DEF PageAligned
    <2> HIDE DEF d, q
    <2>4. n * PAGE_SIZE \in Nat
      BY <1>2, Layout
    <2> DEFINE e == n * PAGE_SIZE
    <2>5. e \in Nat /\ d + PAGE_SIZE <= e /\ e < length + PAGE_SIZE
      BY <1>2, <2>1, <2>4
    <2> HIDE DEF e
    <2>6. from + d \in 0 .. Span - 1
      BY <2>1, <2>5, Layout, Sizes
    <2>7. from + d \in Va /\ from + d \in Nat
      BY <2>1, <2>3, <2>6 DEF Va
    <2> QED
      BY <2>3, <2>7 DEF Asks
  <1>5. s \in [1 .. n -> Asks]
    <2> HIDE DEF q
    <2> QED
      BY <1>3, <1>4
  <1>6. s \in Seq(Asks)
    BY <1>2, <1>5, SeqDef
  <1>7. \A i \in DOMAIN s : s[i] = q(i)
    BY <1>3
  <1> QED
    BY <1>6, <1>7 DEF s

(* Pages below the heap are harmless in a process, read-only or the        *)
(* device's.                                                               *)
LEMMA SameUser ==
    ASSUME NEW from \in Nat, NEW to \in Nat, from <= to, to <= memheap,
           PageAligned(from), PageAligned(to), NEW attr \in SUBSET Attr, "R" \in attr,
           "W" \in attr => from = UART_BASE /\ to = UART_BASE + PAGE_SIZE
    PROVE  Same(from, to, attr) \in Seq(UserAsks)
PROOF
  <1> DEFINE s == Same(from, to, attr)  n == roundpage(to - from) \div PAGE_SIZE
  <1>1. s \in Seq(Asks)
    <2>1. to <= Span
      BY InSpan, Layout, Sizes
    <2> QED
      BY <2>1, SameAsks
  <1>2. n \in Nat /\ n * PAGE_SIZE < to - from + PAGE_SIZE
    BY PageCount
  <1>3. DOMAIN s = 1 .. n /\ Len(s) = n
    BY <1>2 DEF Same, mapAddress
  <1>4. \A i \in 1 .. n : s[i].pa = from + (i - 1) * PAGE_SIZE /\ s[i].attr = attr
    BY DEF Same, mapAddress
  <1>5. to - from \in Nat
    OBVIOUS
  <1> HIDE DEF s, n
  <1>6. n * PAGE_SIZE = to - from
    <2>1. (from \div PAGE_SIZE) * PAGE_SIZE = from /\ (to \div PAGE_SIZE) * PAGE_SIZE = to
          /\ from \div PAGE_SIZE \in Int /\ to \div PAGE_SIZE \in Int
      BY Layout, Exact, Divide DEF PageAligned
    <2>2. n * PAGE_SIZE >= to - from
      BY <1>5, PageCount DEF n
    <2> DEFINE k == (to \div PAGE_SIZE) - (from \div PAGE_SIZE)
    <2>3. k \in Int /\ k * PAGE_SIZE = to - from
      BY <2>1, Layout
    <2> HIDE DEF k
    <2>4. ASSUME n >= k + 1 PROVE FALSE
      <3>1. n * PAGE_SIZE >= (k + 1) * PAGE_SIZE
        BY <1>2, <2>3, <2>4, Layout
      <3> QED
        BY <1>2, <2>3, <3>1, Layout
    <2>5. n <= k
      BY <1>2, <2>3, <2>4
    <2>6. n * PAGE_SIZE <= k * PAGE_SIZE
      BY <1>2, <2>3, <2>5, Layout
    <2> QED
      BY <1>2, <2>2, <2>3, <2>6, Layout
  <1>7. ASSUME NEW i \in 1 .. n PROVE s[i] \in UserAsks
    <2>1. s[i] \in Asks
      BY <1>1, <1>3, <1>7
    <2>2. (i - 1) * PAGE_SIZE \in Nat /\ (i - 1) * PAGE_SIZE + PAGE_SIZE <= to - from
      BY <1>2, <1>6, Steps, Layout
    <2>3. s[i].pa \in Nat /\ s[i].pa < memheap
      <3> DEFINE d == (i - 1) * PAGE_SIZE
      <3>1. d \in Nat /\ d + PAGE_SIZE <= to - from /\ s[i].pa = from + d
        BY <1>4, <1>7, <2>2
      <3>2. PAGE_SIZE \in Nat /\ PAGE_SIZE > 1 /\ memheap \in Nat
        BY Layout
      <3> HIDE DEF d
      <3> QED
        BY <3>1, <3>2
    <2>4. s[i].pa \notin HeapPage
      BY <2>3, Layout
    <2>5. ASSUME "W" \in attr PROVE s[i].pa = UART_BASE
      <3>1. to - from = PAGE_SIZE
        BY <2>5, Layout
      <3>2. (i - 1) * PAGE_SIZE = 0
        BY <2>2, <3>1, Layout
      <3> QED
        BY <1>4, <2>5, <3>2
    <2>6. OkWord(Leaf(s[i].pa, s[i].attr))
      BY <1>4, <2>4, <2>5 DEF OkWord, Leaf
    <2> QED
      BY <2>1, <2>6 DEF UserAsks
  <1>8. s \in [1 .. n -> UserAsks]
    <2>1. s = [i \in 1 .. n |-> s[i]]
      BY <1>1, <1>3
    <2> QED
      BY <1>7, <2>1
  <1> QED
    BY <1>2, <1>8, SeqDef DEF s

(* So is what the process may not use.                                     *)
LEMMA Harmlessly ==
    ASSUME NEW s \in Seq(Asks), \A i \in DOMAIN s : "U" \notin s[i].attr
    PROVE  s \in Seq(UserAsks)
PROOF
  <1>1. Len(s) \in Nat /\ DOMAIN s = 1 .. Len(s) /\ s = [i \in 1 .. Len(s) |-> s[i]]
    OBVIOUS
  <1>2. ASSUME NEW i \in 1 .. Len(s) PROVE s[i] \in UserAsks
    <2>1. s[i] \in Asks
      BY <1>1
    <2>2. "U" \notin Leaf(s[i].pa, s[i].attr).attr
      BY <1>1 DEF Leaf
    <2> QED
      BY <2>1, <2>2 DEF UserAsks, OkWord
  <1>3. s \in [1 .. Len(s) -> UserAsks]
    BY <1>1, <1>2
  <1> QED
    BY <1>1, <1>3, SeqDef

(* A range that is not empty asks for a page.                              *)
LEMMA SomePages ==
    ASSUME NEW from \in Nat, NEW to \in Nat, from < to, NEW attr
    PROVE  1 \in DOMAIN Same(from, to, attr)
PROOF
  <1> DEFINE n == roundpage(to - from) \div PAGE_SIZE
  <1>1. to - from \in Nat /\ to - from > 0
    OBVIOUS
  <1>2. n \in Nat /\ n > 0
    BY <1>1, PageCount
  <1>3. DOMAIN Same(from, to, attr) = 1 .. n
    BY DEF Same, mapAddress
  <1> HIDE DEF n
  <1> QED
    BY <1>2, <1>3

(* The five ranges of a map, one after another.                            *)
Five(s1, s2, s3, s4, s5) == s1 \o s2 \o s3 \o s4 \o s5

(* The kernel's map and a process's are five ranges, one after another.    *)
LEMMA FiveParts ==
    ASSUME NEW S, NEW s1 \in Seq(S), NEW s2 \in Seq(S), NEW s3 \in Seq(S),
           NEW s4 \in Seq(S), NEW s5 \in Seq(S)
    PROVE  /\ Five(s1, s2, s3, s4, s5) \in Seq(S)
           /\ 1 \in DOMAIN s1 => Five(s1, s2, s3, s4, s5) # <<>>
PROOF
  <1>1. s1 \o s2 \in Seq(S) /\ Len(s1 \o s2) = Len(s1) + Len(s2)
    OBVIOUS
  <1>2. s1 \o s2 \o s3 \in Seq(S) /\ Len(s1 \o s2 \o s3) = Len(s1) + Len(s2) + Len(s3)
    BY <1>1
  <1>3. /\ s1 \o s2 \o s3 \o s4 \in Seq(S)
        /\ Len(s1 \o s2 \o s3 \o s4) = Len(s1) + Len(s2) + Len(s3) + Len(s4)
    BY <1>2
  <1>4. /\ s1 \o s2 \o s3 \o s4 \o s5 \in Seq(S)
        /\ Len(s1 \o s2 \o s3 \o s4 \o s5) = Len(s1) + Len(s2) + Len(s3) + Len(s4) + Len(s5)
    BY <1>3
  <1>5. 1 \in DOMAIN s1 => Len(s1) > 0
    OBVIOUS
  <1>6. Len(s1) \in Nat /\ Len(s2) \in Nat /\ Len(s3) \in Nat /\ Len(s4) \in Nat /\ Len(s5) \in Nat
    OBVIOUS
  <1>7. 1 \in DOMAIN s1 => Len(s1 \o s2 \o s3 \o s4 \o s5) > 0
    BY <1>4, <1>5, <1>6
  <1> QED
    BY <1>4, <1>7 DEF Five

(* Both ask for the image as safemem.h says, the process's harmlessly.     *)
LEMMA ImageAsks ==
    /\ Image({}, {"W"}) \in Seq(Asks) /\ Image({}, {"W"}) # <<>>
    /\ Image({"U"}, {"U"}) \in Seq(UserAsks)
PROOF
  <1>1. 1 \in DOMAIN Same(UART_BASE, UART_BASE + PAGE_SIZE, {"R", "W", "A", "D"} \cup {})
    BY Parts, Layout, SomePages
  <1>2. Image({}, {"W"}) \in Seq(Asks) /\ Image({}, {"W"}) # <<>>
    <2> DEFINE s1 == Same(UART_BASE, UART_BASE + PAGE_SIZE, {"R", "W", "A", "D"} \cup {})
               s2 == Same(_start, _ctxsws, {"R", "X", "A", "D", "G"} \cup {})
               s3 == Same(_ctxsws, _ctxsws + 2 * PAGE_SIZE, {"R", "X", "A", "D", "G"})
               s4 == Same(_interrupte, _datas, {"R", "X", "A", "D", "G"} \cup {})
               s5 == Same(_datas, memheap, {"R", "A", "D"} \cup {"W"})
    <2>1. s1 \in Seq(Asks) /\ s2 \in Seq(Asks) /\ s3 \in Seq(Asks) /\ s4 \in Seq(Asks)
          /\ s5 \in Seq(Asks)
      <3>1. /\ {"R", "W", "A", "D"} \cup {} \in SUBSET Attr
            /\ {"R", "X", "A", "D", "G"} \cup {} \in SUBSET Attr
            /\ {"R", "X", "A", "D", "G"} \in SUBSET Attr
            /\ {"R", "A", "D"} \cup {"W"} \in SUBSET Attr
            /\ "R" \in {"R", "W", "A", "D"} \cup {} /\ "R" \in {"R", "X", "A", "D", "G"} \cup {}
            /\ "R" \in {"R", "X", "A", "D", "G"} /\ "R" \in {"R", "A", "D"} \cup {"W"}
        BY DEF Attr
      <3>2. UART_BASE <= UART_BASE + PAGE_SIZE
        BY Parts, Layout
      <3>8. /\ UART_BASE + PAGE_SIZE <= Span /\ _ctxsws <= Span /\ _ctxsws + 2 * PAGE_SIZE <= Span
            /\ _datas <= Span /\ memheap <= Span
        BY Parts, InSpan, Sizes, Layout
      <3>3. s1 \in Seq(Asks)
        BY <3>1, <3>2, <3>8, Parts, SameAsks
      <3>4. s2 \in Seq(Asks)
        BY <3>1, <3>8, Parts, SameAsks
      <3>5. s3 \in Seq(Asks)
        BY <3>1, <3>8, Parts, SameAsks
      <3>6. s4 \in Seq(Asks)
        BY <3>1, <3>8, Parts, SameAsks
      <3>7. s5 \in Seq(Asks)
        BY <3>1, <3>8, Parts, SameAsks
      <3> QED
        BY <3>3, <3>4, <3>5, <3>6, <3>7
    <2>2. Image({}, {"W"}) = Five(s1, s2, s3, s4, s5)
      BY DEF Image, Five
    <2>3. 1 \in DOMAIN s1
      BY <1>1
    <2> HIDE DEF s1, s2, s3, s4, s5
    <2> QED
      BY <2>1, <2>2, <2>3, FiveParts
  <1>3. Image({"U"}, {"U"}) \in Seq(UserAsks)
    <2> DEFINE s1 == Same(UART_BASE, UART_BASE + PAGE_SIZE, {"R", "W", "A", "D"} \cup {"U"})
               s2 == Same(_start, _ctxsws, {"R", "X", "A", "D", "G"} \cup {"U"})
               s3 == Same(_ctxsws, _ctxsws + 2 * PAGE_SIZE, {"R", "X", "A", "D", "G"})
               s4 == Same(_interrupte, _datas, {"R", "X", "A", "D", "G"} \cup {"U"})
               s5 == Same(_datas, memheap, {"R", "A", "D"} \cup {"U"})
    <2>1. /\ {"R", "W", "A", "D"} \cup {"U"} \in SUBSET Attr
          /\ {"R", "X", "A", "D", "G"} \cup {"U"} \in SUBSET Attr
          /\ {"R", "X", "A", "D", "G"} \in SUBSET Attr
          /\ {"R", "A", "D"} \cup {"U"} \in SUBSET Attr
          /\ "R" \in {"R", "W", "A", "D"} \cup {"U"} /\ "R" \in {"R", "X", "A", "D", "G"} \cup {"U"}
          /\ "R" \in {"R", "X", "A", "D", "G"} /\ "R" \in {"R", "A", "D"} \cup {"U"}
          /\ "W" \notin {"R", "X", "A", "D", "G"} \cup {"U"} /\ "W" \notin {"R", "A", "D"} \cup {"U"}
          /\ "U" \notin {"R", "X", "A", "D", "G"}
      BY DEF Attr
    <2>2. UART_BASE <= UART_BASE + PAGE_SIZE /\ _datas <= memheap
      BY Parts, Layout
    <2>3. s1 \in Seq(UserAsks)
      BY <2>1, <2>2, Parts, SameUser
    <2>4. s2 \in Seq(UserAsks)
      BY <2>1, Parts, SameUser
    <2>5. s3 \in Seq(UserAsks)
      <3>1. s3 \in Seq(Asks)
        BY <2>1, Parts, InSpan, SameAsks
      <3>2. \A i \in DOMAIN s3 : s3[i].attr = {"R", "X", "A", "D", "G"}
        BY DEF Same, mapAddress
      <3> QED
        BY <2>1, <3>1, <3>2, Harmlessly
    <2>6. s4 \in Seq(UserAsks)
      BY <2>1, Parts, SameUser
    <2>7. s5 \in Seq(UserAsks)
      BY <2>1, Parts, SameUser
    <2>8. Image({"U"}, {"U"}) = Five(s1, s2, s3, s4, s5)
      BY DEF Image, Five
    <2> HIDE DEF s1, s2, s3, s4, s5
    <2> QED
      BY <2>3, <2>4, <2>5, <2>6, <2>7, <2>8, FiveParts
  <1> QED
    BY <1>2, <1>3

(* The requests the kernel makes. *)
LEMMA Requests ==
    /\ KernelMap \in Seq(Asks) /\ KernelMap # <<>>
    /\ UserMap \in Seq(UserAsks) /\ UserMap # <<>> /\ Last(UserMap).va = PROCSTACKADDR
    /\ SwapMap \in Seq(UserAsks) /\ SwapMap # <<>> /\ Tail(SwapMap) = <<>>
    /\ Head(SwapMap).va = SWAPAREAADDR
PROOF
  <1>1. KernelMap \in Seq(Asks) /\ KernelMap # <<>>
    <2> DEFINE s == Image({}, {"W"})  t == Same(memheap, maxaddr, {"R", "W", "A", "D"})
    <2>1. s \in Seq(Asks) /\ s # <<>>
      BY ImageAsks
    <2>2. t \in Seq(Asks)
      <3>1. {"R", "W", "A", "D"} \in SUBSET Attr /\ "R" \in {"R", "W", "A", "D"}
        BY DEF Attr
      <3>2. maxaddr <= Span
        BY InSpan, Layout, Sizes
      <3> QED
        BY <3>1, <3>2, Parts, SameAsks
    <2>3. KernelMap = s \o t
      BY DEF KernelMap
    <2> HIDE DEF s, t
    <2>4. s \o t \in Seq(Asks) /\ Len(s \o t) > 0
      BY <2>1, <2>2
    <2> QED
      BY <2>3, <2>4
  <1>2. UserMap \in Seq(UserAsks) /\ UserMap # <<>> /\ Last(UserMap).va = PROCSTACKADDR
    <2> DEFINE s == Image({"U"}, {"U"})
               q == [va |-> truncpage(PROCSTACKADDR), pa |-> SWAPAREAADDR,
                     attr |-> {"R", "W", "U", "A", "D"}]
    <2>1. s \in Seq(UserAsks)
      BY ImageAsks
    <2>2. UserMap = s \o <<q>>
      BY DEF UserMap, mapPage
    <2>3. q.va = PROCSTACKADDR
      BY Parts, Truncated
    <2>4. q \in Asks
      BY <2>3, Parts, InSpan DEF Asks, Attr
    <2>5. OkWord(Leaf(q.pa, q.attr))
      BY Parts DEF OkWord, Leaf
    <2> HIDE DEF s, q
    <2>6. q \in UserAsks
      BY <2>4, <2>5 DEF UserAsks
    <2>7. s \o <<q>> \in Seq(UserAsks) /\ Len(s \o <<q>>) = Len(s) + 1 /\ Len(s) \in Nat
      BY <2>1, <2>6
    <2>8. (s \o <<q>>)[Len(s) + 1] = q
      BY <2>1, <2>6
    <2>9. UserMap # <<>>
      BY <2>2, <2>7
    <2> QED
      BY <2>2, <2>3, <2>7, <2>8, <2>9 DEF Last
  <1>3. /\ SwapMap \in Seq(UserAsks) /\ SwapMap # <<>> /\ Tail(SwapMap) = <<>>
        /\ Head(SwapMap).va = SWAPAREAADDR
    <2> DEFINE q == [va |-> truncpage(SWAPAREAADDR), pa |-> SWAPAREAADDR,
                     attr |-> {"R", "W", "A", "D"}]
    <2>1. SwapMap = <<q>>
      BY DEF SwapMap, mapPage
    <2>2. q.va = SWAPAREAADDR
      BY Parts, Truncated
    <2>3. q \in Asks
      BY <2>2, Parts, InSpan DEF Asks, Attr
    <2>4. OkWord(Leaf(q.pa, q.attr))
      BY DEF OkWord, Leaf
    <2> HIDE DEF q
    <2> QED
      BY <2>1, <2>2, <2>3, <2>4 DEF UserAsks
  <1> QED
    BY <1>1, <1>2, <1>3

------------------------------------------------------------------------------
(* The list pgInit() makes: all pages of the heap but the last, downwards. *)
nents == roundpage(maxaddr - memheap) \div PAGE_SIZE

(* pgInit() counts the pages of the heap; pgfreerange() lists all but the  *)
(* last.                                                                   *)
LEMMA Counted ==
    /\ nents \in Nat /\ nents > 1 /\ memheap + nents * PAGE_SIZE = maxaddr + 1
    /\ pgfreerange(memheap, maxaddr) =
          [i \in 1 .. nents - 1 |-> memheap + (nents - 1 - i) * PAGE_SIZE]
PROOF
  <1> DEFINE q == memheap \div PAGE_SIZE  p == (maxaddr + 1) \div PAGE_SIZE
  <1>1. /\ q \in Int /\ q * PAGE_SIZE = memheap
        /\ p \in Int /\ p * PAGE_SIZE = maxaddr + 1
    <2>1. memheap % PAGE_SIZE = 0 /\ (maxaddr + 1) % PAGE_SIZE = 0
      BY Parts, MemoryLayout DEF PageAligned
    <2> QED
      BY <2>1, Layout, Exact, Divide
  <1> HIDE DEF p, q
  <1> DEFINE n == p - q
  <1>2. n \in Int /\ memheap + n * PAGE_SIZE = maxaddr + 1
    BY <1>1, Layout
  <1> HIDE DEF n
  <1>3. n > 1
    <2>1. memheap + PAGE_SIZE <= maxaddr
      BY MemoryLayout
    <2>2. ASSUME n <= 1 PROVE FALSE
      <3>1. n * PAGE_SIZE <= 1 * PAGE_SIZE
        BY <1>2, <2>2, Layout
      <3> QED
        BY <1>2, <2>1, <3>1, Layout
    <2> QED
      BY <1>2, <2>2
  <1>4. nents = n
    <2>1. maxaddr - memheap + PAGE_SIZE - 1 = n * PAGE_SIZE + (PAGE_SIZE - 2)
      BY <1>2, Layout
    <2>2. (n * PAGE_SIZE + (PAGE_SIZE - 2)) \div PAGE_SIZE = n
      BY <1>2, Layout, Divides
    <2>3. (n * PAGE_SIZE + 0) \div PAGE_SIZE = n /\ n * PAGE_SIZE + 0 = n * PAGE_SIZE
      BY <1>2, Layout, Divides
    <2> QED
      BY <2>1, <2>2, <2>3 DEF nents, roundpage
  <1>5. roundpage(memheap) = memheap
    <2>1. memheap + PAGE_SIZE - 1 = q * PAGE_SIZE + (PAGE_SIZE - 1)
      BY <1>1, Layout
    <2>2. (q * PAGE_SIZE + (PAGE_SIZE - 1)) \div PAGE_SIZE = q
      BY <1>1, Layout, Divides
    <2> QED
      BY <1>1, <2>1, <2>2 DEF roundpage
  <1>6. (maxaddr - 1 - memheap) \div PAGE_SIZE = n - 1
    <2> DEFINE k == n - 1  r == PAGE_SIZE - 2
    <2>1. /\ maxaddr - 1 - memheap = k * PAGE_SIZE + r /\ k \in Int
          /\ r \in Int /\ 0 <= r /\ r < PAGE_SIZE
      BY <1>2, Layout
    <2> HIDE DEF k, r
    <2>2. (k * PAGE_SIZE + r) \div PAGE_SIZE = k
      BY <2>1, Layout, Divides
    <2> QED
      BY <2>1, <2>2 DEF k
  <1>7. pgfreerange(memheap, maxaddr) =
          [i \in 1 .. n - 1 |-> memheap + (n - 1 - i) * PAGE_SIZE]
    <2> DEFINE k == (maxaddr - 1 - memheap) \div PAGE_SIZE
    <2>1. pgfreerange(memheap, maxaddr) = [i \in 1 .. k |-> memheap + (k - i) * PAGE_SIZE]
      <3>1. ~(maxaddr > maxaddr \/ memheap < memheap \/ maxaddr < memheap) /\ ~(maxaddr <= memheap)
        BY Layout
      <3> QED
        BY <1>5, <3>1 DEF pgfreerange
    <2> QED
      BY <1>6, <2>1
  <1> QED
    BY <1>2, <1>3, <1>4, <1>7

(* That list is in order, and finite, and as long as it should be.         *)
LEMMA Ranged ==
    /\ Listing(pgfreerange(memheap, maxaddr))
    /\ IsFiniteSet(ToSet(pgfreerange(memheap, maxaddr)))
    /\ Cardinality(ToSet(pgfreerange(memheap, maxaddr))) = nents - 1
    /\ LastPage \notin ToSet(pgfreerange(memheap, maxaddr))
    /\ \A x \in ToSet(pgfreerange(memheap, maxaddr)) : x + PAGE_SIZE <= LastPage
PROOF
  <1> DEFINE f == pgfreerange(memheap, maxaddr)  c == nents - 1
  <1>1. c \in Nat /\ c > 0 /\ memheap + c * PAGE_SIZE + PAGE_SIZE = maxaddr + 1
    BY Counted, Layout
  <1>2. f = [i \in 1 .. c |-> memheap + (c - i) * PAGE_SIZE]
    BY Counted
  <1>3. LastPage = memheap + c * PAGE_SIZE
    BY <1>1, Layout DEF LastPage
  <1> HIDE DEF f, c
  <1>4. ASSUME NEW i \in 1 .. c
        PROVE  /\ f[i] \in HeapPage /\ f[i] + PAGE_SIZE <= LastPage
               /\ f[i] = memheap + (c - i) * PAGE_SIZE
    <2>1. c - i \in Nat /\ c - i + 1 <= c
      BY <1>1
    <2>2. (c - i) * PAGE_SIZE \in Nat
      BY <2>1, Layout
    <2>3. (c - i + 1) * PAGE_SIZE <= c * PAGE_SIZE
      BY <1>1, <2>1, Layout
    <2>4. (c - i + 1) * PAGE_SIZE = (c - i) * PAGE_SIZE + PAGE_SIZE /\ c * PAGE_SIZE \in Nat
      BY <1>1, <2>1, Layout
    <2>5. f[i] = memheap + (c - i) * PAGE_SIZE
      BY <1>2
    <2>6. f[i] \in memheap .. maxaddr
      BY <1>1, <1>3, <2>2, <2>3, <2>4, <2>5, Layout
    <2>7. (memheap + (c - i) * PAGE_SIZE) % PAGE_SIZE = 0
      <3>1. memheap % PAGE_SIZE = 0 /\ memheap \in Int /\ c - i \in Int /\ PAGE_SIZE > 0
        BY <2>1, Parts, Layout DEF PageAligned
      <3> QED
        BY <3>1, Layout, StaysAligned
    <2> QED
      BY <1>3, <2>2, <2>3, <2>4, <2>5, <2>6, <2>7, Layout DEF HeapPage, PageAligned
  <1>5. f \in [1 .. c -> HeapPage]
    BY <1>2, <1>4
  <1>6. f \in Seq(HeapPage) /\ DOMAIN f = 1 .. c /\ Len(f) = c
    BY <1>1, <1>5, SeqDef
  <1>7. ASSUME NEW j \in 1 .. c, NEW k \in 1 .. c, j < k PROVE f[j] > f[k]
    <2>1. c - j >= c - k + 1 /\ c - j \in Nat /\ c - k \in Nat
      BY <1>1, <1>7
    <2>2. (c - j) * PAGE_SIZE >= (c - k + 1) * PAGE_SIZE
      BY <2>1, Layout
    <2>3. (c - k + 1) * PAGE_SIZE = (c - k) * PAGE_SIZE + PAGE_SIZE
      BY <2>1, Layout
    <2>4. (c - k) * PAGE_SIZE \in Nat /\ (c - j) * PAGE_SIZE \in Nat
      BY <2>1, Layout
    <2> QED
      BY <1>4, <2>2, <2>3, <2>4, Layout
  <1>8. ASSUME NEW k \in 1 .. c, k > 1 PROVE f[k] + PAGE_SIZE = f[k - 1]
    <2>1. k - 1 \in 1 .. c /\ c - (k - 1) = c - k + 1 /\ c - k \in Nat
      BY <1>1, <1>8
    <2>2. (c - k + 1) * PAGE_SIZE = (c - k) * PAGE_SIZE + PAGE_SIZE
          /\ (c - k) * PAGE_SIZE \in Nat
      BY <2>1, Layout
    <2> QED
      BY <1>4, <2>1, <2>2, Layout
  <1>9. Listing(f)
    BY <1>6, <1>7, <1>8 DEF Listing
  <1>10. ToSet(f) = {f[i] : i \in 1 .. c}
    BY <1>6 DEF ToSet
  <1>11. f \in Bijection(1 .. c, ToSet(f))
    <2>1. \A a, b \in 1 .. c : f[a] = f[b] => a = b
      <3>1. ASSUME NEW a \in 1 .. c, NEW b \in 1 .. c, f[a] = f[b], a # b PROVE FALSE
        <4>1. a < b \/ b < a
          BY <3>1, <1>1
        <4>2. f[a] \in Nat /\ f[b] \in Nat
          BY <1>4, Layout
        <4> QED
          BY <1>7, <3>1, <4>1, <4>2
      <3> QED
        BY <3>1
    <2>2. f \in [1 .. c -> ToSet(f)]
      BY <1>5, <1>10
    <2> QED
      BY <1>10, <2>1, <2>2, Fun_IsBij
  <1>12. IsFiniteSet(ToSet(f)) /\ Cardinality(ToSet(f)) = c
    <2>1. IsFiniteSet(1 .. c) /\ Cardinality(1 .. c) = c
      BY <1>1, FS_Interval
    <2> DEFINE S == 1 .. c  T == ToSet(f)
    <2>2. ExistsBijection(S, T)
      BY <1>11 DEF ExistsBijection
    <2>3. IsFiniteSet(S) /\ Cardinality(S) = c
      BY <2>1
    <2> HIDE DEF S, T
    <2>4. IsFiniteSet(T) /\ Cardinality(T) = Cardinality(S)
      BY <2>2, <2>3, FS_Bijection
    <2> QED
      BY <2>3, <2>4 DEF T
  <1>13. LastPage \notin ToSet(f)
    <2>1. ASSUME NEW i \in 1 .. c, f[i] = LastPage PROVE FALSE
      <3>1. f[i] \in Nat /\ f[i] + PAGE_SIZE <= f[i]
        BY <1>4, <2>1, Layout
      <3> QED
        BY <3>1, Layout
    <2> QED
      BY <1>10, <2>1
  <1>14. \A x \in ToSet(f) : x + PAGE_SIZE <= LastPage
    BY <1>4, <1>10
  <1> QED
    BY <1>9, <1>12, <1>13, <1>14 DEF f, c

------------------------------------------------------------------------------
(* What a root maps an address to.                                          *)
Has(mem, r, va, w) == Reads(mem, r, VPN2(va), VPN1(va), VPN0(va), w)

SameEntries(mem, new, rs) ==
    \A r \in rs, va \in Va : \A w : Has(new, r, va, w) <=> Has(mem, r, va, w)
OneEntry(mem, new, rs, root, a, word) ==
    \A r \in rs, va \in Va : \A w :
        Has(new, r, va, w) <=> IF r = root /\ va = a THEN w = word ELSE Has(mem, r, va, w)

(* An address has one word.                                                 *)
LEMMA HasOne ==
    ASSUME NEW mem, NEW r, NEW va, NEW v, NEW w, Has(mem, r, va, v), Has(mem, r, va, w)
    PROVE  v = w
PROOF
  BY DEF Has, Reads

LEMMA WordsEntries ==
    ASSUME NEW mem, NEW new, NEW rs, SameWords(mem, new, rs)
    PROVE  SameEntries(mem, new, rs)
PROOF
  BY PageIs DEF SameWords, SameEntries, Has

(* A word for three indices is the entry of the address they make.          *)
LEMMA WordEntry ==
    ASSUME NEW mem, NEW new, NEW rs, NEW root, NEW a \in Va, NEW word,
           OneWord(mem, new, rs, root, VPN2(a), VPN1(a), VPN0(a), word)
    PROVE  OneEntry(mem, new, rs, root, a, word)
PROOF
  <1> SUFFICES ASSUME NEW r \in rs, NEW va \in Va, NEW w
               PROVE  Has(new, r, va, w) <=>
                        IF r = root /\ va = a THEN w = word ELSE Has(mem, r, va, w)
    BY DEF OneEntry
  <1>1. VPN2(va) \in Index /\ VPN1(va) \in Index /\ VPN0(va) \in Index
    BY PageIs
  <1>2. va = a <=> VPN2(va) = VPN2(a) /\ VPN1(va) = VPN1(a) /\ VPN0(va) = VPN0(a)
    BY SamePage
  <1> QED
    BY <1>1, <1>2 DEF OneWord, Has

(* A page taken from the list changes no entry of a table.                  *)
LEMMA TakenEntries ==
    ASSUME NEW free, NEW mem, NEW rs, NEW rest, NEW new, Forest(free, mem, rs, rest),
           free # <<>>, Used(free, mem, new)
    PROVE  /\ SameEntries(mem, new, rs)
           /\ Narrow(mem) /\ DOMAIN new[Head(free)] \subseteq Index => Narrow(new)
PROOF
  <1>1. Head(free) \in ToSet(free)
    BY TakeHead DEF Forest
  <1>2. \A x \in Trunk(mem, rs) \cup Lows(mem, rs) : x \in HeapPage /\ x # Head(free)
    BY <1>1 DEF Forest, Placed, Trunk
  <1>3. ASSUME NEW r \in rs PROVE SameWords(mem, new, {r})
    <2>1. \A x \in TreeOf(mem, r) : new[x] = mem[x]
      BY <1>2, TreeIs DEF Used
    <2> QED
      BY <2>1, TreeReads
  <1>4. SameWords(mem, new, rs)
    BY <1>3 DEF SameWords
  <1>5. Narrow(mem) /\ DOMAIN new[Head(free)] \subseteq Index => Narrow(new)
    BY DEF Used, Narrow
  <1> QED
    BY <1>4, <1>5, WordsEntries

(* An empty root maps nothing.                                              *)
LEMMA EmptyHas ==
    ASSUME NEW mem, NEW r, mem[r] = Zeroed, NEW va, NEW w
    PROVE  ~Has(mem, r, va, w)
PROOF
  BY DEF Has, Reads, LinkAt, Zeroed

(* A word in a page that is no upper table is one entry, or none.           *)
LEMMA WordedEntries ==
    ASSUME NEW free, NEW mem, NEW rs, NEW rest, NEW new, NEW p, NEW i \in Index, NEW word,
           Forest(free, mem, rs, rest), Worded(mem, new, p, i, word), p \notin Trunk(mem, rs)
    PROVE  /\ p \notin Lows(mem, rs) => SameEntries(mem, new, rs)
           /\ p \in Lows(mem, rs) => \E root \in rs, a \in Va :
                VPN0(a) = i /\ OneEntry(mem, new, rs, root, a, word)
PROOF
  <1>1. ASSUME p \notin Lows(mem, rs) PROVE SameEntries(mem, new, rs)
    <2>1. \A x \in Trunk(mem, rs) \cup Lows(mem, rs) : x \in HeapPage /\ x # p
      BY <1>1 DEF Forest, Placed, Trunk
    <2>2. ASSUME NEW r \in rs PROVE SameWords(mem, new, {r})
      <3>1. \A x \in TreeOf(mem, r) : new[x] = mem[x]
        BY <2>1, TreeIs DEF Worded
      <3> QED
        BY <3>1, TreeReads
    <2>3. SameWords(mem, new, rs)
      BY <2>2 DEF SameWords
    <2> QED
      BY <2>3, WordsEntries
  <1>2. ASSUME p \in Lows(mem, rs)
        PROVE  \E root \in rs, a \in Va : VPN0(a) = i /\ OneEntry(mem, new, rs, root, a, word)
    <2>1. PICK t \in Mids(mem, rs) : p \in Under(mem, t)
      BY <1>2 DEF Lows
    <2>2. PICK root \in rs : t \in Under(mem, root)
      BY <2>1 DEF Mids
    <2>3. PICK j2 \in Index : LinkAt(mem, root, j2) /\ mem[root][j2].to = t
      BY <2>2, UnderIs
    <2>4. PICK j1 \in Index : LinkAt(mem, t, j1) /\ mem[t][j1].to = p
      BY <2>1, UnderIs
    <2>5. LinkAt(mem, mem[root][j2].to, j1) /\ Worded(mem, new, mem[mem[root][j2].to][j1].to, i, word)
      BY <2>3, <2>4
    <2>6. OneWord(mem, new, rs, root, j2, j1, i, word)
      BY <2>3, <2>5, WordReads
    <2> DEFINE a == PageOf(j2, j1, i)
    <2>7. a \in Va /\ VPN2(a) = j2 /\ VPN1(a) = j1 /\ VPN0(a) = i
      BY Digits
    <2> HIDE DEF a
    <2>8. OneWord(mem, new, rs, root, VPN2(a), VPN1(a), VPN0(a), word)
      BY <2>6, <2>7
    <2>9. OneEntry(mem, new, rs, root, a, word)
      BY <2>7, <2>8, WordEntry
    <2> QED
      BY <2>7, <2>9
  <1> QED
    BY <1>1, <1>2

(* A record spoils one entry, the first of a lowest table, or none.         *)
LEMMA RecordEntries ==
    ASSUME NEW free, NEW mem, NEW rs, NEW rest, NEW s \in HeapPage, NEW st, NEW us,
           Forest(free, mem, rs, rest), s \in st, st \subseteq rest,
           AboveOf(free, mem, rs, st, us)
    PROVE  LET new == WriteRecord(mem, s)
           IN  /\ \/ SameEntries(mem, new, rs)
                  \/ \E root \in rs, a \in Va :
                        VPN0(a) = 0 /\ OneEntry(mem, new, rs, root, a, STACKMAGIC)
               /\ Narrow(mem) => Narrow(new)
PROOF
  <1> DEFINE one == [mem EXCEPT ![s] = Put(@, Fan - 1, Data)]
             t   == s + PAGE_SIZE
             new == WriteRecord(mem, s)
  <1>1. s \notin Trunk(mem, rs) /\ s \notin Lows(mem, rs)
    BY DEF Forest, Placed, Trunk
  <1>2. Worded(mem, one, s, Fan - 1, Data) /\ Worded(one, new, t, 0, STACKMAGIC)
    BY RecordWords DEF Forest
  <1>3. t \notin Trunk(mem, rs)
    BY DEF AboveOf
  <1> HIDE DEF one, t, new
  <1>4. Writable(mem, rs, s, Data) /\ Fan - 1 \in Index /\ 0 \in Index
    BY <1>1, Layout DEF Writable
  <1>5. Forest(free, one, rs, rest) /\ Trunk(one, rs) = Trunk(mem, rs)
    BY <1>2, <1>4, WordedTrees
  <1>6. SameEntries(mem, one, rs)
    BY <1>1, <1>2, <1>4, WordedEntries
  <1>7. \/ SameEntries(one, new, rs)
        \/ \E root \in rs, a \in Va : VPN0(a) = 0 /\ OneEntry(one, new, rs, root, a, STACKMAGIC)
    BY <1>2, <1>3, <1>4, <1>5, WordedEntries
  <1>8. \A root \in rs, a \in Va :
            OneEntry(one, new, rs, root, a, STACKMAGIC) => OneEntry(mem, new, rs, root, a, STACKMAGIC)
    BY <1>6 DEF SameEntries, OneEntry
  <1>9. SameEntries(one, new, rs) => SameEntries(mem, new, rs)
    BY <1>6 DEF SameEntries
  <1>10. Narrow(mem) => Narrow(new)
    BY <1>2, <1>4, WordNarrow
  <1> QED
    BY <1>7, <1>8, <1>9, <1>10 DEF new

------------------------------------------------------------------------------
(* What is true of the pages whatever the kernel is doing: free, tables of  *)
(* the roots rs (those of us are the users'), stacks st and swap areas sw.  *)
Held(st, sw) == st \cup sw
InUse(free, mem, rs, rest) == ToSet(free) \cup Trunk(mem, rs) \cup Lows(mem, rs) \cup rest

Sound(free, mem, rs, st, sw, us) ==
    /\ Forest(free, mem, rs, Held(st, sw)) /\ st \cap sw = {} /\ us \subseteq rs
    /\ AboveOf(free, mem, rs, st, us) /\ Harmless(mem, us) /\ Magic(free, mem, st)

(* The page above the next one is no table that a stack must not touch. *)
OutsideAbove(free, mem, rs, us) ==
    /\ Head(free) + PAGE_SIZE \notin Trunk(mem, rs)
    /\ \A u \in us : Head(free) + PAGE_SIZE \notin TreeOf(mem, u)

(* Fewer users are sound too.                                              *)
LEMMA SoundFewer ==
    ASSUME NEW free, NEW mem, NEW rs, NEW st, NEW sw, NEW us, NEW vs,
           Sound(free, mem, rs, st, sw, us), vs \subseteq us
    PROVE  Sound(free, mem, rs, st, sw, vs)
PROOF
  <1>1. AboveOf(free, mem, rs, st, vs) /\ Harmless(mem, vs)
    BY DEF Sound, AboveOf, Harmless
  <1> QED
    BY <1>1 DEF Sound

(* Mapping a page keeps the pages sound, and none is lost.                 *)
LEMMA SoundGrown ==
    ASSUME NEW free, NEW mem, NEW rs, NEW st, NEW sw, NEW us, NEW less, NEW new,
           NEW root \in rs, NEW ok,
           Sound(free, mem, rs, st, sw, us),
           Grown(free, mem, less, new, rs, Held(st, sw), root, ok),
           root \in us => \A w \in ok : OkWord(w), STACKMAGIC \notin ok
    PROVE  /\ Sound(less, new, rs, st, sw, us)
           /\ InUse(less, new, rs, Held(st, sw)) = InUse(free, mem, rs, Held(st, sw))
PROOF
  <1>1. /\ Forest(free, mem, rs, Held(st, sw)) /\ st \cap sw = {} /\ us \subseteq rs
        /\ AboveOf(free, mem, rs, st, us) /\ Harmless(mem, us) /\ Magic(free, mem, st)
    BY DEF Sound
  <1>2. AboveOf(less, new, rs, st, us)
    BY <1>1, GrownAbove
  <1>3. Harmless(new, us)
    BY <1>1, GrownHarmless
  <1>4. Magic(less, new, st)
    BY <1>1, GrownMagic
  <1>5. Forest(less, new, rs, Held(st, sw))
        /\ ToSet(less) \cup Trunk(new, rs) \cup Lows(new, rs)
             = ToSet(free) \cup Trunk(mem, rs) \cup Lows(mem, rs)
    BY DEF Grown
  <1> QED
    BY <1>1, <1>2, <1>3, <1>4, <1>5 DEF Sound, InUse

(* So does starting a table,                                               *)
LEMMA SoundRoot ==
    ASSUME NEW free, NEW mem, NEW rs, NEW st, NEW sw, NEW us, NEW new, NEW more, NEW vs,
           Sound(free, mem, rs, st, sw, us), free # <<>>, Emptied(free, mem, new),
           Joined(more, rs, free), vs \subseteq us \cup {Head(free)}
    PROVE  /\ Sound(Tail(free), new, more, st, sw, vs)
           /\ InUse(Tail(free), new, more, Held(st, sw)) = InUse(free, mem, rs, Held(st, sw))
           /\ Trunk(new, more) = Trunk(mem, rs) \cup {Head(free)}
           /\ Lows(new, more) = Lows(mem, rs)
           /\ \A r \in rs : TreeOf(new, r) = TreeOf(mem, r)
PROOF
  <1>1. /\ Forest(free, mem, rs, Held(st, sw)) /\ st \cap sw = {} /\ us \subseteq rs
        /\ AboveOf(free, mem, rs, st, us) /\ Harmless(mem, us) /\ Magic(free, mem, st)
    BY DEF Sound
  <1>2. Forest(Tail(free), new, more, Held(st, sw))
    BY <1>1, Roots
  <1>3. /\ Mids(new, more) = Mids(mem, rs) /\ Lows(new, more) = Lows(mem, rs)
        /\ \A r \in rs : TreeOf(new, r) = TreeOf(mem, r)
    BY <1>1, <1>2, Roots
  <1>4. AboveOf(Tail(free), new, more, st, vs)
    BY <1>1, RootAbove
  <1>5. Harmless(new, vs)
    BY <1>1, RootHarmless
  <1>6. Used(free, mem, new) /\ 0 \notin DOMAIN new[Head(free)]
    BY DEF Used, Emptied, Zeroed
  <1>7. Listing(free) /\ st \subseteq st
    BY <1>1 DEF Forest
  <1>8. Magic(Tail(free), new, st)
    BY <1>1, <1>6, <1>7, TakenMagic
  <1>9. vs \subseteq more
    BY <1>1 DEF Joined
  <1>10. ToSet(free) = ToSet(Tail(free)) \cup {Head(free)}
    BY <1>7, TakeHead
  <1>11. Trunk(new, more) = Trunk(mem, rs) \cup {Head(free)}
    BY <1>3 DEF Trunk, Joined
  <1>12. InUse(Tail(free), new, more, Held(st, sw)) = InUse(free, mem, rs, Held(st, sw))
    BY <1>3, <1>10, <1>11 DEF InUse
  <1> QED
    BY <1>1, <1>2, <1>3, <1>4, <1>5, <1>8, <1>9, <1>11, <1>12 DEF Sound

(* taking a stack, when what is above it is no upper table and no user's,  *)
LEMMA SoundStack ==
    ASSUME NEW free, NEW mem, NEW rs, NEW st, NEW sw, NEW us, NEW new, NEW more,
           Sound(free, mem, rs, st, sw, us), free # <<>>, Emptied(free, mem, new),
           Joined(more, st, free), OutsideAbove(free, mem, rs, us)
    PROVE  /\ Sound(Tail(free), new, rs, more, sw, us)
           /\ InUse(Tail(free), new, rs, Held(more, sw)) = InUse(free, mem, rs, Held(st, sw))
           /\ Trunk(new, rs) = Trunk(mem, rs)
           /\ \A r \in rs : TreeOf(new, r) = TreeOf(mem, r)
PROOF
  <1>1. /\ Forest(free, mem, rs, Held(st, sw)) /\ st \cap sw = {} /\ us \subseteq rs
        /\ AboveOf(free, mem, rs, st, us) /\ Harmless(mem, us) /\ Magic(free, mem, st)
    BY DEF Sound
  <1>2. Joined(Held(more, sw), Held(st, sw), free)
    BY DEF Joined, Held
  <1>3. Used(free, mem, new) /\ 0 \notin DOMAIN new[Head(free)]
    BY DEF Used, Emptied, Zeroed
  <1>4. Forest(Tail(free), new, rs, Held(more, sw))
    BY <1>1, <1>2, <1>3, Others
  <1>5. /\ Mids(new, rs) = Mids(mem, rs) /\ Lows(new, rs) = Lows(mem, rs)
        /\ \A r \in rs : TreeOf(new, r) = TreeOf(mem, r)
    BY <1>1, <1>2, <1>3, <1>4, Others
  <1>6. Listing(free) /\ st \subseteq more
    BY <1>1 DEF Forest, Joined
  <1>7. /\ ToSet(free) = ToSet(Tail(free)) \cup {Head(free)} /\ Head(free) \in HeapPage
        /\ \A x \in ToSet(free) : x <= Head(free)
    BY <1>6, TakeHead
  <1>8. Trunk(new, rs) = Trunk(mem, rs)
    BY <1>5 DEF Trunk
  <1>9. AboveOf(Tail(free), new, rs, st, us)
    BY <1>1, <1>3, TakenAbove
  <1>10. Head(free) + PAGE_SIZE \notin ToSet(Tail(free))
    <2> DEFINE h == Head(free)  rest == ToSet(Tail(free))
    <2>1. h \in HeapPage /\ \A x \in rest : x <= h
      BY <1>7
    <2> HIDE DEF h, rest
    <2>2. h \in Nat /\ ~(h + PAGE_SIZE <= h)
      BY <2>1, Layout
    <2>3. h + PAGE_SIZE \notin rest
      BY <2>1, <2>2
    <2> QED
      BY <2>3 DEF h, rest
  <1>11. AboveOf(Tail(free), new, rs, more, us)
    <2>1. ASSUME NEW s \in more
          PROVE  /\ s + PAGE_SIZE \notin ToSet(Tail(free)) \cup Trunk(new, rs)
                 /\ \A u \in us : s + PAGE_SIZE \notin TreeOf(new, u)
      <3>1. CASE s \in st
        BY <1>9, <3>1 DEF AboveOf
      <3>2. CASE s = Head(free)
        BY <1>1, <1>5, <1>8, <1>10, <3>2 DEF OutsideAbove
      <3> QED
        BY <3>1, <3>2 DEF Joined
    <2> QED
      BY <2>1 DEF AboveOf
  <1>12. Harmless(new, us)
    BY <1>1, <1>3, TakenHarmless
  <1>13. Magic(Tail(free), new, more)
    BY <1>1, <1>3, <1>6, TakenMagic
  <1>14. more \cap sw = {}
    <2>1. Head(free) \notin Held(st, sw)
      BY <1>1, <1>7 DEF Forest, Placed
    <2> QED
      BY <1>1, <2>1 DEF Joined, Held
  <1>15. InUse(Tail(free), new, rs, Held(more, sw)) = InUse(free, mem, rs, Held(st, sw))
    BY <1>2, <1>5, <1>7, <1>8 DEF InUse, Joined
  <1> QED
    BY <1>1, <1>4, <1>5, <1>8, <1>11, <1>12, <1>13, <1>14, <1>15 DEF Sound

(* taking a swap area,                                                     *)
LEMMA SoundSwap ==
    ASSUME NEW free, NEW mem, NEW rs, NEW st, NEW sw, NEW us, NEW new, NEW more,
           Sound(free, mem, rs, st, sw, us), free # <<>>, Used(free, mem, new),
           0 \notin DOMAIN new[Head(free)], Joined(more, sw, free)
    PROVE  /\ Sound(Tail(free), new, rs, st, more, us)
           /\ InUse(Tail(free), new, rs, Held(st, more)) = InUse(free, mem, rs, Held(st, sw))
           /\ Trunk(new, rs) = Trunk(mem, rs)
           /\ \A r \in rs : TreeOf(new, r) = TreeOf(mem, r)
           /\ \A x \in Trunk(mem, rs) : new[x] = mem[x]
PROOF
  <1>1. /\ Forest(free, mem, rs, Held(st, sw)) /\ st \cap sw = {} /\ us \subseteq rs
        /\ AboveOf(free, mem, rs, st, us) /\ Harmless(mem, us) /\ Magic(free, mem, st)
    BY DEF Sound
  <1>2. Joined(Held(st, more), Held(st, sw), free)
    BY DEF Joined, Held
  <1>3. Forest(Tail(free), new, rs, Held(st, more))
    BY <1>1, <1>2, Others
  <1>4. /\ Mids(new, rs) = Mids(mem, rs) /\ Lows(new, rs) = Lows(mem, rs)
        /\ \A r \in rs : TreeOf(new, r) = TreeOf(mem, r)
    BY <1>1, <1>2, <1>3, Others
  <1>5. Listing(free) /\ st \subseteq st
    BY <1>1 DEF Forest
  <1>6. ToSet(free) = ToSet(Tail(free)) \cup {Head(free)} /\ Head(free) \in HeapPage
    BY <1>5, TakeHead
  <1>7. Trunk(new, rs) = Trunk(mem, rs)
    BY <1>4 DEF Trunk
  <1>8. AboveOf(Tail(free), new, rs, st, us)
    BY <1>1, TakenAbove
  <1>9. Harmless(new, us)
    BY <1>1, TakenHarmless
  <1>10. Magic(Tail(free), new, st)
    BY <1>1, <1>5, TakenMagic
  <1>11. Head(free) \notin Held(st, sw) /\ Head(free) \notin Trunk(mem, rs)
         /\ Trunk(mem, rs) \subseteq HeapPage
    BY <1>1, <1>6 DEF Forest, Placed, Trunk
  <1>12. st \cap more = {}
    BY <1>1, <1>11 DEF Joined, Held
  <1>13. InUse(Tail(free), new, rs, Held(st, more)) = InUse(free, mem, rs, Held(st, sw))
    BY <1>2, <1>4, <1>6, <1>7 DEF InUse, Joined
  <1>14. \A x \in Trunk(mem, rs) : new[x] = mem[x]
    BY <1>11 DEF Used
  <1> QED
    BY <1>1, <1>3, <1>4, <1>7, <1>8, <1>9, <1>10, <1>12, <1>13, <1>14 DEF Sound

(* and writing a new process's record at the top of its stack.             *)
LEMMA SoundRecord ==
    ASSUME NEW free, NEW mem, NEW rs, NEW st, NEW sw, NEW us, NEW s \in HeapPage, s \in st,
           Sound(free, mem, rs, st, sw, us)
    PROVE  LET new == WriteRecord(mem, s)
           IN  /\ Sound(free, new, rs, st, sw, us)
               /\ InUse(free, new, rs, Held(st, sw)) = InUse(free, mem, rs, Held(st, sw))
               /\ Trunk(new, rs) = Trunk(mem, rs)
               /\ \A r \in rs : TreeOf(new, r) = TreeOf(mem, r)
PROOF
  <1>1. /\ Forest(free, mem, rs, Held(st, sw)) /\ st \cap sw = {} /\ us \subseteq rs
        /\ AboveOf(free, mem, rs, st, us) /\ Harmless(mem, us) /\ Magic(free, mem, st)
        /\ st \subseteq Held(st, sw)
    BY DEF Sound, Held
  <1> DEFINE new == WriteRecord(mem, s)
  <1>2. /\ Forest(free, new, rs, Held(st, sw))
        /\ Trunk(new, rs) = Trunk(mem, rs) /\ Lows(new, rs) = Lows(mem, rs)
        /\ \A r \in rs : TreeOf(new, r) = TreeOf(mem, r)
        /\ AboveOf(free, new, rs, st, us) /\ Harmless(new, us) /\ Magic(free, new, st)
    BY <1>1, RecordKeeps
  <1> HIDE DEF new
  <1>3. InUse(free, new, rs, Held(st, sw)) = InUse(free, mem, rs, Held(st, sw))
    BY <1>2 DEF InUse
  <1> QED
    BY <1>1, <1>2, <1>3 DEF Sound, new

------------------------------------------------------------------------------
(* The inductive invariant: the types, the pages, what create() is at, and  *)
(* what lies above the next page.                                           *)
Slot == [used : BOOLEAN, pagetable : HeapPage \cup {NoPage},
         stkbase : HeapPage \cup {NoPage}, swaparea : HeapPage \cup {NoPage}]
Phases  == {"reset", "listed", "kernel", "main", "stack", "user", "swap",
            "processes", "halted"}
Filling == {"kernel", "user", "swap"}

Users(tab) == {tab[q].pagetable : q \in PID \ {NULLPROC}} \ {NoPage}
UserRoots(tab, ph, root) == Users(tab) \cup IF ph \in {"user", "swap"} THEN {root} ELSE {}
Pool(ph) == IF ph = "reset" THEN {} ELSE ToSet(pgfreerange(memheap, maxaddr))

Types ==
    /\ pgtbl_nents \in Nat
    /\ satp \in HeapPage \cup {NoPage} /\ pagetable \in HeapPage \cup {NoPage}
    /\ proctab \in [PID -> Slot] /\ phase \in Phases /\ pid \in PID
    /\ calls \in 0 .. MaxCalls

Pages ==
    /\ Sound(pgfreelist, memory, roots, stacks, swapped, UserRoots(proctab, phase, pagetable))
    /\ InUse(pgfreelist, memory, roots, Held(stacks, swapped)) = Pool(phase)
    /\ phase # "reset" => pgtbl_nents = nents

Control ==
    /\ todo \in Seq(Asks)
    /\ todo # <<>> => pagetable \in roots /\ phase \in Filling \cup {"halted"}
    /\ phase \in Filling => pagetable \in roots
    /\ phase \in {"stack", "user", "swap"} => proctab[pid].stkbase \in stacks
    /\ pagetable \in UserRoots(proctab, phase, pagetable) => todo \in Seq(UserAsks)
    /\ phase \in {"reset", "listed", "kernel"} => Users(proctab) = {}
    /\ phase = "user" => \/ ReachedIn(memory, pagetable, PROCSTACKADDR)
                         \/ todo # <<>> /\ Last(todo).va = PROCSTACKADDR
    /\ phase = "swap" => /\ ReachedIn(memory, pagetable, PROCSTACKADDR)
                         /\ todo \in {<<>>, SwapMap}

(* The page above the next one is the table that was just begun, or it is   *)
(* no upper table; when a stack is next it is in no table of a user.        *)
Clear(above, mem, rs, us, ph, root, asked) ==
    /\ above \in Trunk(mem, rs) =>
         /\ ph \in {"kernel", "user"} /\ above = root /\ asked # <<>>
         /\ DOMAIN mem[root] = {}
    /\ ph \in {"main", "swap"} => \A u \in us : above \notin TreeOf(mem, u)
Summit ==
    phase \notin {"halted", "processes"} /\ pgfreelist # <<>> =>
        Clear(Head(pgfreelist) + PAGE_SIZE, memory, roots,
              UserRoots(proctab, phase, pagetable), phase, pagetable, todo)

Kept == Types /\ Pages /\ Control /\ Summit

(* What Sound says of the types, and of what cannot be the same page.      *)
LEMMA SoundTypes ==
    ASSUME NEW free, NEW mem, NEW rs, NEW st, NEW sw, NEW us, Sound(free, mem, rs, st, sw, us)
    PROVE  /\ free \in Seq(HeapPage) /\ Listing(free) /\ Whole(mem) /\ DOMAIN mem = HeapPage
           /\ rs \subseteq HeapPage /\ st \subseteq HeapPage /\ sw \subseteq HeapPage
           /\ us \subseteq rs
           /\ \A r \in rs : TreeOf(mem, r) \cap ToSet(free) = {}
           /\ Trunk(mem, rs) \cap ToSet(free) = {} /\ Trunk(mem, rs) \cap Lows(mem, rs) = {}
PROOF
  <1>1. Forest(free, mem, rs, Held(st, sw)) /\ us \subseteq rs
    BY DEF Sound
  <1>2. Listing(free) /\ Whole(mem) /\ Placed(free, mem, rs, Held(st, sw))
    BY <1>1 DEF Forest
  <1>3. free \in Seq(HeapPage) /\ DOMAIN mem = HeapPage
    BY <1>2 DEF Listing, Whole
  <1>4. /\ rs \subseteq HeapPage /\ st \subseteq HeapPage /\ sw \subseteq HeapPage
        /\ ToSet(free) \cap (Trunk(mem, rs) \cup Lows(mem, rs)) = {}
        /\ Trunk(mem, rs) \cap Lows(mem, rs) = {}
    BY <1>2 DEF Placed, Held, Trunk
  <1>5. \A r \in rs : TreeOf(mem, r) \cap ToSet(free) = {}
    BY <1>4, TreeIs
  <1> QED
    BY <1>1, <1>2, <1>3, <1>4, <1>5

(* No page above the next one is listed. *)
LEMMA AboveList ==
    ASSUME NEW free, Listing(free), free # <<>>
    PROVE  /\ Head(free) + PAGE_SIZE \notin ToSet(free)
           /\ Head(free) \in ToSet(free) /\ Head(free) \in HeapPage
           /\ Tail(free) # <<>> => Head(Tail(free)) + PAGE_SIZE = Head(free)
PROOF
  <1> DEFINE h == Head(free)  s == ToSet(free)
  <1>1. /\ h \in HeapPage /\ h \in s /\ \A x \in s : x <= h
        /\ Tail(free) # <<>> => Head(Tail(free)) + PAGE_SIZE = h
    BY TakeHead
  <1> HIDE DEF h, s
  <1>2. h \in Nat /\ ~(h + PAGE_SIZE <= h)
    BY <1>1, Layout
  <1>3. h + PAGE_SIZE \notin s
    BY <1>1, <1>2
  <1> QED
    BY <1>1, <1>3 DEF h, s

(* The pages as a step finds them.                                         *)
LEMMA NowFields == Fields(Now) /\ Now.free = pgfreelist /\ Now.mem = memory
PROOF
  BY DEF Now, Fields

(* A step that takes a cleared page.                                       *)
LEMMA Takes ==
    ASSUME Whole(memory), Listing(pgfreelist), Keep(pgalloc(Now))
    PROVE  /\ pgfreelist # <<>> /\ pgfreelist' = Tail(pgfreelist)
           /\ Emptied(pgfreelist, memory, memory')
PROOF
  <1> DEFINE m == Now  n == pgalloc(m)  h == Head(pgfreelist)
  <1>1. Fields(m) /\ m.free = pgfreelist /\ m.mem = memory
    BY NowFields
  <1>2. ~n.fault /\ pgfreelist' = n.free /\ memory' = n.mem
    BY DEF Keep
  <1> HIDE DEF m
  <1>3. m.free # <<>> /\ n.free = Tail(m.free) /\ n.mem = [m.mem EXCEPT ![Head(m.free)] = Zeroed]
    BY <1>1, <1>2, Alloc
  <1>4. pgfreelist # <<>> /\ pgfreelist' = Tail(pgfreelist)
    BY <1>1, <1>2, <1>3
  <1>5. memory' = [memory EXCEPT ![h] = Zeroed]
    BY <1>1, <1>2, <1>3
  <1>6. h \in HeapPage
    BY <1>4, AboveList
  <1> HIDE DEF h, n
  <1>7. memory = [x \in HeapPage |-> memory[x]]
    BY DEF Whole
  <1>8. /\ memory' = [x \in HeapPage |-> IF x = h THEN Zeroed ELSE memory[x]]
    BY <1>5, <1>7
  <1>9. /\ Whole(memory') /\ memory'[h] = Zeroed
        /\ \A x \in HeapPage \ {h} : memory'[x] = memory[x]
    BY <1>6, <1>8 DEF Whole
  <1> QED
    BY <1>4, <1>9 DEF Emptied, h

(* A step that takes a swap area and writes its last word.                 *)
LEMMA TakesSwap ==
    ASSUME Whole(memory), Listing(pgfreelist),
           Keep([pgalloc(Now) EXCEPT !.mem[Head(pgfreelist)] = Put(Zeroed, Fan - 1, Data)])
    PROVE  /\ pgfreelist # <<>> /\ pgfreelist' = Tail(pgfreelist)
           /\ Used(pgfreelist, memory, memory')
           /\ 0 \notin DOMAIN memory'[Head(pgfreelist)]
           /\ DOMAIN memory'[Head(pgfreelist)] \subseteq Index
PROOF
  <1> DEFINE m == Now  n == pgalloc(m)  h == Head(pgfreelist)  page == Put(Zeroed, Fan - 1, Data)
             k == [n EXCEPT !.mem[h] = page]
  <1>1. Fields(m) /\ m.free = pgfreelist /\ m.mem = memory
    BY NowFields
  <1>2. ~k.fault /\ pgfreelist' = k.free /\ memory' = k.mem
    BY DEF Keep
  <1> HIDE DEF m
  <1>3. Fields(n)
    BY <1>1, AllocFields
  <1>4. k.fault = n.fault /\ k.free = n.free /\ k.mem = [n.mem EXCEPT ![h] = page]
    <2> HIDE DEF n, h, page
    <2> QED
      BY <1>3 DEF Fields
  <1>5. m.free # <<>> /\ n.free = Tail(m.free) /\ n.mem = [m.mem EXCEPT ![Head(m.free)] = Zeroed]
    BY <1>1, <1>2, <1>4, Alloc
  <1>6. pgfreelist # <<>> /\ pgfreelist' = Tail(pgfreelist)
    BY <1>1, <1>2, <1>4, <1>5
  <1>7. memory' = [[memory EXCEPT ![h] = Zeroed] EXCEPT ![h] = page]
    BY <1>1, <1>2, <1>4, <1>5
  <1>8. h \in HeapPage
    BY <1>6, AboveList
  <1>9. 0 \notin DOMAIN page /\ DOMAIN page \subseteq Index
    BY Layout DEF Put, Zeroed
  <1> HIDE DEF h, n, page, k
  <1>10. memory = [x \in HeapPage |-> memory[x]]
    BY DEF Whole
  <1>11. memory' = [x \in HeapPage |-> IF x = h THEN page ELSE memory[x]]
    BY <1>7, <1>10
  <1>12. /\ Whole(memory') /\ memory'[h] = page
         /\ \A x \in HeapPage \ {h} : memory'[x] = memory[x]
    BY <1>8, <1>11 DEF Whole
  <1> QED
    BY <1>6, <1>9, <1>12 DEF Used, h

(* At reset nothing is listed and no page is in use.                       *)
LEMMA InitKept ==
    ASSUME Init
    PROVE  Kept
PROOF
  <1>1. UserRoots(proctab, phase, pagetable) = {} /\ Users(proctab) = {}
    BY DEF Init, UserRoots, Users, NoProcess
  <1>2. Types
    <2>1. NoPage \in HeapPage \cup {NoPage} /\ NULLPROC \in PID /\ 0 \in 0 .. MaxCalls
      BY MemoryLayout
    <2>2. proctab \in [PID -> Slot]
      BY DEF Init, NoProcess, Slot
    <2> QED
      BY <2>1, <2>2 DEF Init, Types, Phases
  <1>3. Mids(memory, {}) = {} /\ Lows(memory, {}) = {} /\ Trunk(memory, {}) = {}
    BY DEF Mids, Lows, Trunk
  <1>4. ToSet(<<>>) = {}
    BY DEF ToSet
  <1>5. Forest(<<>>, memory, {}, Held({}, {}))
    <2>1. Listing(<<>>)
      BY DEF Listing
    <2>2. Whole(memory)
      BY DEF Init, Whole
    <2>3. Placed(<<>>, memory, {}, Held({}, {}))
      BY <1>3, <1>4 DEF Placed, Held
    <2>4. Branches(memory, {})
      BY <1>3 DEF Branches
    <2> QED
      BY <2>1, <2>2, <2>3, <2>4 DEF Forest
  <1>6. Magic(<<>>, memory, {})
    BY DEF Init, Magic, Zeroed
  <1>7. Sound(<<>>, memory, {}, {}, {}, {})
    BY <1>5, <1>6 DEF Sound, AboveOf, Harmless
  <1>8. InUse(<<>>, memory, {}, Held({}, {})) = {}
    BY <1>3, <1>4 DEF InUse, Held
  <1>9. Pages
    BY <1>1, <1>7, <1>8 DEF Pages, Init, Pool
  <1>10. Control
    BY <1>1 DEF Init, Control, Filling
  <1>11. Summit
    BY DEF Init, Summit
  <1> QED
    BY <1>2, <1>9, <1>10, <1>11 DEF Kept

------------------------------------------------------------------------------
(* Every action keeps the invariant. *)
LEMMA UsersSame ==
    ASSUME NEW tab, NEW new, NEW q,
           \A p \in PID : p # q => new[p].pagetable = tab[p].pagetable,
           q # NULLPROC => new[q].pagetable = tab[q].pagetable
    PROVE  Users(new) = Users(tab)
PROOF
  <1>1. \A p \in PID \ {NULLPROC} : new[p].pagetable = tab[p].pagetable
    OBVIOUS
  <1> QED
    BY <1>1 DEF Users

(* pgInit(): every page but the last is free.                              *)
LEMMA InitKeeps == ASSUME Kept, pgInit PROVE Kept'
PROOF
  <1>1. Types /\ Pages /\ Control /\ phase = "reset" /\ phase' = "listed"
        /\ pgfreelist' = pgfreerange(memheap, maxaddr) /\ pgtbl_nents' = nents
        /\ UNCHANGED <<memory, pid, satp, proctab, pagetable, todo, roots, stacks, swapped, calls>>
    BY DEF Kept, pgInit, nents, past
  <1> DEFINE f == pgfreerange(memheap, maxaddr)
  <1>2. roots = {} /\ stacks = {} /\ swapped = {} /\ todo = <<>> /\ Users(proctab) = {}
    BY <1>1 DEF Pages, InUse, Pool, Trunk, Held, Control, Filling
  <1>3. Types'
    BY <1>1, Counted DEF Types, Phases
  <1>4. Sound(pgfreelist, memory, {}, {}, {}, {})
    BY <1>1, <1>2 DEF Pages, UserRoots
  <1>5. Trunk(memory, {}) = {} /\ Lows(memory, {}) = {} /\ Mids(memory, {}) = {}
    BY DEF Trunk, Lows, Mids
  <1>6. Sound(f, memory, {}, {}, {}, {})
    <2>1. Forest(f, memory, {}, Held({}, {}))
      <3>1. Forest(pgfreelist, memory, {}, Held({}, {}))
        BY <1>4 DEF Sound
      <3>2. Placed(f, memory, {}, Held({}, {}))
        BY <1>5 DEF Placed, Held
      <3> QED
        BY <3>1, <3>2, Ranged DEF Forest
    <2>2. Magic(f, memory, {})
      BY <1>4 DEF Sound, Magic
    <2> QED
      BY <2>1, <2>2 DEF Sound, AboveOf, Harmless
  <1>7. InUse(f, memory, {}, Held({}, {})) = ToSet(f)
    BY <1>5 DEF InUse, Held
  <1>8. Pages'
    BY <1>1, <1>2, <1>6, <1>7 DEF Pages, UserRoots, Pool
  <1>9. Control'
    BY <1>1, <1>2 DEF Control, Filling, UserRoots
  <1>10. Summit'
    BY <1>1, <1>2, <1>5 DEF Summit, Clear
  <1> QED
    BY <1>3, <1>8, <1>9, <1>10 DEF Kept

(* A new table. *)
LEMMA NewTablePages ==
    ASSUME Kept, NewTable, UNCHANGED <<pgtbl_nents, proctab, stacks, swapped>>,
           phase # "reset", phase' # "reset",
           Users(proctab) \subseteq UserRoots(proctab, phase, pagetable)
    PROVE  /\ Pages' /\ pagetable' \in HeapPage /\ pagetable' \in roots'
           /\ pgfreelist' # <<>> => Head(pgfreelist') + PAGE_SIZE = pagetable'
           /\ DOMAIN memory'[pagetable'] = {}
           /\ \A u \in Users(proctab) : pagetable' \notin TreeOf(memory', u)
PROOF
  <1> DEFINE us == UserRoots(proctab, phase, pagetable)
             vs == UserRoots(proctab', phase', pagetable')
             h  == Head(pgfreelist)
  <1>1. /\ Sound(pgfreelist, memory, roots, stacks, swapped, us)
        /\ InUse(pgfreelist, memory, roots, Held(stacks, swapped)) = Pool(phase)
        /\ pgtbl_nents = nents
    BY DEF Kept, Pages
  <1>2. Whole(memory) /\ Listing(pgfreelist) /\ us \subseteq roots
        /\ \A r \in roots : TreeOf(memory, r) \cap ToSet(pgfreelist) = {}
    BY <1>1, SoundTypes
  <1>3. /\ pgfreelist # <<>> /\ pgfreelist' = Tail(pgfreelist)
        /\ Emptied(pgfreelist, memory, memory')
    BY <1>2, Takes DEF NewTable
  <1>4. pagetable' = h /\ roots' = roots \cup {h}
    BY DEF NewTable
  <1>5. Joined(roots', roots, pgfreelist)
    BY <1>4 DEF Joined
  <1>6. vs \subseteq us \cup {Head(pgfreelist)}
    BY <1>4 DEF UserRoots
  <1>7. h \in HeapPage /\ h \in ToSet(pgfreelist)
        /\ (Tail(pgfreelist) # <<>> => Head(Tail(pgfreelist)) + PAGE_SIZE = h)
    BY <1>2, <1>3, AboveList
  <1>8. DOMAIN memory'[h] = {}
    BY <1>3 DEF Emptied, Zeroed
  <1>9. Pool(phase') = Pool(phase)
    BY DEF Pool
  <1> HIDE DEF us, vs
  <1>10. /\ Sound(Tail(pgfreelist), memory', roots', stacks, swapped, vs)
         /\ InUse(Tail(pgfreelist), memory', roots', Held(stacks, swapped)) = Pool(phase')
         /\ \A r \in roots : TreeOf(memory', r) = TreeOf(memory, r)
    BY <1>1, <1>3, <1>5, <1>6, <1>9, SoundRoot
  <1>11. Pages'
    BY <1>1, <1>3, <1>10 DEF Pages, vs
  <1>12. \A u \in Users(proctab) : h \notin TreeOf(memory', u)
    BY <1>2, <1>7, <1>10 DEF us
  <1> QED
    BY <1>3, <1>4, <1>7, <1>8, <1>11, <1>12

(* vm_kerninit(): the kernel's table is begun.                             *)
LEMMA KernInitKeeps == ASSUME Kept, vm_kerninit PROVE Kept'
PROOF
  <1>1. /\ phase = "listed" /\ phase' = "kernel" /\ NewTable /\ todo' = KernelMap
        /\ UNCHANGED <<pgtbl_nents, pid, satp, proctab, stacks, swapped, calls>>
        /\ Types /\ Control
    BY DEF Kept, vm_kerninit
  <1>2. Users(proctab) = {}
    BY <1>1 DEF Control
  <1>3. /\ Pages' /\ pagetable' \in HeapPage /\ pagetable' \in roots'
        /\ pgfreelist' # <<>> => Head(pgfreelist') + PAGE_SIZE = pagetable'
        /\ DOMAIN memory'[pagetable'] = {}
    BY <1>1, <1>2, NewTablePages
  <1>4. Types'
    BY <1>1, <1>3 DEF Types, Phases
  <1>5. Control'
    BY <1>1, <1>2, <1>3, Requests DEF Control, Filling, UserRoots
  <1>6. Summit'
    BY <1>1, <1>3, Requests DEF Summit, Clear
  <1> QED
    BY <1>3, <1>4, <1>5, <1>6 DEF Kept

(* vm_userinit(): a process's table is begun; it has its stack already.    *)
LEMMA UserInitKeeps == ASSUME Kept, vm_userinit PROVE Kept'
PROOF
  <1>1. /\ phase = "stack" /\ phase' = "user" /\ NewTable /\ todo' = UserMap
        /\ UNCHANGED <<pgtbl_nents, pid, satp, proctab, stacks, swapped, calls>>
        /\ Types /\ Control
    BY DEF Kept, vm_userinit
  <1>2. Users(proctab) = UserRoots(proctab, phase, pagetable)
    BY <1>1 DEF UserRoots
  <1>3. /\ Pages' /\ pagetable' \in HeapPage /\ pagetable' \in roots'
        /\ pgfreelist' # <<>> => Head(pgfreelist') + PAGE_SIZE = pagetable'
        /\ DOMAIN memory'[pagetable'] = {}
    BY <1>1, <1>2, NewTablePages
  <1>4. Types'
    BY <1>1, <1>3 DEF Types, Phases
  <1>5. /\ UserMap \in Seq(Asks) /\ UserMap \in Seq(UserAsks) /\ UserMap # <<>>
        /\ Last(UserMap).va = PROCSTACKADDR
    <2>1. UserAsks \subseteq Asks
      BY DEF UserAsks
    <2> QED
      BY <2>1, Requests
  <1>6. Control'
    BY <1>1, <1>3, <1>5 DEF Control, Filling
  <1>7. Summit'
    BY <1>1, <1>3, <1>5 DEF Summit, Clear
  <1> QED
    BY <1>3, <1>4, <1>6, <1>7 DEF Kept

(* The kernel goes over to its own table.                                  *)
LEMMA SetSatpKeeps == ASSUME Kept, set_satp PROVE Kept'
PROOF
  <1>1. /\ phase = "kernel" /\ todo = <<>> /\ satp' = pagetable /\ phase' = "main"
        /\ proctab' = [proctab EXCEPT ![NULLPROC].pagetable = pagetable]
        /\ UNCHANGED <<pgfreelist, memory, pgtbl_nents, pid, pagetable, todo,
                       roots, stacks, swapped, calls>>
        /\ Types /\ Pages /\ Control /\ Summit
    BY DEF Kept, set_satp, pages, past
  <1>2. Users(proctab') = {} /\ proctab' \in [PID -> Slot]
    <2>1. /\ \A p \in PID : p # NULLPROC => proctab'[p].pagetable = proctab[p].pagetable
          /\ proctab' \in [PID -> Slot]
      BY <1>1 DEF Types, Slot
    <2>2. Users(proctab') = Users(proctab)
      BY <2>1, UsersSame
    <2> QED
      BY <1>1, <2>1, <2>2 DEF Control
  <1>3. Types'
    BY <1>1, <1>2 DEF Types, Phases
  <1>4. UserRoots(proctab', phase', pagetable') = UserRoots(proctab, phase, pagetable)
        /\ UserRoots(proctab', phase', pagetable') = {}
    BY <1>1, <1>2 DEF UserRoots, Control
  <1>5. Pages'
    BY <1>1, <1>4 DEF Pages, Pool
  <1>6. Control'
    BY <1>1, <1>2, <1>4 DEF Control, Filling
  <1>7. Summit'
    BY <1>1, <1>4 DEF Summit, Clear
  <1> QED
    BY <1>3, <1>5, <1>6, <1>7 DEF Kept

(* kill() marks a slot free; pages and tables stay as they are.            *)
LEMMA KillKeeps == ASSUME Kept, NEW p \in PID, kill(p) PROVE Kept'
PROOF
  <1>1. /\ phase = "main" /\ phase' \in {"main", "processes"}
        /\ proctab' = [proctab EXCEPT ![p].used = FALSE]
        /\ UNCHANGED <<pgfreelist, memory, pgtbl_nents, satp, pid, pagetable, todo,
                       roots, stacks, swapped, calls>>
        /\ Types /\ Pages /\ Control /\ Summit
    BY DEF Kept, kill, pages, past
  <1>2. Users(proctab') = Users(proctab) /\ proctab' \in [PID -> Slot]
    <2>1. /\ \A q \in PID : proctab'[q].pagetable = proctab[q].pagetable
          /\ proctab' \in [PID -> Slot]
      BY <1>1 DEF Types, Slot
    <2> QED
      BY <2>1, UsersSame
  <1>3. Types'
    BY <1>1, <1>2 DEF Types, Phases
  <1>4. UserRoots(proctab', phase', pagetable') = UserRoots(proctab, phase, pagetable)
    BY <1>1, <1>2 DEF UserRoots
  <1>5. Pages'
    BY <1>1, <1>4 DEF Pages, Pool
  <1>6. Control'
    BY <1>1, <1>2, <1>4 DEF Control, Filling
  <1>7. Summit'
    BY <1>1, <1>4 DEF Summit, Clear
  <1> QED
    BY <1>3, <1>5, <1>6, <1>7 DEF Kept

(* A fault stops the kernel, whatever it was doing.                        *)
LEMMA HaltKeeps == ASSUME Kept, phase # "reset", Halt PROVE Kept'
PROOF
  <1>1. /\ phase' = "halted"
        /\ UNCHANGED <<pgfreelist, memory, pgtbl_nents, satp, pid, proctab, pagetable, todo,
                       roots, stacks, swapped, calls>>
        /\ Types /\ Pages /\ Control
    BY DEF Kept, Halt, pages, past
  <1>2. Types'
    BY <1>1 DEF Types, Phases
  <1>3. UserRoots(proctab', phase', pagetable') \subseteq UserRoots(proctab, phase, pagetable)
    BY <1>1 DEF UserRoots
  <1>4. Sound(pgfreelist, memory, roots, stacks, swapped,
              UserRoots(proctab', phase', pagetable'))
    BY <1>1, <1>3, SoundFewer DEF Pages
  <1>5. Pages'
    BY <1>1, <1>4 DEF Pages, Pool
  <1>6. Control'
    BY <1>1, <1>3 DEF Control, Filling
  <1>7. Summit'
    BY <1>1 DEF Summit
  <1> QED
    BY <1>2, <1>5, <1>6, <1>7 DEF Kept

(* What growth finds reached stays reached.                                *)
LEMMA ReachedStays ==
    ASSUME NEW free, NEW mem, NEW less, NEW new, NEW rs, NEW rest, NEW root \in rs, NEW ok,
           Grown(free, mem, less, new, rs, rest, root, ok), NEW va \in Nat,
           ReachedIn(mem, root, va)
    PROVE  ReachedIn(new, root, va)
PROOF
  <1> DEFINE i == VPN2(va)  j == VPN1(va)  t == mem[root][i].to
  <1>1. i \in Index /\ j \in Index
    BY Indices
  <1>2. LinkAt(mem, root, i) /\ LinkAt(mem, t, j)
    BY DEF ReachedIn
  <1> HIDE DEF i, j
  <1>3. root \in Trunk(mem, rs)
    BY DEF Trunk
  <1>4. t \in Trunk(mem, rs)
    <2>1. t \in Under(mem, root)
      BY <1>1, <1>2, UnderIs
    <2> QED
      BY <2>1 DEF Trunk, Mids
  <1>5. LinkAt(new, root, i) /\ new[root][i] = mem[root][i] /\ LinkAt(new, t, j)
    BY <1>1, <1>2, <1>3, <1>4 DEF Grown
  <1> QED
    BY <1>5 DEF ReachedIn, i, j

(* The pages that are still to be mapped, but for the next.                *)
LEMMA OneFewer ==
    ASSUME NEW S, NEW s \in Seq(S), s # <<>>
    PROVE  /\ Head(s) \in S /\ Tail(s) \in Seq(S)
           /\ IF Tail(s) = <<>> THEN Last(s) = Head(s) ELSE Last(Tail(s)) = Last(s)
PROOF
  <1>1. Len(s) \in Nat \ {0} /\ Head(s) = s[1] /\ Tail(s) \in Seq(S) /\ Len(Tail(s)) = Len(s) - 1
        /\ s[1] \in S
    OBVIOUS
  <1>2. \A k \in 1 .. Len(s) - 1 : Tail(s)[k] = s[k + 1]
    OBVIOUS
  <1>3. Tail(s) = <<>> => Len(s) = 1
    BY <1>1
  <1>4. Tail(s) # <<>> => Len(s) - 1 \in 1 .. Len(s) - 1
    BY <1>1
  <1>5. Tail(s) # <<>> => Tail(s)[Len(s) - 1] = s[Len(s)]
    BY <1>1, <1>2, <1>4
  <1> QED
    BY <1>1, <1>3, <1>5 DEF Last

(* A step that maps serves the first request.                               *)
LEMMA MapServes ==
    ASSUME Kept, MapNext
    PROVE  /\ pagetable \in roots /\ Head(todo) \in Asks
           /\ Forest(pgfreelist, memory, roots, Held(stacks, swapped))
           /\ Served(Now, pgTraverseAndCreate(Now, pagetable, Head(todo)), roots,
                     Held(stacks, swapped), pagetable, Head(todo))
PROOF
  <1> DEFINE n == pgTraverseAndCreate(Now, pagetable, Head(todo))
             req == Head(todo)
             rest == Held(stacks, swapped)
             m == Now
  <1>1. todo # <<>> /\ Keep(n) /\ Pages /\ Control
    BY DEF Kept, MapNext
  <1>2. pagetable \in roots /\ todo \in Seq(Asks)
    BY <1>1 DEF Control
  <1>3. req \in Asks
    BY <1>1, <1>2, OneFewer
  <1>4. req.va \in Nat /\ "R" \in req.attr
    BY <1>3, PageIs DEF Asks
  <1>5. Forest(pgfreelist, memory, roots, rest)
    BY <1>1 DEF Pages, Sound
  <1>6. Fields(m) /\ Forest(m.free, m.mem, roots, rest)
    BY <1>5, NowFields
  <1>7. IsLeaf(Leaf(req.pa, req.attr))
    BY <1>4 DEF IsLeaf, Leaf
  <1>8. ~pgTraverseAndCreate(m, pagetable, req).fault
    BY <1>1 DEF Keep
  <1> HIDE DEF m, req, rest
  <1>9. Served(m, pgTraverseAndCreate(m, pagetable, req), roots, rest, pagetable, req)
    BY <1>2, <1>4, <1>6, <1>7, <1>8, MapGrows
  <1> QED
    BY <1>2, <1>3, <1>5, <1>9 DEF m, req, rest

(* One page is mapped. *)
LEMMA MapKeeps == ASSUME Kept, MapNext PROVE Kept'
PROOF
  <1> DEFINE n == pgTraverseAndCreate(Now, pagetable, Head(todo))
             req == Head(todo)
             rest == Held(stacks, swapped)
             us == UserRoots(proctab, phase, pagetable)
             ok == {Leaf(req.pa, req.attr)}
  <1>1. /\ todo # <<>> /\ todo' = Tail(todo) /\ Keep(n)
        /\ UNCHANGED <<pgtbl_nents, pid, satp, proctab, phase, pagetable,
                       roots, stacks, swapped, calls>>
        /\ Types /\ Pages /\ Control /\ Summit
    BY DEF Kept, MapNext, past
  <1>2. pagetable \in roots /\ phase \in Filling \cup {"halted"} /\ todo \in Seq(Asks)
    BY <1>1 DEF Control
  <1>3. req \in Asks /\ Tail(todo) \in Seq(Asks)
        /\ IF Tail(todo) = <<>> THEN Last(todo) = req ELSE Last(Tail(todo)) = Last(todo)
    BY <1>1, <1>2, OneFewer
  <1>4. req.va \in Nat /\ "R" \in req.attr
    BY <1>3, PageIs DEF Asks
  <1>5. Sound(pgfreelist, memory, roots, stacks, swapped, us)
        /\ InUse(pgfreelist, memory, roots, rest) = Pool(phase)
    BY <1>1 DEF Pages
  <1>6. Forest(pgfreelist, memory, roots, rest)
    BY <1>5 DEF Sound
  <1>7. Served(Now, n, roots, rest, pagetable, req)
    BY MapServes
  <1>8. pgfreelist' = n.free /\ memory' = n.mem
    BY <1>1 DEF Keep
  <1>9. /\ Grown(pgfreelist, memory, pgfreelist', memory', roots, rest, pagetable, ok)
        /\ ReachedIn(memory', pagetable, req.va)
        /\ ReachedIn(memory, pagetable, req.va) => pgfreelist' = pgfreelist
        /\ \/ pgfreelist' = pgfreelist /\ DOMAIN memory[pagetable] # {}
           \/ pgfreelist' # <<>> => Head(pgfreelist') + PAGE_SIZE \in Lows(memory', roots)
    BY <1>7, <1>8, NowFields DEF Served
  <1>10. STACKMAGIC \notin ok
    BY <1>4 DEF STACKMAGIC, Leaf
  <1>11. ASSUME pagetable \in us PROVE Tail(todo) \in Seq(UserAsks) /\ req \in UserAsks
    BY <1>1, <1>11, OneFewer DEF Control
  <1>12. pagetable \in us => \A w \in ok : OkWord(w)
    BY <1>11 DEF UserAsks
  <1> HIDE DEF n, req, us, ok
  <1>13. /\ Sound(pgfreelist', memory', roots, stacks, swapped, us)
         /\ InUse(pgfreelist', memory', roots, rest) = Pool(phase)
    BY <1>2, <1>5, <1>9, <1>10, <1>12, SoundGrown
  <1>14. Pages'
    BY <1>1, <1>13 DEF Pages, us
  <1>15. Types'
    BY <1>1 DEF Types
  <1>16. PROCSTACKADDR \in Nat /\ SWAPAREAADDR \in Nat
    BY Parts
  <1>17. ReachedIn(memory, pagetable, PROCSTACKADDR) => ReachedIn(memory', pagetable, PROCSTACKADDR)
    BY <1>2, <1>9, <1>16, ReachedStays
  <1>18. Control'
    <2>1. phase = "user" => \/ ReachedIn(memory', pagetable, PROCSTACKADDR)
                            \/ Tail(todo) # <<>> /\ Last(Tail(todo)).va = PROCSTACKADDR
      BY <1>1, <1>3, <1>9, <1>17 DEF Control
    <2>2. phase = "swap" => Tail(todo) \in {<<>>, SwapMap}
      BY <1>1, Requests DEF Control
    <2>3. /\ phase \in Filling => pagetable \in roots
          /\ phase \in {"stack", "user", "swap"} => proctab[pid].stkbase \in stacks
          /\ phase \in {"reset", "listed", "kernel"} => Users(proctab) = {}
          /\ phase = "swap" => ReachedIn(memory, pagetable, PROCSTACKADDR)
      BY <1>1 DEF Control
    <2> QED
      BY <1>1, <1>2, <1>3, <1>11, <1>17, <2>1, <2>2, <2>3 DEF Control, us
  <1>19. ASSUME phase = "swap" PROVE pgfreelist' = pgfreelist
    <2>1. ReachedIn(memory, pagetable, PROCSTACKADDR) /\ req.va = SWAPAREAADDR
      BY <1>1, <1>19, Requests DEF Control, req
    <2>2. ReachedIn(memory, pagetable, SWAPAREAADDR)
      BY <2>1, OneTable DEF ReachedIn
    <2> QED
      BY <1>9, <2>1, <2>2
  <1>20. Summit'
    <2> SUFFICES ASSUME phase \notin {"halted", "processes"}, pgfreelist' # <<>>
                 PROVE  Clear(Head(pgfreelist') + PAGE_SIZE, memory', roots, us, phase,
                              pagetable, Tail(todo))
      BY <1>1 DEF Summit, us
    <2> DEFINE a == Head(pgfreelist') + PAGE_SIZE
    <2>1. a \notin Trunk(memory', roots)
      <3>1. CASE pgfreelist' = pgfreelist /\ DOMAIN memory[pagetable] # {}
        <4>1. a \notin Trunk(memory, roots)
          BY <1>1, <3>1 DEF Summit, Clear
        <4>2. a \notin ToSet(pgfreelist)
          BY <1>5, <3>1, SoundTypes, AboveList
        <4> QED
          BY <1>9, <4>1, <4>2 DEF Grown
      <3>2. CASE Head(pgfreelist') + PAGE_SIZE \in Lows(memory', roots)
        BY <1>13, <3>2, SoundTypes
      <3> QED
        BY <1>9, <3>1, <3>2
    <2>2. ASSUME phase = "swap", NEW u \in us PROVE a \notin TreeOf(memory', u)
      <3>1. pgfreelist' = pgfreelist
        BY <1>19, <2>2
      <3>2. a \notin TreeOf(memory, u)
        BY <1>1, <2>2, <3>1 DEF Summit, Clear, us
      <3>3. a \notin ToSet(pgfreelist)
        BY <1>5, <3>1, SoundTypes, AboveList
      <3>4. u \in roots
        BY <1>5, SoundTypes
      <3> HIDE DEF a
      <3>5. TreeOf(memory', u) \subseteq TreeOf(memory, u) \cup ToSet(pgfreelist)
        BY <1>9, <3>4 DEF Grown
      <3> QED
        BY <3>2, <3>3, <3>5
    <2>3. phase # "main"
      BY <1>2 DEF Filling
    <2> HIDE DEF a
    <2>4. Clear(a, memory', roots, us, phase, pagetable, Tail(todo))
      BY <2>1, <2>2, <2>3 DEF Clear
    <2> QED
      BY <2>4 DEF a
  <1> QED
    BY <1>14, <1>15, <1>18, <1>20 DEF Kept

(* The page of a stack. *)
LEMMA StackKeeps == ASSUME Kept, CreateStack PROVE Kept'
PROOF
  <1> DEFINE h == Head(pgfreelist)
             us == UserRoots(proctab, phase, pagetable)
             vs == UserRoots(proctab', phase', pagetable')
  <1>1. /\ phase = "main" /\ calls' = calls + 1 /\ calls < MaxCalls
        /\ Keep(pgalloc(Now)) /\ stacks' = stacks \cup {h}
        /\ \/ UNCHANGED <<phase, pid, proctab>>
           \/ \E p \in PID :
                /\ proctab' = [proctab EXCEPT ![p] =
                     [NoProcess EXCEPT !.used = TRUE, !.stkbase = h]]
                /\ phase' = "stack" /\ pid' = p
        /\ UNCHANGED <<pgtbl_nents, satp, pagetable, todo, roots, swapped>>
        /\ Types /\ Pages /\ Control /\ Summit
    BY DEF Kept, CreateStack
  <1>2. /\ Sound(pgfreelist, memory, roots, stacks, swapped, us)
        /\ InUse(pgfreelist, memory, roots, Held(stacks, swapped)) = Pool(phase)
        /\ todo = <<>>
    BY <1>1 DEF Pages, Control, Filling
  <1>3. /\ Whole(memory) /\ Listing(pgfreelist) /\ us \subseteq roots
        /\ \A r \in roots : TreeOf(memory, r) \cap ToSet(pgfreelist) = {}
        /\ Trunk(memory, roots) \cap ToSet(pgfreelist) = {}
    BY <1>2, SoundTypes
  <1>4. /\ pgfreelist # <<>> /\ pgfreelist' = Tail(pgfreelist)
        /\ Emptied(pgfreelist, memory, memory')
    BY <1>1, <1>3, Takes
  <1>5. /\ h \in HeapPage /\ h \in ToSet(pgfreelist)
        /\ Tail(pgfreelist) # <<>> => Head(Tail(pgfreelist)) + PAGE_SIZE = h
    BY <1>3, <1>4, AboveList
  <1>6. OutsideAbove(pgfreelist, memory, roots, us)
    BY <1>1, <1>4 DEF Summit, Clear, OutsideAbove
  <1>7. Joined(stacks', stacks, pgfreelist)
    BY <1>1 DEF Joined
  <1>8. /\ proctab' \in [PID -> Slot] /\ phase' \in {"main", "stack"} /\ pid' \in PID
        /\ vs \subseteq us
        /\ phase' = "stack" => proctab'[pid'].stkbase \in stacks'
    <2>1. CASE UNCHANGED <<phase, pid, proctab>>
      BY <1>1, <2>1 DEF Types
    <2>2. ASSUME NEW p \in PID,
                 proctab' = [proctab EXCEPT ![p] =
                     [NoProcess EXCEPT !.used = TRUE, !.stkbase = h]],
                 phase' = "stack", pid' = p
          PROVE  /\ proctab' \in [PID -> Slot] /\ phase' \in {"main", "stack"} /\ pid' \in PID
                 /\ vs \subseteq us
                 /\ phase' = "stack" => proctab'[pid'].stkbase \in stacks'
      <3> HIDE DEF h
      <3> DEFINE new == [NoProcess EXCEPT !.used = TRUE, !.stkbase = h]
      <3>1. new \in Slot /\ new.pagetable = NoPage /\ new.stkbase = h
        BY <1>5 DEF NoProcess, Slot
      <3> HIDE DEF new
      <3>2. proctab' \in [PID -> Slot] /\ proctab'[p] = new
            /\ \A q \in PID \ {p} : proctab'[q] = proctab[q]
        BY <1>1, <2>2, <3>1 DEF Types, new
      <3>3. Users(proctab') \subseteq Users(proctab)
        BY <3>1, <3>2 DEF Users
      <3>4. vs \subseteq us
        BY <1>1, <2>2, <3>3 DEF UserRoots
      <3>5. proctab'[pid'].stkbase = h /\ h \in stacks'
        BY <1>1, <2>2, <3>1, <3>2 DEF h
      <3> QED
        BY <2>2, <3>2, <3>4, <3>5
    <2> QED
      BY <1>1, <2>1, <2>2
  <1>9. Types'
    <2>1. calls' \in 0 .. MaxCalls
      BY <1>1, MemoryLayout DEF Types
    <2> QED
      BY <1>1, <1>8, <2>1 DEF Types, Phases
  <1>10. Pool(phase') = Pool(phase)
    BY <1>1, <1>8 DEF Pool
  <1> HIDE DEF us, vs
  <1>11. /\ Sound(Tail(pgfreelist), memory', roots, stacks', swapped, us)
         /\ InUse(Tail(pgfreelist), memory', roots, Held(stacks', swapped)) = Pool(phase)
         /\ Trunk(memory', roots) = Trunk(memory, roots)
         /\ \A r \in roots : TreeOf(memory', r) = TreeOf(memory, r)
    <2>1. Sound(Tail(pgfreelist), memory', roots, stacks', swapped, us)
      BY <1>2, <1>4, <1>6, <1>7, SoundStack
    <2> QED
      BY <1>2, <1>4, <1>6, <1>7, <2>1, SoundStack
  <1>12. Sound(Tail(pgfreelist), memory', roots, stacks', swapped, vs)
    BY <1>8, <1>11, SoundFewer
  <1>13. Pages'
    BY <1>1, <1>4, <1>8, <1>10, <1>11, <1>12 DEF Pages, vs
  <1>14. Control'
    BY <1>1, <1>2, <1>8 DEF Control, Filling
  <1>15. Summit'
    <2>1. h \notin Trunk(memory', roots) /\ \A u \in vs : h \notin TreeOf(memory', u)
      BY <1>3, <1>5, <1>8, <1>11
    <2>2. ASSUME pgfreelist' # <<>> PROVE Head(pgfreelist') + PAGE_SIZE = h
      BY <1>4, <1>5, <2>2
    <2> HIDE DEF h
    <2>3. Clear(h, memory', roots, vs, phase', pagetable', todo')
      BY <2>1 DEF Clear
    <2> QED
      BY <1>1, <2>2, <2>3 DEF Summit, vs
  <1> QED
    BY <1>9, <1>13, <1>14, <1>15 DEF Kept

(* The page of a swap area. *)
LEMMA SwapKeeps == ASSUME Kept, SwapArea PROVE Kept'
PROOF
  <1> DEFINE h == Head(pgfreelist)
             us == UserRoots(proctab, phase, pagetable)
  <1>1. /\ phase = "user" /\ todo = <<>> /\ phase' = "swap" /\ todo' = SwapMap
        /\ Keep([pgalloc(Now) EXCEPT !.mem[h] = Put(Zeroed, Fan - 1, Data)])
        /\ proctab' = [proctab EXCEPT ![pid].swaparea = h]
        /\ swapped' = swapped \cup {h}
        /\ UNCHANGED <<pgtbl_nents, pid, satp, pagetable, roots, stacks, calls>>
        /\ Types /\ Pages /\ Control
    BY DEF Kept, SwapArea
  <1>2. /\ Sound(pgfreelist, memory, roots, stacks, swapped, us)
        /\ InUse(pgfreelist, memory, roots, Held(stacks, swapped)) = Pool(phase)
    BY <1>1 DEF Pages
  <1>3. /\ Whole(memory) /\ Listing(pgfreelist) /\ us \subseteq roots
        /\ \A r \in roots : TreeOf(memory, r) \cap ToSet(pgfreelist) = {}
        /\ Trunk(memory, roots) \cap ToSet(pgfreelist) = {}
    BY <1>2, SoundTypes
  <1>4. /\ pgfreelist # <<>> /\ pgfreelist' = Tail(pgfreelist)
        /\ Used(pgfreelist, memory, memory') /\ 0 \notin DOMAIN memory'[Head(pgfreelist)]
    BY <1>1, <1>3, TakesSwap
  <1>5. /\ h \in HeapPage /\ h \in ToSet(pgfreelist)
        /\ Tail(pgfreelist) # <<>> => Head(Tail(pgfreelist)) + PAGE_SIZE = h
    BY <1>3, <1>4, AboveList
  <1>6. Joined(swapped', swapped, pgfreelist)
    BY <1>1 DEF Joined
  <1>7. Pool(phase') = Pool(phase)
    BY <1>1 DEF Pool
  <1>8. /\ proctab' \in [PID -> Slot] /\ Users(proctab') = Users(proctab)
        /\ proctab'[pid].stkbase = proctab[pid].stkbase
    <2> HIDE DEF h
    <2>1. /\ \A p \in PID : /\ proctab'[p].pagetable = proctab[p].pagetable
                            /\ proctab'[p].stkbase = proctab[p].stkbase
          /\ proctab' \in [PID -> Slot] /\ pid \in PID
      BY <1>1, <1>5 DEF Types, Slot
    <2> QED
      BY <2>1, UsersSame
  <1>9. UserRoots(proctab', phase', pagetable') = us
    BY <1>1, <1>8 DEF UserRoots
  <1>10. Types'
    BY <1>1, <1>8 DEF Types, Phases
  <1> HIDE DEF us
  <1>11. Sound(Tail(pgfreelist), memory', roots, stacks, swapped', us)
    BY <1>2, <1>4, <1>6, SoundSwap
  <1>12. /\ InUse(Tail(pgfreelist), memory', roots, Held(stacks, swapped')) = Pool(phase)
         /\ Trunk(memory', roots) = Trunk(memory, roots)
         /\ \A r \in roots : TreeOf(memory', r) = TreeOf(memory, r)
         /\ \A x \in Trunk(memory, roots) : memory'[x] = memory[x]
    BY <1>2, <1>4, <1>6, <1>11, SoundSwap
  <1>13. Pages'
    BY <1>1, <1>4, <1>7, <1>9, <1>11, <1>12 DEF Pages
  <1>14. ReachedIn(memory', pagetable, PROCSTACKADDR)
    <2> DEFINE i == VPN2(PROCSTACKADDR)  j == VPN1(PROCSTACKADDR)  t == memory[pagetable][i].to
    <2>1. i \in Index /\ j \in Index
      BY Parts, Indices
    <2>2. LinkAt(memory, pagetable, i) /\ LinkAt(memory, t, j) /\ pagetable \in roots
      BY <1>1 DEF Control, ReachedIn, Filling
    <2> HIDE DEF i, j
    <2>3. pagetable \in Trunk(memory, roots)
      BY <2>2 DEF Trunk
    <2>4. t \in Trunk(memory, roots)
      <3>1. t \in Under(memory, pagetable)
        BY <2>1, <2>2, UnderIs
      <3> QED
        BY <2>2, <3>1 DEF Trunk, Mids
    <2>5. memory'[pagetable] = memory[pagetable] /\ memory'[t] = memory[t]
      BY <1>12, <2>3, <2>4
    <2>6. LinkAt(memory', pagetable, i) /\ memory'[pagetable][i].to = t /\ LinkAt(memory', t, j)
      BY <2>2, <2>5 DEF LinkAt
    <2> QED
      BY <2>6 DEF ReachedIn, i, j
  <1>15. Control'
    <2>1. SwapMap \in Seq(Asks) /\ SwapMap \in Seq(UserAsks)
      <3>1. UserAsks \subseteq Asks
        BY DEF UserAsks
      <3> QED
        BY <3>1, Requests
    <2>2. pagetable \in roots /\ proctab[pid].stkbase \in stacks
      BY <1>1 DEF Control, Filling
    <2> QED
      BY <1>1, <1>8, <1>14, <2>1, <2>2 DEF Control, Filling
  <1>16. Summit'
    <2>1. h \notin Trunk(memory', roots) /\ \A u \in us : h \notin TreeOf(memory', u)
      BY <1>3, <1>5, <1>12
    <2>2. ASSUME pgfreelist' # <<>> PROVE Head(pgfreelist') + PAGE_SIZE = h
      BY <1>4, <1>5, <2>2
    <2> HIDE DEF h
    <2>3. Clear(h, memory', roots, us, phase', pagetable', todo')
      BY <2>1 DEF Clear
    <2> QED
      BY <1>1, <1>9, <2>2, <2>3 DEF Summit
  <1> QED
    BY <1>10, <1>13, <1>15, <1>16 DEF Kept

(* The record on the stack, and the word above it. *)
LEMMA CreateRecordKeeps == ASSUME Kept, CreateRecord PROVE Kept'
PROOF
  <1> DEFINE s  == proctab[pid].stkbase
             us == UserRoots(proctab, phase, pagetable)
             vs == UserRoots(proctab', phase', pagetable')
  <1>1. /\ phase = "swap" /\ todo = <<>> /\ phase' = "main"
        /\ memory' = WriteRecord(memory, s)
        /\ proctab' = [proctab EXCEPT ![pid].pagetable = pagetable]
        /\ UNCHANGED <<pgfreelist, pgtbl_nents, pid, satp, pagetable, todo,
                       roots, stacks, swapped, calls>>
        /\ Types /\ Pages /\ Control /\ Summit
    BY DEF Kept, CreateRecord, past
  <1>2. /\ Sound(pgfreelist, memory, roots, stacks, swapped, us)
        /\ InUse(pgfreelist, memory, roots, Held(stacks, swapped)) = Pool(phase)
    BY <1>1 DEF Pages
  <1>3. s \in stacks /\ s \in HeapPage /\ us \subseteq roots
    BY <1>1, <1>2, SoundTypes DEF Control
  <1>4. proctab' \in [PID -> Slot] /\ vs \subseteq us
    <2>1. /\ \A p \in PID : proctab'[p].pagetable \in {proctab[p].pagetable, pagetable}
          /\ proctab' \in [PID -> Slot]
      BY <1>1 DEF Types, Slot
    <2>2. Users(proctab') \subseteq Users(proctab) \cup {pagetable}
      BY <2>1 DEF Users
    <2> QED
      BY <1>1, <2>1, <2>2 DEF UserRoots
  <1>5. Types'
    BY <1>1, <1>4 DEF Types, Phases
  <1>6. Pool(phase') = Pool(phase)
    BY <1>1 DEF Pool
  <1> HIDE DEF us, vs, s
  <1>7. /\ Sound(pgfreelist, memory', roots, stacks, swapped, us)
        /\ InUse(pgfreelist, memory', roots, Held(stacks, swapped)) = Pool(phase)
        /\ Trunk(memory', roots) = Trunk(memory, roots)
        /\ \A r \in roots : TreeOf(memory', r) = TreeOf(memory, r)
    <2>1. LET new == WriteRecord(memory, s)
          IN  /\ Sound(pgfreelist, new, roots, stacks, swapped, us)
              /\ InUse(pgfreelist, new, roots, Held(stacks, swapped))
                   = InUse(pgfreelist, memory, roots, Held(stacks, swapped))
              /\ Trunk(new, roots) = Trunk(memory, roots)
              /\ \A r \in roots : TreeOf(new, r) = TreeOf(memory, r)
      <3>1. Sound(pgfreelist, WriteRecord(memory, s), roots, stacks, swapped, us)
        BY <1>2, <1>3, SoundRecord
      <3> QED
        BY <1>2, <1>3, <3>1, SoundRecord
    <2> QED
      BY <1>1, <1>2, <2>1
  <1>8. Sound(pgfreelist, memory', roots, stacks, swapped, vs)
    BY <1>4, <1>7, SoundFewer
  <1>9. Pages'
    BY <1>1, <1>6, <1>7, <1>8 DEF Pages, vs
  <1>10. Control'
    BY <1>1 DEF Control, Filling
  <1>11. Summit'
    <2> SUFFICES ASSUME pgfreelist # <<>>
                 PROVE  Clear(Head(pgfreelist) + PAGE_SIZE, memory', roots, vs, phase',
                              pagetable', todo')
      BY <1>1 DEF Summit, vs
    <2> DEFINE a == Head(pgfreelist) + PAGE_SIZE
    <2>1. a \notin Trunk(memory, roots) /\ \A u \in us : a \notin TreeOf(memory, u)
      BY <1>1 DEF Summit, Clear, us
    <2> HIDE DEF a
    <2>2. a \notin Trunk(memory', roots) /\ \A u \in vs : a \notin TreeOf(memory', u)
      BY <1>3, <1>4, <1>7, <2>1
    <2>3. Clear(a, memory', roots, vs, phase', pagetable', todo')
      BY <2>2 DEF Clear
    <2> QED
      BY <2>3 DEF a
  <1> QED
    BY <1>5, <1>9, <1>10, <1>11 DEF Kept

(* The table of the test cases. *)
LEMMA ThirdPage ==
    ASSUME NEW f, Listing(f), f # <<>>, Tail(f) # <<>>, Tail(Tail(f)) # <<>>,
           Tail(Tail(Tail(f))) # <<>>
    PROVE  Head(Tail(Tail(Tail(f)))) + PAGE_SIZE \in ToSet(f)
PROOF
  <1> DEFINE g == Tail(f)  k == Tail(g)
  <1>1. Listing(g) /\ ToSet(g) \subseteq ToSet(f) /\ g # <<>> /\ k # <<>> /\ Tail(k) # <<>>
    BY TakeHead
  <1> HIDE DEF g
  <1>2. Listing(k) /\ ToSet(k) \subseteq ToSet(g)
    BY <1>1, TakeHead
  <1> HIDE DEF k
  <1>3. Head(Tail(k)) + PAGE_SIZE = Head(k) /\ Head(k) \in ToSet(k)
    BY <1>1, <1>2, AboveList
  <1> QED
    BY <1>1, <1>2, <1>3 DEF g, k

(* A step that makes the tests' table begins a root and enters one word.    *)
LEMMA FakeServes ==
    ASSUME Kept, createFakeTable
    PROVE  LET h    == Head(pgfreelist)
               rest == Held(stacks, swapped)
           IN  /\ pgfreelist # <<>>
               /\ pgfreelist' # <<>> => Head(pgfreelist') + PAGE_SIZE \in ToSet(pgfreelist)
               /\ \E mid : /\ Emptied(pgfreelist, memory, mid)
                           /\ Grown(Tail(pgfreelist), mid, pgfreelist', memory', roots', rest,
                                    h, {FakeWord})
                           /\ OneWord(mid, memory', roots', h, VPN2(FakeVa), VPN1(FakeVa),
                                      VPN0(FakeVa), FakeWord)
               /\ pgfreelist' # <<>> => Head(pgfreelist') + PAGE_SIZE \in Lows(memory', roots')
               /\ Narrow(memory) => Narrow(memory')
PROOF
  <1> DEFINE rest == Held(stacks, swapped)  m == Now  n == FakeTable(m)
  <1>1. Keep(n) /\ roots' = roots \cup {Head(pgfreelist)} /\ Pages
    BY DEF Kept, createFakeTable
  <1>2. Forest(pgfreelist, memory, roots, rest) /\ Listing(pgfreelist)
    BY <1>1, SoundTypes DEF Pages, Sound
  <1>3. Joined(roots', roots, pgfreelist)
    BY <1>1 DEF Joined
  <1>4. Fields(m) /\ m.free = pgfreelist /\ m.mem = memory
    BY NowFields
  <1>5. ~n.fault /\ pgfreelist' = n.free /\ memory' = n.mem
    BY <1>1 DEF Keep
  <1> HIDE DEF m, rest
  <1>6. Forest(m.free, m.mem, roots, rest) /\ Joined(roots', roots, m.free)
    BY <1>2, <1>3, <1>4
  <1>7. LET k == FakeTable(m)
        IN  /\ m.free # <<>>
            /\ \E mid : /\ Emptied(m.free, m.mem, mid)
                        /\ Grown(Tail(m.free), mid, k.free, k.mem, roots', rest,
                                 Head(m.free), {FakeWord})
                        /\ OneWord(mid, k.mem, roots', Head(m.free), VPN2(FakeVa),
                                   VPN1(FakeVa), VPN0(FakeVa), FakeWord)
            /\ Narrow(m.mem) => Narrow(k.mem)
            /\ k.free # <<>> => Head(k.free) + PAGE_SIZE \in Lows(k.mem, roots')
    BY <1>4, <1>5, <1>6, FakeGrows
  <1>8. /\ m.free # <<>> /\ Tail(m.free) # <<>> /\ Tail(Tail(m.free)) # <<>>
        /\ FakeTable(m).free = Tail(Tail(Tail(m.free)))
    BY <1>4, <1>5, FakeFields
  <1>9. pgfreelist' = Tail(Tail(Tail(pgfreelist))) /\ Tail(pgfreelist) # <<>>
        /\ Tail(Tail(pgfreelist)) # <<>> /\ pgfreelist # <<>>
    BY <1>4, <1>5, <1>8 DEF m
  <1>10. pgfreelist' # <<>> => Head(pgfreelist') + PAGE_SIZE \in ToSet(pgfreelist)
    BY <1>2, <1>9, ThirdPage
  <1> QED
    BY <1>4, <1>5, <1>7, <1>9, <1>10 DEF m, rest

(* createFakeTable(): a table of its own, of no process.                   *)
LEMMA FakeKeeps == ASSUME Kept, createFakeTable PROVE Kept'
PROOF
  <1> DEFINE h == Head(pgfreelist)
             us == UserRoots(proctab, phase, pagetable)
             rest == Held(stacks, swapped)
             ok == {FakeWord}
  <1>1. /\ phase = "main" /\ calls' = calls + 1 /\ calls < MaxCalls
        /\ roots' = roots \cup {h}
        /\ UNCHANGED <<pgtbl_nents, pid, satp, proctab, phase, pagetable, todo, stacks, swapped>>
        /\ Types /\ Pages /\ Control
    BY DEF Kept, createFakeTable
  <1>2. /\ Sound(pgfreelist, memory, roots, stacks, swapped, us)
        /\ InUse(pgfreelist, memory, roots, rest) = Pool(phase)
    BY <1>1 DEF Pages
  <1>3. /\ Forest(pgfreelist, memory, roots, rest) /\ Listing(pgfreelist) /\ us \subseteq roots
        /\ \A r \in roots : TreeOf(memory, r) \cap ToSet(pgfreelist) = {}
        /\ Trunk(memory, roots) \cap ToSet(pgfreelist) = {}
    BY <1>2, SoundTypes DEF Sound
  <1>4. Joined(roots', roots, pgfreelist)
    BY <1>1 DEF Joined
  <1>5. /\ pgfreelist # <<>>
        /\ pgfreelist' # <<>> => Head(pgfreelist') + PAGE_SIZE \in ToSet(pgfreelist)
        /\ \E mid : /\ Emptied(pgfreelist, memory, mid)
                    /\ Grown(Tail(pgfreelist), mid, pgfreelist', memory', roots', rest, h, ok)
        /\ pgfreelist' # <<>> => Head(pgfreelist') + PAGE_SIZE \in Lows(memory', roots')
    BY FakeServes
  <1>6. PICK mid : /\ Emptied(pgfreelist, memory, mid)
                   /\ Grown(Tail(pgfreelist), mid, pgfreelist', memory', roots', rest, h, ok)
    BY <1>5
  <1>7. h \in roots' /\ h \notin us /\ h \in ToSet(pgfreelist)
    <2>1. h \in ToSet(pgfreelist)
      BY <1>3, <1>5, AboveList
    <2>2. roots \subseteq Trunk(memory, roots)
      BY DEF Trunk
    <2> QED
      BY <1>1, <1>3, <2>1, <2>2
  <1>8. STACKMAGIC \notin ok
    BY DEF STACKMAGIC, FakeWord, FakeMap, mapPage, Leaf
  <1> HIDE DEF us, ok
  <1>9. us \subseteq us \cup {Head(pgfreelist)}
    OBVIOUS
  <1>10. /\ Sound(Tail(pgfreelist), mid, roots', stacks, swapped, us)
         /\ InUse(Tail(pgfreelist), mid, roots', rest) = Pool(phase)
         /\ \A r \in roots : TreeOf(mid, r) = TreeOf(memory, r)
    <2>1. Sound(Tail(pgfreelist), mid, roots', stacks, swapped, us)
      BY <1>2, <1>4, <1>5, <1>6, <1>9, SoundRoot
    <2> QED
      BY <1>2, <1>4, <1>5, <1>6, <1>9, <2>1, SoundRoot
  <1> HIDE DEF h
  <1>11. /\ Sound(pgfreelist', memory', roots', stacks, swapped, us)
         /\ InUse(pgfreelist', memory', roots', rest) = Pool(phase)
    <2>1. Sound(pgfreelist', memory', roots', stacks, swapped, us)
      BY <1>6, <1>7, <1>8, <1>10, SoundGrown
    <2> QED
      BY <1>6, <1>7, <1>8, <1>10, <2>1, SoundGrown
  <1>12. Pages'
    BY <1>1, <1>11 DEF Pages, us
  <1>13. Types'
    <2>1. calls' \in 0 .. MaxCalls
      BY <1>1, MemoryLayout DEF Types
    <2> QED
      BY <1>1, <2>1 DEF Types
  <1>14. Control'
    BY <1>1 DEF Control, Filling
  <1>15. Summit'
    <2> SUFFICES ASSUME pgfreelist' # <<>>
                 PROVE  Clear(Head(pgfreelist') + PAGE_SIZE, memory', roots', us, phase,
                              pagetable, todo)
      BY <1>1 DEF Summit, us
    <2> DEFINE a == Head(pgfreelist') + PAGE_SIZE
    <2>1. a \in Lows(memory', roots') /\ a \in ToSet(pgfreelist)
      BY <1>5
    <2> HIDE DEF a
    <2>2. a \notin Trunk(memory', roots')
      BY <1>11, <2>1, SoundTypes
    <2>3. ASSUME NEW u \in us PROVE a \notin TreeOf(memory', u)
      <3>1. u \in roots /\ u # h /\ u \in roots'
        BY <1>1, <1>3, <1>7, <2>3
      <3>2. TreeOf(memory', u) = TreeOf(mid, u)
        BY <1>6, <3>1 DEF Grown
      <3> QED
        BY <1>3, <1>10, <2>1, <3>1, <3>2
    <2>4. Clear(a, memory', roots', us, phase, pagetable, todo)
      BY <2>2, <2>3 DEF Clear
    <2> QED
      BY <2>4 DEF a
  <1> QED
    BY <1>12, <1>13, <1>14, <1>15 DEF Kept

(* Every step keeps the invariant.                                         *)
LEMMA NextKeeps == ASSUME Kept, [Next]_vars PROVE Kept'
PROOF
  <1>1. CASE pgInit
    BY <1>1, InitKeeps
  <1>2. CASE vm_kerninit
    BY <1>2, KernInitKeeps
  <1>3. CASE MapNext
    BY <1>3, MapKeeps
  <1>4. CASE set_satp
    BY <1>4, SetSatpKeeps
  <1>5. CASE CreateStack
    BY <1>5, StackKeeps
  <1>6. CASE vm_userinit
    BY <1>6, UserInitKeeps
  <1>7. CASE SwapArea
    BY <1>7, SwapKeeps
  <1>8. CASE CreateRecord
    BY <1>8, CreateRecordKeeps
  <1>9. ASSUME NEW p \in PID, kill(p) PROVE Kept'
    BY <1>9, KillKeeps
  <1>10. CASE createFakeTable
    BY <1>10, FakeKeeps
  <1>11. CASE AllocFaults \/ MapFaults \/ MainFaults
    <2>1. Halt /\ phase # "reset"
      BY <1>11 DEF AllocFaults, MapFaults, MainFaults, Kept, Control, Filling
    <2> QED
      BY <2>1, HaltKeeps
  <1>12. CASE UNCHANGED vars
    <2>1. Types' /\ Control'
      BY <1>12 DEF Kept, Types, Control, vars
    <2>2. Pages' /\ Summit'
      BY <1>12 DEF Kept, Pages, Summit, vars
    <2> QED
      BY <2>1, <2>2 DEF Kept
  <1> QED
    BY <1>1, <1>2, <1>3, <1>4, <1>5, <1>6, <1>7, <1>8, <1>9, <1>10, <1>11, <1>12 DEF Next

(* It holds at reset, so it always does.                                   *)
LEMMA Invariant == Spec => []Kept
PROOF
  <1>1. Init => Kept
    BY InitKept
  <1>2. Kept /\ [Next]_vars => Kept'
    BY NextKeeps
  <1> QED
    BY <1>1, <1>2, PTL DEF Spec

------------------------------------------------------------------------------
(* The model's trees are the proof's, in the present memory.               *)
LEMMA TreesAre ==
    /\ \A r : Tree(r) = TreeOf(memory, r)
    /\ \A t, i : Links(t, i) <=> LinkAt(memory, t, i)
    /\ UNION {Tree(r) : r \in roots} = Trunk(memory, roots) \cup Lows(memory, roots)
PROOF
  <1>1. \A t, i : Links(t, i) <=> LinkAt(memory, t, i)
    BY DEF Links, LinkAt
  <1>2. \A t : Below(t) = Under(memory, t)
    BY <1>1 DEF Below, Under
  <1>3. \A r : Tree(r) = TreeOf(memory, r)
    BY <1>2 DEF Tree, TreeOf
  <1>4. UNION {TreeOf(memory, r) : r \in roots} = Trunk(memory, roots) \cup Lows(memory, roots)
    <2>1. ASSUME NEW x \in Trunk(memory, roots) \cup Lows(memory, roots)
          PROVE  \E r \in roots : x \in TreeOf(memory, r)
      <3>1. CASE x \in Lows(memory, roots)
        <4>1. PICK t \in Mids(memory, roots) : x \in Under(memory, t)
          BY <3>1 DEF Lows
        <4>2. PICK r \in roots : t \in Under(memory, r)
          BY <4>1 DEF Mids
        <4> QED
          BY <4>1, <4>2 DEF TreeOf
      <3>2. CASE x \in Mids(memory, roots)
        BY <3>2 DEF Mids, TreeOf
      <3>3. CASE x \in roots
        BY <3>3 DEF TreeOf
      <3> QED
        BY <2>1, <3>1, <3>2, <3>3 DEF Trunk
    <2>2. \A r \in roots : TreeOf(memory, r) \subseteq Trunk(memory, roots) \cup Lows(memory, roots)
      BY TreeIs
    <2> QED
      BY <2>1, <2>2
  <1> QED
    BY <1>1, <1>3, <1>4

(* One link leads to each table but the root. *)
LEMMA OneLinkEach ==
    ASSUME Kept, NEW r \in roots
    PROVE  Cardinality(LinksOf(r)) = Cardinality(Tree(r)) - 1
PROOF
  <1> DEFINE T == TreeOf(memory, r)
             E == {e \in T \X Index : LinkAt(memory, e[1], e[2])}
             g == [e \in E |-> memory[e[1]][e[2]].to]
             rest == Held(stacks, swapped)
  <1>1. Forest(pgfreelist, memory, roots, rest)
    BY DEF Kept, Pages, Sound
  <1>2. LinksOf(r) = E /\ Tree(r) = T
    BY TreesAre DEF LinksOf
  <1>3. /\ roots \cap (Mids(memory, roots) \cup Lows(memory, roots)) = {}
        /\ Trunk(memory, roots) \cup Lows(memory, roots) \subseteq HeapPage
        /\ Mids(memory, roots) \cap Lows(memory, roots) = {}
    BY <1>1 DEF Forest, Placed, Trunk
  <1>4. /\ \A t \in Lows(memory, roots), i \in Index : ~LinkAt(memory, t, i)
        /\ \A t, u \in Trunk(memory, roots), i, j \in Index :
              LinkAt(memory, t, i) /\ LinkAt(memory, u, j) /\ memory[t][i].to = memory[u][j].to
                => t = u /\ i = j
    BY <1>1 DEF Forest, Branches
  <1>5. T \subseteq Trunk(memory, roots) \cup Lows(memory, roots) /\ r \in T
        /\ Under(memory, r) \subseteq Mids(memory, roots)
    BY TreeIs DEF TreeOf
  <1>6. ASSUME NEW t \in T, NEW i \in Index, LinkAt(memory, t, i)
        PROVE  t \in Trunk(memory, roots) /\ memory[t][i].to \in T \ {r}
    <2>1. t \notin Lows(memory, roots)
      BY <1>4, <1>6
    <2>2. t \in Trunk(memory, roots)
      BY <1>5, <2>1
    <2>3. t \in {r} \cup Under(memory, r)
      <3>1. ASSUME NEW u \in Under(memory, r), t \in Under(memory, u) PROVE FALSE
        BY <1>5, <2>1, <3>1 DEF Lows
      <3> QED
        BY <3>1 DEF TreeOf
    <2>4. memory[t][i].to \in Under(memory, t)
      BY <1>6, UnderIs
    <2>5. CASE t = r
      BY <1>3, <1>5, <2>2, <2>4, <2>5 DEF TreeOf
    <2>6. CASE t \in Under(memory, r)
      <3>1. memory[t][i].to \in Lows(memory, roots)
        BY <1>5, <2>4, <2>6 DEF Lows
      <3>2. memory[t][i].to \in TreeOf(memory, r)
        BY <2>4, <2>6 DEF TreeOf
      <3>3. memory[t][i].to # r
        BY <1>3, <3>1
      <3> QED
        BY <2>2, <3>2, <3>3
    <2> QED
      BY <2>2, <2>3, <2>5, <2>6
  <1>7. ASSUME NEW x \in T \ {r}
        PROVE  \E t \in T, i \in Index : LinkAt(memory, t, i) /\ memory[t][i].to = x
    <2>1. CASE x \in Under(memory, r)
      BY <1>5, <2>1, UnderIs DEF LinkAt
    <2>2. ASSUME NEW t \in Under(memory, r), x \in Under(memory, t) PROVE t \in T
      BY DEF TreeOf
    <2>3. ASSUME NEW t \in Under(memory, r), x \in Under(memory, t)
          PROVE  \E i \in Index : LinkAt(memory, t, i) /\ memory[t][i].to = x
      BY <2>3 DEF Under
    <2>4. ASSUME x \in Under(memory, r)
          PROVE  \E i \in Index : LinkAt(memory, r, i) /\ memory[r][i].to = x
      BY <2>4 DEF Under
    <2> QED
      BY <1>5, <1>7, <2>2, <2>3, <2>4 DEF TreeOf
  <1>8. IsFiniteSet(T) /\ IsFiniteSet(E) /\ IsFiniteSet(T \ {r})
        /\ Cardinality(T \ {r}) = Cardinality(T) - 1
    <2>1. IsFiniteSet(memheap .. maxaddr) /\ IsFiniteSet(Index)
      BY FS_Interval, Layout DEF Index
    <2>2. T \subseteq memheap .. maxaddr
      BY <1>3, <1>5, Layout
    <2> HIDE DEF T
    <2>3. IsFiniteSet(T)
      BY <2>1, <2>2, FS_Subset
    <2>4. IsFiniteSet(T \X Index)
      BY <2>1, <2>3, FS_Product
    <2>5. E \subseteq T \X Index
      OBVIOUS
    <2>6. IsFiniteSet(E)
      BY <2>4, <2>5, FS_Subset
    <2> QED
      BY <1>5, <2>3, <2>6, FS_RemoveElement
  <1> HIDE DEF T
  <1>9. g \in Bijection(E, T \ {r})
    <2>1. g \in [E -> T \ {r}]
      BY <1>6
    <2>2. \A a, b \in E : g[a] = g[b] => a = b
      BY <1>4, <1>6
    <2>3. \A x \in T \ {r} : \E e \in E : g[e] = x
      <3>1. ASSUME NEW x \in T \ {r} PROVE \E e \in E : g[e] = x
        <4>1. PICK t \in T, i \in Index : LinkAt(memory, t, i) /\ memory[t][i].to = x
          BY <1>7
        <4>2. <<t, i>> \in E /\ g[<<t, i>>] = x
          BY <4>1
        <4> QED
          BY <4>2
      <3> QED
        BY <3>1
    <2> QED
      BY <2>1, <2>2, <2>3, Fun_IsBij
  <1> DEFINE S == T \ {r}
  <1>10. ExistsBijection(E, S) /\ IsFiniteSet(S) /\ Cardinality(S) = Cardinality(T) - 1
    BY <1>8, <1>9 DEF ExistsBijection
  <1> HIDE DEF E, S
  <1>11. Cardinality(S) = Cardinality(E)
    BY <1>8, <1>10, FS_Bijection
  <1> QED
    BY <1>2, <1>10, <1>11

(* What the invariant implies, one property after another.                 *)
LEMMA KeptTypes == Kept => TypeOK
PROOF
  <1> SUFFICES ASSUME Kept PROVE TypeOK
    OBVIOUS
  <1>1. /\ pgfreelist \in Seq(HeapPage) /\ DOMAIN memory = HeapPage
        /\ roots \subseteq HeapPage /\ stacks \subseteq HeapPage /\ swapped \subseteq HeapPage
    BY SoundTypes DEF Kept, Pages
  <1>2. Types
    BY DEF Kept
  <1>3. \A p \in PID : proctab[p] \in Slot
    BY <1>2 DEF Types
  <1> QED
    BY <1>1, <1>2, <1>3 DEF Types, TypeOK, Slot, Phases

(* The trees of two roots, the list, stacks and swap areas share no page.  *)
LEMMA KeptApart == Kept => PagesApart
PROOF
  <1> SUFFICES ASSUME Kept PROVE PagesApart
    OBVIOUS
  <1> DEFINE rest == Held(stacks, swapped)
  <1>1. Forest(pgfreelist, memory, roots, rest) /\ stacks \cap swapped = {}
    BY DEF Kept, Pages, Sound
  <1>2. Listing(pgfreelist)
    BY <1>1 DEF Forest
  <1>3. IsInjective(pgfreelist)
    <2>1. ASSUME NEW a \in DOMAIN pgfreelist, NEW b \in DOMAIN pgfreelist,
                 pgfreelist[a] = pgfreelist[b], a # b PROVE FALSE
      <3>1. a \in Nat /\ b \in Nat /\ pgfreelist[a] \in Nat /\ pgfreelist[b] \in Nat
        <4>1. DOMAIN pgfreelist = 1 .. Len(pgfreelist) /\ Len(pgfreelist) \in Nat
              /\ \A i \in 1 .. Len(pgfreelist) : pgfreelist[i] \in HeapPage
          BY <1>2 DEF Listing
        <4>2. a \in 1 .. Len(pgfreelist) /\ b \in 1 .. Len(pgfreelist)
          BY <4>1
        <4>3. pgfreelist[a] \in HeapPage /\ pgfreelist[b] \in HeapPage
          BY <4>1, <4>2
        <4>4. a \in Nat /\ b \in Nat
          BY <4>1, <4>2
        <4>5. pgfreelist[a] \in Nat /\ pgfreelist[b] \in Nat
          BY <4>3, Layout
        <4> QED
          BY <4>4, <4>5
      <3>2. a < b \/ b < a
        BY <2>1, <3>1
      <3> QED
        BY <1>2, <2>1, <3>1, <3>2 DEF Listing
    <2> QED
      BY <2>1 DEF IsInjective
  <1>4. Free \cap (Trunk(memory, roots) \cup Lows(memory, roots)) = {}
        /\ Free \cap rest = {}
        /\ (Trunk(memory, roots) \cup Lows(memory, roots)) \cap rest = {}
    BY <1>1 DEF Forest, Placed, Free, Trunk
  <1>5. ASSUME NEW r \in roots PROVE Tree(r) \cap (Free \cup stacks \cup swapped) = {}
    BY <1>4, TreesAre, TreeIs DEF Held
  <1>6. ASSUME NEW r \in roots, NEW q \in roots, r # q PROVE Tree(r) \cap Tree(q) = {}
    <2> HIDE DEF rest
    <2> QED
      BY <1>1, <1>6, OneTree, TreesAre
  <1>7. Free \cap (stacks \cup swapped) = {}
    BY <1>4 DEF Held
  <1> QED
    BY <1>1, <1>3, <1>5, <1>6, <1>7, OneLinkEach DEF PagesApart

(* What pgfreerange() makes of the page count.  It stops before the last    *)
(* whole page, which pgInit() counts and the kernel maps: comments there    *)
(* speak of the entire memory space and of the number of all pages.         *)
OnePageShort ==
    phase # "reset" =>
        LET used == (UNION {Tree(r) : r \in roots}) \cup stacks \cup swapped
        IN  /\ Cardinality(Free \cup used) = pgtbl_nents - 1
            /\ LastPage \notin Free \cup used

(* What vm_userinit() and map.c make of the rights of a process: stack and  *)
(* swap area of all processes are the page at SWAPAREAADDR, and the pages   *)
(* allocated for them, which SYSTEM.md has mapped there, nobody reaches.    *)
Leaves(root) == UNION {Range(memory[t]) : t \in Tree(root)}
UsersApart ==
    \A p \in PID \ {NULLPROC} :
        proctab[p].used /\ proctab[p].pagetable # NoPage =>
            \A pte \in Leaves(proctab[p].pagetable) :
                "U" \in pte.attr =>
                    /\ pte.to \notin HeapPage
                    /\ "W" \in pte.attr => pte.to \in {UART_BASE, SWAPAREAADDR}

(* All pages in use are those of the first list.                           *)
LEMMA KeptShort == Kept => OnePageShort
PROOF
  <1> DEFINE trees == UNION {Tree(r) : r \in roots}
             used  == trees \cup stacks \cup swapped
  <1> SUFFICES ASSUME Kept, phase # "reset"
               PROVE  /\ Cardinality(Free \cup used) = pgtbl_nents - 1
                      /\ LastPage \notin Free \cup used
    BY DEF OnePageShort
  <1>1. /\ InUse(pgfreelist, memory, roots, Held(stacks, swapped))
             = ToSet(pgfreerange(memheap, maxaddr))
        /\ pgtbl_nents = nents
    BY DEF Kept, Pages, Pool
  <1>2. trees = Trunk(memory, roots) \cup Lows(memory, roots)
    BY TreesAre
  <1> HIDE DEF trees
  <1>3. Free \cup used = ToSet(pgfreerange(memheap, maxaddr))
    BY <1>1, <1>2 DEF InUse, Held, Free
  <1> HIDE DEF used
  <1> QED
    BY <1>1, <1>3, Ranged

(* The leaf of a walk is a word of the tree, and so harmless.              *)
LEMMA KeptUsers == Kept => UsersApart
PROOF
  <1> SUFFICES ASSUME Kept, NEW p \in PID \ {NULLPROC}, proctab[p].pagetable # NoPage,
                      NEW pte \in Leaves(proctab[p].pagetable), "U" \in pte.attr
               PROVE  pte.to \notin HeapPage
                      /\ ("W" \in pte.attr => pte.to \in {UART_BASE, SWAPAREAADDR})
    BY DEF UsersApart
  <1> DEFINE u == proctab[p].pagetable
  <1>1. u \in UserRoots(proctab, phase, pagetable)
    BY DEF UserRoots, Users
  <1>2. Harmless(memory, UserRoots(proctab, phase, pagetable))
    BY DEF Kept, Pages, Sound
  <1>3. PICK t \in TreeOf(memory, u) : pte \in Range(memory[t])
    BY TreesAre DEF Leaves
  <1>4. PICK i \in DOMAIN memory[t] : pte = memory[t][i]
    BY <1>3 DEF Range
  <1> HIDE DEF u
  <1>5. OkWord(pte)
    BY <1>1, <1>2, <1>3, <1>4 DEF Harmless
  <1> QED
    BY <1>5 DEF OkWord

(* The magic word is above a stack, where no upper table and no user's is. *)
LEMMA KeptStray == Kept => StrayWord
PROOF
  <1> SUFFICES ASSUME Kept, NEW p \in HeapPage, 0 \in DOMAIN memory[p], memory[p][0] = STACKMAGIC
               PROVE  /\ p - PAGE_SIZE \in stacks /\ p \notin Free
                      /\ \A q \in PID \ {NULLPROC} :
                          proctab[q].pagetable # NoPage => p \notin Tree(proctab[q].pagetable)
    BY DEF StrayWord
  <1> DEFINE us == UserRoots(proctab, phase, pagetable)
  <1>1. Magic(pgfreelist, memory, stacks) /\ AboveOf(pgfreelist, memory, roots, stacks, us)
    BY DEF Kept, Pages, Sound
  <1>2. p - PAGE_SIZE \in stacks /\ p \notin Free
    BY <1>1 DEF Magic, Free
  <1>3. (p - PAGE_SIZE) + PAGE_SIZE = p
    BY Layout
  <1>4. ASSUME NEW q \in PID \ {NULLPROC}, proctab[q].pagetable # NoPage
        PROVE  p \notin Tree(proctab[q].pagetable)
    <2>1. proctab[q].pagetable \in us
      BY <1>4 DEF UserRoots, Users
    <2> HIDE DEF us
    <2>2. p \notin TreeOf(memory, proctab[q].pagetable)
      BY <1>1, <1>2, <1>3, <2>1 DEF AboveOf
    <2> QED
      BY <2>2, TreesAre
  <1> QED
    BY <1>2, <1>4

------------------------------------------------------------------------------
(* Every variable keeps its type: what the kernel takes for a page of its   *)
(* heap is one, in every state of pgInit.c, pgalloc.c, map.c and create.c.  *)
THEOREM TypesKept == Spec => []TypeOK
PROOF
  BY Invariant, KeptTypes, PTL

(* A page is free, or in one place of one table tree, or a stack, or a swap *)
(* area: pgalloc() and pgTraverseAndCreate() never use a page twice.        *)
THEOREM PagesStayApart == Spec => []PagesApart
PROOF
  BY Invariant, KeptApart, PTL

(* pgtbl_nents, as pgInit() sets it, is one more than the pages that are    *)
(* free or in use, and the last page of RAM is none of them, whatever the   *)
(* comments of pgInit.c and pgFree.c say.                                   *)
THEOREM OneIsMissing == Spec => []OnePageShort
PROOF
  BY Invariant, KeptShort, PTL

(* What a process may reach through its table is no page of the heap, not   *)
(* even the stack allocated for it, and what it may write is the device and *)
(* the page at SWAPAREAADDR, which all processes share.                     *)
THEOREM UsersStayApart == Spec => []UsersApart
PROOF
  BY Invariant, KeptUsers, PTL

(* The word create() writes above a stack falls on no free page and on no   *)
(* table of a process.                                                      *)
THEOREM StrayWordIsPlaced == Spec => []StrayWord
PROOF
  BY Invariant, KeptStray, PTL

------------------------------------------------------------------------------
(* What the tables map: the model's walks are the proof's.                  *)
LEMMA KeptForest ==
    ASSUME Kept
    PROVE  /\ Forest(pgfreelist, memory, roots, Held(stacks, swapped))
           /\ Listing(pgfreelist) /\ Whole(memory) /\ roots \subseteq HeapPage
           /\ stacks \subseteq HeapPage
           /\ AboveOf(pgfreelist, memory, roots, stacks, UserRoots(proctab, phase, pagetable))
           /\ Magic(pgfreelist, memory, stacks)
           /\ UserRoots(proctab, phase, pagetable) \subseteq roots
           /\ Types /\ Pages /\ Control
PROOF
  <1>1. Sound(pgfreelist, memory, roots, stacks, swapped, UserRoots(proctab, phase, pagetable))
    BY DEF Kept, Pages
  <1>2. /\ Listing(pgfreelist) /\ Whole(memory) /\ roots \subseteq HeapPage
        /\ stacks \subseteq HeapPage
    BY <1>1, SoundTypes
  <1> QED
    BY <1>1, <1>2 DEF Sound, Kept

(* The path to an address leads to a lowest table, which is a page.         *)
LEMMA WalkIs ==
    ASSUME Kept, NEW r \in roots, NEW va \in Va
    PROVE  /\ IsMapped(r, va) <=> \E w : Has(memory, r, va, w)
           /\ \A w : Has(memory, r, va, w) =>
                /\ IsMapped(r, va) /\ Walk(r, va) = w
                /\ Level0(r, va) \in TreeOf(memory, r) /\ Level0(r, va) \in HeapPage
                /\ VPN0(va) \in DOMAIN memory[Level0(r, va)]
                /\ memory[Level0(r, va)][VPN0(va)] = w
PROOF
  <1> DEFINE i2 == VPN2(va)  i1 == VPN1(va)  i0 == VPN0(va)
             t == memory[r][i2].to  u == memory[t][i1].to
  <1>1. i2 \in Index /\ i1 \in Index /\ i0 \in Index
    BY PageIs
  <1>2. Links(r, i2) <=> LinkAt(memory, r, i2)
    BY TreesAre
  <1>3. Links(t, i1) <=> LinkAt(memory, t, i1)
    BY TreesAre
  <1>4. Level0(r, va) = IF LinkAt(memory, r, i2) /\ LinkAt(memory, t, i1) THEN u ELSE NoPage
    BY <1>2, <1>3 DEF Level0
  <1>5. ASSUME LinkAt(memory, r, i2), LinkAt(memory, t, i1)
        PROVE  Level0(r, va) = u /\ u \in TreeOf(memory, r) /\ u \in HeapPage /\ u # NoPage
    <2>1. u \in Lows(memory, roots) /\ u \in TreeOf(memory, r)
      BY <1>1, <1>5, PathIs
    <2>2. u \in HeapPage
      BY <2>1, KeptForest DEF Forest, Placed
    <2>3. u # NoPage
      <3> HIDE DEF u
      <3> QED
        BY <2>2, Layout DEF NoPage
    <2> QED
      BY <1>4, <1>5, <2>1, <2>2, <2>3
  <1>6. ASSUME NEW w
        PROVE  Has(memory, r, va, w) <=> /\ LinkAt(memory, r, i2) /\ LinkAt(memory, t, i1)
                                         /\ i0 \in DOMAIN memory[u] /\ memory[u][i0] = w
    BY DEF Has, Reads
  <1> HIDE DEF i2, i1, t, u
  <1>7. ASSUME NEW w, Has(memory, r, va, w)
        PROVE  /\ IsMapped(r, va) /\ Walk(r, va) = w
               /\ Level0(r, va) \in TreeOf(memory, r) /\ Level0(r, va) \in HeapPage
               /\ VPN0(va) \in DOMAIN memory[Level0(r, va)]
               /\ memory[Level0(r, va)][VPN0(va)] = w
    BY <1>5, <1>6, <1>7 DEF IsMapped, Walk
  <1>8. ASSUME IsMapped(r, va) PROVE \E w : Has(memory, r, va, w)
    <2>1. Level0(r, va) # NoPage /\ i0 \in DOMAIN memory[Level0(r, va)]
      BY <1>8 DEF IsMapped
    <2>2. LinkAt(memory, r, i2) /\ LinkAt(memory, t, i1) /\ Level0(r, va) = u
      BY <1>4, <2>1
    <2> QED
      BY <1>6, <2>1, <2>2
  <1> QED
    BY <1>7, <1>8

(* What each step does to the entries of the tables.                        *)
LEMMA MapEffect ==
    ASSUME Kept, MapNext
    PROVE  /\ pagetable \in roots /\ Head(todo) \in Asks /\ Head(todo).va \in Va
           /\ OneEntry(memory, memory', roots, pagetable, Head(todo).va,
                       Leaf(Head(todo).pa, Head(todo).attr))
           /\ Narrow(memory) => Narrow(memory')
PROOF
  <1> DEFINE req == Head(todo)  word == Leaf(req.pa, req.attr)
  <1>1. pagetable \in roots /\ req \in Asks
        /\ Served(Now, pgTraverseAndCreate(Now, pagetable, req), roots,
                  Held(stacks, swapped), pagetable, req)
    BY MapServes
  <1>2. memory' = pgTraverseAndCreate(Now, pagetable, req).mem
    BY DEF MapNext, Keep
  <1>3. /\ OneWord(memory, memory', roots, pagetable, VPN2(req.va), VPN1(req.va), VPN0(req.va), word)
        /\ Narrow(memory) => Narrow(memory')
    BY <1>1, <1>2, NowFields DEF Served
  <1>4. req.va \in Va
    BY <1>1 DEF Asks
  <1> DEFINE a == req.va
  <1> HIDE DEF a, word
  <1>5. a \in Va /\ OneWord(memory, memory', roots, pagetable, VPN2(a), VPN1(a), VPN0(a), word)
    BY <1>3, <1>4 DEF a
  <1>6. OneEntry(memory, memory', roots, pagetable, a, word)
    BY <1>5, WordEntry
  <1> QED
    BY <1>1, <1>3, <1>4, <1>6 DEF a, word

(* A page taken and cleared. *)
LEMMA TakeEffect ==
    ASSUME Kept, Keep(pgalloc(Now))
    PROVE  /\ SameEntries(memory, memory', roots) /\ Head(pgfreelist) \notin roots
           /\ memory'[Head(pgfreelist)] = Zeroed
           /\ Narrow(memory) => Narrow(memory')
PROOF
  <1>1. Forest(pgfreelist, memory, roots, Held(stacks, swapped)) /\ Listing(pgfreelist)
        /\ Whole(memory)
    BY KeptForest
  <1>2. pgfreelist # <<>> /\ Emptied(pgfreelist, memory, memory')
    BY <1>1, Takes
  <1>3. Used(pgfreelist, memory, memory') /\ DOMAIN memory'[Head(pgfreelist)] \subseteq Index
    BY <1>2 DEF Emptied, Used, Zeroed
  <1>4. Head(pgfreelist) \in ToSet(pgfreelist)
    BY <1>1, <1>2, AboveList
  <1>5. Head(pgfreelist) \notin roots
    BY <1>1, <1>4 DEF Forest, Placed, Trunk
  <1> QED
    BY <1>1, <1>2, <1>3, <1>5, TakenEntries DEF Emptied

LEMMA SwapEffect ==
    ASSUME Kept, SwapArea
    PROVE  SameEntries(memory, memory', roots) /\ (Narrow(memory) => Narrow(memory'))
PROOF
  <1>1. Forest(pgfreelist, memory, roots, Held(stacks, swapped)) /\ Listing(pgfreelist)
        /\ Whole(memory)
    BY KeptForest
  <1>2. Keep([pgalloc(Now) EXCEPT !.mem[Head(pgfreelist)] = Put(Zeroed, Fan - 1, Data)])
    BY DEF SwapArea
  <1>3. /\ pgfreelist # <<>> /\ Used(pgfreelist, memory, memory')
        /\ DOMAIN memory'[Head(pgfreelist)] \subseteq Index
    BY <1>1, <1>2, TakesSwap
  <1> QED
    BY <1>1, <1>3, TakenEntries

LEMMA RecordEffect ==
    ASSUME Kept, CreateRecord
    PROVE  /\ \/ SameEntries(memory, memory', roots)
              \/ \E root \in roots, a \in Va :
                    VPN0(a) = 0 /\ OneEntry(memory, memory', roots, root, a, STACKMAGIC)
           /\ Narrow(memory) => Narrow(memory')
PROOF
  <1> DEFINE s == proctab[pid].stkbase  rest == Held(stacks, swapped)
             us == UserRoots(proctab, phase, pagetable)
  <1>1. /\ Forest(pgfreelist, memory, roots, rest) /\ AboveOf(pgfreelist, memory, roots, stacks, us)
        /\ stacks \subseteq HeapPage /\ stacks \subseteq rest /\ Control
    BY KeptForest DEF Held
  <1>2. s \in stacks /\ memory' = WriteRecord(memory, s)
    BY <1>1 DEF CreateRecord, Control
  <1> HIDE DEF s, rest, us
  <1> QED
    BY <1>1, <1>2, RecordEntries

(* The tests' table: a new root with one entry.                             *)
LEMMA FakeEffect ==
    ASSUME Kept, createFakeTable
    PROVE  /\ SameEntries(memory, memory', roots) /\ Head(pgfreelist) \notin roots
           /\ FakeVa \in Va
           /\ \A va \in Va : \A w :
                Has(memory', Head(pgfreelist), va, w) <=> va = FakeVa /\ w = FakeWord
           /\ Narrow(memory) => Narrow(memory')
PROOF
  <1> DEFINE h == Head(pgfreelist)  rest == Held(stacks, swapped)
  <1>1. Forest(pgfreelist, memory, roots, rest) /\ Listing(pgfreelist)
    BY KeptForest
  <1>2. pgfreelist # <<>> /\ (Narrow(memory) => Narrow(memory'))
    BY FakeServes
  <1>3. PICK mid : /\ Emptied(pgfreelist, memory, mid)
                   /\ OneWord(mid, memory', roots', h, VPN2(FakeVa), VPN1(FakeVa),
                              VPN0(FakeVa), FakeWord)
    BY FakeServes
  <1>4. FakeVa \in Va
    <2>1. FakeVa = truncpage(PROCSTACKADDR)
      BY DEF FakeVa, FakeMap, mapPage
    <2> QED
      BY <2>1, Parts, Truncated, InSpan
  <1> DEFINE a == FakeVa
  <1> HIDE DEF a
  <1>5. OneEntry(mid, memory', roots', h, a, FakeWord)
    BY <1>3, <1>4, WordEntry DEF a
  <1>6. h \in ToSet(pgfreelist)
    BY <1>1, <1>2, AboveList
  <1>7. h \notin roots
    BY <1>1, <1>6 DEF Forest, Placed, Trunk
  <1>8. roots' = roots \cup {h}
    BY DEF createFakeTable
  <1>9. SameEntries(memory, mid, roots)
    <2>1. Used(pgfreelist, memory, mid)
      BY <1>3 DEF Emptied, Used
    <2> QED
      BY <1>1, <1>2, <2>1, TakenEntries
  <1>10. mid[h] = Zeroed
    BY <1>3 DEF Emptied
  <1> HIDE DEF h
  <1>11. SameEntries(memory, memory', roots)
    BY <1>5, <1>7, <1>8, <1>9 DEF SameEntries, OneEntry
  <1>12. ASSUME NEW va \in Va, NEW w
         PROVE  Has(memory', h, va, w) <=> va = a /\ w = FakeWord
    <2>1. ~Has(mid, h, va, w)
      BY <1>10, EmptyHas
    <2> QED
      BY <1>5, <1>8, <2>1 DEF OneEntry
  <1> QED
    BY <1>2, <1>4, <1>7, <1>11, <1>12 DEF a, h

------------------------------------------------------------------------------
(* Every address asked for is mapped as the last request for it says, or    *)
(* its entry, the first of a table, is a stack's magic word.                *)
Done(mem, r, reqs, k) ==
    \A i \in 1 .. k :
        \/ Has(mem, r, reqs[i].va, Leaf(reqs[i].pa, reqs[i].attr))
        \/ \E j \in i + 1 .. k : reqs[j].va = reqs[i].va
        \/ VPN0(reqs[i].va) = 0 /\ Has(mem, r, reqs[i].va, STACKMAGIC)

(* So far: asked is what is left of the requests.                           *)
Filled(mem, r, reqs, asked) ==
    \E k \in 0 .. Len(reqs) :
        asked = SubSeq(reqs, k + 1, Len(reqs)) /\ Done(mem, r, reqs, k)

(* What a process's table is asked to map. *)
UserAll == UserMap \o SwapMap

(* The kernel's table and the users' stay as asked, and the one being       *)
(* filled is no other's.                                                    *)
AsFilled ==
    /\ phase = "kernel" => Filled(memory, pagetable, KernelMap, todo)
    /\ phase = "user" => Filled(memory, pagetable, UserMap, todo)
    /\ phase = "swap" => Filled(memory, pagetable, UserAll, todo)
    /\ satp # NoPage => satp \in roots /\ Filled(memory, satp, KernelMap, <<>>)
    /\ \A p \in PID \ {NULLPROC} : proctab[p].pagetable # NoPage =>
          Filled(memory, proctab[p].pagetable, UserAll, <<>>)

(* Which processes have a table, and since when the kernel has one.         *)
Owners ==
    /\ \A p \in PID \ {NULLPROC} : proctab[p].used /\ proctab[p].pagetable = NoPage =>
          phase \in {"stack", "user", "swap", "halted"} /\ p = pid
    /\ phase \in {"user", "swap"} => pagetable # satp /\ pagetable \notin Users(proctab)
    /\ phase \in {"reset", "listed", "kernel"} => satp = NoPage
    /\ phase \in {"main", "stack", "user", "swap", "processes"} => satp # NoPage

Asked == Narrow(memory) /\ AsFilled /\ Owners

(* Before the first request nothing need be mapped.                         *)
LEMMA FilledStart ==
    ASSUME NEW mem, NEW r, NEW reqs \in Seq(Asks)
    PROVE  Filled(mem, r, reqs, reqs)
PROOF
  <1>1. 0 \in 0 .. Len(reqs) /\ SubSeq(reqs, 0 + 1, Len(reqs)) = reqs
    BY SubSeqFull
  <1>2. Done(mem, r, reqs, 0)
    BY DEF Done
  <1> QED
    BY <1>1, <1>2 DEF Filled

(* Serving the next request fills the table so much further.                *)
LEMMA FilledNext ==
    ASSUME NEW mem, NEW new, NEW rs, NEW r \in rs, NEW reqs \in Seq(Asks), NEW asked,
           Filled(mem, r, reqs, asked), asked # <<>>,
           OneEntry(mem, new, rs, r, Head(asked).va, Leaf(Head(asked).pa, Head(asked).attr))
    PROVE  Filled(new, r, reqs, Tail(asked)) /\ Head(asked) \in ToSet(reqs)
PROOF
  <1> DEFINE n == Len(reqs)
  <1>1. PICK k \in 0 .. n : asked = SubSeq(reqs, k + 1, n) /\ Done(mem, r, reqs, k)
    BY DEF Filled
  <1>2. n \in Nat /\ \A i \in 1 .. n : reqs[i] \in Asks
    OBVIOUS
  <1>3. k < n
    <2>1. CASE k = n
      <3>1. SubSeq(reqs, k + 1, n) = <<>>
        BY <1>2, <2>1, SubSeqEmpty
      <3> QED
        BY <1>1, <3>1
    <2> QED
      BY <1>2, <2>1
  <1>4. k + 1 \in 1 .. n /\ n \in (k + 1) .. n
    BY <1>2, <1>3
  <1>5. Head(asked) = reqs[k + 1] /\ Tail(asked) = SubSeq(reqs, (k + 1) + 1, n)
    BY <1>1, <1>4, HeadTailOfSubSeq
  <1> DEFINE q == reqs[k + 1]
  <1>6. OneEntry(mem, new, rs, r, q.va, Leaf(q.pa, q.attr))
    BY <1>5
  <1>7. \A i \in 1 .. n : reqs[i].va \in Va
    BY <1>2 DEF Asks
  <1>8. Done(new, r, reqs, k + 1)
    <2> SUFFICES ASSUME NEW i \in 1 .. k + 1
                 PROVE  \/ Has(new, r, reqs[i].va, Leaf(reqs[i].pa, reqs[i].attr))
                        \/ \E j \in i + 1 .. k + 1 : reqs[j].va = reqs[i].va
                        \/ VPN0(reqs[i].va) = 0 /\ Has(new, r, reqs[i].va, STACKMAGIC)
      BY DEF Done
    <2>1. reqs[i].va \in Va /\ q.va \in Va
      BY <1>4, <1>7
    <2>2. CASE i = k + 1
      BY <1>6, <2>1, <2>2 DEF OneEntry
    <2>3. CASE i # k + 1 /\ reqs[i].va = q.va
      <3>1. k + 1 \in i + 1 .. k + 1 /\ reqs[k + 1].va = reqs[i].va
        BY <1>2, <2>3
      <3> QED
        BY <3>1
    <2>4. CASE i # k + 1 /\ reqs[i].va # q.va
      <3>1. i \in 1 .. k /\ \A j \in i + 1 .. k : j \in i + 1 .. k + 1
        BY <2>4
      <3>2. \A w : Has(new, r, reqs[i].va, w) <=> Has(mem, r, reqs[i].va, w)
        BY <1>6, <2>1, <2>4 DEF OneEntry
      <3>3. \/ Has(mem, r, reqs[i].va, Leaf(reqs[i].pa, reqs[i].attr))
            \/ \E j \in i + 1 .. k : reqs[j].va = reqs[i].va
            \/ VPN0(reqs[i].va) = 0 /\ Has(mem, r, reqs[i].va, STACKMAGIC)
        BY <1>1, <3>1 DEF Done
      <3> QED
        BY <3>1, <3>2, <3>3
    <2> QED
      BY <2>2, <2>3, <2>4
  <1>9. Head(asked) \in ToSet(reqs)
    BY <1>4, <1>5 DEF ToSet
  <1>10. k + 1 \in 0 .. n
    BY <1>4
  <1> QED
    BY <1>5, <1>8, <1>9, <1>10 DEF Filled

(* A change that leaves what a table maps, or spoils the first entry of a   *)
(* lowest table of it.                                                      *)
Stays(mem, new, r) ==
    \A va \in Va : \A w : Has(mem, r, va, w) =>
        Has(new, r, va, w) \/ (VPN0(va) = 0 /\ Has(new, r, va, STACKMAGIC))

LEMMA SameStays ==
    ASSUME NEW mem, NEW new, NEW rs, NEW r \in rs, SameEntries(mem, new, rs)
    PROVE  Stays(mem, new, r)
PROOF
  BY DEF SameEntries, Stays

LEMMA OtherStays ==
    ASSUME NEW mem, NEW new, NEW rs, NEW r \in rs, NEW root, NEW a, NEW word,
           OneEntry(mem, new, rs, root, a, word), r # root
    PROVE  Stays(mem, new, r)
PROOF
  BY DEF OneEntry, Stays

LEMMA SpoiltStays ==
    ASSUME NEW mem, NEW new, NEW rs, NEW r \in rs, NEW root, NEW a, VPN0(a) = 0,
           OneEntry(mem, new, rs, root, a, STACKMAGIC)
    PROVE  Stays(mem, new, r)
PROOF
  <1> SUFFICES ASSUME NEW va \in Va, NEW w, Has(mem, r, va, w)
               PROVE  Has(new, r, va, w) \/ (VPN0(va) = 0 /\ Has(new, r, va, STACKMAGIC))
    BY DEF Stays
  <1>1. CASE r = root /\ va = a
    BY <1>1 DEF OneEntry
  <1>2. CASE ~(r = root /\ va = a)
    BY <1>2 DEF OneEntry
  <1> QED
    BY <1>1, <1>2

(* What was filled stays so.                                                *)
LEMMA FilledStays ==
    ASSUME NEW mem, NEW new, NEW r, NEW reqs \in Seq(Asks), NEW asked,
           Stays(mem, new, r), Filled(mem, r, reqs, asked)
    PROVE  Filled(new, r, reqs, asked)
PROOF
  <1> DEFINE n == Len(reqs)
  <1>1. PICK k \in 0 .. n : asked = SubSeq(reqs, k + 1, n) /\ Done(mem, r, reqs, k)
    BY DEF Filled
  <1>2. \A i \in 1 .. k : reqs[i].va \in Va
    <2>1. \A i \in 1 .. k : reqs[i] \in Asks
      OBVIOUS
    <2> QED
      BY <2>1 DEF Asks
  <1>3. Done(new, r, reqs, k)
    BY <1>1, <1>2 DEF Done, Stays
  <1> QED
    BY <1>1, <1>3 DEF Filled

(* When nothing is left to ask, all is mapped.                              *)
LEMMA FilledAll ==
    ASSUME NEW mem, NEW r, NEW reqs \in Seq(Asks), Filled(mem, r, reqs, <<>>)
    PROVE  Done(mem, r, reqs, Len(reqs))
PROOF
  <1> DEFINE n == Len(reqs)
  <1>1. PICK k \in 0 .. n : <<>> = SubSeq(reqs, k + 1, n) /\ Done(mem, r, reqs, k)
    BY DEF Filled
  <1>2. n \in Nat /\ \A i \in k + 1 .. n : reqs[i] \in Asks
    OBVIOUS
  <1>3. Len(SubSeq(reqs, k + 1, n)) = IF k + 1 <= n THEN n - (k + 1) + 1 ELSE 0
    BY <1>2, SubSeqProperties
  <1> DEFINE t == SubSeq(reqs, k + 1, n)
  <1>6. t = <<>>
    BY <1>1
  <1> HIDE DEF n, t
  <1>7. Len(t) = 0
    BY <1>6
  <1>4. Len(SubSeq(reqs, k + 1, n)) = 0
    BY <1>7 DEF t
  <1>5. k = n
    BY <1>2, <1>3, <1>4
  <1> QED
    BY <1>1, <1>5 DEF n

(* A process's table, when the image is mapped, lacks only the swap area.   *)
LEMMA FilledAppend ==
    ASSUME NEW mem, NEW r, Filled(mem, r, UserMap, <<>>)
    PROVE  Filled(mem, r, UserAll, SwapMap) /\ UserAll \in Seq(Asks)
PROOF
  <1> DEFINE s == UserMap  t == SwapMap  n == Len(s)
  <1>1. s \in Seq(Asks) /\ t \in Seq(Asks) /\ t # <<>>
    <2>1. \A S, T : S \subseteq T => Seq(S) \subseteq Seq(T)
      OBVIOUS
    <2>2. UserAsks \subseteq Asks
      BY DEF UserAsks
    <2> QED
      BY <2>1, <2>2, Requests
  <1>2. Done(mem, r, s, n)
    BY <1>1, FilledAll
  <1>3. UserAll = s \o t
    BY DEF UserAll
  <1> HIDE DEF s, t
  <1> DEFINE u == s \o t
  <1>4. /\ u \in Seq(Asks) /\ n \in Nat /\ Len(t) \in Nat /\ Len(t) > 0
        /\ Len(u) = n + Len(t) /\ \A i \in 1 .. n : u[i] = s[i]
    BY <1>1
  <1>5. SubSeq(u, n + 1, Len(u)) = t
    <2>1. n + 1 \in Len(s) + 1 .. Len(s) + Len(t) /\ Len(u) \in Len(s) + 1 .. Len(s) + Len(t)
      BY <1>4
    <2>2. SubSeq(s \o t, n + 1, Len(u)) = SubSeq(t, (n + 1) - Len(s), Len(u) - Len(s))
      BY <1>1, <2>1, SubSeqOfConcat2
    <2>3. (n + 1) - Len(s) = 1 /\ Len(u) - Len(s) = Len(t)
      BY <1>4
    <2> QED
      BY <1>1, <2>2, <2>3, SubSeqFull
  <1>6. Done(mem, r, u, n)
    <2> SUFFICES ASSUME NEW i \in 1 .. n
                 PROVE  \/ Has(mem, r, u[i].va, Leaf(u[i].pa, u[i].attr))
                        \/ \E j \in i + 1 .. n : u[j].va = u[i].va
                        \/ VPN0(u[i].va) = 0 /\ Has(mem, r, u[i].va, STACKMAGIC)
      BY DEF Done
    <2>1. u[i] = s[i] /\ \A j \in i + 1 .. n : u[j] = s[j]
      BY <1>4
    <2> HIDE DEF u, n
    <2>2. \/ Has(mem, r, s[i].va, Leaf(s[i].pa, s[i].attr))
          \/ \E j \in i + 1 .. n : s[j].va = s[i].va
          \/ VPN0(s[i].va) = 0 /\ Has(mem, r, s[i].va, STACKMAGIC)
      BY <1>2 DEF Done
    <2> QED
      BY <2>1, <2>2
  <1>7. n \in 0 .. Len(u)
    BY <1>4
  <1>8. Filled(mem, r, u, t)
    <2> HIDE DEF u, n
    <2> QED
      BY <1>5, <1>6, <1>7 DEF Filled
  <1> QED
    BY <1>3, <1>4, <1>8 DEF t

LEMMA AllAsks ==
    KernelMap \in Seq(Asks) /\ UserMap \in Seq(Asks) /\ SwapMap \in Seq(Asks)
    /\ UserAll \in Seq(Asks)
PROOF
  <1>1. \A S, T : S \subseteq T => Seq(S) \subseteq Seq(T)
    OBVIOUS
  <1>2. UserAsks \subseteq Asks
    BY DEF UserAsks
  <1>3. KernelMap \in Seq(Asks) /\ UserMap \in Seq(Asks) /\ SwapMap \in Seq(Asks)
    BY <1>1, <1>2, Requests
  <1>4. \A s, t : s \in Seq(Asks) /\ t \in Seq(Asks) => s \o t \in Seq(Asks)
    OBVIOUS
  <1> QED
    BY <1>3, <1>4 DEF UserAll

(* The roots in use.                                                        *)
LEMMA RootsIn ==
    ASSUME Kept
    PROVE  /\ Users(proctab) \subseteq roots /\ NoPage \notin roots
           /\ phase \in Filling => pagetable \in roots
           /\ \A p \in PID \ {NULLPROC} : proctab[p].pagetable # NoPage =>
                proctab[p].pagetable \in Users(proctab)
PROOF
  <1>1. UserRoots(proctab, phase, pagetable) \subseteq roots /\ Control /\ roots \subseteq HeapPage
    BY KeptForest
  <1>2. NoPage \notin HeapPage
    BY Layout DEF NoPage
  <1> QED
    BY <1>1, <1>2 DEF UserRoots, Users, Control

(* Tables that are full stay full when no request is for them.              *)
LEMMA FullStay ==
    ASSUME Kept, Asked, satp' = satp, roots \subseteq roots',
           \A r \in roots \cap ({satp} \cup Users(proctab)) : Stays(memory, memory', r)
    PROVE  /\ satp' # NoPage => satp' \in roots' /\ Filled(memory', satp', KernelMap, <<>>)
           /\ \A p \in PID \ {NULLPROC} : proctab[p].pagetable # NoPage =>
                Filled(memory', proctab[p].pagetable, UserAll, <<>>)
PROOF
  <1>1. AsFilled
    BY DEF Asked
  <1>2. satp # NoPage => satp \in roots' /\ Filled(memory', satp, KernelMap, <<>>)
    BY <1>1, AllAsks, FilledStays DEF AsFilled
  <1>3. ASSUME NEW p \in PID \ {NULLPROC}, proctab[p].pagetable # NoPage
        PROVE  Filled(memory', proctab[p].pagetable, UserAll, <<>>)
    <2> DEFINE r == proctab[p].pagetable
    <2>1. r \in Users(proctab) /\ r \in roots
      BY <1>3, RootsIn
    <2>2. Filled(memory, r, UserAll, <<>>)
      BY <1>1, <1>3 DEF AsFilled
    <2>3. Stays(memory, memory', r)
      BY <2>1
    <2> HIDE DEF r
    <2>4. Filled(memory', r, UserAll, <<>>)
      BY <2>2, <2>3, AllAsks, FilledStays
    <2> QED
      BY <2>4 DEF r
  <1> QED
    BY <1>2, <1>3

(* At reset nothing is mapped.                                              *)
LEMMA AskedInit == ASSUME Init PROVE Asked
PROOF
  <1>1. Narrow(memory)
    BY DEF Init, Narrow, Zeroed
  <1>2. AsFilled
    BY DEF Init, AsFilled, NoProcess
  <1>3. Owners
    BY DEF Init, Owners, NoProcess
  <1> QED
    BY <1>1, <1>2, <1>3 DEF Asked

LEMMA ListAsked == ASSUME Kept, Asked, pgInit PROVE Asked'
PROOF
  <1>1. /\ phase = "reset" /\ phase' = "listed"
        /\ UNCHANGED <<memory, pid, satp, proctab, pagetable, todo, roots>>
    BY DEF pgInit, past
  <1> QED
    BY <1>1 DEF Asked, AsFilled, Owners

(* A table is begun. *)
LEMMA NewAsked ==
    ASSUME Kept, Asked, NewTable, satp' = satp
    PROVE  /\ \A s \in Seq(Asks) : Filled(memory', pagetable', s, s)
           /\ satp' # NoPage => satp' \in roots' /\ Filled(memory', satp', KernelMap, <<>>)
           /\ \A p \in PID \ {NULLPROC} : proctab[p].pagetable # NoPage =>
                Filled(memory', proctab[p].pagetable, UserAll, <<>>)
           /\ Narrow(memory') /\ pagetable' \notin roots
PROOF
  <1>1. /\ Keep(pgalloc(Now)) /\ pagetable' = Head(pgfreelist)
        /\ roots' = roots \cup {Head(pgfreelist)}
    BY DEF NewTable
  <1>2. SameEntries(memory, memory', roots) /\ pagetable' \notin roots /\ Narrow(memory')
    BY <1>1, TakeEffect DEF Asked
  <1>3. \A r \in roots : Stays(memory, memory', r)
    BY <1>2, SameStays
  <1> QED
    BY <1>1, <1>2, <1>3, FullStay, FilledStart

LEMMA KernInitAsked == ASSUME Kept, Asked, vm_kerninit PROVE Asked'
PROOF
  <1>1. /\ phase = "listed" /\ phase' = "kernel" /\ NewTable /\ todo' = KernelMap
        /\ satp' = satp /\ proctab' = proctab /\ pid' = pid
    BY DEF vm_kerninit
  <1>2. Filled(memory', pagetable', KernelMap, KernelMap) /\ Narrow(memory')
    BY <1>1, NewAsked, AllAsks
  <1>3. /\ satp' # NoPage => satp' \in roots' /\ Filled(memory', satp', KernelMap, <<>>)
        /\ \A p \in PID \ {NULLPROC} : proctab'[p].pagetable # NoPage =>
                Filled(memory', proctab'[p].pagetable, UserAll, <<>>)
    BY <1>1, NewAsked
  <1>4. AsFilled'
    BY <1>1, <1>2, <1>3 DEF AsFilled
  <1>5. Owners'
    BY <1>1 DEF Asked, Owners
  <1> QED
    BY <1>2, <1>4, <1>5 DEF Asked

LEMMA UserInitAsked == ASSUME Kept, Asked, vm_userinit PROVE Asked'
PROOF
  <1>1. /\ phase = "stack" /\ phase' = "user" /\ NewTable /\ todo' = UserMap
        /\ satp' = satp /\ proctab' = proctab /\ pid' = pid
    BY DEF vm_userinit
  <1>2. Filled(memory', pagetable', UserMap, UserMap) /\ Narrow(memory') /\ pagetable' \notin roots
    BY <1>1, NewAsked, AllAsks
  <1>3. /\ satp' # NoPage => satp' \in roots' /\ Filled(memory', satp', KernelMap, <<>>)
        /\ \A p \in PID \ {NULLPROC} : proctab'[p].pagetable # NoPage =>
                Filled(memory', proctab'[p].pagetable, UserAll, <<>>)
    BY <1>1, NewAsked
  <1>4. AsFilled'
    BY <1>1, <1>2, <1>3 DEF AsFilled
  <1>5. satp \in roots /\ Users(proctab) \subseteq roots
    BY <1>1, RootsIn DEF Asked, AsFilled, Owners
  <1>6. pagetable' # satp' /\ pagetable' \notin Users(proctab')
    BY <1>1, <1>2, <1>5
  <1>7. Owners'
    BY <1>1, <1>6 DEF Asked, Owners
  <1> QED
    BY <1>2, <1>4, <1>7 DEF Asked

(* A page is mapped. *)
LEMMA MapAsked == ASSUME Kept, Asked, MapNext PROVE Asked'
PROOF
  <1> DEFINE req == Head(todo)
  <1>1. /\ phase # "halted" /\ todo # <<>> /\ todo' = Tail(todo)
        /\ UNCHANGED <<pid, satp, proctab, phase, pagetable, roots>>
    BY DEF MapNext, past
  <1>2. /\ pagetable \in roots
        /\ OneEntry(memory, memory', roots, pagetable, req.va, Leaf(req.pa, req.attr))
        /\ Narrow(memory')
    BY MapEffect DEF Asked
  <1>3. phase \in Filling
    BY <1>1 DEF Kept, Control
  <1>4. pagetable # satp /\ pagetable \notin Users(proctab)
    <2>1. phase \in {"reset", "listed", "kernel"} => Users(proctab) = {}
      BY DEF Kept, Control
    <2>2. CASE phase = "kernel"
      BY <1>2, <2>1, <2>2, RootsIn DEF Asked, Owners
    <2>3. CASE phase \in {"user", "swap"}
      BY <2>3 DEF Asked, Owners
    <2> QED
      BY <1>3, <2>2, <2>3 DEF Filling
  <1>5. \A r \in roots \cap ({satp} \cup Users(proctab)) : Stays(memory, memory', r)
    BY <1>2, <1>4, OtherStays
  <1>6. /\ satp' # NoPage => satp' \in roots' /\ Filled(memory', satp', KernelMap, <<>>)
        /\ \A p \in PID \ {NULLPROC} : proctab[p].pagetable # NoPage =>
                Filled(memory', proctab[p].pagetable, UserAll, <<>>)
    BY <1>1, <1>5, FullStay
  <1>7. ASSUME NEW s \in Seq(Asks), Filled(memory, pagetable, s, todo)
        PROVE  Filled(memory', pagetable, s, Tail(todo))
    BY <1>1, <1>2, <1>7, FilledNext
  <1>8. AsFilled'
    BY <1>1, <1>6, <1>7, AllAsks DEF Asked, AsFilled
  <1>9. Owners'
    BY <1>1 DEF Asked, Owners
  <1> QED
    BY <1>2, <1>8, <1>9 DEF Asked

(* The kernel's table is full when it is switched on. *)
LEMMA SatpAsked == ASSUME Kept, Asked, set_satp PROVE Asked'
PROOF
  <1>1. /\ phase = "kernel" /\ todo = <<>> /\ satp' = pagetable /\ phase' = "main"
        /\ proctab' = [proctab EXCEPT ![NULLPROC].pagetable = pagetable]
        /\ UNCHANGED <<memory, pid, pagetable, todo, roots>>
    BY DEF set_satp, past, pages
  <1>2. pagetable \in roots /\ pagetable # NoPage
    BY <1>1, RootsIn DEF Filling
  <1>3. \A p \in PID \ {NULLPROC} : proctab'[p] = proctab[p]
    BY <1>1 DEF Kept, Types
  <1>4. AsFilled'
    BY <1>1, <1>2, <1>3 DEF Asked, AsFilled
  <1>5. Owners'
    BY <1>1, <1>2, <1>3 DEF Asked, Owners
  <1> QED
    BY <1>1, <1>4, <1>5 DEF Asked

LEMMA StackAsked == ASSUME Kept, Asked, CreateStack PROVE Asked'
PROOF
  <1>1. /\ phase = "main" /\ Keep(pgalloc(Now))
        /\ UNCHANGED <<satp, pagetable, todo, roots>>
        /\ \/ UNCHANGED <<phase, pid, proctab>>
           \/ \E p \in PID :
                /\ proctab' = [proctab EXCEPT ![p] =
                     [NoProcess EXCEPT !.used = TRUE, !.stkbase = Head(pgfreelist)]]
                /\ phase' = "stack" /\ pid' = p
    BY DEF CreateStack
  <1>2. SameEntries(memory, memory', roots) /\ Narrow(memory')
    BY <1>1, TakeEffect DEF Asked
  <1>3. \A r \in roots : Stays(memory, memory', r)
    BY <1>2, SameStays
  <1>4. /\ satp' # NoPage => satp' \in roots' /\ Filled(memory', satp', KernelMap, <<>>)
        /\ \A p \in PID \ {NULLPROC} : proctab[p].pagetable # NoPage =>
                Filled(memory', proctab[p].pagetable, UserAll, <<>>)
    BY <1>1, <1>3, FullStay
  <1>5. CASE UNCHANGED <<phase, pid, proctab>>
    <2>1. AsFilled'
      BY <1>1, <1>4, <1>5 DEF AsFilled
    <2>2. Owners'
      BY <1>1, <1>5 DEF Asked, Owners
    <2> QED
      BY <1>2, <2>1, <2>2 DEF Asked
  <1>6. ASSUME NEW p \in PID,
               proctab' = [proctab EXCEPT ![p] =
                  [NoProcess EXCEPT !.used = TRUE, !.stkbase = Head(pgfreelist)]],
               phase' = "stack", pid' = p
        PROVE  Asked'
    <2>1. /\ proctab'[p].pagetable = NoPage
          /\ \A q \in PID : q # p => proctab'[q] = proctab[q]
      BY <1>6 DEF Kept, Types, NoProcess
    <2>2. AsFilled'
      BY <1>1, <1>4, <1>6, <2>1 DEF AsFilled
    <2>3. Owners'
      BY <1>1, <1>6, <2>1 DEF Asked, Owners
    <2> QED
      BY <1>2, <2>2, <2>3 DEF Asked
  <1> QED
    BY <1>1, <1>5, <1>6

LEMMA SwapAsked == ASSUME Kept, Asked, SwapArea PROVE Asked'
PROOF
  <1>1. /\ phase = "user" /\ todo = <<>> /\ todo' = SwapMap /\ phase' = "swap"
        /\ proctab' = [proctab EXCEPT ![pid].swaparea = Head(pgfreelist)]
        /\ UNCHANGED <<pid, satp, pagetable, roots>>
    BY DEF SwapArea
  <1>2. SameEntries(memory, memory', roots) /\ Narrow(memory')
    BY SwapEffect DEF Asked
  <1>3. \A r \in roots : Stays(memory, memory', r)
    BY <1>2, SameStays
  <1>4. /\ satp' # NoPage => satp' \in roots' /\ Filled(memory', satp', KernelMap, <<>>)
        /\ \A p \in PID \ {NULLPROC} : proctab[p].pagetable # NoPage =>
                Filled(memory', proctab[p].pagetable, UserAll, <<>>)
    BY <1>1, <1>3, FullStay
  <1>5. pagetable \in roots
    BY <1>1, RootsIn DEF Filling
  <1>6. Filled(memory, pagetable, UserAll, SwapMap)
    BY <1>1, FilledAppend DEF Asked, AsFilled
  <1>7. Filled(memory', pagetable, UserAll, SwapMap)
    BY <1>3, <1>5, <1>6, AllAsks, FilledStays
  <1>8. \A q \in PID : proctab'[q].pagetable = proctab[q].pagetable /\ proctab'[q].used = proctab[q].used
    BY <1>1 DEF Kept, Types, Slot
  <1>9. Users(proctab') = Users(proctab)
    BY <1>8 DEF Users
  <1>10. AsFilled'
    BY <1>1, <1>4, <1>7, <1>8 DEF AsFilled
  <1>11. Owners'
    BY <1>1, <1>8, <1>9 DEF Asked, Owners
  <1> QED
    BY <1>2, <1>10, <1>11 DEF Asked

(* A process's table is full when create() names it; the record's stray     *)
(* word may spoil an entry of the kernel's.                                 *)
LEMMA RecordAsked == ASSUME Kept, Asked, CreateRecord PROVE Asked'
PROOF
  <1>1. /\ phase = "swap" /\ todo = <<>> /\ phase' = "main"
        /\ proctab' = [proctab EXCEPT ![pid].pagetable = pagetable]
        /\ UNCHANGED <<pid, satp, pagetable, todo, roots>>
    BY DEF CreateRecord, past
  <1>2. Narrow(memory')
    BY RecordEffect DEF Asked
  <1>3. \A r \in roots : Stays(memory, memory', r)
    BY RecordEffect, SameStays, SpoiltStays
  <1>4. /\ satp' # NoPage => satp' \in roots' /\ Filled(memory', satp', KernelMap, <<>>)
        /\ \A p \in PID \ {NULLPROC} : proctab[p].pagetable # NoPage =>
                Filled(memory', proctab[p].pagetable, UserAll, <<>>)
    BY <1>1, <1>3, FullStay
  <1>5. pagetable \in roots /\ pagetable # NoPage
    BY <1>1, RootsIn DEF Filling
  <1>6. Filled(memory', pagetable, UserAll, <<>>)
    BY <1>1, <1>3, <1>5, AllAsks, FilledStays DEF Asked, AsFilled
  <1>7. /\ proctab'[pid].pagetable = pagetable
        /\ \A q \in PID : q # pid => proctab'[q] = proctab[q]
    BY <1>1 DEF Kept, Types, Slot
  <1>8. AsFilled'
    BY <1>1, <1>4, <1>6, <1>7 DEF AsFilled
  <1>9. Owners'
    BY <1>1, <1>5, <1>7 DEF Asked, Owners
  <1> QED
    BY <1>2, <1>8, <1>9 DEF Asked

LEMMA KillAsked == ASSUME Kept, Asked, NEW p \in PID, kill(p) PROVE Asked'
PROOF
  <1>1. /\ phase = "main" /\ phase' \in {"main", "processes"}
        /\ proctab' = [proctab EXCEPT ![p].used = FALSE]
        /\ UNCHANGED <<memory, satp, pid, pagetable, todo, roots>>
    BY DEF kill, pages, past
  <1>2. \A q \in PID : /\ proctab'[q].pagetable = proctab[q].pagetable
                       /\ proctab'[q].used => proctab[q].used
    BY <1>1 DEF Kept, Types, Slot
  <1>3. AsFilled'
    BY <1>1, <1>2 DEF Asked, AsFilled
  <1>4. Owners'
    BY <1>1, <1>2 DEF Asked, Owners
  <1> QED
    BY <1>1, <1>3, <1>4 DEF Asked

LEMMA FakeAsked == ASSUME Kept, Asked, createFakeTable PROVE Asked'
PROOF
  <1>1. /\ phase = "main" /\ UNCHANGED <<satp, proctab, phase, pid, pagetable, todo>>
        /\ roots \subseteq roots'
    BY DEF createFakeTable
  <1>2. SameEntries(memory, memory', roots) /\ Narrow(memory')
    BY FakeEffect DEF Asked
  <1>3. \A r \in roots : Stays(memory, memory', r)
    BY <1>2, SameStays
  <1>4. /\ satp' # NoPage => satp' \in roots' /\ Filled(memory', satp', KernelMap, <<>>)
        /\ \A p \in PID \ {NULLPROC} : proctab[p].pagetable # NoPage =>
                Filled(memory', proctab[p].pagetable, UserAll, <<>>)
    BY <1>1, <1>3, FullStay
  <1>5. AsFilled'
    BY <1>1, <1>4 DEF AsFilled
  <1>6. Owners'
    BY <1>1 DEF Asked, Owners
  <1> QED
    BY <1>2, <1>5, <1>6 DEF Asked

LEMMA HaltAsked == ASSUME Kept, Asked, Halt PROVE Asked'
PROOF
  <1>1. /\ phase' = "halted"
        /\ UNCHANGED <<memory, satp, pid, proctab, pagetable, todo, roots>>
    BY DEF Halt, pages, past
  <1>2. AsFilled'
    BY <1>1 DEF Asked, AsFilled
  <1>3. Owners'
    BY <1>1 DEF Asked, Owners
  <1> QED
    BY <1>1, <1>2, <1>3 DEF Asked

(* Every step keeps it.                                                     *)
LEMMA AskedKeeps == ASSUME Kept, Asked, [Next]_vars PROVE Asked'
PROOF
  <1>1. CASE pgInit
    BY <1>1, ListAsked
  <1>2. CASE vm_kerninit
    BY <1>2, KernInitAsked
  <1>3. CASE MapNext
    BY <1>3, MapAsked
  <1>4. CASE set_satp
    BY <1>4, SatpAsked
  <1>5. CASE CreateStack
    BY <1>5, StackAsked
  <1>6. CASE vm_userinit
    BY <1>6, UserInitAsked
  <1>7. CASE SwapArea
    BY <1>7, SwapAsked
  <1>8. CASE CreateRecord
    BY <1>8, RecordAsked
  <1>9. ASSUME NEW p \in PID, kill(p) PROVE Asked'
    BY <1>9, KillAsked
  <1>10. CASE createFakeTable
    BY <1>10, FakeAsked
  <1>11. CASE AllocFaults \/ MapFaults \/ MainFaults
    <2>1. Halt
      BY <1>11 DEF AllocFaults, MapFaults, MainFaults
    <2> QED
      BY <2>1, HaltAsked
  <1>12. CASE UNCHANGED vars
    <2>1. AsFilled' /\ Owners'
      BY <1>12 DEF Asked, AsFilled, Owners, vars
    <2> QED
      BY <1>12, <2>1 DEF Asked, vars
  <1> QED
    BY <1>1, <1>2, <1>3, <1>4, <1>5, <1>6, <1>7, <1>8, <1>9, <1>10, <1>11, <1>12 DEF Next

LEMMA AskedAlways == Spec => []Asked
PROOF
  <1>1. Init => Asked
    BY AskedInit
  <1>2. Kept /\ Asked /\ [Next]_vars => Asked'
    BY AskedKeeps
  <1> QED
    BY <1>1, <1>2, Invariant, PTL DEF Spec

------------------------------------------------------------------------------
(* What is done is what the walk finds, but for a word above a stack.       *)
LEMMA DoneWalks ==
    ASSUME Kept, NEW r \in roots, NEW reqs \in Seq(Asks), Done(memory, r, reqs, Len(reqs)),
           NEW i \in DOMAIN reqs
    PROVE  \/ AsAsked(r, reqs, i)
           \/ /\ VPN0(reqs[i].va) = 0 /\ Level0(r, reqs[i].va) \in TreeOf(memory, r)
              /\ Level0(r, reqs[i].va) \in HeapPage
              /\ Level0(r, reqs[i].va) - PAGE_SIZE \in stacks
PROOF
  <1> DEFINE a == reqs[i].va  w == Leaf(reqs[i].pa, reqs[i].attr)
  <1>1. i \in 1 .. Len(reqs) /\ a \in Va
    <2>1. i \in 1 .. Len(reqs) /\ reqs[i] \in Asks
      OBVIOUS
    <2> QED
      BY <2>1 DEF Asks
  <1>2. \/ Has(memory, r, a, w)
        \/ \E j \in i + 1 .. Len(reqs) : reqs[j].va = a
        \/ VPN0(a) = 0 /\ Has(memory, r, a, STACKMAGIC)
    BY <1>1 DEF Done
  <1>3. AsAsked(r, reqs, i) <=> \/ IsMapped(r, a) /\ Walk(r, a) = w
                                \/ \E j \in i + 1 .. Len(reqs) : reqs[j].va = a
    BY DEF AsAsked
  <1> HIDE DEF a, w
  <1>4. CASE Has(memory, r, a, w)
    BY <1>1, <1>3, <1>4, WalkIs
  <1>5. CASE VPN0(a) = 0 /\ Has(memory, r, a, STACKMAGIC)
    <2> DEFINE p == Level0(r, a)
    <2>1. p \in TreeOf(memory, r) /\ p \in HeapPage /\ 0 \in DOMAIN memory[p]
          /\ memory[p][0] = STACKMAGIC
      BY <1>1, <1>5, WalkIs
    <2>2. p - PAGE_SIZE \in stacks
      BY <2>1, KeptForest DEF Magic
    <2> QED
      BY <1>5, <2>1, <2>2 DEF a
  <1> QED
    BY <1>2, <1>3, <1>4, <1>5

LEMMA KeptSpaces == Kept /\ Asked => SpacesComplete
PROOF
  <1> SUFFICES ASSUME Kept, Asked, phase = "main" PROVE SpacesComplete
    BY DEF SpacesComplete
  <1>1. satp \in roots /\ Filled(memory, satp, KernelMap, <<>>)
    BY DEF Asked, AsFilled, Owners
  <1>2. Done(memory, satp, KernelMap, Len(KernelMap))
    BY <1>1, AllAsks, FilledAll
  <1>3. ASSUME NEW i \in DOMAIN KernelMap
        PROVE  \/ AsAsked(satp, KernelMap, i)
               \/ /\ VPN0(KernelMap[i].va) = 0
                  /\ Level0(satp, KernelMap[i].va) - PAGE_SIZE \in stacks
    BY <1>1, <1>2, AllAsks, DoneWalks
  <1>4. ASSUME NEW p \in PID, proctab[p].used, p # NULLPROC,
               NEW i \in DOMAIN UserAll
        PROVE  AsAsked(proctab[p].pagetable, UserAll, i)
    <2> DEFINE r == proctab[p].pagetable
    <2>1. r # NoPage
      BY <1>4 DEF Asked, Owners
    <2>2. Filled(memory, r, UserAll, <<>>)
      BY <1>4, <2>1 DEF Asked, AsFilled
    <2>3. r \in roots /\ r \in Users(proctab)
      BY <1>4, <2>1, RootsIn
    <2> HIDE DEF r
    <2>4. Done(memory, r, UserAll, Len(UserAll))
      BY <2>2, AllAsks, FilledAll
    <2> DEFINE t == Level0(r, UserAll[i].va)
    <2>5. ASSUME t \in TreeOf(memory, r), t \in HeapPage, t - PAGE_SIZE \in stacks PROVE FALSE
      <3> HIDE DEF t
      <3>1. (t - PAGE_SIZE) + PAGE_SIZE = t
        BY <2>5, Layout
      <3>2. r \in UserRoots(proctab, phase, pagetable)
        BY <2>3 DEF UserRoots
      <3>3. (t - PAGE_SIZE) + PAGE_SIZE \notin TreeOf(memory, r)
        BY <2>5, <3>2, KeptForest DEF AboveOf
      <3> QED
        BY <2>5, <3>1, <3>3
    <2>6. AsAsked(r, UserAll, i)
      BY <1>4, <2>3, <2>4, <2>5, AllAsks, DoneWalks
    <2> QED
      BY <2>6 DEF r
  <1> QED
    BY <1>3, <1>4 DEF SpacesComplete, UserAll

(* When main runs, the kernel's table and those of the processes translate  *)
(* each address as vm_kerninit(), vm_userinit() and create() asked last;    *)
(* only the kernel's may have an entry that the word above a stack spoilt.  *)
THEOREM SpacesAreComplete == Spec => []SpacesComplete
PROOF
  BY Invariant, AskedAlways, KeptSpaces, PTL

------------------------------------------------------------------------------
(* vm_kerninit() asks for every page of the heap, as what it is.            *)
HeapAsk(page) == [va |-> page, pa |-> page, attr |-> {"R", "W", "A", "D"}]

LEMMA HeapAsked ==
    ASSUME NEW page \in HeapPage
    PROVE  \E i \in 1 .. Len(KernelMap) :
              /\ KernelMap[i] = HeapAsk(page)
              /\ \A j \in i + 1 .. Len(KernelMap) : KernelMap[j].va # page
PROOF
  <1> DEFINE s == Image({}, {"W"})  t == Same(memheap, maxaddr, {"R", "W", "A", "D"})
             c == (page - memheap) \div PAGE_SIZE  n == nents
  <1>1. /\ page \in Nat /\ memheap <= page /\ page <= maxaddr /\ page % PAGE_SIZE = 0
        /\ memheap \in Nat /\ memheap % PAGE_SIZE = 0 /\ maxaddr \in Nat
    BY Layout, Parts DEF HeapPage, PageAligned
  <1>2. c \in Nat /\ page = memheap + c * PAGE_SIZE
    <2> DEFINE a == page \div PAGE_SIZE  b == memheap \div PAGE_SIZE
    <2>1. a \in Int /\ b \in Int /\ page = a * PAGE_SIZE /\ memheap = b * PAGE_SIZE
      BY <1>1, Layout, Exact, Divide
    <2> HIDE DEF a, b
    <2>2. page - memheap = (a - b) * PAGE_SIZE /\ a - b \in Int
      BY <2>1, Layout
    <2>3. (page - memheap) % PAGE_SIZE = 0 /\ c = a - b
      <3>1. PAGE_SIZE \in Nat /\ 0 \in Int /\ 0 <= 0 /\ 0 < PAGE_SIZE
        BY Layout
      <3>2. ((a - b) * PAGE_SIZE + 0) \div PAGE_SIZE = a - b
            /\ ((a - b) * PAGE_SIZE + 0) % PAGE_SIZE = 0
        BY <2>2, <3>1, Divides
      <3>3. (a - b) * PAGE_SIZE + 0 = page - memheap
        BY <1>1, <2>2
      <3> QED
        BY <3>2, <3>3
    <2>4. a - b >= 0
      <3>1. ASSUME a - b <= -1 PROVE FALSE
        <4>1. (a - b) * PAGE_SIZE <= -PAGE_SIZE
          BY <2>2, <3>1, Layout
        <4> DEFINE d == (a - b) * PAGE_SIZE
        <4>2. d <= -PAGE_SIZE /\ d = page - memheap
          BY <2>2, <4>1
        <4> HIDE DEF d
        <4> QED
          BY <1>1, <4>2, Layout
      <3> QED
        BY <2>2, <3>1
    <2>5. c \in Nat
      BY <2>2, <2>3, <2>4
    <2> QED
      BY <1>1, <2>2, <2>3, <2>5
  <1> HIDE DEF c
  <1>3. n \in Nat /\ memheap + n * PAGE_SIZE = maxaddr + 1
    BY Counted
  <1>4. DOMAIN t = 1 .. n
    BY DEF Same, mapAddress, nents
  <1> HIDE DEF n
  <1>5. c < n
    <2>1. ASSUME c >= n PROVE FALSE
      <3>1. c - n \in Nat /\ (c - n) * PAGE_SIZE \in Nat
            /\ c * PAGE_SIZE = (c - n) * PAGE_SIZE + n * PAGE_SIZE
        BY <1>2, <1>3, <2>1, Layout
      <3> DEFINE x == c * PAGE_SIZE  y == n * PAGE_SIZE  z == (c - n) * PAGE_SIZE
      <3>2. x = z + y /\ z \in Nat /\ page = memheap + x /\ memheap + y = maxaddr + 1
            /\ x \in Nat /\ y \in Nat
        BY <1>2, <1>3, <3>1, Layout
      <3> HIDE DEF x, y, z
      <3> QED
        BY <1>1, <3>2
    <2> QED
      BY <1>2, <1>3, <2>1
  <1>6. /\ s \in Seq(Asks) /\ t \in Seq(Asks)
        /\ \A i \in DOMAIN t : t[i] = HeapAsk(memheap + (i - 1) * PAGE_SIZE)
    <2> DEFINE r == {"R", "W", "A", "D"}
    <2>1. r \in SUBSET Attr /\ "R" \in r
      BY DEF Attr
    <2>2. memheap <= maxaddr /\ maxaddr <= Span /\ PageAligned(memheap)
      BY Parts, InSpan, Layout, Sizes
    <2>3. t = Same(memheap, maxaddr, r)
      OBVIOUS
    <2> HIDE DEF r, t
    <2>4. t \in Seq(Asks)
      BY <2>1, <2>2, <2>3, Parts, SameAsks
    <2>5. \A i \in DOMAIN t :
             t[i] = [va |-> memheap + (i - 1) * PAGE_SIZE,
                     pa |-> memheap + (i - 1) * PAGE_SIZE, attr |-> r]
      BY <2>1, <2>2, <2>3, Parts, SameAsks
    <2> QED
      BY <2>4, <2>5, ImageAsks DEF HeapAsk, r
  <1>7. KernelMap = s \o t
    BY DEF KernelMap
  <1> HIDE DEF s, t
  <1> DEFINE i == Len(s) + c + 1
  <1>8. /\ Len(s) \in Nat /\ Len(t) = n /\ Len(KernelMap) = Len(s) + n
        /\ \A k \in 1 .. n : KernelMap[Len(s) + k] = t[k]
    <2>1. Len(t) \in Nat /\ DOMAIN t = 1 .. Len(t) /\ Len(s) \in Nat
      BY <1>6
    <2>2. Len(t) = n
      BY <1>3, <1>4, <2>1
    <2>3. Len(s \o t) = Len(s) + n /\ \A k \in 1 .. n : (s \o t)[Len(s) + k] = t[k]
      BY <1>3, <1>6, <2>1, <2>2
    <2> QED
      BY <1>7, <2>1, <2>2, <2>3
  <1>9. i \in 1 .. Len(KernelMap) /\ c + 1 \in 1 .. n /\ (c + 1) - 1 = c /\ i = Len(s) + (c + 1)
    BY <1>2, <1>3, <1>5, <1>8
  <1>10. KernelMap[i] = HeapAsk(page)
    BY <1>2, <1>4, <1>6, <1>8, <1>9
  <1>11. ASSUME NEW j \in i + 1 .. Len(KernelMap) PROVE KernelMap[j].va # page
    <2> DEFINE k == j - Len(s)
    <2>1. k \in 1 .. n /\ j = Len(s) + k /\ (k - 1) - (c + 1) \in Nat /\ k - 1 \in Nat
      BY <1>2, <1>3, <1>8, <1>9
    <2> HIDE DEF k
    <2>2. KernelMap[j] = HeapAsk(memheap + (k - 1) * PAGE_SIZE)
      BY <1>4, <1>6, <1>8, <2>1
    <2>3. KernelMap[j].va = memheap + (k - 1) * PAGE_SIZE
      BY <2>2 DEF HeapAsk
    <2>4. (k - 1) * PAGE_SIZE = ((k - 1) - (c + 1)) * PAGE_SIZE + c * PAGE_SIZE + PAGE_SIZE
          /\ ((k - 1) - (c + 1)) * PAGE_SIZE \in Nat /\ c * PAGE_SIZE \in Nat
      BY <1>2, <2>1, Layout
    <2> DEFINE x == (k - 1) * PAGE_SIZE  y == ((k - 1) - (c + 1)) * PAGE_SIZE  z == c * PAGE_SIZE
    <2>5. x = y + z + PAGE_SIZE /\ y \in Nat /\ z \in Nat /\ page = memheap + z
          /\ KernelMap[j].va = memheap + x
      BY <1>2, <2>3, <2>4
    <2> HIDE DEF x, y, z
    <2> QED
      BY <1>1, <2>5, Layout
  <1> QED
    BY <1>9, <1>10, <1>11

(* So the kernel reaches every page of its heap, but one whose entry the    *)
(* word above a stack replaced.                                             *)
LEMMA Unreached ==
    ASSUME Kept, Asked, NEW page \in HeapPage, ~Reaches(page)
    PROVE  IsMapped(satp, page) /\ Walk(satp, page) = STACKMAGIC
PROOF
  <1>1. satp # NoPage
    BY DEF Reaches
  <1>2. satp \in roots /\ Done(memory, satp, KernelMap, Len(KernelMap))
    BY <1>1, AllAsks, FilledAll DEF Asked, AsFilled
  <1>3. PICK i \in 1 .. Len(KernelMap) :
              /\ KernelMap[i] = HeapAsk(page)
              /\ \A j \in i + 1 .. Len(KernelMap) : KernelMap[j].va # page
    BY HeapAsked
  <1> DEFINE w == Leaf(page, {"R", "W", "A", "D"})
  <1>4. page \in Va /\ KernelMap[i].va = page /\ w = Leaf(KernelMap[i].pa, KernelMap[i].attr)
    <2>1. KernelMap[i] \in Asks
      BY AllAsks
    <2> QED
      BY <1>3, <2>1 DEF Asks, HeapAsk
  <1>5. Has(memory, satp, page, w) \/ Has(memory, satp, page, STACKMAGIC)
    BY <1>2, <1>3, <1>4 DEF Done
  <1>6. w.to = page /\ {"R", "W"} \subseteq w.attr
    BY DEF Leaf
  <1> HIDE DEF w
  <1>7. ~Has(memory, satp, page, w)
    BY <1>2, <1>4, <1>6, WalkIs DEF Reaches
  <1> QED
    BY <1>2, <1>4, <1>5, <1>7, WalkIs

(* A page that the kernel cannot reach is what stops it, or no page left.   *)
Blocked == \E page \in HeapPage : ~Reaches(page)

LEMMA AllocFault ==
    ASSUME NEW m, Fields(m), ~m.fault, Listing(m.free), pgalloc(m).fault
    PROVE  m.free = <<>> \/ Blocked
PROOF
  <1> SUFFICES ASSUME m.free # <<>>, ~Blocked PROVE FALSE
    OBVIOUS
  <1>1. Reaches(Head(m.free))
    BY AboveList DEF Blocked
  <1>2. pgalloc(m) = [m EXCEPT !.free = Tail(@), !.mem[Head(m.free)] = Zeroed]
    BY <1>1 DEF pgalloc
  <1>3. pgalloc(m).fault = m.fault
    BY <1>2 DEF Fields
  <1> QED
    BY <1>3

LEMMA DescendFault ==
    ASSUME NEW m, NEW t \in HeapPage, NEW i, Fields(m), ~m.fault, Listing(m.free),
           Descend(m, t, i).fault
    PROVE  m.free = <<>> \/ Blocked
PROOF
  <1> SUFFICES ASSUME m.free # <<>>, ~Blocked PROVE FALSE
    OBVIOUS
  <1>1. Reaches(t)
    BY DEF Blocked
  <1> DEFINE n == pgalloc(m)  word == Put(n.mem[t], i, Link(Head(m.free)))
  <1>2. ~n.fault
    BY AllocFault
  <1>3. i \notin DOMAIN m.mem[t]
    BY <1>1 DEF Descend
  <1>4. Descend(m, t, i) = [n EXCEPT !.mem[t] = Put(@, i, Link(Head(m.free)))]
    BY <1>1, <1>2, <1>3 DEF Descend
  <1>5. [n EXCEPT !.mem[t] = Put(@, i, Link(Head(m.free)))] = [n EXCEPT !.mem[t] = word]
    OBVIOUS
  <1>6. Fields(n)
    BY AllocFields
  <1> HIDE DEF n, word
  <1>7. [n EXCEPT !.mem[t] = word].fault = n.fault
    BY <1>6 DEF Fields
  <1> QED
    BY <1>2, <1>4, <1>5, <1>7

LEMMA DescendFree ==
    ASSUME NEW m, NEW t, NEW i, Fields(m), ~Descend(m, t, i).fault
    PROVE  Descend(m, t, i).free = m.free \/ Descend(m, t, i).free = Tail(m.free)
PROOF
  <1> DEFINE n == Descend(m, t, i)
  <1>1. \/ i \in DOMAIN m.mem[t] /\ n.free = m.free /\ n.mem = m.mem
        \/ /\ i \notin DOMAIN m.mem[t] /\ m.free # <<>>
           /\ n.free = Tail(m.free)
           /\ n.mem = [[m.mem EXCEPT ![Head(m.free)] = Zeroed]
                          EXCEPT ![t] = Put(@, i, Link(Head(m.free)))]
    BY Descends
  <1> HIDE DEF n
  <1>2. n.free = m.free \/ n.free = Tail(m.free)
    BY <1>1
  <1> QED
    BY <1>2 DEF n

LEMMA LongList ==
    ASSUME NEW f \in Seq(HeapPage), ~(Len(f) < 3)
    PROVE  f # <<>> /\ Tail(f) # <<>> /\ Tail(Tail(f)) # <<>>
PROOF
  <1>1. f # <<>> /\ Len(f) \in Nat
    OBVIOUS
  <1>2. Tail(f) \in Seq(HeapPage) /\ Len(Tail(f)) = Len(f) - 1
    BY <1>1, HeadTailProperties
  <1> DEFINE g == Tail(f)
  <1>3. g \in Seq(HeapPage) /\ Len(g) > 1
    BY <1>1, <1>2
  <1> HIDE DEF g
  <1>4. g # <<>>
    BY <1>3
  <1>5. Tail(g) \in Seq(HeapPage) /\ Len(Tail(g)) = Len(g) - 1
    BY <1>3, <1>4, HeadTailProperties
  <1>6. Len(Tail(g)) # 0
    BY <1>3, <1>5
  <1> DEFINE h == Tail(g)
  <1>7. Len(h) # 0
    BY <1>6
  <1> HIDE DEF h
  <1>8. h # <<>>
    BY <1>7
  <1> QED
    BY <1>1, <1>4, <1>8 DEF g, h

(* A request that faults lacks a page, or meets one that is not reached.    *)
LEMMA MapFault ==
    ASSUME NEW m, NEW rs, NEW rest, NEW root \in rs, NEW req, req.va \in Nat,
           Fields(m), ~m.fault, Forest(m.free, m.mem, rs, rest),
           pgTraverseAndCreate(m, root, req).fault
    PROVE  Len(m.free) < 3 \/ Blocked
PROOF
  <1> SUFFICES ASSUME ~(Len(m.free) < 3), ~Blocked PROVE FALSE
    OBVIOUS
  <1> DEFINE n    == pgTraverseAndCreate(m, root, req)
             m1   == Descend(m, root, VPN2(req.va))
             l1   == m1.mem[root][VPN2(req.va)].to
             m2   == Descend(m1, l1, VPN1(req.va))
             l0   == m2.mem[l1][VPN1(req.va)].to
             word == Leaf(req.pa, req.attr)
             i2   == VPN2(req.va)
             i1   == VPN1(req.va)
             i0   == VPN0(req.va)
  <1>1. i2 \in Index /\ i1 \in Index /\ i0 \in Index
    BY Indices
  <1>2. n = IF m1.fault THEN m1
            ELSE IF m2.fault \/ ~Reaches(l0) THEN [m2 EXCEPT !.fault = TRUE]
            ELSE [m2 EXCEPT !.mem[l0] = Put(@, i0, word)]
    BY DEF pgTraverseAndCreate
  <1>3. n.fault
    OBVIOUS
  <1>4. m1 = Descend(m, root, i2) /\ l1 = m1.mem[root][i2].to
        /\ m2 = Descend(m1, l1, i1) /\ l0 = m2.mem[l1][i1].to
    OBVIOUS
  <1>5. root \in Trunk(m.mem, rs) /\ root \in TreeOf(m.mem, root) /\ root \in HeapPage
        /\ Listing(m.free) /\ m.free \in Seq(HeapPage)
    BY DEF Trunk, TreeOf, Forest, Placed, Listing
  <1>6. m.free # <<>> /\ Tail(m.free) # <<>>
    BY <1>5, LongList
  <1> HIDE DEF n, m1, l1, m2, l0, i2, i1, i0, word
  <1>7. ~m1.fault
    BY <1>4, <1>5, <1>6, DescendFault
  <1>8. Descended(m, m1, root, i2, rs, rest, root, {})
    BY <1>1, <1>4, <1>5, <1>7, DescendGrows
  <1>9. Fields(m1) /\ Forest(m1.free, m1.mem, rs, rest) /\ LinkAt(m1.mem, root, i2)
    BY <1>8 DEF Descended, Grown
  <1>10. l1 \in Under(m1.mem, root) /\ l1 \in Mids(m1.mem, rs)
         /\ l1 \in Trunk(m1.mem, rs) /\ l1 \in TreeOf(m1.mem, root)
    <2>1. l1 \in Under(m1.mem, root)
      BY <1>1, <1>4, <1>9, UnderIs
    <2> QED
      BY <2>1 DEF Mids, Trunk, TreeOf
  <1>11. l1 \in HeapPage /\ Listing(m1.free)
    BY <1>9, <1>10 DEF Forest, Placed
  <1>12. m1.free # <<>>
    <2>1. ~Descend(m, root, i2).fault
      BY <1>4, <1>7
    <2>2. Descend(m, root, i2).free = m.free \/ Descend(m, root, i2).free = Tail(m.free)
      BY <2>1, DescendFree
    <2> QED
      BY <1>4, <1>6, <2>2
  <1>13. ~m2.fault
    BY <1>4, <1>7, <1>9, <1>11, <1>12, DescendFault
  <1>14. Descended(m1, m2, l1, i1, rs, rest, root, {})
    BY <1>1, <1>4, <1>9, <1>10, <1>13, DescendGrows
  <1>15. Fields(m2) /\ Forest(m2.free, m2.mem, rs, rest) /\ LinkAt(m2.mem, l1, i1)
         /\ l1 \in Trunk(m2.mem, rs)
    BY <1>10, <1>14 DEF Descended, Grown
  <1>16. l1 \in Mids(m2.mem, rs)
    <2>1. LinkAt(m2.mem, root, i2) /\ m2.mem[root][i2].to = l1
      <3>1. root \in Trunk(m1.mem, rs)
        BY DEF Trunk
      <3> QED
        BY <1>1, <1>4, <1>9, <1>14, <3>1 DEF Descended, Grown
    <2>2. l1 \in Under(m2.mem, root)
      BY <1>1, <2>1, UnderIs
    <2> QED
      BY <2>2 DEF Mids
  <1>17. l0 \in HeapPage
    <2>1. l0 \in Under(m2.mem, l1)
      BY <1>1, <1>4, <1>15, UnderIs
    <2>2. l0 \in Lows(m2.mem, rs)
      BY <1>16, <2>1 DEF Lows
    <2> QED
      BY <1>15, <2>2 DEF Forest, Placed
  <1>18. Reaches(l0)
    BY <1>17 DEF Blocked
  <1>19. n = [m2 EXCEPT !.mem[l0] = Put(@, i0, word)]
    BY <1>2, <1>7, <1>13, <1>18
  <1>20. n.fault = m2.fault
    <2> DEFINE w == Put(m2.mem[l0], i0, word)
    <2>1. n = [m2 EXCEPT !.mem[l0] = w]
      BY <1>19
    <2> HIDE DEF w
    <2> QED
      BY <1>15, <2>1 DEF Fields
  <1> QED
    BY <1>3, <1>13, <1>20

(* So does the tests' table, of three pages.                                *)
LEMMA FakeFault ==
    ASSUME NEW m, Fields(m), ~m.fault, Listing(m.free), FakeTable(m).fault
    PROVE  Len(m.free) < 3 \/ Blocked
PROOF
  <1> SUFFICES ASSUME ~(Len(m.free) < 3), ~Blocked PROVE FALSE
    OBVIOUS
  <1> DEFINE a1 == pgalloc(m)  a2 == pgalloc(a1)  a3 == pgalloc(a2)
             s  == FakeTable(m)
             r  == m.free[1]  t == m.free[2]  u == m.free[3]
             i  == VPN2(FakeVa)  j == VPN1(FakeVa)  k == VPN0(FakeVa)
  <1>1. Fields(a1) /\ Fields(a2) /\ Fields(a3)
    BY AllocFields
  <1>2. m.free # <<>> /\ Tail(m.free) # <<>> /\ Tail(Tail(m.free)) # <<>>
    BY LongList DEF Listing
  <1>3. Listing(Tail(m.free)) /\ Listing(Tail(Tail(m.free)))
    BY <1>2, TakeHead
  <1>4. \/ a3.fault
        \/ s = [a3 EXCEPT !.mem[r] = Put(@, i, Link(t)), !.mem[t] = Put(@, j, Link(u)),
                          !.mem[u] = Put(@, k, FakeWord)]
    BY DEF FakeTable, FakeVa, FakeWord
  <1>5. s.fault
    OBVIOUS
  <1>6. ~a1.fault
    BY <1>2, AllocFault
  <1>7. a1.free = Tail(m.free)
    BY <1>6, Alloc
  <1> DEFINE b1 == a1  b2 == a2
  <1> HIDE DEF s, b1, b2, r, t, u, i, j, k
  <1>8. Fields(b1) /\ ~b1.fault /\ b1.free = Tail(m.free) /\ a2 = pgalloc(b1)
    BY <1>1, <1>6, <1>7 DEF b1
  <1>9. ~pgalloc(b1).fault
    BY <1>2, <1>3, <1>8, AllocFault
  <1>10. pgalloc(b1).free = Tail(b1.free)
    BY <1>8, <1>9, Alloc
  <1>11. Fields(b2) /\ ~b2.fault /\ b2.free = Tail(Tail(m.free)) /\ a3 = pgalloc(b2)
    BY <1>1, <1>8, <1>9, <1>10 DEF b2
  <1>12. ~pgalloc(b2).fault
    BY <1>2, <1>3, <1>11, AllocFault
  <1> DEFINE b3 == a3
  <1> HIDE DEF b3
  <1>13. ~b3.fault /\ Fields(b3)
    BY <1>1, <1>11, <1>12 DEF b3
  <1>14. s = [b3 EXCEPT !.mem[r] = Put(@, i, Link(t)), !.mem[t] = Put(@, j, Link(u)),
                          !.mem[u] = Put(@, k, FakeWord)]
    BY <1>4, <1>13 DEF b3
  <1>15. s.fault = b3.fault
    BY <1>13, <1>14 DEF Fields
  <1> QED
    BY <1>5, <1>13, <1>15

(* The page above a listed one is one of the heap.                          *)
LEMMA NextPage ==
    ASSUME NEW s \in ToSet(pgfreerange(memheap, maxaddr))
    PROVE  s + PAGE_SIZE \in HeapPage
PROOF
  <1>1. s \in HeapPage
    <2>1. s \in ToSet(pgfreerange(memheap, maxaddr))
      OBVIOUS
    <2> DEFINE f == pgfreerange(memheap, maxaddr)
    <2>2. f \in Seq(HeapPage)
      BY Ranged DEF Listing
    <2> HIDE DEF f
    <2> QED
      BY <2>1, <2>2 DEF ToSet, f
  <1>2. s + PAGE_SIZE <= LastPage
    BY Ranged
  <1>3. /\ s \in Nat /\ memheap <= s /\ memheap \in Nat /\ maxaddr \in Nat
        /\ PAGE_SIZE \in Nat /\ PAGE_SIZE > 1 /\ s % PAGE_SIZE = 0
    BY <1>1, Layout DEF HeapPage, PageAligned
  <1>4. s + PAGE_SIZE \in memheap .. maxaddr
    BY <1>2, <1>3 DEF LastPage
  <1>5. (s + 1 * PAGE_SIZE) % PAGE_SIZE = 0
    BY <1>3, StaysAligned
  <1>6. s + 1 * PAGE_SIZE = s + PAGE_SIZE
    BY <1>3
  <1>7. PageAligned(s + PAGE_SIZE)
    BY <1>5, <1>6 DEF PageAligned
  <1> QED
    BY <1>4, <1>7 DEF HeapPage

(* A stop for one of these reasons is one of those that are promised.       *)
LEMMA HaltCause ==
    ASSUME Kept, Asked, Halt, Len(pgfreelist) < 3 \/ Blocked
    PROVE  StopsHaveCause'
PROOF
  <1>1. UNCHANGED <<pgfreelist, memory, satp>>
    BY DEF Halt, pages
  <1>2. \/ Len(pgfreelist) < 3
        \/ \E p \in HeapPage : IsMapped(satp, p) /\ Walk(satp, p) = STACKMAGIC
    BY Unreached DEF Blocked
  <1> QED
    BY <1>1, <1>2 DEF StopsHaveCause, IsMapped, Walk, Level0, Links

LEMMA MapFaultCause == ASSUME Kept, Asked, MapFaults PROVE StopsHaveCause'
PROOF
  <1> DEFINE req == Head(todo)  rest == Held(stacks, swapped)  m == Now
  <1>1. phase # "halted" /\ todo # <<>> /\ Halt /\ pgTraverseAndCreate(m, pagetable, req).fault
    BY DEF MapFaults
  <1>2. pagetable \in roots /\ todo \in Seq(Asks)
    BY <1>1 DEF Kept, Control
  <1>3. req.va \in Nat
    <2>1. req \in Asks
      BY <1>1, <1>2, OneFewer
    <2> QED
      BY <2>1, PageIs DEF Asks
  <1>4. Fields(m) /\ ~m.fault /\ Forest(m.free, m.mem, roots, rest) /\ m.free = pgfreelist
    BY KeptForest, NowFields DEF Now
  <1> HIDE DEF req, rest, m
  <1>5. Len(m.free) < 3 \/ Blocked
    BY <1>1, <1>2, <1>3, <1>4, MapFault
  <1> QED
    BY <1>1, <1>4, <1>5, HaltCause

LEMMA AllocFaultCause == ASSUME Kept, Asked, AllocFaults PROVE StopsHaveCause'
PROOF
  <1>1. /\ Halt /\ phase \in {"listed", "stack", "user", "swap"}
        /\ IF phase = "swap" THEN ~RecordReaches(proctab[pid].stkbase) ELSE pgalloc(Now).fault
    BY DEF AllocFaults, Kept, Types, Phases
  <1>2. Listing(pgfreelist) /\ stacks \subseteq HeapPage
    BY KeptForest
  <1>3. CASE phase # "swap"
    <2>1. pgfreelist = <<>> \/ Blocked
      BY <1>1, <1>2, <1>3, NowFields, AllocFault DEF Now
    <2>2. pgfreelist = <<>> => Len(pgfreelist) < 3
      OBVIOUS
    <2> QED
      BY <1>1, <2>1, <2>2, HaltCause
  <1>4. CASE phase = "swap"
    <2> DEFINE s == proctab[pid].stkbase
    <2>1. s \in stacks /\ ~(Reaches(s) /\ Reaches(s + PAGE_SIZE))
      BY <1>1, <1>4 DEF Kept, Control, RecordReaches
    <2>2. s \in Pool(phase) /\ phase # "reset"
      BY <1>4, <2>1 DEF Kept, Pages, InUse, Held
    <2> HIDE DEF s
    <2>3. s + PAGE_SIZE \in HeapPage
      <3>1. s \in ToSet(pgfreerange(memheap, maxaddr))
        BY <2>2 DEF Pool
      <3> QED
        BY <3>1, NextPage
    <2>4. Blocked
      BY <1>2, <2>1, <2>3 DEF Blocked
    <2> QED
      BY <1>1, <2>4, HaltCause
  <1> QED
    BY <1>3, <1>4

LEMMA MainFaultCause == ASSUME Kept, Asked, MainFaults PROVE StopsHaveCause'
PROOF
  <1>1. /\ phase = "main" /\ Halt
        /\ \/ pgfreelist # <<>> /\ pgalloc(Now).fault
           \/ FakeTable(Now).fault
           \/ \E p \in PID \ {NULLPROC} : proctab[p].used
                  /\ \E t \in Tree(proctab[p].pagetable) : ~Reaches(t)
    BY DEF MainFaults
  <1>2. Listing(pgfreelist) /\ Fields(Now) /\ ~Now.fault /\ Now.free = pgfreelist
    BY KeptForest, NowFields DEF Now
  <1>3. CASE pgfreelist # <<>> /\ pgalloc(Now).fault
    <2>1. Blocked
      BY <1>2, <1>3, AllocFault
    <2> QED
      BY <1>1, <2>1, HaltCause
  <1>4. CASE FakeTable(Now).fault
    <2>1. Len(pgfreelist) < 3 \/ Blocked
      BY <1>2, <1>4, FakeFault
    <2> QED
      BY <1>1, <2>1, HaltCause
  <1>5. ASSUME NEW p \in PID \ {NULLPROC}, proctab[p].used,
               NEW t \in Tree(proctab[p].pagetable), ~Reaches(t)
        PROVE  StopsHaveCause'
    <2> DEFINE r == proctab[p].pagetable
    <2>1. r # NoPage
      BY <1>1, <1>5 DEF Asked, Owners
    <2>2. r \in roots
      BY <2>1, RootsIn
    <2>3. t \in TreeOf(memory, r)
      BY <1>5, TreesAre
    <2> HIDE DEF r
    <2>4. t \in Trunk(memory, roots) \cup Lows(memory, roots)
      BY <2>2, <2>3, TreeIs
    <2>5. t \in HeapPage
      BY <2>4, KeptForest DEF Forest, Placed, Trunk
    <2>6. Blocked
      BY <1>5, <2>5 DEF Blocked
    <2> QED
      BY <1>1, <2>6, HaltCause
  <1> QED
    BY <1>1, <1>3, <1>4, <1>5

LEMMA StopsKeep == ASSUME Kept, Asked, StopsHaveCause, [Next]_vars PROVE StopsHaveCause'
PROOF
  <1>1. CASE AllocFaults
    BY <1>1, AllocFaultCause
  <1>2. CASE MapFaults
    BY <1>2, MapFaultCause
  <1>3. CASE MainFaults
    BY <1>3, MainFaultCause
  <1>4. CASE UNCHANGED vars
    <2>1. UNCHANGED <<pgfreelist, memory, satp, phase>>
      BY <1>4 DEF vars
    <2> QED
      BY <2>1 DEF StopsHaveCause, IsMapped, Walk, Level0, Links
  <1>5. CASE \/ pgInit \/ vm_kerninit \/ set_satp \/ CreateStack \/ vm_userinit \/ SwapArea
             \/ CreateRecord \/ createFakeTable \/ MapNext \/ \E p \in PID : kill(p)
    <2>1. phase' # "halted"
      <3>1. CASE pgInit \/ vm_kerninit \/ set_satp \/ vm_userinit \/ SwapArea \/ CreateRecord
        BY <3>1 DEF pgInit, vm_kerninit, set_satp, vm_userinit, SwapArea, CreateRecord
      <3>2. CASE CreateStack \/ createFakeTable \/ MapNext
        BY <3>2 DEF CreateStack, createFakeTable, MapNext
      <3>3. CASE \E p \in PID : kill(p)
        BY <3>3 DEF kill
      <3> QED
        BY <1>5, <3>1, <3>2, <3>3
    <2> QED
      BY <2>1 DEF StopsHaveCause
  <1> QED
    BY <1>1, <1>2, <1>3, <1>4, <1>5 DEF Next

(* The kernel stops for want of pages or where the word above a stack took  *)
(* a page from its table, and for no other reason: each page that pgalloc() *)
(* or pgTraverseAndCreate() touches is one of the heap, and in the table.   *)
THEOREM StopsAreCaused == Spec => []StopsHaveCause
PROOF
  <1>1. Init => StopsHaveCause
    BY DEF Init, StopsHaveCause
  <1>2. Kept /\ Asked /\ StopsHaveCause /\ [Next]_vars => StopsHaveCause'
    BY StopsKeep
  <1> QED
    BY <1>1, <1>2, Invariant, AskedAlways, PTL DEF Spec

------------------------------------------------------------------------------
(* The spaces that the tables of some roots in a memory stand for.          *)
Stored(mem, r, va) ==
    LET t == mem[r][VPN2(va)].to
        u == mem[t][VPN1(va)].to
    IN  mem[u][VPN0(va)]

(* What a table has words for, and the space that these make.               *)
Covered(mem, r) == {va \in Va : \E w : Has(mem, r, va, w)}
Space(mem, r)   == [va \in Covered(mem, r) |-> Stored(mem, r, va)]
Stands(mem, rs) == [r \in rs |-> Space(mem, r)]

(* An address is in a space with the word that its table holds for it.      *)
LEMMA SpaceHas ==
    ASSUME NEW mem, NEW r, NEW va \in Va, NEW w
    PROVE  Has(mem, r, va, w) <=> va \in DOMAIN Space(mem, r) /\ Space(mem, r)[va] = w
PROOF
  <1>1. \A v : Has(mem, r, va, v) => Stored(mem, r, va) = v
    BY DEF Has, Reads, Stored
  <1>2. va \in DOMAIN Space(mem, r) <=> \E v : Has(mem, r, va, v)
    BY DEF Space, Covered
  <1>3. va \in DOMAIN Space(mem, r) => Space(mem, r)[va] = Stored(mem, r, va)
    BY DEF Space
  <1> QED
    BY <1>1, <1>2, <1>3

(* The pages the model finds in a tree are those.                           *)
LEMMA MappedIs ==
    ASSUME Kept, Narrow(memory), NEW r \in roots
    PROVE  Mapped(r) = Covered(memory, r)
PROOF
  <1>1. r \in Trunk(memory, roots) /\ roots \subseteq HeapPage /\ Branches(memory, roots)
        /\ Trunk(memory, roots) \cup Lows(memory, roots) \subseteq HeapPage
    BY KeptForest DEF Trunk, Forest, Placed
  <1>2. ASSUME NEW t \in HeapPage, NEW i \in DOMAIN memory[t] PROVE i \in Index
    BY <1>2 DEF Narrow
  <1>3. ASSUME NEW t \in Trunk(memory, roots), NEW i \in DOMAIN memory[t]
        PROVE  i \in Index /\ LinkAt(memory, t, i) /\ At(t, i) = memory[t][i].to
    <2>1. i \in Index
      BY <1>1, <1>2
    <2>2. LinkAt(memory, t, i)
      BY <1>1, <2>1 DEF Branches
    <2> QED
      BY <2>1, <2>2, TreesAre DEF At
  <1>4. ASSUME NEW i2 \in DOMAIN memory[r], NEW i1 \in DOMAIN memory[At(r, i2)],
               NEW i0 \in DOMAIN memory[At(At(r, i2), i1)]
        PROVE  PageOf(i2, i1, i0) \in Covered(memory, r)
    <2> DEFINE t == memory[r][i2].to  u == memory[t][i1].to  a == PageOf(i2, i1, i0)
    <2>1. i2 \in Index /\ LinkAt(memory, r, i2) /\ At(r, i2) = t
      BY <1>1, <1>3
    <2>2. t \in Under(memory, r)
      BY <2>1, UnderIs
    <2>3. t \in Mids(memory, roots) /\ t \in Trunk(memory, roots)
      BY <2>2 DEF Mids, Trunk
    <2>4. i1 \in DOMAIN memory[t]
      BY <1>4, <2>1
    <2>5. i1 \in Index /\ LinkAt(memory, t, i1) /\ At(t, i1) = u
      BY <1>3, <2>3, <2>4
    <2>6. u \in Under(memory, t)
      BY <2>5, UnderIs
    <2>7. u \in Lows(memory, roots)
      BY <2>3, <2>6 DEF Lows
    <2>8. i0 \in DOMAIN memory[u] /\ i0 \in Index
      BY <1>1, <1>2, <1>4, <2>1, <2>5, <2>7
    <2>9. a \in Va /\ VPN2(a) = i2 /\ VPN1(a) = i1 /\ VPN0(a) = i0
      BY <2>1, <2>5, <2>8, Digits
    <2>10. Reads(memory, r, i2, i1, i0, memory[u][i0])
      BY <2>1, <2>5, <2>8 DEF Reads
    <2> HIDE DEF a
    <2>11. Has(memory, r, a, memory[u][i0])
      BY <2>9, <2>10 DEF Has
    <2> QED
      BY <2>9, <2>11 DEF Covered, a
  <1>5. ASSUME NEW va \in Covered(memory, r) PROVE va \in Mapped(r)
    <2> DEFINE i2 == VPN2(va)  i1 == VPN1(va)  i0 == VPN0(va)
               t == memory[r][i2].to  u == memory[t][i1].to
    <2>1. va \in Va /\ \E w : Has(memory, r, va, w)
      BY DEF Covered
    <2>2. LinkAt(memory, r, i2) /\ LinkAt(memory, t, i1) /\ i0 \in DOMAIN memory[u]
      BY <2>1 DEF Has, Reads
    <2>3. At(r, i2) = t /\ At(t, i1) = u
      BY <2>2, TreesAre DEF At
    <2>4. i2 \in DOMAIN memory[r] /\ i1 \in DOMAIN memory[t]
      BY <2>2 DEF LinkAt
    <2>5. PageOf(i2, i1, i0) = va
      BY <2>1, PageIs
    <2> HIDE DEF i2, i1, i0, t, u
    <2>6. i1 \in DOMAIN memory[At(r, i2)] /\ i0 \in DOMAIN memory[At(At(r, i2), i1)]
      BY <2>2, <2>3, <2>4
    <2>7. va \in {PageOf(i2, i1, j0) : j0 \in DOMAIN memory[At(At(r, i2), i1)]}
      BY <2>5, <2>6
    <2>8. va \in UNION {{PageOf(i2, j1, j0) : j0 \in DOMAIN memory[At(At(r, i2), j1)]} :
                           j1 \in DOMAIN memory[At(r, i2)]}
      BY <2>6, <2>7
    <2> QED
      BY <2>4, <2>8 DEF Mapped
  <1>6. ASSUME NEW va \in Mapped(r) PROVE va \in Covered(memory, r)
    <2>1. PICK i2 \in DOMAIN memory[r] :
            va \in UNION {{PageOf(i2, i1, i0) : i0 \in DOMAIN memory[At(At(r, i2), i1)]} :
                     i1 \in DOMAIN memory[At(r, i2)]}
      BY DEF Mapped
    <2>2. PICK i1 \in DOMAIN memory[At(r, i2)] :
            va \in {PageOf(i2, i1, i0) : i0 \in DOMAIN memory[At(At(r, i2), i1)]}
      BY <2>1
    <2>3. PICK i0 \in DOMAIN memory[At(At(r, i2), i1)] : va = PageOf(i2, i1, i0)
      BY <2>2
    <2> QED
      BY <1>4, <2>3
  <1> QED
    BY <1>5, <1>6

(* So the spaces of the model are the ones the proof speaks of.             *)
SpacesAre == spaces = Stands(memory, roots)

LEMMA KeptStands == Kept /\ Asked => SpacesAre
PROOF
  <1> SUFFICES ASSUME Kept, Asked PROVE spaces = Stands(memory, roots)
    BY DEF SpacesAre
  <1>1. ASSUME NEW r \in roots
        PROVE  [va \in Mapped(r) |-> Walk(r, va)] = Space(memory, r)
    <2>1. Mapped(r) = Covered(memory, r)
      BY MappedIs DEF Asked
    <2>2. ASSUME NEW va \in Covered(memory, r) PROVE Walk(r, va) = Stored(memory, r, va)
      <3>1. va \in Va /\ va \in DOMAIN Space(memory, r) /\ Space(memory, r)[va] = Stored(memory, r, va)
        BY DEF Covered, Space
      <3>2. Has(memory, r, va, Stored(memory, r, va))
        BY <3>1, SpaceHas
      <3> QED
        BY <3>1, <3>2, WalkIs
    <2> QED
      BY <2>1, <2>2 DEF Space
  <1> QED
    BY <1>1 DEF spaces, Stands

(* Spaces that hold the same entries are the same.                          *)
LEMMA SameSpace ==
    ASSUME NEW mem, NEW new, NEW r,
           \A va \in Va : \A w : Has(new, r, va, w) <=> Has(mem, r, va, w)
    PROVE  Space(new, r) = Space(mem, r)
PROOF
  <1>1. Covered(new, r) = Covered(mem, r)
    BY DEF Covered
  <1>2. ASSUME NEW va \in Covered(mem, r) PROVE Stored(new, r, va) = Stored(mem, r, va)
    <2>1. va \in Va /\ va \in DOMAIN Space(new, r) /\ Space(new, r)[va] = Stored(new, r, va)
      BY <1>1 DEF Covered, Space
    <2>2. va \in DOMAIN Space(mem, r) /\ Space(mem, r)[va] = Stored(mem, r, va)
      BY DEF Space
    <2> QED
      BY <2>1, <2>2, SpaceHas
  <1> QED
    BY <1>1, <1>2 DEF Space

LEMMA SameStands ==
    ASSUME NEW mem, NEW new, NEW rs, SameEntries(mem, new, rs)
    PROVE  \A r \in rs : Space(new, r) = Space(mem, r)
PROOF
  BY SameSpace DEF SameEntries

(* One entry more, or another one.                                          *)
Altered(old, new, a) ==
    new = [v \in DOMAIN old \cup {a} |-> IF v = a THEN new[v] ELSE old[v]]

LEMMA OneSpace ==
    ASSUME NEW mem, NEW new, NEW rs, NEW root \in rs, NEW a \in Va, NEW word,
           OneEntry(mem, new, rs, root, a, word)
    PROVE  /\ \A r \in rs : r # root => Space(new, r) = Space(mem, r)
           /\ a \in DOMAIN Space(new, root) /\ Space(new, root)[a] = word
           /\ Altered(Space(mem, root), Space(new, root), a)
PROOF
  <1>1. ASSUME NEW r \in rs, r # root PROVE Space(new, r) = Space(mem, r)
    <2>1. \A va \in Va : \A w : Has(new, r, va, w) <=> Has(mem, r, va, w)
      BY <1>1 DEF OneEntry
    <2> QED
      BY <2>1, SameSpace
  <1>2. Has(new, root, a, word)
    BY DEF OneEntry
  <1>3. a \in DOMAIN Space(new, root) /\ Space(new, root)[a] = word
    BY <1>2, SpaceHas
  <1>4. \A va \in Va : va # a => \A w : Has(new, root, va, w) <=> Has(mem, root, va, w)
    BY DEF OneEntry
  <1>5. DOMAIN Space(new, root) = DOMAIN Space(mem, root) \cup {a}
    <2>1. DOMAIN Space(new, root) = Covered(new, root) /\ DOMAIN Space(mem, root) = Covered(mem, root)
      BY DEF Space
    <2>2. \A va \in Va : va # a => (va \in Covered(new, root) <=> va \in Covered(mem, root))
      BY <1>4 DEF Covered
    <2>3. a \in Covered(new, root) /\ Covered(new, root) \subseteq Va /\ Covered(mem, root) \subseteq Va
      BY <1>2 DEF Covered
    <2> QED
      BY <2>1, <2>2, <2>3
  <1>6. ASSUME NEW v \in DOMAIN Space(new, root), v # a
        PROVE  Space(new, root)[v] = Space(mem, root)[v]
    <2>1. v \in Va /\ v \in DOMAIN Space(mem, root)
      BY <1>5, <1>6 DEF Space, Covered
    <2>2. Has(mem, root, v, Space(mem, root)[v])
      BY <2>1, SpaceHas
    <2>3. Has(new, root, v, Space(mem, root)[v])
      BY <1>4, <1>6, <2>1, <2>2
    <2> QED
      BY <2>1, <2>3, SpaceHas
  <1>7. Space(new, root) = [v \in DOMAIN Space(new, root) |-> Space(new, root)[v]]
    BY DEF Space
  <1> DEFINE S == Space(mem, root)  T == Space(new, root)
  <1> HIDE DEF S, T
  <1>8. /\ DOMAIN T = DOMAIN S \cup {a} /\ T = [v \in DOMAIN T |-> T[v]]
        /\ \A v \in DOMAIN T : v # a => T[v] = S[v]
    BY <1>5, <1>6, <1>7 DEF S, T
  <1>9. Altered(S, T, a)
    BY <1>8 DEF Altered
  <1> QED
    BY <1>1, <1>3, <1>9 DEF S, T

(* A step that changes one entry is one of the abstract steps, or none.     *)
LEMMA OneStep ==
    ASSUME SpacesAre, SpacesAre', roots' = roots, NEW root \in roots, NEW a \in Va, NEW word,
           OneEntry(memory, memory', roots, root, a, word),
           [va |-> a, e |-> word] \in Request \/ word = STACKMAGIC
    PROVE  [Spaces!Next]_spaces
PROOF
  <1> DEFINE S == spaces  T == spaces'
  <1>1. /\ S = [r \in roots |-> Space(memory, r)] /\ T = [r \in roots |-> Space(memory', r)]
    BY DEF SpacesAre, Stands
  <1>2. /\ \A r \in roots : r # root => Space(memory', r) = Space(memory, r)
        /\ a \in DOMAIN Space(memory', root) /\ Space(memory', root)[a] = word
        /\ Altered(Space(memory, root), Space(memory', root), a)
    <2> DEFINE mem == memory  new == memory'  rs == roots
    <2>1. root \in rs /\ OneEntry(mem, new, rs, root, a, word)
      OBVIOUS
    <2> HIDE DEF mem, new, rs
    <2>2. /\ \A r \in rs : r # root => Space(new, r) = Space(mem, r)
          /\ a \in DOMAIN Space(new, root) /\ Space(new, root)[a] = word
          /\ Altered(Space(mem, root), Space(new, root), a)
      BY <2>1, OneSpace
    <2> QED
      BY <2>2 DEF mem, new, rs
  <1>3. T[root] = Space(memory', root) /\ S[root] = Space(memory, root)
        /\ DOMAIN S = roots /\ DOMAIN T = roots
    BY <1>1
  <1>4. \A r \in roots : r # root => T[r] = S[r]
    BY <1>1, <1>2
  <1>5. /\ a \in DOMAIN T[root] /\ T[root][a] = word
        /\ Altered(S[root], T[root], a)
    BY <1>2, <1>3
  <1>6. S = [r \in roots |-> S[r]] /\ T = [r \in roots |-> T[r]]
    BY <1>1
  <1> HIDE DEF S, T
  <1> DEFINE f == T[root]
  <1>7. T = [S EXCEPT ![root] =
              [v \in DOMAIN @ \cup {a} |-> IF v = a THEN T[root][v] ELSE @[v]]]
    <2>1. f = [v \in DOMAIN S[root] \cup {a} |-> IF v = a THEN T[root][v] ELSE S[root][v]]
      BY <1>5 DEF Altered
    <2>2. \A r \in roots : r # root => T[r] = S[r]
      BY <1>4
    <2>3. T[root] = f
      OBVIOUS
    <2> HIDE DEF f
    <2>4. T = [S EXCEPT ![root] = f]
      BY <1>3, <1>6, <2>2, <2>3
    <2> QED
      BY <2>1, <2>4
  <1>8. CASE a \in DOMAIN S[root] /\ S[root][a] = word
    <2>1. T[root] = S[root]
      <3>1. DOMAIN S[root] \cup {a} = DOMAIN S[root] /\ T[root][a] = S[root][a]
        BY <1>5, <1>8
      <3>2. S[root] = [v \in DOMAIN S[root] |-> S[root][v]]
        BY <1>3 DEF Space
      <3> DEFINE g == S[root]
      <3> HIDE DEF f, g
      <3>3. f = [v \in DOMAIN g \cup {a} |-> IF v = a THEN f[v] ELSE g[v]]
            /\ DOMAIN g \cup {a} = DOMAIN g /\ f[a] = g[a] /\ g = [v \in DOMAIN g |-> g[v]]
        BY <1>5, <3>1, <3>2 DEF Altered, f, g
      <3>4. f = g
        BY <3>3
      <3> QED
        BY <3>4 DEF f, g
    <2>2. T = S
      BY <1>4, <1>6, <2>1
    <2> QED
      BY <2>2 DEF S, T
  <1>9. CASE ~(a \in DOMAIN S[root] /\ S[root][a] = word)
    <2>1. root \in DOMAIN T /\ root \in DOMAIN S
      BY <1>3
    <2>2. a \in {va \in DOMAIN T[root] : va \in DOMAIN S[root] => T[root][va] # S[root][va]}
      BY <1>5, <1>9
    <2>3. a \in Spaces!Changed(root)
      BY <2>2 DEF Spaces!Changed, S, T
    <2>4. Spaces!Enter(root, a)
      BY <1>7 DEF Spaces!Enter, S, T
    <2>5. CASE word = STACKMAGIC
      <3>1. spaces'[root][a] = STACKMAGIC
        BY <1>5, <2>5 DEF T
      <3>2. Spaces!Spoil(root, a)
        BY <2>4, <3>1 DEF Spaces!Spoil
      <3> QED
        BY <2>1, <2>3, <3>2 DEF Spaces!Next, S, T
    <2>6. CASE [va |-> a, e |-> word] \in Request
      <3>1. spaces'[root][a] = word
        BY <1>5 DEF T
      <3>2. Spaces!Map(root, a)
        BY <2>4, <2>6, <3>1 DEF Spaces!Map
      <3> QED
        BY <2>1, <2>3, <3>2 DEF Spaces!Next, S, T
    <2> QED
      BY <2>5, <2>6
  <1> QED
    BY <1>8, <1>9

(* A new root is a new space.                                               *)
LEMMA NewStep ==
    ASSUME SpacesAre, SpacesAre', NEW h, h \notin roots, roots' = roots \cup {h},
           SameEntries(memory, memory', roots),
           \A va \in Va : \A w : Has(memory', h, va, w) => [va |-> va, e |-> w] \in Request
    PROVE  [Spaces!Next]_spaces
PROOF
  <1> DEFINE S == spaces  T == spaces'
  <1>1. /\ S = [r \in roots |-> Space(memory, r)]
        /\ T = [r \in roots \cup {h} |-> Space(memory', r)]
    BY DEF SpacesAre, Stands
  <1>2. \A r \in roots : Space(memory', r) = Space(memory, r)
    BY SameStands
  <1>3. DOMAIN S = roots /\ DOMAIN T = roots \cup {h} /\ T[h] = Space(memory', h)
        /\ \A r \in roots : T[r] = S[r]
    BY <1>1, <1>2
  <1>4. ASSUME NEW v \in DOMAIN T[h] PROVE [va |-> v, e |-> T[h][v]] \in Request
    <2>1. v \in Va /\ v \in DOMAIN Space(memory', h)
      BY <1>3 DEF Space, Covered
    <2>2. Has(memory', h, v, T[h][v])
      BY <1>3, <2>1, SpaceHas
    <2> QED
      BY <2>1, <2>2
  <1>5. T = [r \in roots \cup {h} |-> T[r]]
    BY <1>1
  <1> HIDE DEF S, T
  <1>6. T = [q \in DOMAIN S \cup {h} |-> IF q = h THEN T[h] ELSE S[q]]
    BY <1>3, <1>5
  <1>7. h \in DOMAIN T /\ h \notin DOMAIN S
    BY <1>3
  <1>8. Spaces!NewSpace(h)
    BY <1>4, <1>6, <1>7 DEF Spaces!NewSpace, S, T
  <1> QED
    BY <1>7, <1>8 DEF Spaces!Next, T

(* When no entry changes, no space does.                                    *)
LEMMA SameStep ==
    ASSUME SpacesAre, SpacesAre', roots' = roots, SameEntries(memory, memory', roots)
    PROVE  [Spaces!Next]_spaces
PROOF
  <1>1. spaces = [r \in roots |-> Space(memory, r)] /\ spaces' = [r \in roots |-> Space(memory', r)]
    BY DEF SpacesAre, Stands
  <1>2. \A r \in roots : Space(memory', r) = Space(memory, r)
    BY SameStands
  <1>3. spaces' = spaces
    BY <1>1, <1>2
  <1> QED
    BY <1>3

(* What two sequences hold together, each of them holds.                     *)
LEMMA ConcatSet ==
  ASSUME NEW S, NEW s \in Seq(S), NEW t \in Seq(S)
  PROVE  s \o t \in Seq(S) /\ ToSet(s \o t) = ToSet(s) \cup ToSet(t)
PROOF
  <1>1. s \o t \in Seq(S) /\ Len(s \o t) = Len(s) + Len(t) /\ Len(s) \in Nat /\ Len(t) \in Nat
    OBVIOUS
  <1>2. \A i \in 1 .. Len(s) : i \in 1 .. Len(s \o t) /\ (s \o t)[i] = s[i]
    BY <1>1
  <1>3. \A i \in 1 .. Len(t) : Len(s) + i \in 1 .. Len(s \o t) /\ (s \o t)[Len(s) + i] = t[i]
    BY <1>1
  <1>4. ASSUME NEW x \in ToSet(s \o t) PROVE x \in ToSet(s) \cup ToSet(t)
    <2>1. PICK i \in 1 .. Len(s \o t) : x = (s \o t)[i]
      BY <1>1 DEF ToSet
    <2>2. CASE i <= Len(s)
      BY <1>1, <2>1, <2>2 DEF ToSet
    <2>3. CASE i > Len(s)
      <3>1. i - Len(s) \in 1 .. Len(t) /\ Len(s) + (i - Len(s)) = i
        BY <1>1, <2>3
      <3>2. x = t[i - Len(s)]
        BY <1>3, <2>1, <3>1
      <3> QED
        BY <3>1, <3>2 DEF ToSet
    <2> QED
      BY <1>1, <2>2, <2>3
  <1>5. ToSet(s) \subseteq ToSet(s \o t)
    BY <1>1, <1>2 DEF ToSet
  <1>6. ToSet(t) \subseteq ToSet(s \o t)
    <2> SUFFICES ASSUME NEW x \in ToSet(t) PROVE x \in ToSet(s \o t)
      OBVIOUS
    <2>1. PICK i \in 1 .. Len(t) : x = t[i]
      BY DEF ToSet
    <2>2. Len(s) + i \in 1 .. Len(s \o t) /\ (s \o t)[Len(s) + i] = x
      BY <1>3, <2>1
    <2> QED
      BY <1>1, <2>2 DEF ToSet
  <1> QED
    BY <1>1, <1>4, <1>5, <1>6

(* What the kernel asks for is a request of the abstract spaces.            *)
AsEntry(q) == [va |-> q.va, e |-> Leaf(q.pa, q.attr)]

LEMMA Requested ==
    \A q \in ToSet(KernelMap) \cup ToSet(UserMap) \cup ToSet(SwapMap) \cup ToSet(UserAll)
             \cup {FakeMap[1]} : AsEntry(q) \in Request
PROOF
  <1>1. KernelMap \in Seq(Asks) /\ UserMap \in Seq(Asks) /\ SwapMap \in Seq(Asks)
    BY AllAsks
  <1>2. FakeMap \in Seq(Asks) /\ FakeMap = <<FakeMap[1]>>
    <2>1. FakeMap[1] = [va |-> PROCSTACKADDR, pa |-> MagicPage, attr |-> {"R", "W"}]
          /\ FakeMap = <<FakeMap[1]>>
      BY Parts, Truncated DEF FakeMap, mapPage
    <2>2. FakeMap[1] \in Asks
      BY <2>1, Parts, InSpan DEF Asks, Attr
    <2> DEFINE q == FakeMap[1]
    <2>3. FakeMap = <<q>> /\ q \in Asks
      BY <2>1, <2>2
    <2> HIDE DEF q
    <2>4. <<q>> \in Seq(Asks)
      BY <2>3
    <2> QED
      BY <2>3, <2>4 DEF q
  <1>3. FakeMap[1] \in ToSet(FakeMap)
    <2> DEFINE q == FakeMap[1]
    <2>1. FakeMap = <<q>>
      BY <1>2
    <2> HIDE DEF q
    <2>2. 1 \in DOMAIN <<q>> /\ <<q>>[1] = q
      OBVIOUS
    <2>3. q \in ToSet(<<q>>)
      BY <2>2 DEF ToSet
    <2> QED
      BY <2>1, <2>3 DEF q
  <1> DEFINE k == KernelMap  u == UserMap  s == SwapMap  f == FakeMap
  <1>4. k \in Seq(Asks) /\ u \in Seq(Asks) /\ s \in Seq(Asks) /\ f \in Seq(Asks)
    BY <1>1, <1>2
  <1> HIDE DEF k, u, s, f
  <1>5. k \o u \in Seq(Asks) /\ ToSet(k \o u) = ToSet(k) \cup ToSet(u)
    BY <1>4, ConcatSet
  <1> DEFINE ku == k \o u
  <1>6. ku \in Seq(Asks) /\ ToSet(ku) = ToSet(k) \cup ToSet(u)
    BY <1>5
  <1> HIDE DEF ku
  <1>7. ku \o s \in Seq(Asks) /\ ToSet(ku \o s) = ToSet(ku) \cup ToSet(s)
    BY <1>4, <1>6, ConcatSet
  <1> DEFINE kus == ku \o s
  <1>8. kus \in Seq(Asks) /\ ToSet(kus) = ToSet(ku) \cup ToSet(s)
    BY <1>7
  <1> HIDE DEF kus
  <1>9. ToSet(kus \o f) = ToSet(kus) \cup ToSet(f)
    BY <1>4, <1>8, ConcatSet
  <1>10. ToSet(u \o s) = ToSet(u) \cup ToSet(s)
    BY <1>4, ConcatSet
  <1>11. Request = {AsEntry(q) : q \in ToSet(kus \o f)}
    BY DEF Request, AsEntry, k, u, s, f, ku, kus
  <1>12. ToSet(UserAll) = ToSet(u) \cup ToSet(s)
    BY <1>10 DEF UserAll, u, s
  <1>13. \A q \in ToSet(k) \cup ToSet(u) \cup ToSet(s) \cup {FakeMap[1]} : AsEntry(q) \in Request
    BY <1>3, <1>6, <1>8, <1>11, <1>9 DEF f
  <1> QED
    BY <1>6, <1>12, <1>13 DEF k, u, s

(* The page that is mapped was asked for.                                   *)
LEMMA HeadRequested ==
    ASSUME Kept, Asked, MapNext
    PROVE  AsEntry(Head(todo)) \in Request
PROOF
  <1>1. phase \in Filling /\ todo # <<>>
    BY DEF MapNext, Kept, Control
  <1>2. ASSUME NEW s \in Seq(Asks), Filled(memory, pagetable, s, todo)
        PROVE  Head(todo) \in ToSet(s)
    <2>1. pagetable \in roots
          /\ OneEntry(memory, memory', roots, pagetable, Head(todo).va,
                      Leaf(Head(todo).pa, Head(todo).attr))
      BY MapEffect
    <2> QED
      BY <1>1, <1>2, <2>1, FilledNext
  <1>3. \/ Filled(memory, pagetable, KernelMap, todo)
        \/ Filled(memory, pagetable, UserMap, todo)
        \/ Filled(memory, pagetable, UserAll, todo)
    BY <1>1 DEF Asked, AsFilled, Filling
  <1>4. Head(todo) \in ToSet(KernelMap) \cup ToSet(UserMap) \cup ToSet(UserAll)
    BY <1>2, <1>3, AllAsks
  <1> QED
    BY <1>4, Requested

(* Each step is one of the abstract spaces, or changes none of them.        *)
LEMMA NewTableStands ==
    ASSUME Kept, SpacesAre, SpacesAre', NewTable
    PROVE  [Spaces!Next]_spaces
PROOF
  <1> DEFINE h == Head(pgfreelist)
  <1>1. Keep(pgalloc(Now)) /\ roots' = roots \cup {h}
    BY DEF NewTable
  <1>2. SameEntries(memory, memory', roots) /\ h \notin roots /\ memory'[h] = Zeroed
    BY <1>1, TakeEffect
  <1> HIDE DEF h
  <1>3. \A va \in Va : \A w : ~Has(memory', h, va, w)
    BY <1>2, EmptyHas
  <1> QED
    BY <1>1, <1>2, <1>3, NewStep

LEMMA FakeStands ==
    ASSUME Kept, SpacesAre, SpacesAre', createFakeTable
    PROVE  [Spaces!Next]_spaces
PROOF
  <1> DEFINE h == Head(pgfreelist)
  <1>1. roots' = roots \cup {h}
    BY DEF createFakeTable
  <1>2. /\ SameEntries(memory, memory', roots) /\ h \notin roots
        /\ \A va \in Va : \A w : Has(memory', h, va, w) <=> va = FakeVa /\ w = FakeWord
    BY FakeEffect
  <1>3. [va |-> FakeVa, e |-> FakeWord] \in Request
    BY Requested DEF AsEntry, FakeVa, FakeWord
  <1> HIDE DEF h
  <1> QED
    BY <1>1, <1>2, <1>3, NewStep

LEMMA MapStands ==
    ASSUME Kept, Asked, SpacesAre, SpacesAre', MapNext
    PROVE  [Spaces!Next]_spaces
PROOF
  <1> DEFINE a == Head(todo).va  word == Leaf(Head(todo).pa, Head(todo).attr)
  <1>1. pagetable \in roots /\ a \in Va /\ OneEntry(memory, memory', roots, pagetable, a, word)
    BY MapEffect
  <1>2. [va |-> a, e |-> word] \in Request
    BY HeadRequested DEF AsEntry
  <1>3. roots' = roots
    BY DEF MapNext, past
  <1> HIDE DEF a, word
  <1> QED
    BY <1>1, <1>2, <1>3, OneStep

LEMMA RecordStands ==
    ASSUME Kept, SpacesAre, SpacesAre', CreateRecord
    PROVE  [Spaces!Next]_spaces
PROOF
  <1>1. roots' = roots
    BY DEF CreateRecord, past
  <1>2. CASE SameEntries(memory, memory', roots)
    BY <1>1, <1>2, SameStep
  <1>3. ASSUME NEW root \in roots, NEW a \in Va,
               OneEntry(memory, memory', roots, root, a, STACKMAGIC)
        PROVE  [Spaces!Next]_spaces
    BY <1>1, <1>3, OneStep
  <1> QED
    BY <1>2, <1>3, RecordEffect

LEMMA StepStands ==
    ASSUME Kept, Asked, SpacesAre, SpacesAre', [Next]_vars
    PROVE  [Spaces!Next]_spaces
PROOF
  <1>1. CASE vm_kerninit \/ vm_userinit
    BY <1>1, NewTableStands DEF vm_kerninit, vm_userinit
  <1>2. CASE MapNext
    BY <1>2, MapStands
  <1>3. CASE CreateStack
    <2>1. Keep(pgalloc(Now)) /\ roots' = roots
      BY <1>3 DEF CreateStack
    <2> QED
      BY <2>1, TakeEffect, SameStep
  <1>4. CASE SwapArea
    <2>1. roots' = roots
      BY <1>4 DEF SwapArea
    <2> QED
      BY <1>4, <2>1, SwapEffect, SameStep
  <1>5. CASE CreateRecord
    BY <1>5, RecordStands
  <1>6. CASE createFakeTable
    BY <1>6, FakeStands
  <1>7. CASE \/ pgInit \/ set_satp \/ AllocFaults \/ MapFaults \/ MainFaults
             \/ UNCHANGED vars \/ \E p \in PID : kill(p)
    <2>1. roots' = roots /\ memory' = memory
      BY <1>7 DEF pgInit, set_satp, AllocFaults, MapFaults, MainFaults, Halt, kill, vars, pages, past
    <2>2. SameEntries(memory, memory', roots)
      BY <2>1 DEF SameEntries
    <2> QED
      BY <2>1, <2>2, SameStep
  <1> QED
    BY <1>1, <1>2, <1>3, <1>4, <1>5, <1>6, <1>7 DEF Next

(* map.c and create.c implement address spaces that change by requests      *)
(* only: making a table on the way to one entry disturbs no other entry of  *)
(* any space, and the word above a stack spoils at most one.                *)
THEOREM TablesAreSpaces == Spec => ImplementsSpaces
PROOF
  <1>1. Init => Spaces!Init
    BY DEF Init, Spaces!Init, spaces
  <1>2. Kept /\ Asked /\ SpacesAre /\ SpacesAre' /\ [Next]_vars => [Spaces!Next]_spaces
    BY StepStands
  <1> QED
    BY <1>1, <1>2, Invariant, AskedAlways, KeptStands, PTL DEF Spec, ImplementsSpaces, Spaces!Spec

------------------------------------------------------------------------------
(* Every variable has its type, those of the history too. *)
TrapTypes ==
    /\ TrapTypeOK
    /\ DOMAIN interruptVector = {NoIrq, IRQ_TIMER}
    /\ cause \in {"none", "ecall", "claim"}
    /\ before \in [regs : [Reg -> Word], pc : 0 .. PcRange - 1]
    /\ cause = "ecall" => before.regs["a7"] \in Codes
    /\ at = "ctxsw" => cause = "none"

(* What the kernel keeps of the process while it works, and what it has     *)
(* changed when it returns.                                                 *)
TrapHeld      == swaparea = Save(before.regs) /\ sepc = before.pc
Result(r) == [r EXCEPT !["t0"] = SWAPAREAADDR,
                       !["a0"] = IF cause = "ecall" THEN Promised(r) ELSE @]
NextPc    == (before.pc + IF cause = "ecall" THEN 1 ELSE 0) % PcRange
Frame ==
    /\ at = "ecall" => cause = "ecall" /\ TrapHeld
    /\ at \in {"claim", "complete", "handler"} => cause = "claim" /\ TrapHeld
    /\ at = "return" => cause # "none" /\ swaparea = Result(before.regs) /\ sepc = NextPc
    /\ at = "user" /\ cause # "none" => regs = Result(before.regs) /\ pc = NextPc

(* The runs of the handler that are still to come without another tick.    *)
One(b) == IF b THEN 1 ELSE 0
ToCome == CASE at = "complete" -> 1 + One(irq_sta)
            [] at = "handler"  -> 1 + One(ip)
            [] OTHER           -> One(ip) + One(irq_sta)
Ticks ==
    /\ clkticks + ToCome <= 2 * raised
    /\ raised <= clkticks + One(irq_sta)
    /\ at = "claim" => ip
    /\ inservice <=> at = "complete"
    /\ at = "complete" => ~ip

TrapKept == TrapTypes /\ Frame /\ Ticks

------------------------------------------------------------------------------
(* What is left of a register that is passed as an int or as a char.       *)
LEMMA Narrowed == \A w \in Word : AsInt(w) \in Int /\ AsChar(w) \in Char
PROOF
  <1> SUFFICES ASSUME NEW w \in Word PROVE AsInt(w) \in Int /\ AsChar(w) \in Char
    OBVIOUS
  <1>1. w \in Int /\ CharRange \in Nat \ {0} /\ IntRange \in Nat \ {0}
    BY TrapConstants, MemoryLayout DEF Word, Char, SYSERR, OK, nsyscall
  <1> QED
    BY <1>1 DEF AsInt, AsChar, Char

(* The invariant holds when the first process is about to be entered.      *)
LEMMA TrapKeptInit == ASSUME TrapInit PROVE TrapKept
PROOF
  <1>1. 0 \in Word /\ 0 \in 0 .. PcRange - 1
    BY TrapConstants DEF Word, Char, PcRange
  <1>2. TrapTypeOK
    <2>1. regs \in [Reg -> Word] /\ swaparea \in [Reg -> Word]
      BY <1>1 DEF TrapInit
    <2>2. raised \in 0 .. MaxTicks + 1 /\ clkticks \in Nat
      BY TrapConstants DEF TrapInit
    <2>3. irq \in DOMAIN interruptVector
      BY DEF TrapInit
    <2>4. rx \in Seq(Char) /\ typed \in Seq(Char) /\ got \in Seq(Char)
      BY DEF TrapInit
    <2> QED
      BY <1>1, <2>1, <2>2, <2>3, <2>4 DEF TrapInit, TrapTypeOK
  <1>3. TrapTypes
    BY <1>1, <1>2 DEF TrapInit, TrapTypes
  <1>4. Frame
    BY DEF TrapInit, Frame
  <1>5. Ticks
    BY DEF TrapInit, Ticks, ToCome, One
  <1> QED
    BY <1>3, <1>4, <1>5 DEF TrapKept

(* What a device changes is not in the frame; a tick brings two runs.      *)
LEMMA DeviceKeeps == ASSUME TrapKept, Device PROVE TrapKept'
PROOF
  <1>0. TrapTypeOK /\ TrapTypes /\ Frame /\ Ticks
    BY DEF TrapKept, TrapTypes
  <1>1. UNCHANGED <<at, regs, pc, swaparea, sepc, before, cause, got, clkticks,
                    interruptVector, irq>>
    BY DEF Device, TimerExpires, Sent, Type, user, saved, plic, last, clock, console
  <1>2. Frame'
    BY <1>0, <1>1 DEF Frame, TrapHeld, Result, Promised, NextPc
  <1>3. TrapTypes'
    <2>1. mapped' = mapped /\ inservice' = inservice
      BY DEF Device, TimerExpires, Sent, Type, plic
    <2>3. rx' \in Seq(Char) /\ typed' \in Seq(Char)
      <3>1. rx \in Seq(Char) /\ typed \in Seq(Char)
        BY <1>0 DEF TrapTypeOK
      <3>2. CASE UNCHANGED <<rx, typed>>
        BY <3>1, <3>2
      <3>3. ASSUME NEW v \in Val, Type(AsChar(v))
            PROVE  rx' \in Seq(Char) /\ typed' \in Seq(Char)
        <4>1. AsChar(v) \in Char
          BY Narrowed DEF Word
        <4> QED
          BY <3>1, <3>3, <4>1 DEF Type
      <3> QED
        BY <3>2, <3>3 DEF Device, TimerExpires, Sent, uart, console
    <2>4. thre' \in BOOLEAN /\ irq_sta' \in BOOLEAN /\ ip' \in BOOLEAN
      BY <1>0, Zenon DEF Device, TimerExpires, Sent, Type, uart, plic, TrapTypeOK
    <2>2. raised' \in 0 .. MaxTicks + 1
      BY <1>0, TrapConstants, SMTT(30) DEF Device, TimerExpires, Sent, Type, clock, TrapTypeOK
    <2> QED
      BY <1>0, <1>1, <2>1, <2>2, <2>3, <2>4 DEF TrapTypes, TrapTypeOK
  <1>4. Ticks'
    <2>1. CASE TimerExpires
      BY <1>0, <2>1 DEF TimerExpires, Ticks, ToCome, One, TrapTypeOK
    <2>2. CASE UNCHANGED <<plic, clock>>
      BY <1>0, <1>1, <2>2 DEF Ticks, ToCome, One, plic, clock
    <2> QED
      BY <2>1, <2>2 DEF Device, Sent, Type
  <1> QED
    BY <1>2, <1>3, <1>4 DEF TrapKept

(* The way in: the registers are kept in the swap area and in the history. *)
LEMMA TrapKeeps ==
    ASSUME TrapKept, NEW r \in [Reg -> Word], NEW why \in {"ecall", "claim"}, Trap(r, why),
           why = "ecall" => r["a7"] \in Codes, why = "claim" => ip
    PROVE  TrapKept'
PROOF
  <1>0. TrapTypeOK /\ TrapTypes /\ Frame /\ Ticks
    BY DEF TrapKept, TrapTypes
  <1>1. /\ at = "user" /\ regs' = r /\ before' = [regs |-> r, pc |-> pc] /\ cause' = why
        /\ UNCHANGED <<mapped, pc, plic, uart, clock, console>>
        /\ \/ at' = why /\ swaparea' = Save(r) /\ sepc' = pc
           \/ at' = "criticalerr" /\ UNCHANGED saved
    BY DEF Trap
  <1>2. before'.regs = r /\ before'.pc = pc
    BY <1>1
  <1>3. TrapTypes'
    <2>1. Save(r) \in [Reg -> Word]
      BY DEF Save, Word
    <2> QED
      BY <1>0, <1>1, <1>2, <2>1 DEF TrapTypes, TrapTypeOK, plic, uart, clock, console, saved
  <1>4. Frame'
    BY <1>1, <1>2 DEF Frame, TrapHeld
  <1>5. Ticks'
    BY <1>0, <1>1 DEF Ticks, ToCome, One, plic, clock
  <1> QED
    BY <1>3, <1>4, <1>5 DEF TrapKept

(* A call leaves its answer and moves on. *)
LEMMA AnswerKeeps ==
    ASSUME TrapKept, at = "ecall", NEW value \in Word, Answer(value),
           value = Promised(before.regs)',
           UNCHANGED <<mapped, user, plic, last, clock>>,
           rx' \in Seq(Char), got' \in Seq(Char), typed' \in Seq(Char), thre' \in BOOLEAN
    PROVE  TrapKept'
PROOF
  <1>0. TrapTypeOK /\ TrapTypes /\ Frame /\ Ticks
    BY DEF TrapKept, TrapTypes
  <1>1. /\ swaparea' = [swaparea EXCEPT !["a0"] = value] /\ at' = "return"
        /\ sepc' = (sepc + 1) % PcRange
        /\ UNCHANGED <<regs, pc, before, cause, irq, irq_sta, ip, inservice, interruptVector>>
    BY DEF Answer, user, plic, last
  <1>2. TrapTypes'
    <2>1. sepc' \in 0 .. PcRange - 1
      BY <1>0, <1>1 DEF TrapTypeOK, PcRange
    <2> QED
      BY <1>0, <1>1, <2>1 DEF TrapTypes, TrapTypeOK, clock
  <1>3. Frame'
    <2>1. cause = "ecall" /\ swaparea = Save(before.regs) /\ sepc = before.pc
      BY <1>0 DEF Frame, TrapHeld
    <2>2. sepc' = NextPc'
      BY <1>1, <2>1 DEF NextPc
    <2>3. swaparea' = Result(before.regs)'
      <3> DEFINE r == before.regs
      <3>1. r \in [Reg -> Word] /\ before' = before /\ cause' = "ecall"
        BY <1>0, <1>1, <2>1 DEF TrapTypes
      <3>2. swaparea' = [[r EXCEPT !["t0"] = SWAPAREAADDR] EXCEPT !["a0"] = value]
        BY <1>1, <2>1 DEF Save
      <3>3. Result(before.regs)' = [r EXCEPT !["t0"] = SWAPAREAADDR, !["a0"] = value]
        BY <3>1 DEF Result
      <3> QED
        BY <3>1, <3>2, <3>3
    <2> QED
      BY <1>1, <2>1, <2>2, <2>3 DEF Frame
  <1>4. Ticks'
    BY <1>0, <1>1 DEF Ticks, ToCome, One, clock
  <1> QED
    BY <1>2, <1>3, <1>4 DEF TrapKept

(* The three ways a call is answered agree with what its C code promises.  *)
LEMMA CallKeeps == ASSUME TrapKept, syscall_dispatch \/ kgetc \/ kputc PROVE TrapKept'
PROOF
  <1>0. TrapTypeOK /\ TrapTypes /\ Frame
    BY DEF TrapKept, TrapTypes
  <1> DEFINE r == before.regs
  <1>1. /\ at = "ecall" /\ UNCHANGED <<mapped, user, plic, last, clock>>
        /\ r' = r
    BY DEF syscall_dispatch, kgetc, kputc, last
  <1>2. /\ r \in [Reg -> Word] /\ r["a7"] \in Codes /\ Codes \subseteq Nat
        /\ swaparea["a7"] = r["a7"] /\ swaparea["a0"] = r["a0"] /\ swaparea["a1"] = r["a1"]
    BY <1>0, <1>1, TrapConstants DEF TrapTypes, Frame, TrapHeld, Save, Reg
  <1>3. SYSERR \in Word /\ OK \in Word /\ Char \subseteq Word
    BY DEF Word
  <1> DEFINE code == AsInt(r["a7"])
             fd   == AsInt(r["a0"])
  <1>a. code \in Int /\ AsChar(r["a1"]) \in Char
    BY <1>2, Narrowed DEF Reg
  <1>b. Code = code /\ descrp = fd
    BY <1>2 DEF Code, descrp
  <1>c. /\ code = SYSCALL_GETC /\ fd = 0 /\ got' # <<>> => Promised(r)' = Last(got')
        /\ code = SYSCALL_PUTC /\ fd = 0 => Promised(r)' = AsChar(r["a1"])
        /\ code \in Console /\ fd # 0 => Promised(r)' = SYSERR
        /\ code \notin Console => Promised(r)' = IF code < 0 \/ code >= nsyscall THEN SYSERR ELSE OK
    BY <1>1 DEF Promised, Console, SYSCALL_GETC, SYSCALL_PUTC, nsyscall
  <1> HIDE DEF code, fd
  <1>4. CASE syscall_dispatch
    <2> DEFINE value == IF code \in (0 .. nsyscall - 1) \ Console THEN OK ELSE SYSERR
    <2>1. /\ Answer(value)
          /\ code \in Console => fd # 0
          /\ UNCHANGED <<uart, console>>
      BY <1>b, <1>4 DEF syscall_dispatch
    <2>2. value = Promised(before.regs)'
      BY <1>1, <1>a, <1>c, <2>1 DEF Console, SYSCALL_GETC, SYSCALL_PUTC, nsyscall
    <2>3. value \in Word
      BY <1>3
    <2> HIDE DEF value
    <2> QED
      BY <1>0, <1>1, <2>1, <2>2, <2>3, AnswerKeeps DEF uart, console, TrapTypeOK
  <1>5. CASE kgetc
    <2>1. /\ code = SYSCALL_GETC /\ fd = 0 /\ rx # <<>> /\ Answer(Head(rx))
          /\ rx' = Tail(rx) /\ got' = Append(got, Head(rx)) /\ UNCHANGED <<typed, thre>>
      BY <1>b, <1>5 DEF kgetc
    <2>2. /\ Head(rx) \in Char /\ rx' \in Seq(Char)
          /\ got' \in Seq(Char) /\ got' # <<>> /\ Last(got') = Head(rx)
      <3>1. rx \in Seq(Char) /\ got \in Seq(Char)
        BY <1>0 DEF TrapTypeOK
      <3>2. Head(rx) \in Char /\ rx' \in Seq(Char)
        BY <2>1, <3>1
      <3>3. got' \in Seq(Char) /\ Len(got') = Len(got) + 1 /\ got'[Len(got) + 1] = Head(rx)
        BY <2>1, <3>1, <3>2
      <3> QED
        BY <2>1, <3>1, <3>2, <3>3 DEF Last
    <2>3. Head(rx) = Promised(before.regs)'
      BY <1>1, <1>c, <2>1, <2>2
    <2> QED
      BY <1>0, <1>1, <1>3, <2>1, <2>2, <2>3, AnswerKeeps DEF TrapTypeOK
  <1>6. CASE kputc
    <2>1. /\ code = SYSCALL_PUTC /\ fd = 0 /\ Answer(AsChar(r["a1"])) /\ thre' = FALSE
          /\ UNCHANGED <<rx, console>>
      BY <1>2, <1>b, <1>6 DEF kputc
    <2>2. AsChar(r["a1"]) = Promised(before.regs)'
      BY <1>1, <1>c, <2>1
    <2>3. AsChar(r["a1"]) \in Word
      BY <1>3, <1>a
    <2> QED
      BY <1>0, <1>1, <2>1, <2>2, <2>3, AnswerKeeps DEF TrapTypeOK, console
  <1> QED
    BY <1>4, <1>5, <1>6

(* The steps of an interrupt: claimed, completed, served.                  *)
LEMMA InterruptKeeps == ASSUME TrapKept, Claim \/ Complete \/ clkhandler PROVE TrapKept'
PROOF
  <1>0. TrapTypeOK /\ TrapTypes /\ Frame /\ Ticks
    BY DEF TrapKept, TrapTypes
  <1>1. UNCHANGED <<mapped, user, saved, interruptVector, uart, last, console>>
    BY DEF Claim, Complete, clkhandler
  <1>2. CASE Claim
    <2>1. TrapTypes'
      BY <1>0, <1>1, <1>2 DEF Claim, TrapTypes, TrapTypeOK, user, saved, uart, last, console, clock
    <2>2. Frame'
      BY <1>0, <1>1, <1>2 DEF Claim, Frame, TrapHeld, saved, last
    <2>3. Ticks'
      BY <1>0, <1>2 DEF Claim, Ticks, ToCome, One, clock
    <2> QED
      BY <2>1, <2>2, <2>3 DEF TrapKept
  <1>3. CASE Complete
    <2>1. TrapTypes'
      BY <1>0, <1>1, <1>3 DEF Complete, TrapTypes, TrapTypeOK, user, saved, uart, last, console,
                              clock
    <2>2. Frame'
      BY <1>0, <1>1, <1>3 DEF Complete, Frame, TrapHeld, saved, last
    <2>3. Ticks'
      BY <1>0, <1>3 DEF Complete, Ticks, ToCome, One, clock, TrapTypeOK
    <2> QED
      BY <2>1, <2>2, <2>3 DEF TrapKept
  <1>4. CASE clkhandler
    <2>1. /\ clkticks' = clkticks + 1 /\ irq_sta' = FALSE /\ at = "handler" /\ at' = "return"
          /\ UNCHANGED <<irq, ip, inservice, raised>>
      BY <1>4 DEF clkhandler
    <2>2. TrapTypes'
      <3>1. clkticks' \in Nat
        BY <1>0, <2>1 DEF TrapTypeOK
      <3>2. irq_sta' \in BOOLEAN
        BY <2>1, Zenon
      <3> QED
        BY <1>0, <1>1, <2>1, <3>1, <3>2 DEF TrapTypes, TrapTypeOK, user, saved, uart, last, console
    <2>3. Frame'
      <3>1. cause = "claim" /\ swaparea = Save(before.regs) /\ sepc = before.pc
        BY <1>0, <2>1 DEF Frame, TrapHeld
      <3>2. swaparea = Result(before.regs)
        <4>1. before.regs \in [Reg -> Word]
          BY <1>0 DEF TrapTypes
        <4> QED
          BY <3>1, <4>1 DEF Result, Save
      <3>3. sepc = NextPc
        BY <1>0, <3>1 DEF TrapTypes, NextPc, PcRange
      <3> QED
        BY <1>1, <2>1, <3>1, <3>2, <3>3 DEF Frame, Result, NextPc, saved, last
    <2>4. Ticks'
      BY <1>0, <2>1 DEF Ticks, ToCome, One, TrapTypeOK
    <2> QED
      BY <2>2, <2>3, <2>4 DEF TrapKept
  <1> QED
    BY <1>2, <1>3, <1>4

(* The way back, and the steps that only say where the processor goes.     *)
LEMMA OtherKeeps == ASSUME TrapKept, FirstRun \/ Return \/ UserFault PROVE TrapKept'
PROOF
  <1>0. TrapTypeOK /\ TrapTypes /\ Frame /\ Ticks
    BY DEF TrapKept, TrapTypes
  <1>1. UNCHANGED <<mapped, saved, plic, uart, clock, console>>
    BY DEF FirstRun, Return, UserFault
  <1>2. Ticks'
    BY <1>0, <1>1 DEF FirstRun, Return, UserFault, Ticks, ToCome, One, plic, clock
  <1>3. TrapTypes'
    BY <1>0, <1>1 DEF FirstRun, Return, UserFault, TrapTypes, TrapTypeOK, user, saved, plic, uart,
                      last, clock, console
  <1>4. Frame'
    <2>1. CASE Return
      BY <1>0, <1>1, <2>1 DEF Return, Frame, Result, NextPc, Promised, last, console
    <2>2. CASE UserFault
      BY <2>2 DEF UserFault, Frame
    <2>3. CASE FirstRun
      <3>1. at = "ctxsw" => cause = "none"
        BY <1>0 DEF TrapTypes
      <3> QED
        BY <2>3, <3>1 DEF FirstRun, Frame, last
    <2> QED
      BY <2>1, <2>2, <2>3
  <1> QED
    BY <1>2, <1>3, <1>4 DEF TrapKept

(* Every step keeps the invariant. *)
LEMMA TrapKeptStep == ASSUME TrapKept, [TrapNext]_trapVars PROVE TrapKept'
PROOF
  <1>1. CASE UNCHANGED trapVars
    BY <1>1 DEF trapVars, TrapKept, TrapTypes, TrapTypeOK, Frame, TrapHeld, Result, Promised,
                NextPc, Ticks, ToCome, One
  <1>2. CASE Ecall
    <2>1. PICK v \in [Reg \ {"a7"} -> Val], code \in Codes :
            Trap([r \in Reg |-> IF r = "a7" THEN code ELSE v[r]], "ecall")
      BY <1>2 DEF Ecall
    <2> DEFINE new == [r \in Reg |-> IF r = "a7" THEN code ELSE v[r]]
    <2>2. new \in [Reg -> Word] /\ new["a7"] = code
      BY DEF Word, Reg
    <2> HIDE DEF new
    <2> QED
      BY <2>1, <2>2, TrapKeeps DEF new
  <1>3. CASE Interrupt
    <2>1. PICK r \in [Reg -> Val] : ip /\ Trap(r, "claim")
      BY <1>3 DEF Interrupt
    <2>2. r \in [Reg -> Word]
      BY DEF Word
    <2> QED
      BY <2>1, <2>2, TrapKeeps
  <1> QED
    BY <1>1, <1>2, <1>3, DeviceKeeps, CallKeeps, InterruptKeeps, OtherKeeps DEF TrapNext, Kernel

(* It holds from the first process on.                                     *)
LEMMA TrapInvariant == TrapSpec => []TrapKept
PROOF
  BY TrapKeptInit, TrapKeptStep, PTL DEF TrapSpec

------------------------------------------------------------------------------
(* Every variable keeps its type. *)
THEOREM TrapTypesKept == TrapSpec => []TrapTypeOK
PROOF
  BY TrapInvariant, PTL DEF TrapKept, TrapTypes

(* Whatever trap interrupted it, a process finds its registers as they      *)
(* were, but for the answer of a call and t0.                               *)
THEOREM RegistersKept == TrapSpec => []RegistersSurvive
PROOF
  <1>1. TrapKept => RegistersSurvive
    BY DEF TrapKept, Frame, Result, RegistersSurvive
  <1> QED
    BY <1>1, TrapInvariant, PTL

(* A process goes on after its call and at the instruction a tick stopped.  *)
THEOREM CallsMadeOnce == TrapSpec => []CallsOnce
PROOF
  <1>1. TrapKept => CallsOnce
    BY DEF TrapKept, Frame, NextPc, CallsOnce
  <1> QED
    BY <1>1, TrapInvariant, PTL

(* For each rise of the timer's line the handler runs once or twice.        *)
THEOREM TicksAreCounted == TrapSpec => []TicksCounted
PROOF
  <1>1. TrapKept => TicksCounted
    BY SMTT(30) DEF TrapKept, TrapTypes, TrapTypeOK, Ticks, ToCome, One, TicksCounted
  <1> QED
    BY <1>1, TrapInvariant, PTL
===============================================================================
