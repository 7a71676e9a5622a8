---------------------------- MODULE Accounts_proof ----------------------------
(***************************************************************************)
(* Whatever the commands at prompts and in calls of the disk do to each    *)
(* other, for any number of commands, entries and passwords: nobody is     *)
(* logged in without an account, a first password is set once unless two   *)
(* commands found the entry free, and a save that has the file to itself   *)
(* leaves the table there.                                                 *)
(***************************************************************************)
EXTENDS Accounts, FiniteSetTheorems, TLAPS

Copying == {"store", "grow", "lengthen", "step", "mark"}
UserPlaces == {"buffer", "call", "fileRead", "fileReadOld", "opened", "zero", "seek", "rewind", "put",
               "close", "fileWrite", "fileClear", "fileShut"} \cup Copying
Places == {"idle", "claim", "first", "password", "granted", "name", "previous", "compare", "new",
           "make", "save", "fileCreate", "dir", "return", "written"} \cup UserPlaces
Hash    == (Pass \cup {NoPass}) \X {0, SALT}
Process == [at : Places, id : Uid \cup {SYSERR}, cmd : {"none", "login", "chpass", "makeuser"},
            i : 0 .. MAXUSERS, c : Entry]

Types ==
    /\ usertab \in Table /\ userid \in Uid \cup {SYSERR}
    /\ passwd \in [state : SUBSET {"USED", "OPEN", "DIRTY"}, length : Nat,
                   cursor : Nat, bytes : Bytes]
    /\ disk \in [named : BOOLEAN, length : Nat, bytes : Bytes]
    /\ proc \in [Procs -> Process]
    /\ \A p \in Procs : proc[p].at \in Copying => proc[p].i < MAXUSERS
    /\ behind \in BOOLEAN /\ saved \in BOOLEAN /\ torn \in BOOLEAN /\ raced \in BOOLEAN
    /\ commands \in 0 .. MaxCommands

(* Entry 0 is the only one with a name; while it is free it has no hash.    *)
OneSuperuser ==
    /\ userid \in {SUPERUID, SYSERR}
    /\ \A i \in Uid : usertab[i].username = "superusr" => i = SUPERUID
    /\ usertab[SUPERUID].state = USERFREE => usertab[SUPERUID].passhash = NoUser.passhash

(* What a command knows of the table while it waits. *)
Waits(p) ==
    /\ proc[p].at = "first" => usertab[SUPERUID].state = USERUSED
    /\ ~raced /\ proc[p].at = "claim" => usertab[SUPERUID].state = USERFREE
    /\ ~raced /\ proc[p].at = "first" => usertab[SUPERUID].passhash = NoUser.passhash
    /\ ~raced /\ proc[p].at \in {"claim", "first"} =>
        \A q \in Procs : proc[q].at \in {"claim", "first"} => q = p
    /\ proc[p].at \in {"password", "granted"} =>
        proc[p].id = SUPERUID /\ usertab[SUPERUID].state = USERUSED
    /\ proc[p].at \in {"name", "previous", "compare", "new"} => proc[p].id = SUPERUID
    /\ proc[p].at = "make" => proc[p].id \in Uid \ {SUPERUID}
    /\ proc[p].at \in {"granted", "name", "previous", "compare", "new", "make", "save",
                       "fileCreate"} \cup UserPlaces => HasPassword(usertab[SUPERUID])

Known == OneSuperuser /\ LoggedInExists /\ \A p \in Procs : Waits(p)

(* Somebody will open the file and copy the table to it. *)
Pending == \E p \in Procs : proc[p].at \in {"first", "save", "fileCreate"}
Writing == \E p \in Procs : /\ proc[p].at \in UserPlaces
                            /\ p \in mixed \/ proc[p].at \notin {"fileClear", "fileShut"}

(* The first n entries of the buffer are those of the table. *)
Copied(n) ==
    /\ Pending \/ \A i \in 0 .. n - 1 : passwd.bytes[i] = usertab[i]
    /\ n > 0 => HasPassword(passwd.bytes[SUPERUID])

(* How far a command is that has the file to itself. *)
Lone(p) ==
    /\ proc[p].at # "fileReadOld"
    /\ proc[p].at = "seek" => passwd.cursor = 0
    /\ proc[p].at = "rewind" => proc[p].i = 0
    /\ proc[p].at \in {"put"} \cup (Copying \ {"mark"}) =>
        passwd.cursor = proc[p].i /\ proc[p].i <= passwd.length
    /\ proc[p].at \in {"put"} \cup Copying => (proc[p].i > 0 => "DIRTY" \in passwd.state)
    /\ proc[p].at \in {"put", "store"} => Copied(proc[p].i)
    /\ proc[p].at \in Copying \ {"store"} => Copied(proc[p].i + 1)
    /\ proc[p].at = "store" =>
        /\ Pending \/ proc[p].c = usertab[proc[p].i]
        /\ proc[p].i = 0 => HasPassword(proc[p].c)
    /\ proc[p].at = "step" => proc[p].i < passwd.length
    /\ proc[p].at = "mark" => passwd.cursor = proc[p].i + 1 /\ proc[p].i < passwd.length
    /\ proc[p].at \in {"close", "fileWrite"} => Copied(MAXUSERS)
    /\ proc[p].at = "close" => "DIRTY" \in passwd.state

(* A command that has not shared the file is the only one to use it.        *)
Alone(p) == Lone(p) /\ \A q \in Procs : proc[q].at \in UserPlaces => q = p

Sharing ==
    /\ \A p \in mixed : p \in Procs /\ proc[p].at \in UserPlaces
    /\ \A p \in Procs : proc[p].at \in UserPlaces =>
                          "USED" \in passwd.state /\ (p \in mixed \/ Alone(p))
    /\ "USED" \notin passwd.state => passwd.state = {}

OnDisk ==
    /\ Pending \/ Writing \/ behind \/ torn \/ \A i \in Uid : disk.bytes[i] = usertab[i]
    /\ saved /\ ~torn => HasPassword(disk.bytes[SUPERUID])

Kept == Types /\ Known /\ Sharing /\ OnDisk

------------------------------------------------------------------------------
(* Every hash of a typed password differs from that of an entry never set. *)
LEMMA HashesDiffer ==
    /\ NoUser.passhash \in Hash /\ NoUser \in Entry /\ Entry = [state : {USERFREE, USERUSED},
         username : Username, passhash : Hash, salt : {0, SALT}]
    /\ \A pass \in Pass, salt \in {0, SALT} :
          xinuhash(pass, salt) \in Hash /\ xinuhash(pass, salt) # NoUser.passhash
PROOF
  BY AccountSizes DEF Hash, NoUser, xinuhash, Username, USERFREE, USERUSED, Entry

(* Entries are numbers from 0, and the superuser's is one.                  *)
LEMMA Entries ==
    /\ Uid \subseteq Nat /\ SUPERUID \in Uid /\ SYSERR \notin Uid /\ USERFREE # USERUSED
    /\ Uid \subseteq 0 .. DISKBLOCKLEN - 1 /\ SUPERUID = 0
    /\ MAXUSERS \in Nat \ {0} /\ DISKBLOCKLEN \in Nat /\ MAXUSERS <= DISKBLOCKLEN
PROOF
  BY AccountSizes DEF Uid, SUPERUID, SYSERR, USERFREE, USERUSED

LEMMA Fresh == Cleared \in Table /\ Leftover \in Bytes
PROOF
  <1>1. [NoUser EXCEPT !.salt = SALT] \in Entry
    BY HashesDiffer DEF NoUser, SALT
  <1> QED
    BY <1>1, HashesDiffer DEF Cleared, Table, Leftover, Bytes

LEMMA AskIs ==
    ASSUME NEW at \in Places, NEW id \in Uid \cup {SYSERR},
           NEW cmd \in {"none", "login", "chpass", "makeuser"}
    PROVE  /\ Asks(cmd, at, id) \in Process
           /\ Asks(cmd, at, id).at = at /\ Asks(cmd, at, id).id = id
PROOF
  BY HashesDiffer, Entries DEF Asks, Process

LEMMA IdleIs == Idle \in Process /\ Idle.at = "idle"
PROOF
  BY HashesDiffer, Entries DEF Idle, Asks, Process, Places

(* An entry that gets a password keeps the rest, and the others stay.       *)
LEMMA EntrySet ==
    ASSUME Types, NEW id \in Uid, NEW entry \in Entry, usertab' = [usertab EXCEPT ![id] = entry]
    PROVE  usertab' \in Table /\ usertab'[id] = entry /\ \A i \in Uid \ {id} : usertab'[i] = usertab[i]
PROOF
  BY DEF Types, Table

(* The only name there is to find is that of entry 0. *)
LEMMA SearchFinds ==
    ASSUME Types, OneSuperuser
    PROVE  /\ searchname("superusr") \in {SUPERUID, SYSERR}
           /\ searchname("superusr") = SUPERUID => usertab[SUPERUID].state = USERUSED
PROOF
  <1> DEFINE found == {i \in Uid : usertab[i].state = USERUSED
                                   /\ usertab[i].username = "superusr"}
  <1>1. CASE found = {}
    BY <1>1, Entries DEF searchname, SUPERUID, SYSERR
  <1>2. CASE found # {}
    <2>1. found = {SUPERUID} /\ usertab[SUPERUID].state = USERUSED
      BY <1>2 DEF OneSuperuser
    <2>2. Min({SUPERUID}) = SUPERUID
      BY DEF Min, SUPERUID
    <2> QED
      BY <2>1, <2>2 DEF searchname
  <1> QED
    BY <1>1, <1>2

(* The least of a set of natural numbers is one of them.                   *)
LEMMA LeastNatural ==
    ASSUME NEW S, S \subseteq Nat, S # {}
    PROVE  Min(S) \in S
PROOF
  <1> DEFINE T == {0 .. x : x \in S}
             R == StrictSubsetOrdering(Nat)
  <1>1. T \subseteq FiniteSubsetsOf(Nat) /\ T # {}
    <2>1. ASSUME NEW x \in S PROVE IsFiniteSet(0 .. x) /\ 0 .. x \subseteq Nat
      BY FS_Interval
    <2> QED
      BY <2>1 DEF FiniteSubsetsOf
  <1>2. IsWellFoundedOn(R, FiniteSubsetsOf(Nat))
    BY FS_StrictSubsetOrderingWellFounded
  <1> HIDE DEF R
  <1>3. PICK t \in T : \A u \in T : ~ (<<u, t>> \in R)
    BY <1>1, <1>2, WFMin
  <1>4. PICK x \in S : t = 0 .. x
    BY <1>3
  <1>5. ASSUME NEW y \in S, y < x PROVE FALSE
    <2>1. 0 .. y \in T /\ x \in Nat /\ y \in Nat
      OBVIOUS
    <2>2. /\ 0 .. y \subseteq 0 .. x /\ x \in 0 .. x /\ x \notin 0 .. y
          /\ 0 .. y \in SUBSET Nat /\ 0 .. x \in SUBSET Nat
      BY <2>1, <1>5
    <2>3. <<0 .. y, 0 .. x>> \in R
      BY <2>2 DEF R, StrictSubsetOrdering
    <2> QED
      BY <1>3, <1>4, <2>1, <2>3
  <1>6. \A y \in S : x =< y
    BY <1>5
  <1> QED
    BY <1>6 DEF Min

------------------------------------------------------------------------------
LEMMA KeptInit == ASSUME Init PROVE Kept
PROOF
  <1>1. \A p \in Procs : proc[p] = Idle
    BY DEF Init
  <1>2. Types
    <2>1. /\ passwd \in [state : SUBSET {"USED", "OPEN", "DIRTY"}, length : Nat,
                         cursor : Nat, bytes : Bytes]
          /\ disk \in [named : BOOLEAN, length : Nat, bytes : Bytes]
      BY Fresh, Entries DEF Init
    <2>2. usertab \in Table /\ userid \in Uid \cup {SYSERR} /\ commands \in 0 .. MaxCommands
      BY Fresh, AccountSizes DEF Init
    <2>3. proc \in [Procs -> Process]
      BY IdleIs DEF Init
    <2>4. behind \in BOOLEAN /\ saved \in BOOLEAN /\ torn \in BOOLEAN /\ raced \in BOOLEAN
      BY Zenon DEF Init
    <2> QED
      BY <1>1, <2>1, <2>2, <2>3, <2>4, IdleIs DEF Types, Copying
  <1>3. Known
    <2>1. \A i \in Uid : usertab[i] = NoUser
      BY DEF Init, Cleared
    <2>2. NoUser.username # "superusr"
      BY DEF NoUser
    <2>3. OneSuperuser
      BY <2>1, <2>2, Entries DEF Init, OneSuperuser
    <2>4. LoggedInExists
      BY DEF Init, LoggedInExists, SYSERR, SUPERUID
    <2>5. \A p \in Procs : Waits(p)
      BY <1>1, IdleIs DEF Waits, UserPlaces, Copying
    <2> QED
      BY <2>3, <2>4, <2>5 DEF Known
  <1>4. Sharing /\ OnDisk
    BY <1>1, IdleIs DEF Init, Sharing, OnDisk, UserPlaces, Copying
  <1> QED
    BY <1>2, <1>3, <1>4 DEF Kept

(* What a step of one command leaves of the others.                        *)
LEMMA Others ==
    ASSUME Types, NEW p \in Procs, NEW r \in Process, proc' = [proc EXCEPT ![p] = r],
           r.at \in Copying => r.i < MAXUSERS
    PROVE  /\ proc' \in [Procs -> Process] /\ proc'[p] = r
           /\ \A q \in Procs : q # p => proc'[q] = proc[q]
           /\ \A q \in Procs : proc'[q].at \in Copying => proc'[q].i < MAXUSERS
PROOF
  BY DEF Types

(* A step at a prompt, that leaves table and file as they are.             *)
LEMMA PromptKeeps ==
    ASSUME Kept, NEW p \in Procs, NEW r \in Process, proc' = [proc EXCEPT ![p] = r],
           proc[p].at \notin {"first", "save", "fileCreate"} \cup UserPlaces,
           r.at \notin {"first", "save", "fileCreate"} \cup UserPlaces,
           UNCHANGED <<usertab, file, told>>, raced' \in BOOLEAN, commands' \in 0 .. MaxCommands,
           userid' \in {SUPERUID, SYSERR}, LoggedInExists', \A q \in Procs : Waits(q)'
    PROVE  Kept'
PROOF
  <1>0. Types /\ Known /\ Sharing /\ OnDisk
    BY DEF Kept
  <1>1. /\ proc' \in [Procs -> Process] /\ proc'[p] = r
        /\ \A q \in Procs : q # p => proc'[q] = proc[q]
        /\ \A q \in Procs : proc'[q].at \in Copying => proc'[q].i < MAXUSERS
    BY <1>0, Others DEF UserPlaces, Copying
  <1>2. Types'
    BY <1>0, <1>1, Entries DEF Types, file, told
  <1>3. Known'
    BY <1>0 DEF Known, OneSuperuser
  <1>4. /\ \A q \in Procs : proc'[q].at \in UserPlaces <=> proc[q].at \in UserPlaces
        /\ \A q \in Procs : proc[q].at \in UserPlaces => proc'[q] = proc[q]
        /\ Pending' <=> Pending
    BY <1>1 DEF Pending
  <1>41. Writing' <=> Writing
    BY <1>0, <1>1, <1>4 DEF Writing, told
  <1>5. \A q \in Procs : proc[q].at \in UserPlaces => (Lone(q)' <=> Lone(q))
    BY <1>4 DEF Lone, Copied, file
  <1>6. Sharing'
    BY <1>0, <1>4, <1>5 DEF Sharing, Alone, file, told
  <1>7. OnDisk'
    BY <1>0, <1>4, <1>41 DEF OnDisk, file, told
  <1> QED
    BY <1>2, <1>3, <1>6, <1>7 DEF Kept

(* A step that changes the table, after which the file will be saved.      *)
LEMMA TableKeeps ==
    ASSUME Kept, NEW p \in Procs, NEW r \in Process, proc' = [proc EXCEPT ![p] = r],
           proc[p].at \notin UserPlaces, r.at \in {"first", "save"},
           UNCHANGED <<file, told, raced, commands, userid>>, usertab' \in Table,
           Known'
    PROVE  Kept'
PROOF
  <1>0. Types /\ Known /\ Sharing /\ OnDisk
    BY DEF Kept
  <1>1. /\ proc' \in [Procs -> Process] /\ proc'[p] = r
        /\ \A q \in Procs : q # p => proc'[q] = proc[q]
        /\ \A q \in Procs : proc'[q].at \in Copying => proc'[q].i < MAXUSERS
    BY <1>0, Others DEF Copying
  <1>2. Types'
    BY <1>0, <1>1 DEF Types, file, told
  <1>3. /\ \A q \in Procs : proc'[q].at \in UserPlaces <=> proc[q].at \in UserPlaces
        /\ \A q \in Procs : proc[q].at \in UserPlaces => proc'[q] = proc[q]
    BY <1>1 DEF UserPlaces, Copying
  <1>4. Pending'
    BY <1>1 DEF Pending
  <1>5. \A q \in Procs : proc[q].at \in UserPlaces /\ Lone(q) => Lone(q)'
    BY <1>3, <1>4 DEF Lone, Copied, file
  <1>6. Sharing'
    BY <1>0, <1>3, <1>5 DEF Sharing, Alone, file, told
  <1>7. OnDisk'
    BY <1>0, <1>4 DEF OnDisk, file, told
  <1> QED
    BY <1>2, <1>6, <1>7 DEF Kept

(* A step that leaves the table alone, and what the command now knows.     *)
LEMMA WaitsKept ==
    ASSUME Types, \A q \in Procs : Waits(q), NEW p \in Procs, NEW r \in Process, proc'[p] = r,
           \A q \in Procs \ {p} : \/ proc'[q] = proc[q]
                                  \/ proc[q].at \in UserPlaces /\ proc'[q].at \in UserPlaces,
           usertab' = usertab, raced => raced',
           r.at # "first",
           ~raced' /\ r.at = "claim" =>
               /\ usertab[SUPERUID].state = USERFREE
               /\ \A q \in Procs \ {p} : proc[q].at \notin {"claim", "first"},
           r.at \in {"password", "granted"} => r.id = SUPERUID /\ usertab[SUPERUID].state = USERUSED,
           r.at \in {"name", "previous", "compare", "new"} => r.id = SUPERUID,
           r.at = "make" => r.id \in Uid \ {SUPERUID},
           r.at \in {"granted", "name", "previous", "compare", "new", "make", "save",
                     "fileCreate"} \cup UserPlaces => HasPassword(usertab[SUPERUID])
    PROVE  \A q \in Procs : Waits(q)'
PROOF
  <1>1. \A q \in Procs \ {p} : proc'[q].at \in {"claim", "first"} => proc[q].at \in {"claim", "first"}
    BY DEF UserPlaces, Copying
  <1>2. Waits(p)'
    <2>1. ~raced' /\ r.at \in {"claim", "first"} => \A q \in Procs : proc'[q].at \in {"claim", "first"} => q = p
      BY <1>1
    <2> QED
      BY <2>1 DEF Waits
  <1>3. ASSUME NEW q \in Procs \ {p} PROVE Waits(q)'
    <2>1. CASE proc'[q] = proc[q]
      <3>1. ~raced' /\ proc[q].at \in {"claim", "first"} => r.at \notin {"claim", "first"}
        OBVIOUS
      <3>2. ~raced' /\ proc'[q].at \in {"claim", "first"} =>
              \A t \in Procs : proc'[t].at \in {"claim", "first"} => t = q
        BY <1>1, <2>1, <3>1 DEF Waits
      <3> QED
        BY <2>1, <3>2 DEF Waits
    <2>2. CASE proc[q].at \in UserPlaces /\ proc'[q].at \in UserPlaces
      BY <2>2 DEF Waits, UserPlaces, Copying
    <2> QED
      BY <2>1, <2>2
  <1> QED
    BY <1>2, <1>3

(* A command begins.                                                       *)
LEMMA CommandKeeps == ASSUME Kept, NEW p \in Procs, Command(p) PROVE Kept'
PROOF
  <1> USE DEF At, Goto, End, Ask, Begin
  <1>0. Types /\ Known /\ OneSuperuser /\ LoggedInExists /\ \A q \in Procs : Waits(q)
    BY DEF Kept, Known
  <1>1. /\ proc[p].at = "idle" /\ proc[p] \in Process /\ commands' \in 0 .. MaxCommands
        /\ UNCHANGED <<usertab, file, told>>
    BY <1>0, AccountSizes DEF Command, FirstLogin, Login, switchuser, logout, chpass, makeuser,
       Types, table
  <1>2. /\ searchname("superusr") \in {SUPERUID, SYSERR} /\ SUPERUID = 0 /\ SYSERR = -1
        /\ searchname("superusr") = SUPERUID => usertab[SUPERUID].state = USERUSED
        /\ userid \in {SUPERUID, SYSERR} /\ SUPERUID \in Uid
    BY <1>0, SearchFinds, Entries DEF SYSERR, OneSuperuser
  <1>3. proc[p].at \notin {"first", "save", "fileCreate"} \cup UserPlaces
    BY <1>1 DEF UserPlaces, Copying
  <1>4. ASSUME NEW at \in {"claim", "password", "name", "make"}, NEW id \in Uid \cup {SYSERR},
               NEW cmd \in {"none", "login", "chpass", "makeuser"}, Ask(p, cmd, at, id),
               UNCHANGED userid, raced' \in BOOLEAN, raced => raced',
               ~raced' /\ at = "claim" =>
                   /\ usertab[SUPERUID].state = USERFREE
                   /\ \A q \in Procs \ {p} : proc[q].at \notin {"claim", "first"},
               at = "password" => id = SUPERUID /\ usertab[SUPERUID].state = USERUSED,
               at = "name" => id = SUPERUID,
               at = "make" => id \in Uid \ {SUPERUID},
               at \in {"name", "make"} => HasPassword(usertab[SUPERUID])
        PROVE  Kept'
    <2>1. PICK r : r = Asks(cmd, at, id)
      OBVIOUS
    <2>2. at \in Places /\ at \notin {"first", "save", "fileCreate"} \cup UserPlaces
      BY DEF Places, UserPlaces, Copying
    <2>3. r \in Process /\ r.at = at /\ r.id = id
      BY <2>1, <2>2, AskIs
    <2>4. proc' = [proc EXCEPT ![p] = r]
      BY <1>4, <2>1
    <2>5. proc'[p] = r /\ \A q \in Procs \ {p} : proc'[q] = proc[q]
      BY <1>0, <2>3, <2>4 DEF Types
    <2>6. \A q \in Procs : Waits(q)'
      <3>1. r.at # "first" /\ r.at \notin UserPlaces
        BY <2>2, <2>3
      <3> QED
        BY <1>0, <1>1, <1>4, <2>3, <2>5, <3>1, WaitsKept
    <2>7. LoggedInExists' /\ userid' \in {SUPERUID, SYSERR}
      BY <1>0, <1>1, <1>2, <1>4 DEF LoggedInExists
    <2> QED
      BY <1>1, <1>3, <1>4, <2>2, <2>3, <2>4, <2>6, <2>7, PromptKeeps
  <1>5. CASE FirstLogin(p)
    <2>1. /\ usertab[SUPERUID].state = USERFREE /\ Ask(p, "login", "claim", SUPERUID)
          /\ raced' = (raced \/ \E q \in Procs : proc[q].at = "claim") /\ UNCHANGED userid
      BY <1>5 DEF FirstLogin, table
    <2>2. raced' \in BOOLEAN /\ (raced => raced')
      BY <1>0, <2>1, Zenon DEF Types
    <2>3. \A q \in Procs : proc[q].at # "first"
      BY <1>0, <2>1, Entries DEF Waits
    <2>4. ~raced' => \A q \in Procs : proc[q].at # "claim"
      BY <2>1
    <2>5. \A q \in Procs : ~raced' => proc[q].at \notin {"claim", "first"}
      BY <2>3, <2>4
    <2> QED
      BY <1>2, <1>4, <2>1, <2>2, <2>5
  <1>6. CASE Login(p) \/ switchuser(p)
    <2>1. /\ searchname("superusr") >= SUPERUID /\ UNCHANGED <<userid, raced>>
          /\ Ask(p, "login", "password", searchname("superusr"))
      BY <1>6 DEF Login, switchuser, table
    <2>2. searchname("superusr") = SUPERUID
      BY <1>2, <2>1
    <2>3. Ask(p, "login", "password", SUPERUID)
      BY <2>1, <2>2
    <2> QED
      BY <1>0, <1>2, <1>4, <2>1, <2>2, <2>3 DEF Types
  <1>7. CASE logout(p)
    <2>1. userid' = SYSERR /\ UNCHANGED <<proc, raced>>
      BY <1>7 DEF logout
    <2>2. proc' = [proc EXCEPT ![p] = proc[p]]
      BY <1>0, <2>1 DEF Types
    <2>3. LoggedInExists'
      BY <1>2, <2>1 DEF LoggedInExists
    <2>4. \A q \in Procs : Waits(q)'
      BY <1>0, <1>1, <2>1 DEF Waits
    <2>5. raced' \in BOOLEAN
      BY <1>0, <2>1 DEF Types
    <2> QED
      BY <1>1, <1>2, <1>3, <2>1, <2>2, <2>3, <2>4, <2>5, PromptKeeps
  <1>8. CASE chpass(p)
    <2>1. userid # SYSERR /\ Ask(p, "chpass", "name", 0) /\ UNCHANGED <<userid, raced>>
      BY <1>8 DEF chpass, table
    <2>2. HasPassword(usertab[SUPERUID])
      BY <1>0, <1>2, <2>1 DEF LoggedInExists
    <2> QED
      BY <1>0, <1>2, <1>4, <2>1, <2>2 DEF Types
  <1>9. CASE makeuser(p)
    <2>1. /\ userid = 0 /\ FreeEntries # {} /\ UNCHANGED <<userid, raced>>
          /\ Ask(p, "makeuser", "make", Min(FreeEntries))
      BY <1>9 DEF makeuser, table
    <2>2. HasPassword(usertab[SUPERUID])
      BY <1>0, <1>2, <2>1 DEF LoggedInExists
    <2>3. FreeEntries \subseteq Nat
      BY Entries DEF FreeEntries
    <2>4. Min(FreeEntries) \in FreeEntries
      BY <2>1, <2>3, LeastNatural
    <2>5. PICK id : id = Min(FreeEntries)
      OBVIOUS
    <2>6. id \in Uid \ {SUPERUID}
      BY <2>2, <2>4, <2>5, Entries DEF FreeEntries, HasPassword
    <2> QED
      BY <1>0, <1>4, <2>1, <2>2, <2>5, <2>6 DEF Types
  <1> QED
    BY <1>5, <1>6, <1>7, <1>8, <1>9 DEF Command

(* A command goes on at a prompt, or ends.                                 *)
LEMMA GoOnKeeps ==
    ASSUME Kept, NEW p \in Procs,
           \/ LoginGoesOn(p) \/ Granted(p) \/ Name(p) \/ Compare(p) \/ Return(p)
           \/ \E pass \in Pass : Password(p, pass) \/ Previous(p, pass)
    PROVE  Kept'
PROOF
  <1> USE DEF At, Goto, End, Ask
  <1>0. Types /\ Known /\ OneSuperuser /\ LoggedInExists /\ \A q \in Procs : Waits(q)
    BY DEF Kept, Known
  <1>1. /\ proc[p].at \in {"written", "granted", "name", "compare", "return", "password", "previous"}
        /\ proc[p] \in Process /\ commands' \in 0 .. MaxCommands /\ raced' = raced /\ raced' \in BOOLEAN
        /\ UNCHANGED <<usertab, file, told>>
    BY <1>0 DEF LoginGoesOn, Granted, Name, Compare, Return, Password, Previous, Types, table, rest
  <1>2. /\ searchname("superusr") \in {SUPERUID, SYSERR} /\ SUPERUID = 0 /\ SYSERR = -1
        /\ searchname("superusr") = SUPERUID => usertab[SUPERUID].state = USERUSED
        /\ userid \in {SUPERUID, SYSERR} /\ SUPERUID \in Uid
    BY <1>0, SearchFinds, Entries DEF SYSERR, OneSuperuser
  <1>3. proc[p].at \notin {"first", "save", "fileCreate"} \cup UserPlaces
    BY <1>1 DEF UserPlaces, Copying
  <1>4. ASSUME NEW r \in Process, proc' = [proc EXCEPT ![p] = r],
               r.at \in {"idle", "new", "password", "granted", "previous", "compare", "written"},
               userid' \in {SUPERUID, SYSERR}, LoggedInExists',
               r.at \in {"password", "granted"} =>
                   r.id = SUPERUID /\ usertab[SUPERUID].state = USERUSED,
               r.at \in {"previous", "compare", "new"} => r.id = SUPERUID,
               r.at \in {"granted", "previous", "compare", "new"} => HasPassword(usertab[SUPERUID])
        PROVE  Kept'
    <2>1. proc'[p] = r /\ \A q \in Procs \ {p} : proc'[q] = proc[q]
      BY <1>0, <1>4 DEF Types
    <2>2. r.at \notin UserPlaces
      BY <1>4 DEF UserPlaces, Copying
    <2>3. \A q \in Procs : Waits(q)'
      BY <1>0, <1>1, <1>4, <2>1, <2>2, WaitsKept
    <2> QED
      BY <1>1, <1>3, <1>4, <2>2, <2>3, PromptKeeps
  <1>5. UNCHANGED userid => userid' \in {SUPERUID, SYSERR} /\ LoggedInExists'
    BY <1>0, <1>1, <1>2 DEF LoggedInExists
  <1>6. ASSUME proc' = [proc EXCEPT ![p] = Idle], UNCHANGED userid PROVE Kept'
    BY <1>4, <1>5, <1>6, IdleIs
  <1>7. ASSUME NEW at \in {"granted", "previous", "compare", "new"},
               proc' = [proc EXCEPT ![p].at = at], UNCHANGED userid,
               proc[p].id = SUPERUID, HasPassword(usertab[SUPERUID])
        PROVE  Kept'
    <2>1. PICK r : r = [proc[p] EXCEPT !.at = at]
      OBVIOUS
    <2>2. r \in Process /\ r.at = at /\ r.id = SUPERUID
      BY <1>1, <1>7, <2>1 DEF Process, Places
    <2>3. proc' = [proc EXCEPT ![p] = r]
      BY <1>7, <2>1
    <2> QED
      BY <1>4, <1>5, <1>7, <2>2, <2>3 DEF HasPassword
  <1>8. ASSUME NEW at \in {"password", "written"}, NEW id \in Uid \cup {SYSERR},
               Ask(p, "login", at, id), UNCHANGED userid,
               at = "password" => id = SUPERUID /\ usertab[SUPERUID].state = USERUSED
        PROVE  Kept'
    <2>1. PICK r : r = Asks("login", at, id)
      OBVIOUS
    <2>2. r \in Process /\ r.at = at /\ r.id = id
      <3>1. at \in Places
        BY DEF Places
      <3> QED
        BY <2>1, <3>1, AskIs
    <2>3. proc' = [proc EXCEPT ![p] = r]
      BY <1>8, <2>1
    <2> QED
      BY <1>4, <1>5, <1>8, <2>2, <2>3
  <1>9. CASE LoginGoesOn(p)
    <2>1. UNCHANGED userid
      BY <1>9 DEF LoginGoesOn, table
    <2>2. CASE userid >= SUPERUID \/ searchname("superusr") < SUPERUID
      BY <1>6, <1>9, <2>1, <2>2 DEF LoginGoesOn
    <2>3. CASE ~(userid >= SUPERUID \/ searchname("superusr") < SUPERUID)
      <3>1. searchname("superusr") = SUPERUID
        BY <1>2, <2>3
      <3>2. Ask(p, "login", "password", SUPERUID)
        BY <1>9, <2>3, <3>1 DEF LoginGoesOn
      <3> QED
        BY <1>2, <1>8, <2>1, <3>1, <3>2
    <2> QED
      BY <2>2, <2>3
  <1>10. CASE Granted(p)
    <2>1. userid' = SUPERUID /\ HasPassword(usertab[SUPERUID]) /\ proc' = [proc EXCEPT ![p] = Idle]
      BY <1>0, <1>10 DEF Granted, Waits
    <2>2. LoggedInExists'
      BY <1>1, <2>1 DEF LoggedInExists
    <2> QED
      BY <1>4, <2>1, <2>2, IdleIs
  <1>11. CASE Name(p)
    <2>1. proc[p].id = SUPERUID /\ HasPassword(usertab[SUPERUID]) /\ UNCHANGED userid
      BY <1>0, <1>11 DEF Name, Waits, table
    <2>2. CASE searchname("superusr") = SYSERR
      BY <1>6, <1>11, <2>1, <2>2 DEF Name
    <2>3. CASE searchname("superusr") # SYSERR
      <3>1. PICK at \in {"previous", "compare"} : proc' = [proc EXCEPT ![p].at = at]
        BY <1>11, <2>3 DEF Name
      <3> QED
        BY <1>7, <2>1, <3>1
    <2> QED
      BY <2>2, <2>3
  <1>12. CASE Compare(p)
    <2>1. proc[p].id = SUPERUID /\ HasPassword(usertab[SUPERUID]) /\ UNCHANGED userid
      BY <1>0, <1>12 DEF Compare, Waits, table
    <2> QED
      BY <1>6, <1>7, <1>12, <2>1 DEF Compare
  <1>13. CASE Return(p)
    <2>1. UNCHANGED userid
      BY <1>13 DEF Return, table
    <2>2. CASE proc[p].cmd = "login"
      BY <1>8, <1>13, <2>1, <2>2 DEF Return
    <2>3. CASE proc[p].cmd # "login"
      BY <1>6, <1>13, <2>1, <2>3 DEF Return
    <2> QED
      BY <2>2, <2>3
  <1>14. ASSUME NEW pass \in Pass, Password(p, pass) PROVE Kept'
    <2>1. /\ proc[p].id = SUPERUID /\ usertab[SUPERUID].state = USERUSED /\ UNCHANGED userid
          /\ usertab[SUPERUID].salt \in {0, SALT}
      BY <1>0, <1>2, <1>14, HashesDiffer DEF Password, Waits, table, Types, Table
    <2>2. CASE xinuhash(pass, usertab[SUPERUID].salt) = usertab[SUPERUID].passhash
      <3>1. HasPassword(usertab[SUPERUID])
        BY <2>1, <2>2, HashesDiffer DEF HasPassword
      <3> QED
        BY <1>7, <1>14, <2>1, <2>2, <3>1 DEF Password
    <2>3. CASE xinuhash(pass, usertab[SUPERUID].salt) # usertab[SUPERUID].passhash
      BY <1>6, <1>14, <2>1, <2>3 DEF Password
    <2> QED
      BY <2>2, <2>3
  <1>15. ASSUME NEW pass \in Pass, Previous(p, pass) PROVE Kept'
    <2>1. proc[p].id = SUPERUID /\ HasPassword(usertab[SUPERUID]) /\ UNCHANGED userid
      BY <1>0, <1>15 DEF Previous, Waits, table
    <2>2. (proc' = [proc EXCEPT ![p].at = "new"]) \/ (proc' = [proc EXCEPT ![p] = Idle])
      BY <1>15 DEF Previous
    <2> QED
      BY <1>6, <1>7, <2>1, <2>2
  <1> QED
    BY <1>9, <1>10, <1>11, <1>12, <1>13, <1>14, <1>15

(* A command changes an entry: the superuser's, or a free one.             *)
LEMMA ChangeKeeps ==
    ASSUME Kept, NEW p \in Procs,
           \/ FirstClaim(p)
           \/ \E pass \in Pass : FirstPassword(p, pass) \/ New(p, pass) \/ Make(p, pass)
    PROVE  Kept'
PROOF
  <1> USE DEF At, Goto, Ask, Save
  <1>0. Types /\ Known /\ OneSuperuser /\ LoggedInExists /\ \A q \in Procs : Waits(q)
    BY DEF Kept, Known
  <1>1. /\ UNCHANGED <<userid, file, told, raced, commands>>
        /\ proc[p].at \in {"claim", "first", "new", "make"}
    BY DEF FirstClaim, FirstPassword, New, Make, rest
  <1>2. proc[p].at \notin UserPlaces /\ proc[p] \in Process
    BY <1>0, <1>1 DEF Copying, UserPlaces, Types
  <1>3. \A i \in Uid : usertab[i] \in Entry
    BY <1>0 DEF Types, Table
  <1>4. SYSERR = -1 /\ SUPERUID = 0 /\ SUPERUID \in Uid /\ userid \in {SUPERUID, SYSERR}
        /\ USERFREE # USERUSED
    BY <1>0, Entries DEF OneSuperuser, SYSERR
  <1>5. ASSUME NEW r \in Process, proc' = [proc EXCEPT ![p] = r], r.at \in {"first", "save"},
               NEW id \in Uid, NEW entry \in Entry, usertab' = [usertab EXCEPT ![id] = entry],
               entry.username = usertab[id].username \/ id = SUPERUID,
               id # SUPERUID => HasPassword(usertab[SUPERUID]),
               id = SUPERUID => entry.state = USERUSED,
               id = SUPERUID /\ HasPassword(usertab[SUPERUID]) => HasPassword(entry),
               r.at = "first" => proc[p].at = "claim" /\ id = SUPERUID
                                 /\ entry.passhash = usertab[SUPERUID].passhash,
               r.at = "save" => /\ id = SUPERUID => HasPassword(entry)
                                /\ ~raced /\ id = SUPERUID =>
                                     \A q \in Procs : proc[q].at \in {"claim", "first"} => q = p
        PROVE  Kept'
    <2>1. usertab' \in Table /\ usertab'[id] = entry /\ \A i \in Uid \ {id} : usertab'[i] = usertab[i]
      BY <1>0, <1>5, EntrySet
    <2>2. proc'[p] = r /\ \A q \in Procs \ {p} : proc'[q] = proc[q]
      BY <1>0, <1>5 DEF Types
    <2>3. HasPassword(usertab[SUPERUID]) => HasPassword(usertab'[SUPERUID])
      BY <1>4, <1>5, <2>1
    <2>4. OneSuperuser'
      <3>1. \A i \in Uid : usertab'[i].username = "superusr" => i = SUPERUID
        BY <1>0, <1>5, <2>1 DEF OneSuperuser
      <3>2. usertab'[SUPERUID].state = USERFREE => usertab'[SUPERUID].passhash = NoUser.passhash
        BY <1>0, <1>4, <1>5, <2>1 DEF OneSuperuser
      <3> QED
        BY <1>1, <1>4, <3>1, <3>2 DEF OneSuperuser
    <2>5. LoggedInExists'
      BY <1>0, <1>1, <1>4, <2>3 DEF LoggedInExists
    <2>6. usertab[SUPERUID].state = USERUSED => usertab'[SUPERUID].state = USERUSED
      BY <1>4, <1>5, <2>1
    <2>7. ~raced /\ (\E q \in Procs \ {p} : proc[q].at \in {"claim", "first"}) => id # SUPERUID
      <3>1. r.at = "first" => proc[p].at = "claim"
        BY <1>5
      <3> QED
        BY <1>0, <1>5, <3>1 DEF Waits
    <2>8. ASSUME NEW q \in Procs \ {p} PROVE Waits(q)'
      <3>1. ~raced /\ proc[q].at \in {"claim", "first"} =>
              /\ usertab'[SUPERUID] = usertab[SUPERUID]
              /\ r.at = "save"
        BY <1>4, <1>5, <2>1, <2>7
      <3>2. ~raced /\ proc[q].at \in {"claim", "first"} =>
              \A t \in Procs : proc'[t].at \in {"claim", "first"} => t = q
        BY <1>0, <2>2, <3>1 DEF Waits
      <3> QED
        BY <1>0, <1>1, <2>2, <2>3, <2>6, <3>1, <3>2 DEF Waits
    <2>9. Waits(p)'
      <3>1. CASE r.at = "first"
        <4>1. proc[p].at = "claim" /\ usertab'[SUPERUID] = entry /\ entry.state = USERUSED
              /\ entry.passhash = usertab[SUPERUID].passhash
          BY <1>5, <2>1, <3>1
        <4>2. ~raced => /\ usertab[SUPERUID].passhash = NoUser.passhash
                        /\ \A q \in Procs : proc[q].at \in {"claim", "first"} => q = p
          BY <1>0, <4>1 DEF Waits, OneSuperuser
        <4>3. ~raced => \A q \in Procs : proc'[q].at \in {"claim", "first"} => q = p
          BY <2>2, <4>2
        <4> QED
          BY <1>1, <2>2, <3>1, <4>1, <4>2, <4>3 DEF Waits, UserPlaces, Copying
      <3>2. CASE r.at = "save"
        <4>1. HasPassword(usertab'[SUPERUID])
          BY <1>4, <1>5, <2>1, <2>3, <3>2
        <4> QED
          BY <2>2, <3>2, <4>1 DEF Waits, UserPlaces, Copying
      <3> QED
        BY <1>5, <3>1, <3>2
    <2>10. Known'
      BY <2>4, <2>5, <2>8, <2>9 DEF Known
    <2> QED
      BY <1>1, <1>2, <1>5, <2>1, <2>10, TableKeeps
  <1>6. CASE FirstClaim(p)
    <2>1. PICK entry : entry = [usertab[SUPERUID] EXCEPT !.state = USERUSED, !.username = "superusr",
                                                         !.salt = SALT]
      OBVIOUS
    <2>2. /\ entry \in Entry /\ entry.state = USERUSED
          /\ entry.passhash = usertab[SUPERUID].passhash
      BY <1>3, <1>4, <2>1 DEF Entry, Username
    <2>3. usertab' = [usertab EXCEPT ![SUPERUID] = entry]
      <3>1. usertab' = [usertab EXCEPT ![SUPERUID].state = USERUSED,
                                       ![SUPERUID].username = "superusr", ![SUPERUID].salt = SALT]
        BY <1>6 DEF FirstClaim
      <3>2. usertab \in [Uid -> Entry] /\ SUPERUID \in Uid
        BY <1>0, <1>4 DEF Types, Table
      <3> QED
        BY <2>1, <3>1, <3>2 DEF Entry
    <2>4. PICK r : r = [proc[p] EXCEPT !.at = "first"]
      OBVIOUS
    <2>5. r \in Process /\ r.at = "first" /\ proc' = [proc EXCEPT ![p] = r] /\ proc[p].at = "claim"
      BY <1>2, <1>6, <2>4 DEF FirstClaim, Process, Places
    <2> QED
      BY <1>4, <1>5, <2>2, <2>3, <2>5 DEF HasPassword
  <1>7. ASSUME NEW id \in Uid, NEW salt \in {0, SALT}, NEW hash \in Hash,
               hash # NoUser.passhash, NEW cmd \in {"login", "chpass", "makeuser"},
               usertab' = [usertab EXCEPT ![id] =
                             [usertab[id] EXCEPT !.passhash = hash, !.salt = salt]],
               Save(p, cmd),
               id # SUPERUID => HasPassword(usertab[SUPERUID]),
               id = SUPERUID => usertab[id].state = USERUSED,
               ~raced /\ id = SUPERUID =>
                 \A q \in Procs : proc[q].at \in {"claim", "first"} => q = p
        PROVE  Kept'
    <2>1. PICK entry : entry = [usertab[id] EXCEPT !.passhash = hash, !.salt = salt]
      OBVIOUS
    <2>2. /\ entry \in Entry /\ entry.state = usertab[id].state
          /\ entry.username = usertab[id].username /\ entry.passhash = hash
      BY <1>3, <1>7, <2>1 DEF Entry, Hash
    <2>3. PICK r : r = Asks(cmd, "save", SYSERR)
      OBVIOUS
    <2>4. r \in Process /\ r.at = "save" /\ proc' = [proc EXCEPT ![p] = r]
      <3>1. "save" \in Places
        BY DEF Places
      <3> QED
        BY <1>7, <2>3, <3>1, AskIs
    <2>5. id = SUPERUID => HasPassword(entry)
      BY <1>7, <2>2 DEF HasPassword
    <2> QED
      BY <1>5, <1>7, <2>1, <2>2, <2>4, <2>5
  <1>8. ASSUME NEW pass \in Pass, FirstPassword(p, pass) PROVE Kept'
    <2>1. /\ proc[p].at = "first" /\ Save(p, "login")
          /\ usertab' = [usertab EXCEPT ![SUPERUID].passhash = xinuhash(pass, usertab[SUPERUID].salt)]
      BY <1>8 DEF FirstPassword
    <2>2. PICK salt : salt = usertab[SUPERUID].salt
      OBVIOUS
    <2>3. PICK hash : hash = xinuhash(pass, salt)
      OBVIOUS
    <2>4. salt \in {0, SALT} /\ hash \in Hash /\ hash # NoUser.passhash
      BY <1>3, <1>4, <2>2, <2>3, HashesDiffer
    <2>5. usertab' = [usertab EXCEPT ![SUPERUID] =
                        [usertab[SUPERUID] EXCEPT !.passhash = hash, !.salt = salt]]
      <3>1. [usertab[SUPERUID] EXCEPT !.passhash = hash, !.salt = salt] =
              [usertab[SUPERUID] EXCEPT !.passhash = hash]
        BY <1>3, <1>4, <2>2 DEF Entry
      <3> QED
        BY <2>1, <2>2, <2>3, <3>1
    <2>6. /\ usertab[SUPERUID].state = USERUSED
          /\ ~raced => \A q \in Procs : proc[q].at \in {"claim", "first"} => q = p
      BY <1>0, <2>1 DEF Waits
    <2> QED
      BY <1>4, <1>7, <2>1, <2>4, <2>5, <2>6
  <1>9. ASSUME NEW pass \in Pass, New(p, pass) PROVE Kept'
    <2>1. /\ proc[p].at = "new" /\ proc[p].id = SUPERUID /\ HasPassword(usertab[SUPERUID])
          /\ usertab' = [usertab EXCEPT ![SUPERUID].passhash = xinuhash(pass, SALT)]
          /\ Save(p, "chpass")
      BY <1>0, <1>9 DEF New, Waits
    <2>2. PICK hash : hash = xinuhash(pass, SALT)
      OBVIOUS
    <2>3. PICK salt : salt = usertab[SUPERUID].salt
      OBVIOUS
    <2>4. salt \in {0, SALT} /\ hash \in Hash /\ hash # NoUser.passhash
      BY <1>3, <1>4, <2>2, <2>3, HashesDiffer
    <2>5. usertab' = [usertab EXCEPT ![SUPERUID] =
                        [usertab[SUPERUID] EXCEPT !.passhash = hash, !.salt = salt]]
      <3>1. [usertab[SUPERUID] EXCEPT !.passhash = hash, !.salt = salt] =
              [usertab[SUPERUID] EXCEPT !.passhash = hash]
        BY <1>3, <1>4, <2>3 DEF Entry
      <3> QED
        BY <2>1, <2>2, <2>3, <3>1
    <2>6. usertab[SUPERUID].state = USERUSED /\ usertab[SUPERUID].passhash # NoUser.passhash
      BY <2>1 DEF HasPassword
    <2>7. ~raced => \A q \in Procs : proc[q].at \notin {"claim", "first"}
      BY <1>0, <1>4, <2>6 DEF Waits
    <2> QED
      BY <1>4, <1>7, <2>1, <2>4, <2>5, <2>6, <2>7
  <1>10. ASSUME NEW pass \in Pass, Make(p, pass) PROVE Kept'
    <2>1. PICK id : id = proc[p].id
      OBVIOUS
    <2>2. /\ id \in Uid \ {SUPERUID} /\ HasPassword(usertab[SUPERUID]) /\ Save(p, "makeuser")
          /\ usertab' = [usertab EXCEPT ![id].passhash = xinuhash(pass, SALT), ![id].salt = SALT]
      BY <1>0, <1>10, <2>1 DEF Make, Waits
    <2>3. PICK hash : hash = xinuhash(pass, SALT)
      OBVIOUS
    <2>4. SALT \in {0, SALT} /\ hash \in Hash /\ hash # NoUser.passhash
      BY <2>3, HashesDiffer
    <2>5. usertab' = [usertab EXCEPT ![id] = [usertab[id] EXCEPT !.passhash = hash, !.salt = SALT]]
      <3>1. usertab \in [Uid -> Entry]
        BY <1>0 DEF Types, Table
      <3> QED
        BY <2>2, <2>3, <3>1 DEF Entry
    <2> QED
      BY <1>7, <2>2, <2>4, <2>5
  <1> QED
    BY <1>6, <1>8, <1>9, <1>10


(* A step of a command that has the file open and keeps it.  Another that  *)
(* has it open has shared it, and nothing is known of that one.            *)
LEMMA UserKeeps ==
    ASSUME Kept, NEW p \in Procs, NEW r \in Process, proc' = [proc EXCEPT ![p] = r],
           proc[p].at \in UserPlaces, r.at \in UserPlaces,
           r.at \in Copying => r.i < MAXUSERS,
           UNCHANGED <<usertab, userid, mixed, raced, commands>>,
           passwd' \in [state : SUBSET {"USED", "OPEN", "DIRTY"}, length : Nat,
                        cursor : Nat, bytes : Bytes],
           disk' \in [named : BOOLEAN, length : Nat, bytes : Bytes],
           behind' \in BOOLEAN, saved' \in BOOLEAN, torn' \in BOOLEAN,
           "USED" \in passwd'.state, p \notin mixed => Lone(p)', OnDisk'
    PROVE  Kept'
PROOF
  <1>0. Types /\ Known /\ Sharing /\ \A q \in Procs : Waits(q)
    BY DEF Kept, Known
  <1>1. /\ proc' \in [Procs -> Process] /\ proc'[p] = r
        /\ \A q \in Procs : q # p => proc'[q] = proc[q]
        /\ \A q \in Procs : proc'[q].at \in Copying => proc'[q].i < MAXUSERS
    BY <1>0, Others DEF Copying
  <1>2. Types'
    BY <1>0, <1>1 DEF Types
  <1>3. Known'
    <2>1. HasPassword(usertab[SUPERUID])
      BY <1>0 DEF Waits
    <2>2. r.at \notin {"first", "claim", "password", "granted", "name", "previous", "compare",
                       "new", "make"}
      BY DEF UserPlaces, Copying
    <2>3. \A q \in Procs : Waits(q)'
      BY <1>0, <1>1, <2>1, <2>2, WaitsKept
    <2> QED
      BY <1>0, <2>3 DEF Known, OneSuperuser, LoggedInExists
  <1>4. \A q \in Procs : proc'[q].at \in UserPlaces <=> proc[q].at \in UserPlaces
    BY <1>1
  <1>5. \A q \in Procs : q # p /\ proc[q].at \in UserPlaces => q \in mixed /\ p \in mixed
    BY <1>0 DEF Sharing, Alone
  <1>6. Sharing'
    <2>1. \A q \in Procs : proc'[q].at \in UserPlaces => q \in mixed' \/ Alone(q)'
      <3>1. p \notin mixed => Alone(p)'
        BY <1>4, <1>5 DEF Alone
      <3> QED
        BY <1>4, <1>5, <3>1
    <2> QED
      BY <1>0, <1>1, <1>4, <2>1 DEF Sharing
  <1> QED
    BY <1>2, <1>3, <1>6 DEF Kept

(* A step of a save that has the file open and keeps it.                   *)
LEMMA CopyKeeps ==
    ASSUME Kept, NEW p \in Procs,
           \/ FileCall(p) \/ FileRead(p) \/ FileOpened(p) \/ FileZero(p) \/ FileSeek(p)
           \/ FileRewind(p) \/ Put(p) \/ Store(p) \/ Grow(p) \/ Lengthen(p) \/ Step(p) \/ Mark(p)
           \/ FileClose(p) \/ FileWrite(p) \/ FileClear(p)
    PROVE  Kept'
PROOF
  <1> USE DEF At, Goto
  <1>0. Types /\ Sharing /\ OnDisk /\ \A q \in Procs : Waits(q)
    BY DEF Kept, Known
  <1>1. /\ proc[p].at \in UserPlaces \ {"fileShut"}
        /\ UNCHANGED <<usertab, userid, mixed, raced, commands>>
    BY DEF FileCall, FileRead, FileOpened, FileZero, FileSeek, FileRewind, Put, Store, Grow,
       Lengthen, Step, Mark, FileClose, FileWrite, FileClear, UserPlaces, Copying, table, rest, told
  <1>2. /\ proc[p] \in Process /\ proc[p].i \in 0 .. MAXUSERS /\ proc[p].c \in Entry
        /\ proc[p].at \in Copying => proc[p].i < MAXUSERS
        /\ "USED" \in passwd.state /\ HasPassword(usertab[SUPERUID])
        /\ p \notin mixed => Lone(p)
    BY <1>0, <1>1 DEF Types, Process, Sharing, Alone, Waits
  <1>3. /\ passwd \in [state : SUBSET {"USED", "OPEN", "DIRTY"}, length : Nat,
                       cursor : Nat, bytes : Bytes]
        /\ disk \in [named : BOOLEAN, length : Nat, bytes : Bytes]
        /\ behind \in BOOLEAN /\ saved \in BOOLEAN /\ torn \in BOOLEAN
        /\ usertab \in Table
    BY <1>0 DEF Types
  <1>4. ASSUME NEW r \in Process, proc' = [proc EXCEPT ![p] = r], r.at \in UserPlaces
        PROVE  /\ proc'[p] = r
               /\ Pending' <=> Pending
    BY <1>0, <1>1, <1>4 DEF Types, Pending, UserPlaces, Copying
  (* All but the write of the block leave what the disk holds. *)
  <1>5. ASSUME NEW r \in Process, proc' = [proc EXCEPT ![p] = r], r.at \in UserPlaces,
               r.at \notin {"fileClear", "fileShut"} \/ p \in mixed \/ proc[p].at = "fileClear",
               r.at \in Copying => r.i < MAXUSERS,
               passwd' \in [state : SUBSET {"USED", "OPEN", "DIRTY"}, length : Nat,
                            cursor : Nat, bytes : Bytes],
               "USED" \in passwd'.state, UNCHANGED <<disk, behind, saved, torn>>,
               p \notin mixed => Lone(p)'
        PROVE  Kept'
    <2>1. Writing => Writing' \/ p \in mixed
      <3>1. proc'[p] = r /\ \A q \in Procs \ {p} : proc'[q] = proc[q]
        BY <1>0, <1>5 DEF Types
      <3> QED
        BY <1>1, <1>5, <3>1 DEF Writing
    <2>2. p \in mixed \/ r.at \notin {"fileClear", "fileShut"} => Writing'
      BY <1>0, <1>1, <1>5 DEF Types, Writing
    <2>3. (~Writing /\ ~Writing' /\ (Pending' <=> Pending)) \/ Writing'
      BY <1>4, <1>5, <2>1, <2>2
    <2>4. OnDisk'
      BY <1>0, <1>1, <1>5, <2>3 DEF OnDisk
    <2> QED
      BY <1>1, <1>3, <1>5, <2>4, UserKeeps
  (* A step that only goes on to the next place. *)
  <1>6. ASSUME NEW at \in UserPlaces, proc' = [proc EXCEPT ![p].at = at], UNCHANGED passwd,
               UNCHANGED <<disk, behind, saved, torn>>,
               at \notin {"fileClear", "fileShut"} \/ p \in mixed,
               at \in Copying => proc[p].i < MAXUSERS,
               p \notin mixed =>
                 ((/\ proc'[p].at = at /\ proc'[p].i = proc[p].i /\ proc'[p].c = proc[p].c
                   /\ \A n : Copied(n)' <=> Copied(n)
                   /\ Pending' <=> Pending) => Lone(p)')
        PROVE  Kept'
    <2>1. PICK r : r = [proc[p] EXCEPT !.at = at]
      OBVIOUS
    <2>2. r \in Process /\ r.at = at /\ r.i = proc[p].i /\ r.c = proc[p].c
      BY <1>2, <2>1 DEF Process, Places
    <2>3. proc' = [proc EXCEPT ![p] = r]
      BY <1>6, <2>1
    <2>4. /\ proc'[p] = r
          /\ Pending' <=> Pending
      BY <1>4, <2>2, <2>3
    <2>5. \A n : Copied(n)' <=> Copied(n)
      BY <1>1, <1>6, <2>4 DEF Copied
    <2> QED
      BY <1>2, <1>3, <1>5, <1>6, <2>2, <2>3, <2>4, <2>5
  (* A step that changes a field of the file. *)
  <1>7. ASSUME NEW at \in UserPlaces, proc' = [proc EXCEPT ![p].at = at],
               NEW new \in [state : SUBSET {"USED", "OPEN", "DIRTY"}, length : Nat,
                            cursor : Nat, bytes : Bytes],
               passwd' = new, "USED" \in new.state, UNCHANGED <<disk, behind, saved, torn>>,
               at \notin {"fileClear", "fileShut"} \/ proc[p].at = "fileClear",
               at \in Copying => proc[p].i < MAXUSERS,
               p \notin mixed =>
                 ((/\ proc'[p].at = at /\ proc'[p].i = proc[p].i /\ proc'[p].c = proc[p].c
                   /\ new.bytes = passwd.bytes => \A n : Copied(n)' <=> Copied(n)
                   /\ Pending' <=> Pending) => Lone(p)')
        PROVE  Kept'
    <2>1. PICK r : r = [proc[p] EXCEPT !.at = at]
      OBVIOUS
    <2>2. r \in Process /\ r.at = at /\ r.i = proc[p].i /\ r.c = proc[p].c
      BY <1>2, <2>1 DEF Process, Places
    <2>3. proc' = [proc EXCEPT ![p] = r]
      BY <1>7, <2>1
    <2>4. /\ proc'[p] = r
          /\ Pending' <=> Pending
      BY <1>4, <2>2, <2>3
    <2>5. new.bytes = passwd.bytes => \A n : Copied(n)' <=> Copied(n)
      BY <1>1, <1>7, <2>4 DEF Copied
    <2>6. at = "fileClear" => p \in mixed \/ proc[p].at = "fileClear"
      BY <1>7
    <2> QED
      BY <1>5, <1>7, <2>2, <2>3, <2>4, <2>5, <2>6
  <1>8. ASSUME FileCall(p) \/ FileClose(p) \/ Grow(p) PROVE Kept'
    <2>1. /\ UNCHANGED passwd /\ UNCHANGED <<disk, behind, saved, torn>>
          /\ proc[p].at \in {"call", "close", "grow"}
      BY <1>8 DEF FileCall, FileClose, Grow, file, rest, told
    <2>2. CASE FileCall(p)
      <3>1. proc' = [proc EXCEPT ![p].at = "fileRead"]
        BY <2>2 DEF FileCall
      <3>2. "fileRead" \in UserPlaces /\ "fileRead" \notin Copying
        BY DEF UserPlaces, Copying
      <3> QED
        BY <1>6, <2>1, <3>1, <3>2 DEF Lone, Copying
    <2>3. CASE FileClose(p) /\ "DIRTY" \in passwd.state
      <3>1. proc' = [proc EXCEPT ![p].at = "fileWrite"] /\ proc[p].at = "close"
        BY <2>3 DEF FileClose
      <3>2. "fileWrite" \in UserPlaces /\ "fileWrite" \notin Copying
        BY DEF UserPlaces, Copying
      <3> QED
        BY <1>2, <1>6, <2>1, <3>1, <3>2 DEF Lone, Copying
    <2>4. CASE FileClose(p) /\ "DIRTY" \notin passwd.state
      <3>1. proc' = [proc EXCEPT ![p].at = "fileShut"] /\ proc[p].at = "close"
        BY <2>4 DEF FileClose
      <3>2. "fileShut" \in UserPlaces /\ "fileShut" \notin Copying
        BY DEF UserPlaces, Copying
      <3>3. p \in mixed
        BY <1>2, <2>4, <3>1 DEF Lone
      <3> QED
        BY <1>6, <2>1, <3>1, <3>2, <3>3
    <2>5. CASE Grow(p) /\ passwd.length < DISKBLOCKLEN /\ passwd.length = passwd.cursor
      <3>1. proc' = [proc EXCEPT ![p].at = "lengthen"] /\ proc[p].at = "grow"
        BY <2>5 DEF Grow
      <3>2. "lengthen" \in UserPlaces /\ proc[p].i < MAXUSERS
        BY <1>2, <3>1 DEF UserPlaces, Copying
      <3> QED
        BY <1>2, <1>6, <2>1, <3>1, <3>2 DEF Lone, Copying
    <2>6. CASE Grow(p) /\ ~(passwd.length < DISKBLOCKLEN /\ passwd.length = passwd.cursor)
      <3>1. proc' = [proc EXCEPT ![p].at = "step"] /\ proc[p].at = "grow"
        BY <2>6 DEF Grow
      <3>2. "step" \in UserPlaces /\ proc[p].i < MAXUSERS
        BY <1>2, <3>1 DEF UserPlaces, Copying
      <3>3. Lone(p) => proc[p].i < passwd.length
        <4>1. Lone(p) => passwd.cursor = proc[p].i /\ proc[p].i <= passwd.length
          BY <3>1 DEF Lone, Copying
        <4> QED
          BY <1>2, <1>3, <2>6, <3>2, <4>1, Entries
      <3> QED
        BY <1>2, <1>6, <2>1, <3>1, <3>2, <3>3 DEF Lone, Copying
    <2> QED
      BY <1>8, <2>2, <2>3, <2>4, <2>5, <2>6
  <1>9. CASE FileRead(p)
    <2>1. PICK new : new = [passwd EXCEPT !.bytes = IF proc[p].at = "fileRead" THEN disk.bytes ELSE @]
      OBVIOUS
    <2>2. /\ passwd' = new /\ proc' = [proc EXCEPT ![p].at = "opened"]
          /\ UNCHANGED <<disk, behind, saved, torn>>
      BY <1>9, <2>1 DEF FileRead, rest, told
    <2>3. /\ new \in [state : SUBSET {"USED", "OPEN", "DIRTY"}, length : Nat,
                      cursor : Nat, bytes : Bytes]
          /\ new.state = passwd.state
      BY <1>3, <2>1
    <2>4. "opened" \in UserPlaces /\ "opened" \notin Copying
      BY DEF UserPlaces, Copying
    <2> QED
      BY <1>2, <1>7, <2>2, <2>3, <2>4 DEF Lone, Copying
  <1>10. CASE FileOpened(p)
    <2>1. PICK new : new = [passwd EXCEPT !.state = @ \cup {"OPEN"}]
      OBVIOUS
    <2>2. /\ passwd' = new /\ proc' = [proc EXCEPT ![p].at = "zero"]
          /\ UNCHANGED <<disk, behind, saved, torn>>
      BY <1>10, <2>1 DEF FileOpened, rest, told
    <2>3. /\ new \in [state : SUBSET {"USED", "OPEN", "DIRTY"}, length : Nat,
                      cursor : Nat, bytes : Bytes]
          /\ "USED" \in new.state
      BY <1>2, <1>3, <2>1
    <2>4. "zero" \in UserPlaces /\ "zero" \notin Copying
      BY DEF UserPlaces, Copying
    <2> QED
      BY <1>7, <2>2, <2>3, <2>4 DEF Lone, Copying
  <1>11. CASE FileZero(p)
    <2>1. PICK new : new = [passwd EXCEPT !.cursor = 0]
      OBVIOUS
    <2>2. /\ passwd' = new /\ proc' = [proc EXCEPT ![p].at = "seek"]
          /\ UNCHANGED <<disk, behind, saved, torn>>
      BY <1>11, <2>1 DEF FileZero, rest, told
    <2>3. /\ new \in [state : SUBSET {"USED", "OPEN", "DIRTY"}, length : Nat,
                      cursor : Nat, bytes : Bytes]
          /\ new.state = passwd.state /\ new.cursor = 0
      BY <1>3, <2>1
    <2>4. "seek" \in UserPlaces /\ "seek" \notin Copying
      BY DEF UserPlaces, Copying
    <2> QED
      BY <1>2, <1>7, <2>2, <2>3, <2>4 DEF Lone, Copying
  <1>12. CASE FileRewind(p)
    <2>1. PICK new : new = [passwd EXCEPT !.cursor = 0]
      OBVIOUS
    <2>2. /\ passwd' = new /\ proc' = [proc EXCEPT ![p].at = "put"] /\ proc[p].at = "rewind"
          /\ UNCHANGED <<disk, behind, saved, torn>>
      BY <1>12, <2>1 DEF FileRewind, rest, told
    <2>3. /\ new \in [state : SUBSET {"USED", "OPEN", "DIRTY"}, length : Nat,
                      cursor : Nat, bytes : Bytes]
          /\ new.state = passwd.state /\ new.cursor = 0 /\ new.length \in Nat
      BY <1>3, <2>1
    <2>4. "put" \in UserPlaces /\ "put" \notin Copying
      BY DEF UserPlaces, Copying
    <2>5. Lone(p) => proc[p].i = 0
      BY <2>2 DEF Lone
    <2>6. Copied(0)'
      BY DEF Copied
    <2>9. ASSUME p \notin mixed, proc'[p].at = "put", proc'[p].i = proc[p].i, proc'[p].c = proc[p].c,
                 new.bytes = passwd.bytes => \A n : Copied(n)' <=> Copied(n), Pending' <=> Pending
          PROVE  Lone(p)'
      BY <1>2, <2>2, <2>3, <2>5, <2>6, <2>9 DEF Lone, Copying
    <2> QED
      BY <1>2, <1>7, <2>2, <2>3, <2>4, <2>9
  <1>13. CASE Lengthen(p)
    <2>1. PICK new : new = [passwd EXCEPT !.length = @ + 1]
      OBVIOUS
    <2>2. /\ passwd' = new /\ proc' = [proc EXCEPT ![p].at = "step"] /\ proc[p].at = "lengthen"
          /\ UNCHANGED <<disk, behind, saved, torn>>
      BY <1>13, <2>1 DEF Lengthen, rest, told
    <2>3. /\ new \in [state : SUBSET {"USED", "OPEN", "DIRTY"}, length : Nat,
                      cursor : Nat, bytes : Bytes]
          /\ new.state = passwd.state /\ new.cursor = passwd.cursor /\ new.bytes = passwd.bytes
          /\ new.length = passwd.length + 1
      BY <1>3, <2>1
    <2>4. "step" \in UserPlaces /\ proc[p].i < MAXUSERS
      BY <1>2, <2>2 DEF UserPlaces, Copying
    <2>5. Lone(p) => /\ passwd.cursor = proc[p].i /\ proc[p].i <= passwd.length + 1
                     /\ proc[p].i < passwd.length + 1
                     /\ proc[p].i > 0 => "DIRTY" \in passwd.state
                     /\ Copied(proc[p].i + 1)
      <3>1. Lone(p) => /\ passwd.cursor = proc[p].i /\ proc[p].i <= passwd.length
                       /\ proc[p].i > 0 => "DIRTY" \in passwd.state
                       /\ Copied(proc[p].i + 1)
        BY <2>2 DEF Lone, Copying
      <3> QED
        BY <1>2, <1>3, <3>1, Entries
    <2>9. ASSUME p \notin mixed, proc'[p].at = "step", proc'[p].i = proc[p].i, proc'[p].c = proc[p].c,
                 new.bytes = passwd.bytes => \A n : Copied(n)' <=> Copied(n), Pending' <=> Pending
          PROVE  Lone(p)'
      BY <1>2, <2>2, <2>3, <2>5, <2>9 DEF Lone, Copying
    <2> QED
      BY <1>2, <1>7, <2>2, <2>3, <2>4, <2>9
  <1>14. CASE Step(p)
    <2>1. PICK new : new = [passwd EXCEPT !.cursor = @ + 1]
      OBVIOUS
    <2>2. /\ passwd' = new /\ proc' = [proc EXCEPT ![p].at = "mark"] /\ proc[p].at = "step"
          /\ UNCHANGED <<disk, behind, saved, torn>>
      BY <1>14, <2>1 DEF Step, rest, told
    <2>3. /\ new \in [state : SUBSET {"USED", "OPEN", "DIRTY"}, length : Nat,
                      cursor : Nat, bytes : Bytes]
          /\ new.state = passwd.state /\ new.length = passwd.length /\ new.bytes = passwd.bytes
          /\ new.cursor = passwd.cursor + 1
      BY <1>3, <2>1
    <2>4. "mark" \in UserPlaces /\ proc[p].i < MAXUSERS
      BY <1>2, <2>2 DEF UserPlaces, Copying
    <2>5. Lone(p) => /\ passwd.cursor = proc[p].i /\ proc[p].i < passwd.length
                     /\ proc[p].i > 0 => "DIRTY" \in passwd.state
                     /\ Copied(proc[p].i + 1)
      BY <2>2 DEF Lone, Copying
    <2>9. ASSUME p \notin mixed, proc'[p].at = "mark", proc'[p].i = proc[p].i, proc'[p].c = proc[p].c,
                 new.bytes = passwd.bytes => \A n : Copied(n)' <=> Copied(n), Pending' <=> Pending
          PROVE  Lone(p)'
      BY <1>2, <2>2, <2>3, <2>5, <2>9 DEF Lone, Copying
    <2> QED
      BY <1>2, <1>7, <2>2, <2>3, <2>4, <2>9
  <1>15. CASE FileClear(p)
    <2>1. PICK new : new = [passwd EXCEPT !.state = @ \ {"DIRTY"}]
      OBVIOUS
    <2>2. /\ passwd' = new /\ proc' = [proc EXCEPT ![p].at = "fileShut"]
          /\ proc[p].at = "fileClear" /\ UNCHANGED <<disk, behind, saved, torn>>
      BY <1>15, <2>1 DEF FileClear, rest, told
    <2>3. /\ new \in [state : SUBSET {"USED", "OPEN", "DIRTY"}, length : Nat,
                      cursor : Nat, bytes : Bytes]
          /\ "USED" \in new.state
      BY <1>2, <1>3, <2>1
    <2>4. "fileShut" \in UserPlaces /\ "fileShut" \notin Copying
      BY DEF UserPlaces, Copying
    <2> QED
      BY <1>7, <2>2, <2>3, <2>4 DEF Lone, Copying
  <1>16. CASE Put(p)
    <2>1. proc[p].at = "put" /\ UNCHANGED <<passwd, disk, behind, saved, torn>>
      BY <1>16 DEF Put, file, rest, told
    <2>2. CASE proc[p].i < MAXUSERS /\ passwd.cursor <= passwd.length /\ passwd.cursor < DISKBLOCKLEN
      <3>1. PICK r : r = [proc[p] EXCEPT !.at = "store", !.c = usertab[proc[p].i]]
        OBVIOUS
      <3>2. proc[p].i \in Uid /\ usertab[proc[p].i] \in Entry
        BY <1>2, <1>3, <2>2, Entries DEF Table, Uid
      <3>3. r \in Process /\ r.at = "store" /\ r.i = proc[p].i /\ r.c = usertab[proc[p].i]
        BY <1>2, <3>1, <3>2 DEF Process, Places, UserPlaces, Copying
      <3>4. proc' = [proc EXCEPT ![p] = r]
        <4>1. proc' = [proc EXCEPT ![p].at = "store", ![p].c = usertab[proc[p].i]]
          BY <1>16, <2>2 DEF Put
        <4> QED
          BY <1>0, <3>1, <4>1 DEF Types, Process
      <3>5. /\ proc'[p] = r /\ r.at \in UserPlaces
            /\ Pending' <=> Pending
        BY <1>4, <3>3, <3>4 DEF UserPlaces, Copying
      <3>6. \A n \in Nat : Copied(n)' <=> Copied(n)
        BY <1>1, <2>1, <3>5 DEF Copied
      <3>7. Lone(p) => Lone(p)'
        BY <1>1, <1>2, <2>1, <3>3, <3>5, <3>6, Entries DEF Lone, Copying
      <3> QED
        BY <1>2, <1>3, <1>5, <2>1, <2>2, <3>3, <3>4, <3>5, <3>7
    <2>3. CASE ~(proc[p].i < MAXUSERS /\ passwd.cursor <= passwd.length /\ passwd.cursor < DISKBLOCKLEN)
      <3>1. PICK r : r = [proc[p] EXCEPT !.at = "close"]
        OBVIOUS
      <3>2. r \in Process /\ r.at = "close"
        BY <1>2, <3>1 DEF Process, Places, UserPlaces, Copying
      <3>3. proc' = [proc EXCEPT ![p] = r]
        BY <1>16, <2>3, <3>1 DEF Put
      <3>4. /\ proc'[p] = r /\ r.at \in UserPlaces
            /\ Pending' <=> Pending
        BY <1>4, <3>2, <3>3 DEF UserPlaces, Copying
      <3>5. \A n \in Nat : Copied(n)' <=> Copied(n)
        BY <1>1, <2>1, <3>4 DEF Copied
      <3>6. Lone(p) => proc[p].i = MAXUSERS /\ "DIRTY" \in passwd.state /\ Copied(MAXUSERS)
        <4>1. SUFFICES ASSUME Lone(p)
                       PROVE  proc[p].i = MAXUSERS /\ "DIRTY" \in passwd.state /\ Copied(MAXUSERS)
          OBVIOUS
        <4>2. passwd.cursor = proc[p].i /\ proc[p].i <= passwd.length
          BY <2>1, <4>1 DEF Lone, Copying
        <4>3. ~(proc[p].i < MAXUSERS)
          BY <1>2, <2>3, <4>2, Entries
        <4>4. proc[p].i = MAXUSERS /\ proc[p].i > 0
          BY <1>2, <4>3, Entries
        <4> QED
          BY <2>1, <4>1, <4>4 DEF Lone, Copying
      <3>7. Lone(p) => Lone(p)'
        <4>1. Lone(p) => Copied(MAXUSERS)'
          BY <3>5, <3>6, Entries
        <4> QED
          BY <2>1, <3>2, <3>4, <3>6, <4>1 DEF Lone, Copying
      <3> QED
        BY <1>2, <1>3, <1>5, <2>1, <3>2, <3>3, <3>4, <3>7 DEF Copying
    <2> QED
      BY <2>2, <2>3
  <1>17. CASE Store(p)
    <2>1. PICK r : r = [proc[p] EXCEPT !.at = "grow"]
      OBVIOUS
    <2>2. r \in Process /\ r.at = "grow" /\ r.i = proc[p].i /\ r.i < MAXUSERS
          /\ proc' = [proc EXCEPT ![p] = r] /\ proc[p].at = "store"
      BY <1>2, <1>17, <2>1 DEF Store, Process, Places, UserPlaces, Copying
    <2>3. /\ UNCHANGED <<disk, behind, saved, torn>>
          /\ \/ /\ passwd.cursor < DISKBLOCKLEN
                /\ passwd' = [passwd EXCEPT !.bytes[passwd.cursor] = proc[p].c]
             \/ passwd.cursor >= DISKBLOCKLEN /\ UNCHANGED passwd
      BY <1>3, <1>17, Entries DEF Store, told
    <2>4. /\ passwd'.state = passwd.state /\ passwd'.length = passwd.length
          /\ passwd'.cursor = passwd.cursor
          /\ passwd' \in [state : SUBSET {"USED", "OPEN", "DIRTY"}, length : Nat,
                          cursor : Nat, bytes : Bytes]
      <3>1. CASE UNCHANGED passwd
        BY <1>3, <3>1
      <3>2. CASE /\ passwd.cursor < DISKBLOCKLEN
                 /\ passwd' = [passwd EXCEPT !.bytes[passwd.cursor] = proc[p].c]
        <4>1. passwd.cursor \in 0 .. DISKBLOCKLEN - 1
          BY <1>3, <3>2, Entries
        <4> QED
          BY <1>2, <1>3, <3>2, <4>1 DEF Bytes
      <3> QED
        BY <2>3, <3>1, <3>2
    <2>5. /\ proc'[p] = r /\ r.at \in UserPlaces
          /\ Pending' <=> Pending
      BY <1>4, <2>2 DEF UserPlaces, Copying
    <2>6. Lone(p) => Lone(p)'
      <3>1. SUFFICES ASSUME Lone(p) PROVE Lone(p)'
        OBVIOUS
      <3>2. PICK n : n = proc[p].i
        OBVIOUS
      <3>3. /\ passwd.cursor = n /\ n \in Nat /\ n < MAXUSERS /\ n <= passwd.length
            /\ n > 0 => "DIRTY" \in passwd.state
            /\ Copied(n)
            /\ Pending \/ proc[p].c = usertab[n]
            /\ n = 0 => HasPassword(proc[p].c)
        BY <1>2, <2>2, <3>1, <3>2 DEF Lone, Copying
      <3>4. passwd' = [passwd EXCEPT !.bytes[n] = proc[p].c] /\ n \in 0 .. DISKBLOCKLEN - 1
        BY <2>3, <3>3, Entries
      <3>5. /\ passwd'.bytes[n] = proc[p].c
            /\ \A i \in 0 .. DISKBLOCKLEN - 1 : i # n => passwd'.bytes[i] = passwd.bytes[i]
        BY <1>3, <3>4 DEF Bytes
      <3>6. \A i \in 0 .. n - 1 : i \in 0 .. DISKBLOCKLEN - 1 /\ i # n
        BY <3>4, Entries
      <3>7. Pending' \/ \A i \in 0 .. n : passwd'.bytes[i] = usertab'[i]
        <4>1. Pending \/ \A i \in 0 .. n - 1 : passwd.bytes[i] = usertab[i]
          BY <3>3 DEF Copied
        <4>2. \A i \in 0 .. n : i = n \/ i \in 0 .. n - 1
          BY <3>3
        <4> QED
          BY <1>1, <2>5, <3>3, <3>5, <3>6, <4>1, <4>2
      <3>8. HasPassword(passwd'.bytes[SUPERUID])
        <4>1. CASE n = 0
          BY <3>3, <3>5, <4>1, Entries
        <4>2. CASE n # 0
          <5>1. n > 0 /\ 0 \in 0 .. n - 1
            BY <3>3, <4>2
          <5> QED
            BY <3>3, <3>5, <3>6, <5>1, Entries DEF Copied
        <4> QED
          BY <4>1, <4>2
      <3>9. Copied(n + 1)'
        <4>1. PICK m : m = n + 1
          OBVIOUS
        <4>2. m - 1 = n
          BY <3>3, <4>1
        <4>3. Copied(m)'
          BY <3>7, <3>8, <4>2 DEF Copied
        <4> QED
          BY <4>1, <4>3
      <3> QED
        BY <2>2, <2>4, <2>5, <3>2, <3>3, <3>9 DEF Lone, Copying
    <2> QED
      BY <1>2, <1>5, <2>2, <2>3, <2>4, <2>5, <2>6
  <1>18. CASE Mark(p)
    <2>1. PICK r : r = [at |-> "put", id |-> proc[p].id, cmd |-> proc[p].cmd, i |-> proc[p].i + 1,
                        c |-> proc[p].c]
      OBVIOUS
    <2>2. r \in Process /\ r.at = "put" /\ r.i = proc[p].i + 1 /\ proc[p].at = "mark"
      <3>1. proc[p].at = "mark"
        BY <1>18 DEF Mark
      <3>2. proc[p].i + 1 \in 0 .. MAXUSERS
        BY <1>2, <3>1, Entries DEF Copying
      <3>3. "put" \in Places
        BY DEF Places, UserPlaces, Copying
      <3> QED
        BY <1>2, <2>1, <3>1, <3>2, <3>3 DEF Process
    <2>3. proc' = [proc EXCEPT ![p] = r]
      <3>1. proc' = [proc EXCEPT ![p].at = "put", ![p].i = @ + 1]
        BY <1>18 DEF Mark
      <3> QED
        BY <1>0, <2>1, <3>1 DEF Types, Process
    <2>4. /\ UNCHANGED <<disk, behind, saved, torn>>
          /\ passwd' = [passwd EXCEPT !.state = @ \cup {"DIRTY"}]
      BY <1>18 DEF Mark, rest, told
    <2>5. /\ passwd'.state = passwd.state \cup {"DIRTY"} /\ passwd'.bytes = passwd.bytes
          /\ passwd'.cursor = passwd.cursor /\ passwd'.length = passwd.length
          /\ passwd' \in [state : SUBSET {"USED", "OPEN", "DIRTY"}, length : Nat,
                          cursor : Nat, bytes : Bytes]
      <3>1. passwd.state \cup {"DIRTY"} \in SUBSET {"USED", "OPEN", "DIRTY"}
        BY <1>3
      <3>2. passwd' = [state |-> passwd.state \cup {"DIRTY"}, length |-> passwd.length,
                       cursor |-> passwd.cursor, bytes |-> passwd.bytes]
        BY <1>3, <2>4
      <3> QED
        BY <1>3, <3>1, <3>2
    <2>6. /\ proc'[p] = r /\ r.at \in UserPlaces
          /\ Pending' <=> Pending
      BY <1>4, <2>2, <2>3 DEF UserPlaces, Copying
    <2>7. \A n : Copied(n)' <=> Copied(n)
      BY <1>1, <2>5, <2>6 DEF Copied
    <2>8. Lone(p) => Lone(p)'
      <3>1. SUFFICES ASSUME Lone(p) PROVE Lone(p)'
        OBVIOUS
      <3>2. passwd.cursor = proc[p].i + 1 /\ proc[p].i < passwd.length /\ Copied(proc[p].i + 1)
        BY <2>2, <3>1 DEF Lone, Copying
      <3>3. passwd'.cursor = r.i /\ r.i <= passwd'.length /\ Copied(r.i)'
        BY <1>2, <1>3, <2>2, <2>5, <2>7, <3>2, Entries
      <3> QED
        BY <2>2, <2>5, <2>6, <3>3 DEF Lone, Copying
    <2> QED
      BY <1>2, <1>5, <2>2, <2>3, <2>4, <2>5, <2>6, <2>8 DEF Copying
  <1>19. CASE FileSeek(p) /\ passwd.cursor <= passwd.length /\ passwd.cursor <= DISKBLOCKLEN
    <2>1. PICK o : o = [at |-> proc[p].at, id |-> proc[p].id, cmd |-> proc[p].cmd, i |-> 0, c |-> proc[p].c]
      OBVIOUS
    <2>2. PICK r : r = [o EXCEPT !.at = "rewind"]
      OBVIOUS
    <2>3. o \in Process /\ r \in Process /\ r.at = "rewind" /\ r.i = 0
      BY <1>2, <2>1, <2>2, Entries DEF Process, Places, UserPlaces
    <2>4. proc' = [proc EXCEPT ![p].i = 0, ![p].at = "rewind"]
      BY <1>19 DEF FileSeek
    <2>5. proc' = [proc EXCEPT ![p] = r]
      <3>1. o = [proc[p] EXCEPT !.i = 0]
        BY <1>2, <2>1 DEF Process
      <3> QED
        BY <1>0, <2>2, <2>4, <3>1 DEF Types
    <2>6. /\ UNCHANGED passwd /\ UNCHANGED <<disk, behind, saved, torn>> /\ proc[p].at = "seek"
          /\ r.at \in UserPlaces /\ r.at \notin Copying
      BY <1>19, <2>3 DEF FileSeek, file, rest, told, UserPlaces, Copying
    <2>7. proc'[p] = r
      BY <1>4, <2>3, <2>5, <2>6
    <2>8. p \notin mixed => Lone(p)'
      BY <2>3, <2>7 DEF Lone, Copying
    <2> QED
      BY <1>2, <1>3, <1>5, <2>3, <2>5, <2>6, <2>8
  <1>21. CASE FileSeek(p) /\ ~(passwd.cursor <= passwd.length /\ passwd.cursor <= DISKBLOCKLEN)
    <2>1. PICK o : o = [at |-> proc[p].at, id |-> proc[p].id, cmd |-> proc[p].cmd, i |-> 0, c |-> proc[p].c]
      OBVIOUS
    <2>2. PICK r : r = [o EXCEPT !.at = "put"]
      OBVIOUS
    <2>3. o \in Process /\ r \in Process /\ r.at = "put" /\ r.i = 0
      BY <1>2, <2>1, <2>2, Entries DEF Process, Places, UserPlaces
    <2>4. proc' = [proc EXCEPT ![p].i = 0, ![p].at = "put"]
      BY <1>21 DEF FileSeek
    <2>5. proc' = [proc EXCEPT ![p] = r]
      <3>1. o = [proc[p] EXCEPT !.i = 0]
        BY <1>2, <2>1 DEF Process
      <3> QED
        BY <1>0, <2>2, <2>4, <3>1 DEF Types
    <2>6. /\ UNCHANGED passwd /\ UNCHANGED <<disk, behind, saved, torn>> /\ proc[p].at = "seek"
          /\ r.at \in UserPlaces /\ r.at \notin Copying
      BY <1>21, <2>3 DEF FileSeek, file, rest, told, UserPlaces, Copying
    <2>7. proc'[p] = r
      BY <1>4, <2>3, <2>5, <2>6
    <2>8. p \in mixed
      <3>1. Lone(p) => passwd.cursor = 0
        BY <2>6 DEF Lone
      <3>2. passwd.cursor # 0
        BY <1>3, <1>21, Entries
      <3> QED
        BY <1>2, <3>1, <3>2
    <2> QED
      BY <1>2, <1>3, <1>5, <2>3, <2>5, <2>6, <2>8
  <1>20. CASE FileWrite(p)
    <2>1. PICK r : r = [proc[p] EXCEPT !.at = "fileClear"]
      OBVIOUS
    <2>2. /\ r \in Process /\ r.at = "fileClear" /\ proc' = [proc EXCEPT ![p] = r]
          /\ proc[p].at = "fileWrite" /\ UNCHANGED passwd
          /\ disk' = [disk EXCEPT !.bytes = passwd.bytes]
          /\ behind' = FALSE /\ saved' = TRUE /\ torn' = (p \in mixed)
      BY <1>2, <1>20, <2>1 DEF FileWrite, Process, Places, UserPlaces, Copying
    <2>3. /\ proc'[p] = r /\ r.at \in UserPlaces
          /\ Pending' <=> Pending
      BY <1>4, <2>2 DEF UserPlaces, Copying
    <2>4. /\ disk' \in [named : BOOLEAN, length : Nat, bytes : Bytes]
          /\ disk'.bytes = passwd.bytes
      BY <1>3, <2>2
    <2>5. Lone(p)'
      BY <2>2, <2>3 DEF Lone, Copying
    <2>6. OnDisk'
      <3>1. CASE p \in mixed
        BY <2>2, <3>1 DEF OnDisk
      <3>2. CASE p \notin mixed
        <4>1. Copied(MAXUSERS)
          BY <1>2, <2>2, <3>2 DEF Lone, Copying
        <4>2. /\ Pending \/ \A i \in Uid : passwd.bytes[i] = usertab[i]
              /\ HasPassword(passwd.bytes[SUPERUID])
          BY <4>1, Entries DEF Copied, Uid
        <4> QED
          BY <1>1, <2>3, <2>4, <4>2 DEF OnDisk
      <3> QED
        BY <3>1, <3>2
    <2>7. behind' \in BOOLEAN /\ saved' \in BOOLEAN /\ torn' \in BOOLEAN
      <3>1. torn' = TRUE \/ torn' = FALSE
        BY <2>2
      <3> QED
        BY <2>2, <3>1
    <2> QED
      BY <1>1, <1>2, <1>3, <2>2, <2>3, <2>4, <2>5, <2>6, <2>7, UserKeeps DEF Copying
  <1> QED
    BY <1>8, <1>9, <1>10, <1>11, <1>12, <1>13, <1>14, <1>15, <1>16, <1>17, <1>18, <1>19, <1>20, <1>21

(* A step that touches at most the directory.                              *)
LEMMA DirectoryKeeps ==
    ASSUME Kept, NEW p \in Procs, NEW r \in Process, proc' = [proc EXCEPT ![p] = r],
           r = proc[p] \/ (proc[p].at = "dir" /\ r.at = "return"),
           UNCHANGED <<table, passwd, rest>>,
           disk' = [disk EXCEPT !.named = TRUE, !.length = passwd.length]
    PROVE  Kept'
PROOF
  <1>0. Types /\ Known /\ Sharing /\ OnDisk /\ \A q \in Procs : Waits(q)
    BY DEF Kept, Known
  <1>1. /\ proc' \in [Procs -> Process] /\ proc'[p] = r
        /\ \A q \in Procs : q # p => proc'[q] = proc[q]
        /\ \A q \in Procs : proc'[q].at \in Copying => proc'[q].i < MAXUSERS
    BY <1>0, Others DEF Types, Copying
  <1>2. disk' \in [named : BOOLEAN, length : Nat, bytes : Bytes] /\ disk'.bytes = disk.bytes
    <2>1. disk' = [named |-> TRUE, length |-> passwd.length, bytes |-> disk.bytes]
      BY <1>0 DEF Types
    <2> QED
      BY <1>0, <2>1 DEF Types
  <1>3. Types'
    BY <1>0, <1>1, <1>2 DEF Types, table, rest, told
  <1>4. /\ \A q \in Procs : proc'[q].at \in UserPlaces <=> proc[q].at \in UserPlaces
        /\ \A q \in Procs : proc[q].at \in UserPlaces => proc'[q] = proc[q]
        /\ Pending' <=> Pending
        /\ Writing' <=> Writing
    BY <1>1 DEF Pending, Writing, UserPlaces, Copying, rest, told
  <1>5. Known'
    <2>1. \A q \in Procs : Waits(q)'
      BY <1>0, <1>1 DEF Waits, table, rest, UserPlaces, Copying
    <2> QED
      BY <1>0, <2>1 DEF Known, OneSuperuser, LoggedInExists, table
  <1>6. \A q \in Procs : proc[q].at \in UserPlaces => (Lone(q)' <=> Lone(q))
    BY <1>4 DEF Lone, Copied, table
  <1>7. Sharing'
    BY <1>0, <1>4, <1>6 DEF Sharing, Alone, rest, told
  <1>8. OnDisk'
    BY <1>0, <1>2, <1>4 DEF OnDisk, table, rest, told
  <1> QED
    BY <1>3, <1>5, <1>7, <1>8 DEF Kept

(* A save opens the file, finds none, or finds no room for one.            *)
LEMMA OpenKeeps == ASSUME Kept, NEW p \in Procs, FileOpen(p) \/ FileCreate(p) PROVE Kept'
PROOF
  <1> USE DEF At, Goto
  <1>0. Types /\ Known /\ Sharing /\ OnDisk /\ \A q \in Procs : Waits(q)
    BY DEF Kept, Known
  <1>1. /\ proc[p].at \in {"save", "fileCreate"} /\ proc[p].at \notin UserPlaces
        /\ UNCHANGED <<table, raced, commands>> /\ proc[p] \in Process
        /\ HasPassword(usertab[SUPERUID])
    BY <1>0 DEF FileOpen, FileCreate, UserPlaces, Types, Waits, Copying
  <1>2. /\ Users = {q \in Procs : proc[q].at \in UserPlaces}
        /\ \A q \in Procs : proc[q].at \in UserPlaces => "USED" \in passwd.state
        /\ p \notin mixed
    BY <1>0, <1>1 DEF Users, UserPlaces, Sharing, Copying
  <1>3. ASSUME NEW at \in {"fileCreate", "dir", "return"} \cup UserPlaces
        PROVE  /\ [proc[p] EXCEPT !.at = at] \in Process
               /\ [proc[p] EXCEPT !.at = at].at = at
    BY <1>1 DEF Process, Places, UserPlaces, Copying
  (* The table is as it was, and so is what waiting commands know of it. *)
  <1>4. ASSUME NEW r \in Process, proc'[p] = r, r.at \in {"fileCreate", "dir", "return"} \cup UserPlaces,
               \A q \in Procs \ {p} : \/ proc'[q] = proc[q]
                                      \/ proc[q].at \in UserPlaces /\ proc'[q].at \in UserPlaces
        PROVE  Known'
    <2>1. r.at \notin {"first", "claim", "password", "granted", "name", "previous", "compare",
                       "new", "make"}
      BY <1>4 DEF UserPlaces, Copying
    <2>2. \A q \in Procs : Waits(q)'
      BY <1>0, <1>1, <1>4, <2>1, WaitsKept DEF table
    <2> QED
      BY <1>0, <1>1, <2>2 DEF Known, OneSuperuser, LoggedInExists, table
  <1>5. CASE FileOpen(p) /\ passwd.state = {}
    <2>1. PICK r : r = [proc[p] EXCEPT !.at = "fileCreate"]
      OBVIOUS
    <2>2. /\ r \in Process /\ r.at = "fileCreate" /\ proc' = [proc EXCEPT ![p] = r]
          /\ UNCHANGED <<passwd, disk, behind, saved, torn, mixed>> /\ proc[p].at = "save"
      BY <1>3, <1>5, <2>1 DEF FileOpen, file
    <2>3. /\ proc' \in [Procs -> Process] /\ proc'[p] = r
          /\ \A q \in Procs : q # p => proc'[q] = proc[q]
          /\ \A q \in Procs : proc'[q].at \in Copying => proc'[q].i < MAXUSERS
      BY <1>0, <2>2, Others DEF Copying
    <2>4. \A q \in Procs : proc[q].at \notin UserPlaces /\ proc'[q].at \notin UserPlaces
      BY <1>2, <1>5, <2>2, <2>3 DEF UserPlaces, Copying
    <2>5. Known'
      BY <1>4, <2>2, <2>3
    <2>6. Types'
      BY <1>0, <1>1, <2>2, <2>3 DEF Types, table
    <2>7. Sharing' /\ Pending'
      BY <1>0, <1>5, <2>2, <2>3, <2>4 DEF Sharing, Pending
    <2>8. OnDisk'
      BY <1>0, <2>2, <2>7 DEF OnDisk
    <2> QED
      BY <2>5, <2>6, <2>7, <2>8 DEF Kept
  (* A command that finds the file joins those that have it. *)
  <1>6. ASSUME NEW at \in {"seek", "buffer"}, proc' = [proc EXCEPT ![p].at = at],
               mixed' = IF at = "buffer" /\ Users = {} THEN mixed ELSE mixed \cup Users \cup {p},
               "USED" \in passwd.state, UNCHANGED <<passwd, disk, behind, saved, torn>>
        PROVE  Kept'
    <2>1. PICK r : r = [proc[p] EXCEPT !.at = at]
      OBVIOUS
    <2>2. /\ r \in Process /\ r.at = at /\ proc' = [proc EXCEPT ![p] = r]
          /\ r.at \in UserPlaces \ ({"fileClear", "fileShut"} \cup Copying)
      BY <1>3, <1>6, <2>1 DEF UserPlaces, Copying
    <2>3. /\ proc' \in [Procs -> Process] /\ proc'[p] = r
          /\ \A q \in Procs : q # p => proc'[q] = proc[q]
          /\ \A q \in Procs : proc'[q].at \in Copying => proc'[q].i < MAXUSERS
          /\ \A q \in Procs : proc'[q].at \in UserPlaces <=> q = p \/ proc[q].at \in UserPlaces
      BY <1>0, <2>2, Others DEF Copying
    <2>4. Known'
      BY <1>4, <2>2, <2>3
    <2>5. Types'
      BY <1>0, <1>1, <1>6, <2>3 DEF Types, table
    <2>6. \A q \in Procs : proc'[q].at \in UserPlaces => q \in mixed' \/ Alone(q)'
      <3>1. CASE at = "buffer" /\ Users = {}
        <4>1. \A q \in Procs : proc'[q].at \in UserPlaces <=> q = p
          BY <1>2, <2>3, <3>1
        <4>2. Lone(p)'
          BY <2>2, <2>3, <3>1 DEF Lone, Copying
        <4> QED
          BY <4>1, <4>2 DEF Alone
      <3>2. CASE ~(at = "buffer" /\ Users = {})
        BY <1>2, <1>6, <2>3, <3>2
      <3> QED
        BY <3>1, <3>2
    <2>7. Sharing'
      <3>1. \A q \in mixed' : q \in Procs /\ proc'[q].at \in UserPlaces
        BY <1>0, <1>2, <1>6, <2>2, <2>3 DEF Sharing
      <3> QED
        BY <1>0, <1>6, <2>3, <2>6, <3>1 DEF Sharing
    <2>8. OnDisk'
      <3>1. Writing'
        BY <2>2, <2>3 DEF Writing
      <3> QED
        BY <1>0, <1>6, <3>1 DEF OnDisk
    <2> QED
      BY <2>4, <2>5, <2>7, <2>8 DEF Kept
  <1>7. CASE FileOpen(p) /\ passwd.state # {}
    <2>1. "USED" \in passwd.state
      BY <1>0, <1>7 DEF Sharing
    <2>2. PICK at \in {"seek", "buffer"} :
            /\ proc' = [proc EXCEPT ![p].at = at]
            /\ mixed' = IF at = "buffer" /\ Users = {} THEN mixed ELSE mixed \cup Users \cup {p}
      BY <1>7 DEF FileOpen
    <2>3. UNCHANGED <<passwd, disk, behind, saved, torn>>
      BY <1>7 DEF FileOpen, file
    <2> QED
      BY <1>6, <2>1, <2>2, <2>3
  <1>9. CASE FileCreate(p) /\ ~(UNCHANGED file)
    <2>1. PICK r : r = [proc[p] EXCEPT !.at = "seek"]
      OBVIOUS
    <2>2. /\ r \in Process /\ r.at = "seek"
      BY <1>3, <2>1 DEF UserPlaces, Copying
    <2>3. /\ proc' = [proc EXCEPT ![p] = r] /\ passwd.state = {}
          /\ passwd' = [state |-> {"USED", "OPEN"}, length |-> 0, cursor |-> 0, bytes |-> Leftover]
          /\ disk' = [disk EXCEPT !.bytes = Leftover]
          /\ saved' = FALSE /\ UNCHANGED <<behind, torn, mixed>>
      BY <1>9, <2>1 DEF FileCreate
    <2>4. /\ proc' \in [Procs -> Process] /\ proc'[p] = r
          /\ \A q \in Procs : q # p => proc'[q] = proc[q]
          /\ \A q \in Procs : proc'[q].at \in Copying => proc'[q].i < MAXUSERS
      BY <1>0, <2>2, <2>3, Others DEF Copying
    <2>5. \A q \in Procs : proc'[q].at \in UserPlaces <=> q = p
      BY <1>2, <2>2, <2>3, <2>4 DEF UserPlaces, Copying
    <2>6. Known'
      BY <1>4, <2>2, <2>4 DEF UserPlaces, Copying
    <2>7. Types'
      <3>1. /\ disk' \in [named : BOOLEAN, length : Nat, bytes : Bytes]
            /\ passwd' \in [state : SUBSET {"USED", "OPEN", "DIRTY"}, length : Nat,
                            cursor : Nat, bytes : Bytes]
        BY <1>0, <2>3, Fresh, Entries DEF Types
      <3> QED
        BY <1>0, <1>1, <2>3, <2>4, <3>1 DEF Types, table
    <2>8. Sharing'
      <3>1. Alone(p)'
        BY <2>2, <2>3, <2>4, <2>5 DEF Alone, Lone, Copying
      <3>2. mixed = {}
        BY <1>0, <1>2, <2>3 DEF Sharing
      <3> QED
        BY <2>3, <2>5, <3>1, <3>2 DEF Sharing
    <2>9. OnDisk'
      <3>1. Writing'
        BY <2>2, <2>4 DEF Writing, UserPlaces, Copying
      <3> QED
        BY <2>3, <3>1 DEF OnDisk
    <2> QED
      BY <2>6, <2>7, <2>8, <2>9 DEF Kept
  <1>10. CASE FileCreate(p) /\ UNCHANGED file
    <2>1. passwd.state # {} \/ passwd'.state = {}
      BY <1>10 DEF file
    <2>2. CASE /\ behind' = TRUE /\ mixed' = mixed \cup Users /\ UNCHANGED <<saved, torn>>
               /\ Goto(p, "dir") \/ Goto(p, "return")
      <3>1. PICK at \in {"dir", "return"} : proc' = [proc EXCEPT ![p].at = at]
        BY <2>2
      <3>2. PICK r : r = [proc[p] EXCEPT !.at = at]
        OBVIOUS
      <3>3. /\ r \in Process /\ r.at = at
            /\ proc' = [proc EXCEPT ![p] = r]
        BY <1>3, <3>1, <3>2
      <3>4. /\ proc' \in [Procs -> Process] /\ proc'[p] = r
            /\ \A q \in Procs : q # p => proc'[q] = proc[q]
            /\ \A q \in Procs : proc'[q].at \in Copying => proc'[q].i < MAXUSERS
        BY <1>0, <3>3, Others DEF Copying
      <3>5. Known'
        BY <1>4, <3>3, <3>4
      <3>6. Types'
        BY <1>0, <1>1, <1>10, <2>2, <3>4 DEF Types, table, file
      <3>7. \A q \in Procs : proc'[q].at \in UserPlaces <=> proc[q].at \in UserPlaces
        BY <1>1, <3>1, <3>3, <3>4 DEF UserPlaces, Copying
      <3>8. Sharing'
        BY <1>0, <1>2, <1>10, <2>2, <3>7 DEF Sharing, file
      <3>9. OnDisk'
        BY <1>0, <1>10, <2>2 DEF OnDisk, file
      <3> QED
        BY <3>5, <3>6, <3>8, <3>9 DEF Kept
    <2>3. \/ passwd.state = {} /\ passwd'.state = {"USED", "OPEN"}
          \/ /\ behind' = TRUE /\ mixed' = mixed \cup Users /\ UNCHANGED <<saved, torn>>
             /\ Goto(p, "dir") \/ Goto(p, "return")
      BY <1>10 DEF FileCreate
    <2> QED
      BY <2>1, <2>2, <2>3
  <1> QED
    BY <1>5, <1>7, <1>9, <1>10

(* The file gets a new buffer: a read of another command goes on into the  *)
(* old one, and that command has shared the file.                          *)
LEMMA BufferKeeps == ASSUME Kept, NEW p \in Procs, FileBuffer(p) PROVE Kept'
PROOF
  <1>0. Types /\ Known /\ Sharing /\ OnDisk /\ \A q \in Procs : Waits(q)
    BY DEF Kept, Known
  <1>1. /\ proc[p].at = "buffer" /\ passwd' = [passwd EXCEPT !.bytes = Leftover]
        /\ UNCHANGED <<usertab, userid, disk, behind, saved, mixed, torn, raced, commands>>
        /\ proc' = [q \in Procs |->
                      [proc[q] EXCEPT !.at = IF q = p THEN "call"
                                             ELSE IF @ = "fileRead" THEN "fileReadOld" ELSE @]]
    BY DEF FileBuffer, At, table, rest, told
  <1>2. ASSUME NEW q \in Procs
        PROVE  /\ proc'[q] \in Process
               /\ \/ q = p /\ proc'[q].at = "call"
                  \/ q # p /\ proc'[q] = proc[q]
                  \/ q # p /\ proc[q].at = "fileRead" /\ proc'[q].at = "fileReadOld"
    <2>1. proc[q] \in Process
      BY <1>0 DEF Types
    <2>2. CASE q = p
      <3>1. proc'[q] = [proc[q] EXCEPT !.at = "call"]
        BY <1>1, <2>2
      <3> QED
        BY <2>1, <2>2, <3>1 DEF Process, Places, UserPlaces
    <2>3. CASE q # p /\ proc[q].at = "fileRead"
      <3>1. proc'[q] = [proc[q] EXCEPT !.at = "fileReadOld"]
        BY <1>1, <2>3
      <3> QED
        BY <2>1, <2>3, <3>1 DEF Process, Places, UserPlaces
    <2>4. CASE q # p /\ proc[q].at # "fileRead"
      <3>1. proc'[q] = [proc[q] EXCEPT !.at = proc[q].at]
        BY <1>1, <2>4
      <3> QED
        BY <2>1, <2>4, <3>1 DEF Process
    <2> QED
      BY <2>2, <2>3, <2>4
  <1>3. proc' \in [Procs -> Process]
    <2>1. DOMAIN proc' = Procs /\ proc' = [q \in DOMAIN proc' |-> proc'[q]]
      BY <1>1
    <2> QED
      BY <1>2, <2>1
  <1>4. /\ passwd' \in [state : SUBSET {"USED", "OPEN", "DIRTY"}, length : Nat,
                        cursor : Nat, bytes : Bytes]
        /\ passwd'.state = passwd.state
    BY <1>0, <1>1, Fresh DEF Types
  <1>5. /\ \A q \in Procs : proc'[q].at \in UserPlaces <=> proc[q].at \in UserPlaces
        /\ \A q \in Procs : proc'[q].at \in Copying => proc'[q] = proc[q]
    BY <1>1, <1>2 DEF UserPlaces, Copying
  <1>6. Types'
    BY <1>0, <1>1, <1>3, <1>4, <1>5 DEF Types
  <1>7. Known'
    <2>1. ASSUME NEW q \in Procs PROVE Waits(q)'
      <3>1. CASE proc[q].at \in UserPlaces
        <4>1. HasPassword(usertab[SUPERUID])
          BY <1>0, <3>1 DEF Waits
        <4> QED
          BY <1>1, <1>5, <3>1, <4>1 DEF Waits, UserPlaces, Copying
      <3>2. CASE proc[q].at \notin UserPlaces
        <4>1. proc'[q] = proc[q]
          BY <1>1, <1>2, <3>2 DEF UserPlaces
        <4>2. \A x \in Procs : proc'[x].at \in {"claim", "first"} => proc[x].at \in {"claim", "first"}
          BY <1>2
        <4> QED
          BY <1>0, <1>1, <4>1, <4>2 DEF Waits
      <3> QED
        BY <3>1, <3>2
    <2> QED
      BY <1>0, <1>1, <2>1 DEF Known, OneSuperuser, LoggedInExists
  <1>8. Sharing'
    <2>1. ASSUME NEW q \in Procs, proc'[q].at \in UserPlaces PROVE q \in mixed' \/ Alone(q)'
      <3>1. CASE q = p
        <4>1. p \notin mixed => Alone(p)
          BY <1>0, <1>5, <2>1, <3>1 DEF Sharing
        <4>2. Lone(p)'
          BY <1>2 DEF Lone, Copying
        <4> QED
          BY <1>1, <1>5, <3>1, <4>1, <4>2 DEF Alone
      <3>2. CASE q # p
        <4>1. proc[p].at \in UserPlaces
          BY <1>1 DEF UserPlaces
        <4> QED
          BY <1>0, <1>1, <1>5, <2>1, <3>2, <4>1 DEF Sharing, Alone
      <3> QED
        BY <3>1, <3>2
    <2> QED
      BY <1>0, <1>1, <1>4, <1>5, <2>1 DEF Sharing
  <1>9. OnDisk'
    <2>1. proc'[p].at = "call"
      BY <1>2
    <2>2. Writing'
      BY <2>1 DEF Writing, UserPlaces
    <2> QED
      BY <1>0, <1>1, <2>2 DEF OnDisk
  <1> QED
    BY <1>6, <1>7, <1>8, <1>9 DEF Kept

(* A save lets go of the file.  What it leaves counts for nothing if it    *)
(* has shared the file.                                                    *)
LEMMA ShutKeeps == ASSUME Kept, NEW p \in Procs, FileShut(p) PROVE Kept'
PROOF
  <1> USE DEF At, Goto
  <1>0. Types /\ Known /\ Sharing /\ OnDisk /\ \A q \in Procs : Waits(q)
    BY DEF Kept, Known
  <1>1. PICK r : r = [proc[p] EXCEPT !.at = "dir"]
    OBVIOUS
  <1>2. /\ passwd' = [passwd EXCEPT !.state = @ \ {"OPEN"}]
        /\ mixed' = mixed \ {p} /\ torn' = (torn \/ p \in mixed)
        /\ proc' = [proc EXCEPT ![p] = r] /\ proc[p].at = "fileShut"
    BY <1>1 DEF FileShut
  <1>3. /\ UNCHANGED <<usertab, userid, disk, behind, saved, raced, commands>>
        /\ proc[p].at \in UserPlaces /\ proc[p] \in Process
    BY <1>0, <1>2 DEF FileShut, table, UserPlaces, Types
  <1>4. r \in Process /\ r.at = "dir" /\ r.at \notin UserPlaces
    BY <1>1, <1>3 DEF Process, Places, UserPlaces, Copying
  <1>5. /\ proc' \in [Procs -> Process] /\ proc'[p] = r
        /\ \A q \in Procs : q # p => proc'[q] = proc[q]
        /\ \A q \in Procs : proc'[q].at \in Copying => proc'[q].i < MAXUSERS
    BY <1>0, <1>2, <1>4, Others DEF Copying
  <1>6. torn' \in BOOLEAN /\ (torn => torn') /\ (p \in mixed => torn')
    <2>1. torn' = TRUE \/ torn' = FALSE
      BY <1>2
    <2> QED
      BY <1>2, <2>1
  <1>7. /\ passwd' \in [state : SUBSET {"USED", "OPEN", "DIRTY"}, length : Nat,
                        cursor : Nat, bytes : Bytes]
        /\ passwd'.state = passwd.state \ {"OPEN"}
    BY <1>0, <1>2 DEF Types
  <1>8. Types'
    BY <1>0, <1>3, <1>5, <1>6, <1>7 DEF Types
  <1>9. Known'
    <2>1. r.at \notin {"first", "claim", "password", "granted", "name", "previous", "compare",
                       "new", "make"}
      BY <1>4
    <2>2. \A q \in Procs : Waits(q)'
      BY <1>0, <1>3, <1>4, <1>5, <2>1, WaitsKept DEF UserPlaces
    <2> QED
      BY <1>0, <1>3, <2>2 DEF Known, OneSuperuser, LoggedInExists
  <1>10. /\ \A q \in Procs : proc'[q].at \in UserPlaces <=> q # p /\ proc[q].at \in UserPlaces
         /\ \A q \in Procs : q # p /\ proc[q].at \in UserPlaces => q \in mixed /\ p \in mixed
    BY <1>0, <1>3, <1>4, <1>5 DEF Sharing, Alone
  <1>11. Sharing'
    <2>1. \A q \in mixed' : q \in Procs /\ proc'[q].at \in UserPlaces
      BY <1>0, <1>2, <1>10 DEF Sharing
    <2>2. "USED" \in passwd.state /\ "USED" \in passwd'.state
      BY <1>0, <1>3, <1>7 DEF Sharing
    <2>3. \A q \in Procs : proc'[q].at \in UserPlaces => q \in mixed'
      BY <1>2, <1>10
    <2> QED
      BY <2>1, <2>2, <2>3 DEF Sharing
  <1>12. OnDisk'
    <2>1. CASE p \in mixed
      BY <1>6, <2>1 DEF OnDisk
    <2>2. CASE p \notin mixed
      <3>1. ~Writing
        BY <1>2, <1>3, <1>10, <2>2 DEF Writing
      <3>2. Pending => Pending'
        BY <1>3, <1>5 DEF Pending, UserPlaces, Copying
      <3> QED
        BY <1>0, <1>3, <1>6, <3>1, <3>2 DEF OnDisk
    <2> QED
      BY <2>1, <2>2
  <1> QED
    BY <1>8, <1>9, <1>11, <1>12 DEF Kept

(* A restart leaves the disk only.                                         *)
LEMMA RebootKeeps == ASSUME Kept, Reboot PROVE Kept'
PROOF
  <1>0. Types /\ OnDisk
    BY DEF Kept
  <1>1. /\ usertab' = Cleared /\ userid' = SYSERR /\ proc' = [p \in Procs |-> Idle]
        /\ behind' = TRUE /\ mixed' = {} /\ raced' = FALSE /\ UNCHANGED <<disk, saved, torn>>
        /\ passwd' = [state |-> IF disk.named THEN {"USED"} ELSE {}, cursor |-> 0,
                      length |-> disk.length, bytes |-> Leftover]
        /\ commands < MaxCommands /\ commands' = commands + 1
    BY DEF Reboot, Memory
  <1>2. \A p \in Procs : proc'[p] = Idle
    BY <1>1
  <1>3. Types'
    <2>1. passwd' \in [state : SUBSET {"USED", "OPEN", "DIRTY"}, length : Nat,
                       cursor : Nat, bytes : Bytes]
      BY <1>0, <1>1, Fresh DEF Types
    <2>2. commands' \in 0 .. MaxCommands
      BY <1>0, <1>1, AccountSizes DEF Types
    <2>3. proc' \in [Procs -> Process]
      BY <1>1, IdleIs
    <2>4. behind' \in BOOLEAN /\ raced' \in BOOLEAN
      BY <1>1, Zenon
    <2> QED
      BY <1>0, <1>1, <1>2, <2>1, <2>2, <2>3, <2>4, Fresh, IdleIs DEF Types, Copying
  <1>4. Known'
    <2>1. \A i \in Uid : usertab'[i] = NoUser
      BY <1>1 DEF Cleared
    <2>2. NoUser.username # "superusr"
      BY DEF NoUser
    <2>3. OneSuperuser'
      BY <1>1, <2>1, <2>2, Entries DEF OneSuperuser
    <2>4. LoggedInExists'
      BY <1>1 DEF LoggedInExists, SYSERR, SUPERUID
    <2>5. \A p \in Procs : Waits(p)'
      BY <1>2, IdleIs DEF Waits, UserPlaces, Copying
    <2> QED
      BY <2>3, <2>4, <2>5 DEF Known
  <1>5. Sharing'
    <2>1. \A p \in Procs : proc'[p].at \notin UserPlaces
      BY <1>2, IdleIs DEF UserPlaces, Copying
    <2> QED
      BY <1>1, <2>1 DEF Sharing
  <1>6. OnDisk'
    BY <1>0, <1>1 DEF OnDisk
  <1> QED
    BY <1>3, <1>4, <1>5, <1>6 DEF Kept

LEMMA KeptStep == ASSUME Kept, [Next]_vars PROVE Kept'
PROOF
  <1>0. Types /\ Known /\ Sharing /\ OnDisk
    BY DEF Kept
  <1>1. CASE UNCHANGED vars
    <2>1. UNCHANGED <<usertab, userid, passwd, disk, proc, behind, saved, mixed, torn, raced, commands>>
      BY <1>1 DEF vars
    <2> QED
      BY <1>0, <2>1 DEF Kept, Types, Known, OneSuperuser, LoggedInExists, Waits, Sharing, Alone, Lone,
         Copied, OnDisk, Pending, Writing
  <1>2. CASE Reboot
    BY <1>2, RebootKeeps
  <1>3. CASE OtherClose
    <2>1. CASE Procs = {}
      <3>1. Types'
        <4>1. disk' = [named |-> TRUE, length |-> passwd.length, bytes |-> disk.bytes]
          BY <1>0, <1>3 DEF OtherClose, Types
        <4> QED
          BY <1>0, <1>3, <4>1 DEF OtherClose, Types, table, rest, told
      <3>2. disk'.bytes = disk.bytes
        BY <1>0, <1>3 DEF OtherClose, Types
      <3> QED
        BY <1>0, <1>3, <2>1, <3>1, <3>2 DEF OtherClose, Kept, Known, OneSuperuser, LoggedInExists,
           Sharing, OnDisk, Pending, Writing, table, rest, told
    <2>2. ASSUME NEW p \in Procs PROVE Kept'
      <3>1. proc' = [proc EXCEPT ![p] = proc[p]] /\ proc[p] \in Process
        BY <1>0, <1>3 DEF OtherClose, Types
      <3>2. /\ UNCHANGED <<table, passwd, rest>>
            /\ disk' = [disk EXCEPT !.named = TRUE, !.length = passwd.length]
        BY <1>3 DEF OtherClose
      <3>3. PICK r \in Process : r = proc[p]
        BY <3>1
      <3> QED
        BY <3>1, <3>2, <3>3, DirectoryKeeps
    <2> QED
      BY <2>1, <2>2
  <1>4. ASSUME NEW p \in Procs, Command(p) \/ Answer(p) \/ GoOn(p) \/ File(p) PROVE Kept'
    <2>1. CASE FileDir(p)
      <3>1. PICK r : r = [proc[p] EXCEPT !.at = "return"]
        OBVIOUS
      <3>2. proc[p] \in Process /\ proc[p].at = "dir"
        BY <1>0, <2>1 DEF FileDir, At, Types
      <3>3. r \in Process /\ r.at = "return"
        BY <3>1, <3>2 DEF Process, Places
      <3>4. /\ proc' = [proc EXCEPT ![p] = r] /\ UNCHANGED <<table, passwd, rest>>
            /\ disk' = [disk EXCEPT !.named = TRUE, !.length = passwd.length]
        BY <2>1, <3>1 DEF FileDir, Goto
      <3> QED
        BY <3>2, <3>3, <3>4, DirectoryKeeps
    <2>2. CASE File(p) /\ ~FileDir(p)
      BY <2>2, OpenKeeps, BufferKeeps, CopyKeeps, ShutKeeps, GoOnKeeps DEF File
    <2>3. CASE Answer(p) \/ GoOn(p)
      <3>1. CASE GoOn(p)
        BY <3>1, GoOnKeeps, ChangeKeeps DEF GoOn
      <3>2. CASE Answer(p)
        BY <3>2, GoOnKeeps, ChangeKeeps DEF Answer
      <3> QED
        BY <2>3, <3>1, <3>2
    <2> QED
      BY <1>4, <2>1, <2>2, <2>3, CommandKeeps
  <1> QED
    BY <1>1, <1>2, <1>3, <1>4 DEF Next

LEMMA Invariant == Spec => []Kept
PROOF
  BY KeptInit, KeptStep, PTL DEF Spec

------------------------------------------------------------------------------
(* Every variable keeps its type.                                          *)
THEOREM TypesKept == Spec => []TypeOK
PROOF
  <1>1. Kept => TypeOK
    BY DEF Kept, Types, Sharing, TypeOK, Places, UserPlaces, Users, Process, Copying
  <1> QED
    BY <1>1, Invariant, PTL

(* Nobody is logged in without an account that has a password, whatever     *)
(* commands of several terminals do in between and after a restart.         *)
THEOREM LoggedInIsUser == Spec => []LoggedInExists
PROOF
  BY Invariant, PTL DEF Kept, Known

(* With no command about to write it, the file holds the table, although    *)
(* other commands change entries while a save copies them one by one: in    *)
(* every state but those after a restart, after a save that shared the file *)
(* with another and after one that made a second file, up to the next save  *)
(* by a command alone.                                                      *)
THEOREM FileIsTable == Spec => []FileFollows
PROOF
  <1>1. Kept => FileFollows
    BY DEF Kept, Types, Sharing, OnDisk, Pending, Writing, FileFollows, Users, UserPlaces, Copying
  <1> QED
    BY <1>1, Invariant, PTL

(* A restart in the middle of any command leaves a file with a superuser    *)
(* who has a password, if the last save to write it or to let go of it had  *)
(* not shared it with another.                                              *)
THEOREM FileIsUsable == Spec => []FileUsable
PROOF
  <1>1. Kept => FileUsable
    BY DEF Kept, OnDisk, FileUsable
  <1> QED
    BY <1>1, Invariant, PTL

(* The superuser's password changes in chpass only, once it is set, unless  *)
(* two first logins both found the entry free.                              *)
THEOREM PasswordKept == Spec => PasswordStays
PROOF
  <1> DEFINE Stays ==
        LET before == usertab[SUPERUID]  after == usertab'[SUPERUID]
        IN  HasPassword(before) /\ after.passhash # before.passhash =>
                after = NoUser \/ raced \/ \E p \in Procs : At(p, "new")
  <1>1. ASSUME Kept, [Next]_vars PROVE [Stays]_vars
    <2>0. /\ Types /\ \A p \in Procs : Waits(p)
          /\ SUPERUID \in Uid
      BY <1>1, Entries DEF Kept, Known
    <2> SUFFICES ASSUME Next, HasPassword(usertab[SUPERUID]), ~raced,
                        usertab'[SUPERUID].passhash # usertab[SUPERUID].passhash
                 PROVE  usertab'[SUPERUID] = NoUser \/ \E p \in Procs : At(p, "new")
      BY <1>1 DEF vars
    <2>1. CASE Reboot
      BY <2>0, <2>1 DEF Reboot, Memory, Cleared
    <2>2. CASE UNCHANGED usertab
      BY <2>2
    <2>3. ASSUME NEW p \in Procs, Answer(p) PROVE At(p, "new") \/ UNCHANGED usertab
      <3>1. PICK pass \in Pass : \/ FirstPassword(p, pass) \/ Password(p, pass)
                                 \/ Previous(p, pass) \/ New(p, pass) \/ Make(p, pass)
        BY <2>3 DEF Answer
      <3>2. ~FirstPassword(p, pass)
        BY <2>0 DEF FirstPassword, At, Waits, HasPassword
      <3>3. Password(p, pass) \/ Previous(p, pass) => UNCHANGED usertab
        BY DEF Password, Previous, table
      <3>4. ~Make(p, pass)
        <4>1. SUFFICES ASSUME Make(p, pass) PROVE FALSE
          OBVIOUS
        <4>2. proc[p].id # SUPERUID
          BY <2>0, <4>1 DEF Make, At, Waits
        <4> QED
          BY <2>0, <4>1, <4>2 DEF Make, Types, Table
      <3> QED
        BY <3>1, <3>2, <3>3, <3>4 DEF New
    <2>4. ASSUME NEW p \in Procs, FirstClaim(p) PROVE FALSE
      <3>1. usertab[SUPERUID] \in Entry
        BY <2>0 DEF Types, Table
      <3> QED
        BY <2>0, <2>4, <3>1 DEF FirstClaim, Types, Table, Entry
    <2>5. ASSUME NEW p \in Procs, Command(p) \/ (GoOn(p) /\ ~FirstClaim(p)) \/ File(p)
          PROVE  UNCHANGED usertab
      BY <2>5 DEF Command, FirstLogin, Login, switchuser, logout, chpass, makeuser,
         GoOn, LoginGoesOn, Granted, Name, Compare, File, FileOpen, FileBuffer, FileCall,
         FileRead, FileOpened, FileZero, FileCreate, FileSeek, FileRewind, Put, Store, Grow, Lengthen,
         Step, Mark, FileClose, FileWrite, FileClear, FileShut, FileDir, Return, table
    <2>6. CASE OtherClose
      BY <2>6 DEF OtherClose, table
    <2> QED
      BY <2>1, <2>2, <2>3, <2>4, <2>5, <2>6 DEF Next
  <1> QED
    BY <1>1, Invariant, PTL DEF Spec, PasswordStays
==============================================================================
