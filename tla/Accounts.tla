------------------------------- MODULE Accounts -------------------------------
(***************************************************************************)
(* The accounts of the MIPS system: xsh_login.c, xsh_chpass.c,             *)
(* xsh_makeuser.c, xsh_switchuser.c, xsh_logout.c, passwdFileRead.c and    *)
(* passwdFileWrite.c, and the part of sbOpen() that resets them.           *)
(*                                                                         *)
(* A command is a process.  The kernel may switch to another anywhere: a   *)
(* step is one statement that tests or changes the table, userid or the    *)
(* file, or several where a comment says why nobody can tell.  x++ and     *)
(* x |= b of a field of the file are one step: only a command that shares  *)
(* the file could lose one, and such a command is marked as `mixed'.       *)
(*                                                                         *)
(* The disk does here what FileSystem says it does when nobody moves its   *)
(* position and a block is free; no other command uses the file; the hash  *)
(* is one to one; an entry of the table goes to the file in one piece.     *)
(***************************************************************************)
EXTENDS Integers, FiniteSetsExt

CONSTANTS Procs, Pass,       \* commands; passwords that are typed
          NoPass,            \* the zero bytes of an entry never set
          MAXUSERS,
          DISKBLOCKLEN,      \* in entries
          MaxCommands        \* bound: commands and restarts

ASSUME AccountSizes ==
    /\ MAXUSERS \in Nat \ {0} /\ DISKBLOCKLEN \in Nat /\ MAXUSERS <= DISKBLOCKLEN
    /\ MaxCommands \in Nat /\ NoPass \notin Pass

SYSERR   == -1
SUPERUID == 0
USERFREE == 0
USERUSED == 1
SALT     == 1
Uid      == 0 .. MAXUSERS - 1
Username == {"", "superusr"}

xinuhash(pass, salt) == <<pass, salt>>
NoUser  == [state |-> USERFREE, username |-> "", passhash |-> xinuhash(NoPass, 0), salt |-> 0]
Cleared == [i \in Uid |-> NoUser]

(* What nobody has set yet in a buffer or a block. *)
Leftover == [i \in 0 .. DISKBLOCKLEN - 1 |-> [NoUser EXCEPT !.salt = SALT]]

VARIABLES usertab, userid,
          passwd,      \* the file in memory: state, length, cursor and buffer
          disk,        \* its block, and whether and with what length the directory has it
          proc,        \* what each command is doing: for which entry, how far it has copied
          up           \* "up", "halted" in a restart, or "astray"

(* History: whether a boot, or a save that found no room or made a second *)
(* file, has left the file behind the table since it was last written;       *)
(* whether it has ever been written; commands that have shared it with       *)
(* another since they opened it or that found it open, and whether one of    *)
(* them was the last to write or to let go of it; whether two first logins both found the entry   *)
(* free; commands and restarts.                                              *)
VARIABLES behind, saved, mixed, torn, raced, commands

vars == <<usertab, userid, passwd, disk, proc, up, behind, saved, mixed, torn, raced, commands>>
table == <<usertab, userid>>
file  == <<passwd, disk>>
told  == <<behind, saved, mixed, torn>>
rest  == <<up, told, raced, commands>>

Asks(cmd, at, id) == [at |-> at, id |-> id, cmd |-> cmd, i |-> 0, c |-> NoUser]
Idle == Asks("none", "idle", SYSERR)

Init ==
    /\ usertab = Cleared /\ userid = SYSERR
    /\ passwd = [state |-> {}, length |-> 0, cursor |-> 0, bytes |-> Leftover]
    /\ disk = [named |-> FALSE, length |-> 0, bytes |-> Leftover]
    /\ proc = [p \in Procs |-> Idle] /\ up = "up"
    /\ behind = TRUE /\ saved = FALSE /\ mixed = {} /\ torn = FALSE /\ raced = FALSE
    /\ commands = 0

------------------------------------------------------------------------------
At(p, place)        == up = "up" /\ proc[p].at = place
Goto(p, place)      == proc' = [proc EXCEPT ![p].at = place]
End(p)              == proc' = [proc EXCEPT ![p] = Idle]
Begin(p)            == At(p, "idle") /\ commands < MaxCommands /\ commands' = commands + 1
Ask(p, cmd, at, id) == proc' = [proc EXCEPT ![p] = Asks(cmd, at, id)]
Save(p, cmd)        == Ask(p, cmd, "save", SYSERR)

searchname(username) ==
    LET found == {i \in Uid : usertab[i].state = USERUSED /\ usertab[i].username = username}
    IN  IF found = {} THEN SYSERR ELSE Min(found)

(***************************************************************************)
(* login, the first time: the entry is tested, then used, and its password *)
(* asked after that.  A login that comes between its three fields finds no *)
(* name, or takes 0 for the salt, and fails.                               *)
(***************************************************************************)
FirstIfUnset(p) ==              \* mutant: the hash is tested, not the state
    /\ Begin(p) /\ usertab[SUPERUID].passhash = NoUser.passhash
    /\ Ask(p, "login", "claim", SUPERUID)
    /\ raced' = (raced \/ \E q \in Procs : proc[q].at = "claim")
    /\ UNCHANGED <<table, file, up, told>>

FirstLogin(p) ==
    /\ Begin(p) /\ usertab[SUPERUID].state = USERFREE
    /\ Ask(p, "login", "claim", SUPERUID)
    /\ raced' = (raced \/ \E q \in Procs : proc[q].at = "claim")
    /\ UNCHANGED <<table, file, up, told>>

FirstClaim(p) ==
    /\ At(p, "claim")
    /\ usertab' = [usertab EXCEPT ![SUPERUID].state = USERUSED,
                                  ![SUPERUID].username = "superusr",
                                  ![SUPERUID].salt = SALT]
    /\ Goto(p, "first")
    /\ UNCHANGED <<userid, file, rest>>

FirstUnset(p, pass) ==          \* mutant: the file is written, then the hash is set
    /\ At(p, "first")
    /\ Save(p, "login")
    /\ UNCHANGED <<table, file, rest>>

FirstPassword(p, pass) ==
    /\ At(p, "first")
    /\ usertab' = [usertab EXCEPT ![SUPERUID].passhash = xinuhash(pass, usertab[SUPERUID].salt)]
    /\ Save(p, "login")
    /\ UNCHANGED <<userid, file, rest>>

(***************************************************************************)
(* login() with a name that may be found, and the password for it.  That   *)
(* nobody is logged in is tested before, and may not be so any more.       *)
(***************************************************************************)
Login(p) ==
    /\ Begin(p)
    /\ usertab[SUPERUID].state # USERFREE /\ userid < SUPERUID
    /\ searchname("superusr") >= SUPERUID
    /\ Ask(p, "login", "password", searchname("superusr"))
    /\ UNCHANGED <<table, file, up, told, raced>>

(* After the first password: somebody may have logged in meanwhile. *)
LoginGoesOn(p) ==
    /\ At(p, "written")
    /\ IF userid >= SUPERUID \/ searchname("superusr") < SUPERUID THEN End(p)
       ELSE Ask(p, "login", "password", searchname("superusr"))
    /\ UNCHANGED <<table, file, rest>>

switchuser(p) ==
    /\ Begin(p)
    /\ userid >= SUPERUID /\ searchname("superusr") >= SUPERUID
    /\ Ask(p, "login", "password", searchname("superusr"))
    /\ UNCHANGED <<table, file, up, told, raced>>

Password(p, pass) ==
    LET id == proc[p].id
    IN  /\ At(p, "password")
        /\ IF xinuhash(pass, usertab[id].salt) = usertab[id].passhash
           THEN Goto(p, "granted") ELSE End(p)
        /\ UNCHANGED <<table, file, rest>>

Granted(p) ==
    /\ At(p, "granted")
    /\ userid' = proc[p].id
    /\ End(p)
    /\ UNCHANGED <<usertab, file, rest>>

logout(p) ==
    /\ Begin(p) /\ userid >= SUPERUID
    /\ userid' = SYSERR
    /\ UNCHANGED <<usertab, file, proc, up, told, raced>>

(***************************************************************************)
(* chpass compares with entry 0; for the superuser it compares a variable  *)
(* that was never set, which may hold anything.  Who was logged out since  *)
(* the command began has to know the password.                             *)
(***************************************************************************)
chpass(p) ==
    /\ Begin(p) /\ userid # SYSERR
    /\ Ask(p, "chpass", "name", 0)
    /\ UNCHANGED <<table, file, up, told, raced>>

Name(p) ==
    /\ At(p, "name")
    /\ IF searchname("superusr") = SYSERR THEN End(p)
       ELSE Goto(p, IF userid # 0 THEN "previous" ELSE "compare")
    /\ UNCHANGED <<table, file, rest>>

Previous(p, pass) ==
    /\ At(p, "previous")
    /\ IF usertab[proc[p].id].passhash = xinuhash(pass, SALT) THEN Goto(p, "new") ELSE End(p)
    /\ UNCHANGED <<table, file, rest>>

Compare(p) ==
    /\ At(p, "compare")
    /\ End(p) \/ Goto(p, "new")
    /\ UNCHANGED <<table, file, rest>>

NewUnwritten(p, pass) ==        \* mutant: the file is not written
    /\ At(p, "new")
    /\ usertab' = [usertab EXCEPT ![proc[p].id].passhash = xinuhash(pass, SALT)]
    /\ End(p)
    /\ UNCHANGED <<userid, file, rest>>

New(p, pass) ==
    /\ At(p, "new")
    /\ usertab' = [usertab EXCEPT ![proc[p].id].passhash = xinuhash(pass, SALT)]
    /\ Save(p, "chpass")
    /\ UNCHANGED <<userid, file, rest>>

(***************************************************************************)
(* makeuser takes the first free entry.  It sets neither its state nor its *)
(* name, so that the entry stays free.  The entry's hash and salt mean     *)
(* nothing to others, and whoever copies the one without the other is      *)
(* followed by this command's own save.                                    *)
(***************************************************************************)
FreeEntries == {i \in Uid : usertab[i].state = USERFREE}

makeuser(p) ==
    /\ Begin(p)
    /\ userid = 0 /\ FreeEntries # {}
    /\ Ask(p, "makeuser", "make", Min(FreeEntries))
    /\ UNCHANGED <<table, file, up, told, raced>>

Make(p, pass) ==
    /\ At(p, "make")
    /\ usertab' = [usertab EXCEPT ![proc[p].id].passhash = xinuhash(pass, SALT),
                                  ![proc[p].id].salt = SALT]
    /\ Save(p, "makeuser")
    /\ UNCHANGED <<userid, file, rest>>

(***************************************************************************)
(* passwdFileWrite().  Two commands that have the file open at once move   *)
(* one cursor in one buffer, and may leave anything there.                 *)
(***************************************************************************)
Users == {q \in Procs : proc[q].at \in {"buffer", "call", "fileRead", "fileReadOld", "opened", "zero",
                                         "seek", "rewind", "put", "store", "grow", "lengthen",
                                         "step", "mark", "close", "fileWrite", "fileClear", "fileShut"}}

FileOpen(p) ==
    /\ At(p, "save")
    /\ \/ /\ passwd.state = {}
          /\ Goto(p, "fileCreate")
          /\ UNCHANGED mixed
       \/ /\ "OPEN" \in passwd.state
          /\ Goto(p, "seek")
          /\ mixed' = mixed \cup Users \cup {p}
       \/ /\ passwd.state # {} /\ "OPEN" \notin passwd.state
          /\ Goto(p, "buffer")
          /\ mixed' = IF Users = {} THEN mixed ELSE mixed \cup Users \cup {p}
    /\ UNCHANGED <<table, file, up, behind, saved, torn, raced, commands>>

(* The file gets a new buffer; a read under way goes on into the old.       *)
FileBuffer(p) ==
    /\ At(p, "buffer")
    /\ passwd' = [passwd EXCEPT !.bytes = Leftover]
    /\ proc' = [q \in Procs |->
                  [proc[q] EXCEPT !.at = IF q = p THEN "call"
                                         ELSE IF @ = "fileRead" THEN "fileReadOld" ELSE @]]
    /\ UNCHANGED <<table, disk, rest>>

FileCall(p) ==
    /\ At(p, "call")
    /\ Goto(p, "fileRead")
    /\ UNCHANGED <<table, file, rest>>

FileRead(p) ==
    /\ At(p, "fileRead") \/ At(p, "fileReadOld")
    /\ passwd' = [passwd EXCEPT !.bytes = IF proc[p].at = "fileRead" THEN disk.bytes ELSE @]
    /\ Goto(p, "opened")
    /\ UNCHANGED <<table, disk, rest>>

FileOpened(p) ==
    /\ At(p, "opened")
    /\ passwd' = [passwd EXCEPT !.state = @ \cup {"OPEN"}]
    /\ Goto(p, "zero")
    /\ UNCHANGED <<table, disk, rest>>

FileZero(p) ==
    /\ At(p, "zero")
    /\ passwd' = [passwd EXCEPT !.cursor = 0]
    /\ Goto(p, "seek")
    /\ UNCHANGED <<table, disk, rest>>

(* Nobody looks again whether there is a file by now: a second one of the    *)
(* same name is written and closed, and never found.  Or there is no room.   *)
FileCreate(p) ==
    /\ At(p, "fileCreate")
    /\ \/ /\ passwd.state = {}
          /\ passwd' = [state |-> {"USED", "OPEN"}, length |-> 0, cursor |-> 0, bytes |-> Leftover]
          /\ disk' = [disk EXCEPT !.bytes = Leftover]
          /\ saved' = FALSE
          /\ Goto(p, "seek")
          /\ UNCHANGED <<behind, mixed>>
       \/ /\ behind' = TRUE /\ mixed' = mixed \cup Users
          /\ \/ passwd.state # {} /\ Goto(p, "dir")
             \/ Goto(p, "return")
          /\ UNCHANGED <<file, saved>>
    /\ UNCHANGED <<table, up, torn, raced, commands>>

(* The cursor is put back to 0 where it was not beyond the length; then the *)
(* loop begins with entry 0.                                                *)
FileSeek(p) ==
    /\ At(p, "seek")
    /\ proc' = [proc EXCEPT ![p].i = 0,
                            ![p].at = IF passwd.cursor <= passwd.length
                                           /\ passwd.cursor <= DISKBLOCKLEN
                                       THEN "rewind" ELSE "put"]
    /\ UNCHANGED <<table, file, rest>>

FileRewind(p) ==
    /\ At(p, "rewind")
    /\ passwd' = [passwd EXCEPT !.cursor = 0]
    /\ Goto(p, "put")
    /\ UNCHANGED <<table, disk, rest>>

(* filePutChar() of entry i, until it fails or the table ends.              *)
Put(p) ==
    /\ At(p, "put")
    /\ IF proc[p].i < MAXUSERS /\ passwd.cursor <= passwd.length /\ passwd.cursor < DISKBLOCKLEN
       THEN proc' = [proc EXCEPT ![p].at = "store", ![p].c = usertab[proc[p].i]]
       ELSE Goto(p, "close")
    /\ UNCHANGED <<table, file, rest>>

Store(p) ==
    /\ At(p, "store")
    /\ Goto(p, "grow")
    /\ IF passwd.cursor < DISKBLOCKLEN
       THEN passwd' = [passwd EXCEPT !.bytes[passwd.cursor] = proc[p].c] /\ UNCHANGED up
       ELSE up' = "astray" /\ UNCHANGED passwd
    /\ UNCHANGED <<table, disk, told, raced, commands>>

Grow(p) ==
    /\ At(p, "grow")
    /\ Goto(p, IF passwd.length < DISKBLOCKLEN /\ passwd.length = passwd.cursor
               THEN "lengthen" ELSE "step")
    /\ UNCHANGED <<table, file, rest>>

Lengthen(p) ==
    /\ At(p, "lengthen")
    /\ passwd' = [passwd EXCEPT !.length = @ + 1]
    /\ Goto(p, "step")
    /\ UNCHANGED <<table, disk, rest>>

Step(p) ==
    /\ At(p, "step")
    /\ passwd' = [passwd EXCEPT !.cursor = @ + 1]
    /\ Goto(p, "mark")
    /\ UNCHANGED <<table, disk, rest>>

Mark(p) ==
    /\ At(p, "mark")
    /\ passwd' = [passwd EXCEPT !.state = @ \cup {"DIRTY"}]
    /\ proc' = [proc EXCEPT ![p].at = "put", ![p].i = @ + 1]
    /\ UNCHANGED <<table, disk, rest>>

(* fileClose() writes what is dirty, and the directory in any case.         *)
FileClose(p) ==
    /\ At(p, "close")
    /\ Goto(p, IF "DIRTY" \in passwd.state THEN "fileWrite" ELSE "fileShut")
    /\ UNCHANGED <<table, file, rest>>

FileWrite(p) ==
    /\ At(p, "fileWrite")
    /\ disk' = [disk EXCEPT !.bytes = passwd.bytes]
    /\ behind' = FALSE /\ saved' = TRUE /\ torn' = (p \in mixed)
    /\ Goto(p, "fileClear")
    /\ UNCHANGED <<table, passwd, up, mixed, raced, commands>>

FileClear(p) ==
    /\ At(p, "fileClear")
    /\ passwd' = [passwd EXCEPT !.state = @ \ {"DIRTY"}]
    /\ Goto(p, "fileShut")
    /\ UNCHANGED <<table, disk, rest>>

FileShut(p) ==
    /\ At(p, "fileShut")
    /\ passwd' = [passwd EXCEPT !.state = @ \ {"OPEN"}]
    /\ Goto(p, "dir")
    /\ mixed' = mixed \ {p} /\ torn' = (torn \/ p \in mixed)
    /\ UNCHANGED <<table, disk, up, behind, saved, raced, commands>>

FileDir(p) ==
    /\ At(p, "dir")
    /\ disk' = [disk EXCEPT !.named = TRUE, !.length = passwd.length]
    /\ Goto(p, "return")
    /\ UNCHANGED <<table, passwd, rest>>

Return(p) ==
    /\ At(p, "return")
    /\ IF proc[p].cmd = "login" THEN Ask(p, "login", "written", SYSERR) ELSE End(p)
    /\ UNCHANGED <<table, file, rest>>

(* The close of any other file writes the directory, too. *)
OtherClose ==
    /\ up = "up" /\ passwd.state # {}
    /\ disk' = [disk EXCEPT !.named = TRUE, !.length = passwd.length]
    /\ UNCHANGED <<table, passwd, proc, rest>>

(***************************************************************************)
(* A restart.  sbOpen() clears the table, then passwdFileRead() looks for  *)
(* a file whose name is a number: with no file in the directory there is   *)
(* none, with one the number is used as an address, which either stops the *)
(* machine or matches no file.                                             *)
(***************************************************************************)
Memory ==
    /\ up = "up" /\ commands < MaxCommands /\ commands' = commands + 1
    /\ usertab' = Cleared
    /\ proc' = [p \in Procs |-> Idle]
    /\ behind' = TRUE /\ mixed' = {} /\ raced' = FALSE
    /\ passwd' = [state |-> IF disk.named THEN {"USED"} ELSE {}, cursor |-> 0,
                  length |-> disk.length, bytes |-> Leftover]
    /\ up' \in IF disk.named THEN {"up", "halted"} ELSE {"up"}
    /\ UNCHANGED <<disk, saved, torn>>

RebootKeepsUser == Memory /\ UNCHANGED userid      \* mutant
Reboot          == Memory /\ userid' = SYSERR

Command(p) == \/ FirstLogin(p) \/ Login(p) \/ switchuser(p) \/ logout(p)
              \/ chpass(p) \/ makeuser(p)
Answer(p)  == \E pass \in Pass : \/ FirstPassword(p, pass) \/ Password(p, pass)
                                 \/ Previous(p, pass) \/ New(p, pass) \/ Make(p, pass)
GoOn(p)    == FirstClaim(p) \/ LoginGoesOn(p) \/ Granted(p) \/ Name(p) \/ Compare(p)
File(p)    == \/ FileOpen(p) \/ FileBuffer(p) \/ FileCall(p) \/ FileRead(p)
              \/ FileOpened(p) \/ FileZero(p) \/ FileCreate(p) \/ FileSeek(p) \/ FileRewind(p)
              \/ Put(p) \/ Store(p) \/ Grow(p) \/ Lengthen(p) \/ Step(p) \/ Mark(p)
              \/ FileClose(p) \/ FileWrite(p) \/ FileClear(p) \/ FileShut(p) \/ FileDir(p)
              \/ Return(p)

Next == \/ Reboot \/ OtherClose
        \/ \E p \in Procs : Command(p) \/ Answer(p) \/ GoOn(p) \/ File(p)

Spec == Init /\ [][Next]_vars

------------------------------------------------------------------------------
(***************************************************************************)
(* Properties.                                                             *)
(***************************************************************************)
Entry == [state : {USERFREE, USERUSED}, username : Username,
          passhash : (Pass \cup {NoPass}) \X {0, SALT}, salt : {0, SALT}]
Table == [Uid -> Entry]
Bytes == [0 .. DISKBLOCKLEN - 1 -> Entry]

(* Every variable keeps its type. *)
TypeOK ==
    /\ usertab \in Table /\ userid \in Uid \cup {SYSERR}
    /\ passwd.state \subseteq {"USED", "OPEN", "DIRTY"} /\ passwd.bytes \in Bytes
    /\ passwd.cursor \in Nat /\ passwd.length \in Nat
    /\ disk.named \in BOOLEAN /\ disk.bytes \in Bytes
    /\ \A p \in Procs :
        /\ proc[p].at \in {"idle", "claim", "first", "password", "granted", "name", "previous",
                           "compare", "new", "make", "save", "fileCreate", "dir", "return",
                           "written"} \/ p \in Users
        /\ proc[p].id \in Uid \cup {SYSERR} /\ proc[p].i \in 0 .. MAXUSERS
    /\ mixed \subseteq Users /\ commands \in 0 .. MaxCommands

HasPassword(entry) == entry.state = USERUSED /\ entry.passhash # NoUser.passhash

(* Who is logged in has an entry with a password, whatever the commands at  *)
(* prompts did and after a restart.                                         *)
LoggedInExists == userid >= SUPERUID => HasPassword(usertab[userid])

(* With no command about to write it the file holds the table, although     *)
(* entries change while a save is copying them.  It does not where two      *)
(* saves have shared the file, since a restart, and where a save has made a *)
(* file of its own or none: until the next save by one command alone.       *)
FileFollows ==
    (\A p \in Procs : proc[p].at \notin {"first", "save", "fileCreate"} /\ p \notin Users) =>
        behind \/ torn \/ \A i \in Uid : disk.bytes[i] = usertab[i]

(* Once it has been written, what is on the disk has a superuser with a     *)
(* password, so that a restart in the middle of any command leaves a file   *)
(* that could be read; unless the last to write it shared it with another.  *)
FileUsable == disk.named /\ saved /\ ~torn => HasPassword(disk.bytes[SUPERUID])

(* The superuser's first password stays until chpass changes it: the entry  *)
(* is taken before the password is asked, so that of two first logins the   *)
(* one that comes while the other waits for its password does not set it.   *)
(* Two that both test the entry before either takes it both do.             *)
PasswordStays ==
    [][ LET before == usertab[SUPERUID]  after == usertab'[SUPERUID]
        IN  HasPassword(before) /\ after.passhash # before.passhash =>
                after = NoUser \/ raced \/ \E p \in Procs : At(p, "new") ]_vars
==============================================================================
