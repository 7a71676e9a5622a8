------------------------------ MODULE DiskDaemon ------------------------------
(***************************************************************************)
(* The host's disk daemon, xinu-disk.c: it serves the blocks of a file to  *)
(* the disk driver of the board over a console program and two pipes.      *)
(*                                                                         *)
(* The daemon is the code here.  The driver is in a library: it is         *)
(* modelled from the protocol the daemon speaks.  The pipes keep order and *)
(* lose nothing; a board that restarts loses what has reached it.          *)
(***************************************************************************)
EXTENDS Integers, SequencesExt

CONSTANTS BLOCKNUM,          \* blocks of the file
          Val, Zero, Junk,   \* what a block may hold
          MAXTRIES,          \* greetings of the daemon
          DOPEN_RETRY,       \* queries of the driver
          MaxText, MaxRequests, MaxRestarts    \* bounds

ASSUME DaemonSizes ==
    /\ {BLOCKNUM, MAXTRIES, DOPEN_RETRY} \subseteq Nat \ {0}
    /\ {MaxText, MaxRequests, MaxRestarts} \subseteq Nat
    /\ Zero \notin Val /\ Junk \notin Val \cup {Zero}

Block == 0 .. BLOCKNUM - 1
None  == -1

(***************************************************************************)
(* A byte as two hexadecimal digits, and back.  A char is eight bits.      *)
(***************************************************************************)
Digit(n) == IF n > 9 THEN 65 + (n - 10) ELSE 48 + n
Value(c) == IF c >= 48 /\ c <= 57 THEN c - 48 ELSE 10 + c - 65
encode(b) == <<Digit(b \div 16), Digit(b % 16)>>
decode(s) == (Value(s[1]) * 16 + Value(s[2])) % 256

(* What encode() writes decode() reads, for every byte. *)
ASSUME HexRoundTrip == \A b \in 0 .. 255 : decode(encode(b)) = b

VARIABLES ending,              \* the line end the board sends after a query
          daemon, tries,       \* where diskServer() is; greetings so far
          line,                \* the last line read
          outfile, datafile,   \* what stdio has not flushed yet
          file,                \* the file's blocks
          toDaemon, toDriver,  \* the pipes
          console,             \* whether the console program still runs
          driver               \* where the driver is, its block, data and tries

(* History: what the driver was last told is stored; whether the driver was *)
(* opened by an old answer; whether the last read was right; lines of text, *)
(* requests, restarts.                                                      *)
VARIABLES confirmed, stale, right, texts, requests, restarts

history == <<confirmed, stale, right>>
bounds  == <<texts, requests, restarts>>
server  == <<daemon, tries, line, outfile, datafile, file>>
wires   == <<toDaemon, toDriver, console>>
vars    == <<ending, server, wires, driver, history, bounds>>

(* Lines to the daemon; the data of a write has no line end. *)
Query     == [kind |-> "query", block |-> 0, data |-> Zero]
Text      == [kind |-> "text", block |-> 0, data |-> Zero]
Get(b)    == [kind |-> "R", block |-> b, data |-> Zero]
Put(b)    == [kind |-> "W", block |-> b, data |-> Zero]
Data(v)   == [kind |-> "data", block |-> 0, data |-> v]
(* Lines to the driver; the sum of a block stands for the block. *)
Banner    == [kind |-> "banner", data |-> Zero]
ACK       == [kind |-> "ack", data |-> Zero]
Answer(v) == [kind |-> "block", data |-> v]
Sum(v)    == [kind |-> "sum", data |-> v]

NoWrite == [block |-> None, data |-> Zero]
Down    == [at |-> "down", block |-> 0, data |-> Zero, tries |-> 0]

Init ==
    /\ ending \in {0, 3}
    /\ daemon = "start" /\ tries = 0 /\ line = Text
    /\ outfile = << >> /\ datafile = NoWrite
    /\ file = [b \in Block |-> Zero]
    /\ toDaemon = << >> /\ toDriver = << >> /\ console = TRUE
    /\ driver = Down
    /\ confirmed = [b \in Block |-> None] /\ stale = FALSE /\ right = TRUE
    /\ texts = 0 /\ requests = 0 /\ restarts = 0

------------------------------------------------------------------------------
(***************************************************************************)
(* main(): a file that is too short is filled up with zeros, to one byte   *)
(* less than its last block has.                                           *)
(***************************************************************************)
Open(size) ==
    /\ daemon = "start"
    /\ \E old \in [0 .. size - 1 -> Val] :
        file' = [b \in Block |-> IF b < size THEN old[b]
                                 ELSE IF b = BLOCKNUM - 1 THEN Junk ELSE Zero]
    /\ daemon' = "greet"
    /\ UNCHANGED <<ending, tries, line, outfile, datafile, wires, driver, history, bounds>>

(* A pipe whose reader has ended stops the writer, if there is anything to  *)
(* write; what stdio holds is lost.                                         *)
Send(m, next) ==
    IF console \/ m = << >> THEN toDriver' = toDriver \o m /\ daemon' = next
                            ELSE daemon' = "dead" /\ UNCHANGED toDriver

Greet ==
    /\ daemon = "greet" /\ tries < MAXTRIES
    /\ tries' = tries + 1
    /\ Send(<<Banner>>, "hello")
    /\ UNCHANGED <<ending, line, outfile, datafile, file, toDaemon, console, driver, history, bounds>>

(* diskServer() returns, and main() ends the console and itself. *)
GiveUp ==
    /\ daemon = "greet" /\ tries = MAXTRIES
    /\ daemon' = "quit" /\ console' = FALSE
    /\ UNCHANGED <<ending, tries, line, outfile, datafile, file, toDaemon, toDriver,
                   driver, history, bounds>>

(* fgets(): the next line, or the old one again at the end of the stream. *)
Fgets(place) ==
    /\ daemon = place
    /\ toDaemon # << >> \/ ~console
    /\ line' = IF toDaemon = << >> THEN line ELSE Head(toDaemon)
    /\ toDaemon' = IF toDaemon = << >> THEN toDaemon ELSE Tail(toDaemon)

(* Any of the queries will do here. *)
Hello ==
    /\ Fgets("hello")
    /\ IF line'.kind = "query" THEN Send(<<ACK>>, "serve")
                               ELSE daemon' = "greet" /\ UNCHANGED toDriver
    /\ UNCHANGED <<ending, tries, outfile, datafile, file, console, driver, history, bounds>>

(* Here only the first of them is answered.  Any line that scans as a       *)
(* command is one, whoever printed it; what does not is passed over.  A     *)
(* block the file is short of has a byte nobody set.                        *)
ServeQuietly ==                 \* mutant: a query is answered at the beginning only
    /\ Fgets("serve")
    /\ daemon' = IF line'.kind = "W" THEN "data" ELSE "flushOut"
    /\ outfile' = IF line'.kind = "R" THEN <<Answer(file[line'.block])>> ELSE << >>
    /\ UNCHANGED <<ending, tries, datafile, file, toDriver, console, driver, history, bounds>>

ServeFirst ==                   \* mutant: no fseek() before the read
    /\ Fgets("serve")
    /\ daemon' = IF line'.kind = "W" THEN "data" ELSE "flushOut"
    /\ outfile' = CASE line'.kind = "R" -> <<Answer(file[0])>>
                    [] line'.kind = "query" /\ ending = 0 -> <<ACK>>
                    [] OTHER -> << >>
    /\ UNCHANGED <<ending, tries, datafile, file, toDriver, console, driver, history, bounds>>

ServeNoData ==                  \* mutant: the last block is not to be written
    /\ Fgets("serve")
    /\ daemon' = IF line'.kind = "W" /\ line'.block < BLOCKNUM - 1 THEN "data" ELSE "flushOut"
    /\ outfile' = CASE line'.kind = "R" -> <<Answer(file[line'.block])>>
                    [] line'.kind = "query" /\ ending = 0 -> <<ACK>>
                    [] OTHER -> << >>
    /\ UNCHANGED <<ending, tries, datafile, file, toDriver, console, driver, history, bounds>>

Serve ==
    /\ Fgets("serve")
    /\ daemon' = IF line'.kind = "W" THEN "data" ELSE "flushOut"
    /\ outfile' = CASE line'.kind = "R" -> <<Answer(file[line'.block])>>
                    [] line'.kind = "query" /\ ending = 0 -> <<ACK>>
                    [] OTHER -> << >>
    /\ UNCHANGED <<ending, tries, datafile, file, toDriver, console, driver, history, bounds>>

(* writeBlockRequest(): whatever comes is the data, up to a line end; at the *)
(* end of the stream it is what the buffer held.                             *)
WriteBlock ==
    LET m == IF toDaemon = << >> THEN Text ELSE Head(toDaemon)
        v == IF m.kind = "data" THEN m.data ELSE Junk
    IN  /\ daemon = "data" /\ (toDaemon # << >> \/ ~console)
        /\ toDaemon' = IF toDaemon = << >> THEN toDaemon ELSE Tail(toDaemon)
        /\ datafile' = [block |-> line.block, data |-> v]
        /\ outfile' = <<Sum(v)>>
        /\ daemon' = "flushOut"
        /\ UNCHANGED <<ending, tries, line, file, toDriver, console, driver, history, bounds>>

(* The answer goes out before the data goes to the file. *)
FlushFirst ==                   \* mutant: the data goes first
    /\ daemon = "flushOut"
    /\ file' = [b \in Block |-> IF b = datafile.block THEN datafile.data ELSE file[b]]
    /\ Send(outfile, "flushData")
    /\ outfile' = << >>
    /\ UNCHANGED <<ending, tries, line, datafile, toDaemon, console, driver, history, bounds>>

FlushOut ==
    /\ daemon = "flushOut"
    /\ Send(outfile, "flushData")
    /\ outfile' = << >>
    /\ UNCHANGED <<ending, tries, line, datafile, file, toDaemon, console, driver, history, bounds>>

FlushData ==
    /\ daemon = "flushData"
    /\ file' = [b \in Block |-> IF b = datafile.block THEN datafile.data ELSE file[b]]
    /\ datafile' = NoWrite
    /\ daemon' = "serve"
    /\ UNCHANGED <<ending, tries, line, outfile, wires, driver, history, bounds>>

(* The daemon is killed, and stdio's buffers with it; the console ends.     *)
Kill ==
    /\ daemon \notin {"dead", "quit"}
    /\ daemon' = "dead" /\ console' = FALSE
    /\ UNCHANGED <<ending, tries, line, outfile, datafile, file, toDaemon, toDriver,
                   driver, history, bounds>>

ConsoleEnds ==
    /\ console
    /\ console' = FALSE
    /\ UNCHANGED <<ending, server, toDaemon, toDriver, driver, history, bounds>>

------------------------------------------------------------------------------
(***************************************************************************)
(* The driver: diskOpen() asks until a line says ACK; diskRead() and       *)
(* diskWrite() pass over what has no space in it, and take what follows    *)
(* the first space for their answer.                                       *)
(***************************************************************************)
Transmit(m) == toDaemon' = IF console THEN toDaemon \o m ELSE toDaemon

(* The board prints other lines on the same console before it asks.  One    *)
(* that begins with R or W and a hexadecimal number is a command to         *)
(* sscanf(); a block such a line has the daemon write is told to nobody.    *)
Prints ==
    /\ driver.at = "down" /\ texts < MaxText
    /\ texts' = texts + 1
    /\ \/ \E m \in {Text} \cup {Get(b) : b \in Block} : Transmit(<<m>>) /\ UNCHANGED confirmed
       \/ \E b \in Block : /\ Transmit(<<Put(b)>>)
                            /\ confirmed' = [confirmed EXCEPT ![b] = None]
    /\ UNCHANGED <<ending, server, toDriver, console, driver, stale, right, requests, restarts>>

Ask ==
    /\ driver.at = "down" /\ driver.tries < DOPEN_RETRY
    /\ driver' = [driver EXCEPT !.at = "asked", !.tries = @ + 1]
    /\ Transmit(<<Query>>)
    /\ UNCHANGED <<ending, server, toDriver, console, history, bounds>>

Receive == toDriver # << >> /\ toDriver' = Tail(toDriver)

(* Answers to requests that are still to come. *)
Requested(s) == \E i \in DOMAIN s : s[i].kind \in {"R", "W"}
Answers(s)   == \E i \in DOMAIN s : s[i].kind \in {"block", "sum"}
Owed         == Answers(toDriver) \/ Answers(outfile) \/ Requested(toDaemon) \/ daemon = "data"

Asked ==
    /\ driver.at = "asked" /\ Receive
    /\ driver' = [driver EXCEPT !.at = IF Head(toDriver) = ACK THEN "ready" ELSE "down"]
    /\ stale' = (stale \/ (Head(toDriver) = ACK /\ Owed))
    /\ UNCHANGED <<ending, server, toDaemon, console, confirmed, right, bounds>>

Request == /\ driver.at = "ready" /\ requests < MaxRequests
           /\ requests' = requests + 1

ReadRequest(b) ==
    /\ Request
    /\ driver' = [driver EXCEPT !.at = "reading", !.block = b]
    /\ Transmit(<<Get(b)>>)
    /\ UNCHANGED <<ending, server, toDriver, console, history, texts, restarts>>

WriteRequest(b, v) ==
    /\ Request
    /\ driver' = [driver EXCEPT !.at = "sending", !.block = b, !.data = v]
    /\ confirmed' = [confirmed EXCEPT ![b] = None]
    /\ Transmit(<<Put(b)>>)
    /\ UNCHANGED <<ending, server, toDriver, console, stale, right, texts, restarts>>

SendData ==
    /\ driver.at = "sending"
    /\ driver' = [driver EXCEPT !.at = "writing"]
    /\ Transmit(<<Data(driver.data)>>)
    /\ UNCHANGED <<ending, server, toDriver, console, history, bounds>>

Skip ==
    /\ driver.at \in {"reading", "writing"} /\ Receive
    /\ Head(toDriver) = ACK
    /\ UNCHANGED <<ending, server, toDaemon, console, driver, history, bounds>>

ReadAnswer ==
    LET m == Head(toDriver)
        b == driver.block
    IN  /\ driver.at = "reading" /\ Receive /\ m # ACK
        /\ driver' = [driver EXCEPT !.at = IF m.kind = "block" THEN "ready" ELSE "lost"]
        /\ right' = (m.kind = "block" => m.data = confirmed[b] \/ confirmed[b] = None)
        /\ UNCHANGED <<ending, server, toDaemon, console, confirmed, stale, bounds>>

(* A sum that does not match would be a retry; here it is of another block. *)
WriteAnswer ==
    LET m == Head(toDriver)
    IN  /\ driver.at = "writing" /\ Receive /\ m # ACK
        /\ IF m.kind = "sum" /\ m.data = driver.data
           THEN /\ driver' = [driver EXCEPT !.at = "ready"]
                /\ confirmed' = [confirmed EXCEPT ![driver.block] = driver.data]
           ELSE driver' = [driver EXCEPT !.at = "lost"] /\ UNCHANGED confirmed
        /\ UNCHANGED <<ending, server, toDaemon, console, stale, right, bounds>>

(* A restart of the board: what has reached it is lost, the rest comes.     *)
Restart ==
    /\ restarts < MaxRestarts /\ driver # Down
    /\ restarts' = restarts + 1
    /\ driver' = Down
    /\ \E n \in 0 .. Len(toDriver) : toDriver' = SubSeq(toDriver, n + 1, Len(toDriver))
    /\ UNCHANGED <<ending, server, toDaemon, console, history, texts, requests>>

Daemon == \/ \E size \in 0 .. BLOCKNUM : Open(size)
          \/ Greet \/ GiveUp \/ Hello \/ Serve \/ WriteBlock \/ FlushOut \/ FlushData
Driver == Ask \/ Asked \/ SendData \/ Skip \/ ReadAnswer \/ WriteAnswer
User   == \E b \in Block : ReadRequest(b) \/ (\E v \in Val : WriteRequest(b, v))
Next   == Daemon \/ Driver \/ User \/ Prints \/ Restart \/ Kill \/ ConsoleEnds

Spec == Init /\ [][Next]_vars

(* Both programs go on while they can; nobody has to ask, restart or kill.  *)
FairSpec == Spec /\ WF_vars(Daemon) /\ WF_vars(Driver)

------------------------------------------------------------------------------
(***************************************************************************)
(* Properties.                                                             *)
(***************************************************************************)
(* Every variable keeps its type; nobody greets or asks too often.          *)
TypeOK ==
    /\ ending \in {0, 3}
    /\ daemon \in {"start", "greet", "hello", "serve", "data", "flushOut", "flushData",
                   "dead", "quit"}
    /\ tries \in 0 .. MAXTRIES /\ driver.tries \in 0 .. DOPEN_RETRY
    /\ file \in [Block -> Val \cup {Zero, Junk}]
    /\ datafile.block \in Block \cup {None} /\ Len(outfile) <= 1
    /\ stale \in BOOLEAN /\ right \in BOOLEAN
    /\ driver.at \in {"down", "asked", "ready", "reading", "sending", "writing", "lost"}

(* What the driver was told is stored is in the file, after a kill and at   *)
(* the end of the console's stream too, where the last line is served once  *)
(* more; only the write whose answer has just gone out may be missing.  A   *)
(* block that took a restarted board's query for its data was not confirmed *)
(* and is not until it is written again; no more is one that a line of the  *)
(* board's text, taken for a write, has named.                              *)
Confirmed ==
    ~stale => \A b \in Block :
        confirmed[b] # None => file[b] = confirmed[b] \/ datafile = [block |-> b, data |-> confirmed[b]]

(* A block's data is taken for data: neither a board that restarts between  *)
(* the two parts of a write nor text that is taken for a command makes the  *)
(* daemon serve data as a command.                                          *)
InStep == daemon = "serve" => line.kind # "data"

(* A read answers with what was stored last, unless the board restarted and *)
(* took an old ACK for the one to its query.                                *)
ReadsRight == stale \/ right

(* A board that waits for the daemon gets an answer, whenever it restarted, *)
(* if its lines end as the serving loop wants them, and both go on.         *)
Waits    == driver.at \in {"asked", "reading", "sending", "writing"}
Answered == (Waits /\ ending = 0) ~> (~Waits \/ daemon \in {"dead", "quit"} \/ ~console)
==============================================================================
