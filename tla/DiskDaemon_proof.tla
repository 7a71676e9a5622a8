--------------------------- MODULE DiskDaemon_proof ---------------------------
(***************************************************************************)
(* The daemon never serves the data of a write as a command, what it told  *)
(* the driver is stored is in the file, and a read answers with what was   *)
(* stored last, whenever the board restarts, the daemon is killed or the   *)
(* console ends, for any number of blocks, values, tries and requests.     *)
(***************************************************************************)
EXTENDS DiskDaemon, SequenceTheorems, TLAPS

Content == Val \cup {Zero, Junk}
Line  == [kind : {"query", "text", "R", "W", "data"}, block : Block, data : Val \cup {Zero}]
Reply == [kind : {"banner", "ack", "block", "sum"}, data : Content]

Types ==
    /\ ending \in {0, 3}
    /\ daemon \in {"start", "greet", "hello", "serve", "data", "flushOut", "flushData",
                   "dead", "quit"}
    /\ tries \in 0 .. MAXTRIES
    /\ line \in Line /\ console \in BOOLEAN
    /\ outfile \in Seq(Reply) /\ Len(outfile) <= 1
    /\ datafile \in [block : Block \cup {None}, data : Content]
    /\ file \in [Block -> Content]
    /\ toDaemon \in Seq(Line) /\ toDriver \in Seq(Reply)
    /\ driver \in [at : {"down", "asked", "ready", "reading", "sending", "writing", "lost"},
                   block : Block, data : Val \cup {Zero}, tries : 0 .. DOPEN_RETRY]
    /\ confirmed \in [Block -> Val \cup {Zero, None}] /\ stale \in BOOLEAN /\ right \in BOOLEAN

(* The daemon may take the line for data: a write is announced before it.  *)
Awaited(i) == IF i = 1 THEN daemon = "data" ELSE toDaemon[i - 1].kind = "W"

(* In the pipe data comes right after the line that announces it, or first  *)
(* when the daemon has read that line; and that line is no data to another. *)
Stream ==
    /\ \A i \in 2 .. Len(toDaemon) :
        toDaemon[i].kind = "data" => toDaemon[i - 1].kind = "W" /\ ~Awaited(i - 1)
    /\ Len(toDaemon) > 0 /\ toDaemon[1].kind = "data" => daemon \in {"data", "dead"}

(* A write has been announced and its data not sent: the driver is about to *)
(* send it, or was restarted.  If it is about to, the line that announces   *)
(* it is served as that.                                                    *)
Announced == IF Len(toDaemon) = 0 THEN daemon = "data" ELSE toDaemon[Len(toDaemon)].kind = "W"
Served    == Announced /\ (Len(toDaemon) > 0 => ~Awaited(Len(toDaemon)))
Sender ==
    console => /\ driver.at = "sending" => Served
               /\ Announced => driver.at \in {"sending", "down"}

(* Until the daemon has greeted the driver there is nothing to serve.      *)
Greeting ==
    daemon \in {"start", "greet", "hello"} =>
        /\ \A i \in 1 .. Len(toDaemon) : toDaemon[i].kind # "data"
        /\ \A i \in 1 .. Len(toDriver) : toDriver[i].kind # "ack"
        /\ driver.at \in {"down", "asked"}

Kept == Types /\ Stream /\ Sender /\ Greeting /\ line.kind # "data"

------------------------------------------------------------------------------
LEMMA Messages ==
    /\ 0 \in Block /\ None \notin Block
    /\ Query \in Line /\ Text \in Line /\ Banner \in Reply /\ ACK \in Reply
    /\ \A b \in Block : Get(b) \in Line /\ Put(b) \in Line
    /\ \A v \in Val \cup {Zero} : Data(v) \in Line
    /\ \A v \in Content : Answer(v) \in Reply /\ Sum(v) \in Reply
PROOF
  <1>1. 0 \in Block /\ None \notin Block
    BY DaemonSizes DEF Block, None
  <1> QED
    BY <1>1 DEF Line, Reply, Content, Query, Text, Banner, ACK, Get, Put, Data, Answer, Sum

(* What is left of a sequence when its first element is taken.             *)
LEMMA TailOf ==
    ASSUME NEW S, NEW s \in Seq(S), s # <<>>
    PROVE  /\ Head(s) = s[1] /\ s[1] \in S /\ Len(s) \in Nat \ {0}
           /\ Tail(s) \in Seq(S) /\ Len(Tail(s)) = Len(s) - 1
           /\ \A i \in 1 .. Len(s) - 1 : Tail(s)[i] = s[i + 1]
PROOF
  OBVIOUS

LEMMA Appended ==
    ASSUME NEW S, NEW s \in Seq(S), NEW m \in S
    PROVE  /\ s \o <<m>> \in Seq(S) /\ Len(s) \in Nat /\ Len(s \o <<m>>) = Len(s) + 1
           /\ (s \o <<m>>)[Len(s) + 1] = m
           /\ \A i \in 1 .. Len(s) : (s \o <<m>>)[i] = s[i]
PROOF
  OBVIOUS

(* The daemon takes a line, and waits for data if that announces any.      *)
LEMMA LineTaken ==
    ASSUME Types, Stream, toDaemon # <<>>, toDaemon' = Tail(toDaemon),
           daemon' = "data" <=> daemon # "data" /\ toDaemon[1].kind = "W"
    PROVE  /\ Stream' /\ toDaemon' \in Seq(Line)
           /\ (Announced' => Announced) /\ (Served => Served')
PROOF
  <1>0. PICK n : n = Len(toDaemon)
    OBVIOUS
  <1>1. /\ n \in Nat \ {0} /\ toDaemon' \in Seq(Line) /\ Len(toDaemon') = n - 1
        /\ \A i \in 1 .. n - 1 : toDaemon'[i] = toDaemon[i + 1]
    BY <1>0, TailOf DEF Types
  <1>2. \A i \in 2 .. n : toDaemon[i].kind = "data" => toDaemon[i - 1].kind = "W" /\ ~Awaited(i - 1)
    BY <1>0 DEF Stream
  <1>3. Served => toDaemon[n].kind = "W" /\ ~Awaited(n)
    BY <1>0, <1>1 DEF Served, Announced
  <1>4. Announced <=> toDaemon[n].kind = "W"
    BY <1>0, <1>1 DEF Announced
  <1>5. /\ Announced' <=> IF n - 1 = 0 THEN daemon' = "data" ELSE toDaemon'[n - 1].kind = "W"
        /\ Served' <=> Announced' /\ (n - 1 > 0 => ~Awaited(n - 1)')
    BY <1>1 DEF Announced, Served
  <1>6. ASSUME NEW i \in 1 .. n - 1, ~Awaited(i + 1) PROVE ~Awaited(i)'
    <2>1. i + 1 # 1 /\ i + 1 - 1 = i /\ toDaemon[i].kind # "W"
      BY <1>1, <1>6 DEF Awaited
    <2>2. CASE i = 1
      BY <2>1, <2>2 DEF Awaited
    <2>3. CASE i # 1
      <3>1. i - 1 \in 1 .. n - 1 /\ i - 1 + 1 = i
        BY <1>1, <2>3
      <3> QED
        BY <1>1, <2>1, <2>3, <3>1 DEF Awaited
    <2> QED
      BY <2>2, <2>3
  <1>7. \A i \in 2 .. n - 1 :
          toDaemon'[i].kind = "data" => toDaemon'[i - 1].kind = "W" /\ ~Awaited(i - 1)'
    <2>1. TAKE i \in 2 .. n - 1
    <2>2. /\ i + 1 \in 2 .. n /\ i \in 1 .. n - 1 /\ i - 1 \in 1 .. n - 1
          /\ i - 1 + 1 = i /\ i + 1 - 1 = i
      BY <1>1
    <2>3. toDaemon'[i] = toDaemon[i + 1] /\ toDaemon'[i - 1] = toDaemon[i]
      BY <1>1, <2>2
    <2>4. toDaemon[i + 1].kind = "data" => toDaemon[i].kind = "W" /\ ~Awaited(i - 1 + 1)
      BY <1>2, <2>2
    <2> QED
      BY <1>6, <2>2, <2>3, <2>4
  <1>8. n - 1 > 0 /\ toDaemon'[1].kind = "data" => daemon' = "data"
    <2>1. SUFFICES ASSUME n - 1 > 0, toDaemon'[1].kind = "data" PROVE daemon' = "data"
      OBVIOUS
    <2>2. 1 \in 1 .. n - 1 /\ 2 \in 2 .. n /\ toDaemon'[1] = toDaemon[2] /\ 2 - 1 = 1
      BY <1>1, <2>1
    <2>3. toDaemon[1].kind = "W" /\ ~Awaited(1)
      BY <1>2, <2>1, <2>2
    <2> QED
      BY <2>3 DEF Awaited
  <1>9. Announced' => Announced
    <2>1. CASE n = 1
      BY <1>4, <1>5, <2>1
    <2>2. CASE n > 1
      <3>1. n - 1 \in 1 .. n - 1 /\ toDaemon'[n - 1] = toDaemon[n] /\ n - 1 # 0
        BY <1>1, <2>2
      <3> QED
        BY <1>4, <1>5, <3>1
    <2> QED
      BY <1>1, <2>1, <2>2
  <1>10. Served => Served'
    <2>1. CASE n = 1
      BY <1>3, <1>5, <2>1 DEF Awaited
    <2>2. CASE n > 1
      <3>1. n - 1 \in 1 .. n - 1 /\ toDaemon'[n - 1] = toDaemon[n] /\ n - 1 # 0 /\ n - 1 + 1 = n
        BY <1>1, <2>2
      <3> QED
        BY <1>3, <1>5, <1>6, <3>1
    <2> QED
      BY <1>1, <2>1, <2>2
  <1> QED
    BY <1>1, <1>7, <1>8, <1>9, <1>10 DEF Stream

(* The driver sends a line.                                                *)
LEMMA LineSent ==
    ASSUME Types, Stream, NEW m \in Line, toDaemon' = toDaemon \o <<m>>, daemon' = daemon,
           m.kind = "data" => Served
    PROVE  /\ Stream' /\ toDaemon' \in Seq(Line)
           /\ (Announced' <=> m.kind = "W") /\ (Served' <=> m.kind = "W" /\ ~Announced)
PROOF
  <1>0. PICK n : n = Len(toDaemon)
    OBVIOUS
  <1>1. /\ n \in Nat /\ toDaemon' \in Seq(Line) /\ Len(toDaemon') = n + 1
        /\ toDaemon'[n + 1] = m /\ \A i \in 1 .. n : toDaemon'[i] = toDaemon[i]
    BY <1>0, Appended DEF Types
  <1>2. \A i \in 2 .. n : toDaemon[i].kind = "data" => toDaemon[i - 1].kind = "W" /\ ~Awaited(i - 1)
    BY <1>0 DEF Stream
  <1>3. /\ n > 0 => (Announced <=> toDaemon[n].kind = "W")
        /\ n = 0 => (Announced <=> daemon = "data")
        /\ Served => Announced /\ (n > 0 => ~Awaited(n))
    BY <1>0, <1>1 DEF Announced, Served
  <1>4. n > 0 /\ toDaemon[1].kind = "data" => daemon \in {"data", "dead"}
    BY <1>0 DEF Stream
  <1>5. /\ Announced' <=> m.kind = "W"
        /\ Served' <=> Announced' /\ ~Awaited(n + 1)'
    BY <1>1 DEF Announced, Served
  <1>6. ASSUME NEW i \in 1 .. n PROVE Awaited(i)' <=> Awaited(i)
    <2>1. i # 1 => i - 1 \in 1 .. n
      BY <1>1
    <2> QED
      BY <1>1, <2>1 DEF Awaited
  <1>7. Awaited(n + 1)' <=> Announced
    <2>1. n > 0 => n + 1 # 1 /\ n + 1 - 1 = n /\ n \in 1 .. n
      BY <1>1
    <2> QED
      BY <1>1, <1>3, <2>1 DEF Awaited
  <1>8. \A i \in 2 .. n + 1 :
          toDaemon'[i].kind = "data" => toDaemon'[i - 1].kind = "W" /\ ~Awaited(i - 1)'
    <2>1. TAKE i \in 2 .. n + 1
    <2>2. CASE i = n + 1
      <3>1. n > 0 /\ i - 1 = n /\ n \in 1 .. n /\ toDaemon'[i] = m /\ toDaemon'[i - 1] = toDaemon[n]
        BY <1>1, <2>2
      <3> QED
        BY <1>3, <1>6, <3>1
    <2>3. CASE i # n + 1
      <3>1. /\ i \in 2 .. n /\ i - 1 \in 1 .. n
            /\ toDaemon'[i] = toDaemon[i] /\ toDaemon'[i - 1] = toDaemon[i - 1]
        BY <1>1, <2>3
      <3> QED
        BY <1>2, <1>6, <3>1
    <2> QED
      BY <2>2, <2>3
  <1>9. toDaemon'[1].kind = "data" => daemon' \in {"data", "dead"}
    <2>1. CASE n = 0
      BY <1>1, <1>3, <2>1
    <2>2. CASE n > 0
      BY <1>1, <1>4, <2>2
    <2> QED
      BY <1>1, <2>1, <2>2
  <1> QED
    BY <1>1, <1>5, <1>7, <1>8, <1>9 DEF Stream

(* A step that leaves the pipe alone, and does not begin or end the wait    *)
(* for data unless the daemon and the console end with it.                 *)
LEMMA PipeKept ==
    ASSUME Stream, UNCHANGED toDaemon, console' => console,
           \/ daemon' = daemon
           \/ daemon \notin {"data", "dead"} /\ daemon' # "data"
           \/ daemon' = "dead" /\ ~console'
    PROVE  Stream' /\ (console' => (Announced' <=> Announced) /\ (Served' <=> Served))
PROOF
  <1>1. \A i : Awaited(i)' => Awaited(i)
    BY DEF Awaited
  <1>2. console' => \A i : Awaited(i)' <=> Awaited(i)
    BY DEF Awaited
  <1> QED
    BY <1>1, <1>2 DEF Stream, Announced, Served

(* What a flush sends, if the console still runs. *)
LEMMA Flushed ==
    ASSUME Types, NEW m \in Seq(Reply), NEW next, Send(m, next)
    PROVE  /\ toDriver' \in Seq(Reply)
           /\ \/ (console \/ m = <<>>) /\ daemon' = next /\ toDriver' = toDriver \o m
              \/ ~console /\ daemon' = "dead" /\ toDriver' = toDriver
PROOF
  <1>1. toDriver \in Seq(Reply) /\ toDriver \o m \in Seq(Reply)
    BY DEF Types
  <1>2. CASE console \/ m = <<>>
    BY <1>1, <1>2 DEF Send
  <1>3. CASE ~(console \/ m = <<>>)
    BY <1>1, <1>3 DEF Send
  <1> QED
    BY <1>2, <1>3

LEMMA Single == ASSUME NEW S, NEW m \in S PROVE <<m>> \in Seq(S) /\ Len(<<m>>) = 1
PROOF
  OBVIOUS

(* A sequence of one element at most, and what it adds to another. *)
LEMMA AtMostOne ==
    ASSUME NEW S, NEW s \in Seq(S), Len(s) <= 1
    PROVE  (s = <<>> /\ Len(s) = 0) \/ (Len(s) = 1 /\ s[1] \in S)
PROOF
  <1> DEFINE n == Len(s)
  <1>1. n \in Nat /\ n <= 1 /\ s \in [1 .. n -> S]
    BY LenProperties
  <1>2. s # <<>> => n \in Nat \ {0}
    BY TailOf
  <1>3. s = <<>> => n = 0
    OBVIOUS
  <1> HIDE DEF n
  <1>4. s # <<>> => n = 1 /\ 1 \in 1 .. n
    BY <1>1, <1>2
  <1> QED
    BY <1>1, <1>3, <1>4 DEF n

LEMMA AppendedOne ==
    ASSUME NEW S, NEW s \in Seq(S), NEW t \in Seq(S), Len(t) = 1
    PROVE  /\ Len(s) \in Nat /\ Len(s \o t) = Len(s) + 1
           /\ (s \o t)[Len(s) + 1] = t[1]
           /\ \A i \in 1 .. Len(s) : (s \o t)[i] = s[i]
PROOF
  <1> DEFINE n == Len(s)
             st == s \o t
  <1>1. /\ n \in Nat /\ Len(st) = n + 1
        /\ \A i \in 1 .. n + 1 : st[i] = IF i <= n THEN s[i] ELSE t[i - n]
    BY ConcatProperties, LenProperties
  <1> HIDE DEF n, st
  <1>2. n + 1 \in 1 .. n + 1 /\ ~(n + 1 <= n) /\ n + 1 - n = 1
        /\ \A i \in 1 .. n : i \in 1 .. n + 1 /\ i <= n
    BY <1>1
  <1>3. st[n + 1] = t[1] /\ \A i \in 1 .. n : st[i] = s[i]
    BY <1>1, <1>2
  <1> QED
    BY <1>1, <1>3 DEF n, st

LEMMA KeptInit == ASSUME Init PROVE Kept
PROOF
  <1>1. Types
    <2>1. driver \in [at : {"down", "asked", "ready", "reading", "sending", "writing", "lost"},
                      block : Block, data : Val \cup {Zero}, tries : 0 .. DOPEN_RETRY]
      BY Messages, DaemonSizes DEF Init, Down
    <2>2. datafile \in [block : Block \cup {None}, data : Content] /\ line \in Line
      BY Messages DEF Init, NoWrite, Content
    <2>3. outfile \in Seq(Reply) /\ Len(outfile) <= 1 /\ toDaemon \in Seq(Line)
          /\ toDriver \in Seq(Reply)
      BY DEF Init
    <2>4. console \in BOOLEAN /\ stale \in BOOLEAN /\ right \in BOOLEAN
      BY Zenon DEF Init
    <2>5. /\ tries \in 0 .. MAXTRIES /\ file \in [Block -> Content]
          /\ confirmed \in [Block -> Val \cup {Zero, None}]
      BY DaemonSizes DEF Init, Content
    <2>6. ending \in {0, 3} /\ daemon = "start"
      BY DEF Init
    <2> QED
      BY <2>1, <2>2, <2>3, <2>4, <2>5, <2>6 DEF Types
  <1>2. Len(toDaemon) = 0 /\ Len(toDriver) = 0 /\ driver.at = "down" /\ daemon = "start"
    BY DEF Init, Down
  <1>3. Stream /\ Sender /\ Greeting
    BY <1>2 DEF Stream, Sender, Announced, Served, Greeting
  <1>4. line.kind # "data"
    BY DEF Init, Text
  <1> QED
    BY <1>1, <1>3, <1>4 DEF Kept

(* main() fills the file, and greets or gives up.                          *)
LEMMA StartKeeps ==
    ASSUME Kept, (\E size \in 0 .. BLOCKNUM : Open(size)) \/ Greet \/ GiveUp
    PROVE  Kept'
PROOF
  <1>0. Types /\ Stream /\ Sender /\ Greeting /\ line.kind # "data"
    BY DEF Kept
  <1>1. ASSUME NEW size \in 0 .. BLOCKNUM, Open(size) PROVE Kept'
    <2>1. daemon = "start" /\ daemon' = "greet"
          /\ UNCHANGED <<ending, tries, line, outfile, datafile, wires, driver, history, bounds>>
      BY <1>1 DEF Open
    <2>2. file' \in [Block -> Content]
      <3>1. PICK old \in [0 .. size - 1 -> Val] :
              file' = [b \in Block |-> IF b < size THEN old[b]
                                       ELSE IF b = BLOCKNUM - 1 THEN Junk ELSE Zero]
        BY <1>1 DEF Open
      <3>2. \A b \in Block : b < size => b \in 0 .. size - 1
        BY DaemonSizes DEF Block
      <3> QED
        BY <3>1, <3>2 DEF Content
    <2>3. Types'
      BY <1>0, <2>1, <2>2 DEF Types, wires, history
    <2>4. Stream' /\ Sender'
      BY <1>0, <2>1, PipeKept DEF Sender, wires
    <2>5. Greeting'
      BY <1>0, <2>1 DEF Greeting, wires
    <2> QED
      BY <1>0, <2>1, <2>3, <2>4, <2>5 DEF Kept
  <1>2. CASE Greet
    <2>1. /\ daemon = "greet" /\ tries' = tries + 1 /\ tries < MAXTRIES /\ Send(<<Banner>>, "hello")
          /\ UNCHANGED <<ending, line, outfile, datafile, file, toDaemon, console, driver,
                         history, bounds>>
      BY <1>2 DEF Greet
    <2>2. /\ toDriver' \in Seq(Reply)
          /\ \/ console /\ daemon' = "hello" /\ toDriver' = toDriver \o <<Banner>>
             \/ ~console /\ daemon' = "dead" /\ toDriver' = toDriver
      <3>1. <<Banner>> \in Seq(Reply) /\ <<Banner>> # <<>>
        BY Messages, Single
      <3> QED
        BY <1>0, <2>1, <3>1, Flushed
    <2>3. tries' \in 0 .. MAXTRIES
      BY <1>0, <2>1, DaemonSizes DEF Types
    <2>4. Types'
      BY <1>0, <2>1, <2>2, <2>3 DEF Types, history
    <2>5. Stream' /\ Sender'
      BY <1>0, <2>1, <2>2, PipeKept DEF Sender
    <2>6. Greeting'
      <3>1. \A i \in 1 .. Len(toDriver') : toDriver'[i].kind # "ack"
        <4>1. \A i \in 1 .. Len(toDriver) : toDriver[i].kind # "ack"
          BY <1>0, <2>1 DEF Greeting
        <4>2. Banner.kind # "ack"
          BY DEF Banner
        <4>3. toDriver' = toDriver \o <<Banner>> =>
                /\ Len(toDriver) \in Nat /\ Len(toDriver') = Len(toDriver) + 1
                /\ toDriver'[Len(toDriver) + 1] = Banner
                /\ \A i \in 1 .. Len(toDriver) : toDriver'[i] = toDriver[i]
          BY <1>0, Appended, Messages DEF Types
        <4>4. \A i \in 1 .. Len(toDriver') : i \in 1 .. Len(toDriver) \/ i = Len(toDriver) + 1
                                             \/ toDriver' = toDriver
          BY <2>2, <4>3
        <4> QED
          BY <2>2, <4>1, <4>2, <4>3, <4>4
      <3> QED
        BY <1>0, <2>1, <3>1 DEF Greeting
    <2> QED
      BY <1>0, <2>1, <2>4, <2>5, <2>6 DEF Kept
  <1>3. CASE GiveUp
    <2>1. /\ daemon = "greet" /\ daemon' = "quit" /\ console' = FALSE
          /\ UNCHANGED <<ending, tries, line, outfile, datafile, file, toDaemon, toDriver,
                         driver, history>>
      BY <1>3 DEF GiveUp
    <2>2. Types'
      <3>1. console' \in BOOLEAN
        BY <2>1, Zenon
      <3> QED
        BY <1>0, <2>1, <3>1 DEF Types, history
    <2>3. Stream' /\ Sender' /\ Greeting'
      BY <1>0, <2>1, PipeKept DEF Sender, Greeting
    <2> QED
      BY <1>0, <2>1, <2>2, <2>3 DEF Kept
  <1> QED
    BY <1>1, <1>2, <1>3

(* The daemon reads a line: a query to begin with, or a request.           *)
LEMMA ReadLineKeeps == ASSUME Kept, Hello \/ Serve PROVE Kept'
PROOF
  <1>0. Types /\ Stream /\ Sender /\ Greeting /\ line.kind # "data"
    BY DEF Kept
  <1>1. /\ UNCHANGED <<ending, tries, datafile, file, console, driver, history, bounds>>
        /\ toDaemon # <<>> \/ ~console
        /\ IF toDaemon = <<>> THEN line' = line /\ toDaemon' = toDaemon
                              ELSE line' = Head(toDaemon) /\ toDaemon' = Tail(toDaemon)
    BY DEF Hello, Serve, Fgets
  <1>2. toDaemon # <<>> => /\ Head(toDaemon) = toDaemon[1] /\ toDaemon[1] \in Line
                          /\ Len(toDaemon) \in Nat \ {0}
    BY <1>0, TailOf DEF Types
  <1>3. daemon \in {"hello", "serve"}
    BY DEF Hello, Serve, Fgets
  <1>4. line' \in Line /\ line'.kind # "data"
    <2>1. toDaemon # <<>> => toDaemon[1].kind # "data"
      BY <1>0, <1>2, <1>3 DEF Stream
    <2> QED
      BY <1>0, <1>1, <1>2, <2>1 DEF Types
  <1>5. CASE Hello
    <2>1. /\ daemon = "hello" /\ UNCHANGED outfile
          /\ IF line'.kind = "query" THEN Send(<<ACK>>, "serve")
                                     ELSE daemon' = "greet" /\ UNCHANGED toDriver
      BY <1>5 DEF Hello, Fgets
    <2>2. /\ toDriver' \in Seq(Reply)
          /\ \/ daemon' = "serve"
             \/ ~console /\ daemon' = "dead"
             \/ daemon' = "greet" /\ UNCHANGED toDriver
      <3>1. <<ACK>> \in Seq(Reply) /\ <<ACK>> # <<>>
        BY Messages, Single
      <3> QED
        BY <1>0, <2>1, <3>1, Flushed DEF Types
    <2>3. /\ toDaemon' \in Seq(Line) /\ Len(toDaemon) \in Nat
          /\ \A i \in 1 .. Len(toDaemon') : toDaemon'[i].kind # "data"
          /\ toDaemon # <<>> => Len(toDaemon') = Len(toDaemon) - 1
      <3>1. CASE toDaemon = <<>>
        BY <1>0, <1>1, <2>1, <3>1 DEF Greeting, Types
      <3>2. CASE toDaemon # <<>>
        <4>1. /\ Len(toDaemon') = Len(toDaemon) - 1 /\ toDaemon' \in Seq(Line)
              /\ \A i \in 1 .. Len(toDaemon) - 1 : toDaemon'[i] = toDaemon[i + 1]
          <5>1. toDaemon \in Seq(Line) /\ toDaemon' = Tail(toDaemon)
            BY <1>0, <1>1, <3>2 DEF Types
          <5> QED
            BY <3>2, <5>1, TailOf
        <4>2. \A i \in 1 .. Len(toDaemon) - 1 : i + 1 \in 1 .. Len(toDaemon)
          BY <1>2, <3>2
        <4> QED
          BY <1>0, <1>2, <2>1, <3>2, <4>1, <4>2 DEF Greeting
      <3> QED
        BY <3>1, <3>2
    <2>4. Stream' /\ (Announced' => Announced)
      <3>1. Stream'
        <4>1. \A i \in 2 .. Len(toDaemon') : i \in 1 .. Len(toDaemon')
          BY <2>3
        <4>2. Len(toDaemon') \in Nat
          BY <2>3
        <4>3. Len(toDaemon') > 0 => 1 \in 1 .. Len(toDaemon')
          BY <4>2
        <4> QED
          BY <2>3, <4>1, <4>3 DEF Stream
      <3>2. daemon' # "data"
        BY <2>2
      <3>3. CASE toDaemon = <<>>
        <4>1. Len(toDaemon') = 0
          BY <1>1, <3>3
        <4> QED
          BY <3>1, <3>2, <4>1 DEF Announced
      <3>4. CASE toDaemon # <<>>
        <4>1. PICK n : n = Len(toDaemon)
          OBVIOUS
        <4>2. toDaemon \in Seq(Line) /\ toDaemon' = Tail(toDaemon)
          BY <1>0, <1>1, <3>4 DEF Types
        <4>3. /\ n \in Nat \ {0} /\ Len(toDaemon') = n - 1
              /\ \A i \in 1 .. n - 1 : toDaemon'[i] = toDaemon[i + 1]
          BY <3>4, <4>1, <4>2, TailOf
        <4>4. n - 1 = 0 \/ toDaemon'[n - 1] = toDaemon[n]
          <5>1. n - 1 # 0 => n - 1 \in 1 .. n - 1 /\ n - 1 + 1 = n
            BY <4>3
          <5> QED
            BY <4>3, <5>1
        <4>5. Announced' => n - 1 # 0 /\ toDaemon'[n - 1].kind = "W"
          BY <3>2, <4>3 DEF Announced
        <4>6. Announced <=> toDaemon[n].kind = "W"
          BY <4>1, <4>3 DEF Announced
        <4> QED
          BY <3>1, <4>4, <4>5, <4>6
      <3> QED
        BY <3>1, <3>3, <3>4
    <2>5. Types'
      BY <1>0, <1>1, <1>4, <2>1, <2>2, <2>3 DEF Types, history
    <2>6. Sender'
      BY <1>0, <1>1, <2>1, <2>4 DEF Sender, Greeting
    <2>7. Greeting'
      <3>1. daemon' = "greet" => /\ \A i \in 1 .. Len(toDriver') : toDriver'[i].kind # "ack"
                                 /\ driver'.at \in {"down", "asked"}
        BY <1>0, <1>1, <2>1, <2>2 DEF Greeting
      <3> QED
        BY <2>2, <2>3, <3>1 DEF Greeting
    <2> QED
      BY <1>4, <2>4, <2>5, <2>6, <2>7 DEF Kept
  <1>6. CASE Serve
    <2>1. /\ daemon = "serve" /\ daemon' = IF line'.kind = "W" THEN "data" ELSE "flushOut"
          /\ UNCHANGED toDriver
      BY <1>6 DEF Serve, Fgets
    <2>2. outfile' \in Seq(Reply) /\ Len(outfile') <= 1
      <3>1. file[line'.block] \in Content
        BY <1>0, <1>4 DEF Types, Line
      <3>2. Answer(file[line'.block]) \in Reply
        BY <3>1, Messages
      <3>3. \/ outfile' = <<Answer(file[line'.block])>> \/ outfile' = <<ACK>> \/ outfile' = <<>>
        BY <1>6 DEF Serve
      <3>4. <<Answer(file[line'.block])>> \in Seq(Reply) /\ Len(<<Answer(file[line'.block])>>) = 1
        BY <3>2, Single
      <3>5. <<ACK>> \in Seq(Reply) /\ Len(<<ACK>>) = 1
        BY Messages, Single
      <3>6. <<>> \in Seq(Reply) /\ Len(<<>>) = 0
        OBVIOUS
      <3> DEFINE answer == <<Answer(file[line'.block])>>
      <3> HIDE DEF answer
      <3>7. CASE outfile' = answer
        BY <3>4, <3>7 DEF answer
      <3>8. CASE outfile' = <<ACK>>
        BY <3>5, <3>8
      <3>9. CASE outfile' = <<>>
        BY <3>6, <3>9
      <3> QED
        BY <3>3, <3>7, <3>8, <3>9 DEF answer
    <2>4. /\ Stream' /\ toDaemon' \in Seq(Line)
          /\ console => (Announced' => Announced) /\ (Served => Served')
      <3>1. CASE toDaemon = <<>>
        <4>1. ~console /\ Len(toDaemon) = 0
          BY <1>1, <3>1
        <4> QED
          BY <1>0, <1>1, <3>1, <4>1 DEF Types, Stream
      <3>2. CASE toDaemon # <<>>
        <4>1. daemon' = "data" <=> daemon # "data" /\ toDaemon[1].kind = "W"
          BY <1>1, <1>2, <2>1, <3>2
        <4> QED
          BY <1>0, <1>1, <3>2, <4>1, LineTaken
      <3> QED
        BY <3>1, <3>2
    <2>5. Types'
      BY <1>0, <1>1, <1>4, <2>1, <2>2, <2>4 DEF Types, history
    <2>6. Sender'
      BY <1>0, <1>1, <2>4 DEF Sender
    <2>7. Greeting'
      BY <2>1 DEF Greeting
    <2> QED
      BY <1>4, <2>4, <2>5, <2>6, <2>7 DEF Kept
  <1> QED
    BY <1>5, <1>6

(* The data of a write and the two flushes. *)
LEMMA WriteKeeps == ASSUME Kept, WriteBlock \/ FlushOut \/ FlushData PROVE Kept'
PROOF
  <1>0. Types /\ Stream /\ Sender /\ Greeting /\ line.kind # "data"
    BY DEF Kept
  <1>1. UNCHANGED <<ending, tries, line, console, driver>>
    BY DEF WriteBlock, FlushOut, FlushData, wires
  <1>2. CASE WriteBlock
    <2> DEFINE m == IF toDaemon = <<>> THEN Text ELSE Head(toDaemon)
               v == IF m.kind = "data" THEN m.data ELSE Junk
    <2>1. /\ daemon = "data" /\ daemon' = "flushOut"
          /\ (toDaemon # <<>> \/ ~console)
          /\ toDaemon' = IF toDaemon = <<>> THEN toDaemon ELSE Tail(toDaemon)
          /\ datafile' = [block |-> line.block, data |-> v] /\ outfile' = <<Sum(v)>>
          /\ UNCHANGED <<file, toDriver, confirmed, stale, right>>
      BY <1>2 DEF WriteBlock, history
    <2>2. toDaemon # <<>> => Head(toDaemon) = toDaemon[1] /\ toDaemon[1] \in Line
                             /\ Len(toDaemon) \in Nat \ {0}
      BY <1>0, TailOf DEF Types
    <2>3. v \in Content
      BY <2>2, Messages DEF Line, Content
    <2> HIDE DEF v
    <2>4. /\ Stream' /\ toDaemon' \in Seq(Line)
          /\ console => (Announced' => Announced) /\ (Served => Served')
      <3>1. CASE toDaemon = <<>>
        BY <1>0, <2>1, <3>1 DEF Types, Stream
      <3>2. CASE toDaemon # <<>>
        BY <1>0, <2>1, <3>2, LineTaken
      <3> QED
        BY <3>1, <3>2
    <2>5. outfile' \in Seq(Reply) /\ Len(outfile') <= 1
      BY <2>1, <2>3, Messages, Single
    <2>6. line.block \in Block
      BY <1>0 DEF Types, Line
    <2>7. datafile' \in [block : Block \cup {None}, data : Content]
      BY <1>0, <2>1, <2>3, <2>6 DEF Types
    <2>8. Types'
      BY <1>0, <1>1, <2>1, <2>4, <2>5, <2>7 DEF Types
    <2>9. Sender' /\ Greeting'
      BY <1>0, <1>1, <2>1, <2>4 DEF Sender, Greeting
    <2> QED
      BY <1>0, <1>1, <2>4, <2>8, <2>9 DEF Kept
  <1>3. CASE FlushOut
    <2>1. /\ daemon = "flushOut" /\ outfile' = <<>> /\ Send(outfile, "flushData")
          /\ UNCHANGED <<datafile, file, toDaemon, confirmed, stale, right>>
      BY <1>3 DEF FlushOut, history
    <2>2. /\ toDriver' \in Seq(Reply)
          /\ (daemon' = "flushData" \/ (~console /\ daemon' = "dead"))
      BY <1>0, <2>1, Flushed DEF Types
    <2>3. Types'
      BY <1>0, <1>1, <2>1, <2>2 DEF Types
    <2>4. Stream' /\ Sender' /\ Greeting'
      BY <1>0, <1>1, <2>1, <2>2, PipeKept DEF Sender, Greeting
    <2> QED
      BY <1>0, <1>1, <2>3, <2>4 DEF Kept
  <1>4. CASE FlushData
    <2>1. /\ daemon = "flushData" /\ daemon' = "serve" /\ datafile' = NoWrite
          /\ file' = [b \in Block |-> IF b = datafile.block THEN datafile.data ELSE file[b]]
          /\ UNCHANGED <<outfile, toDaemon, toDriver, confirmed, stale, right>>
      BY <1>4 DEF FlushData, wires, history
    <2>2. file' \in [Block -> Content] /\ datafile' \in [block : Block \cup {None}, data : Content]
      BY <1>0, <2>1 DEF Types, NoWrite, Content
    <2>3. Types'
      BY <1>0, <1>1, <2>1, <2>2 DEF Types
    <2>4. Stream' /\ Sender' /\ Greeting'
      BY <1>0, <1>1, <2>1, PipeKept DEF Sender, Greeting
    <2> QED
      BY <1>0, <1>1, <2>3, <2>4 DEF Kept
  <1> QED
    BY <1>2, <1>3, <1>4

(* The daemon is killed, or the console program ends. *)
LEMMA EndKeeps == ASSUME Kept, Kill \/ ConsoleEnds PROVE Kept'
PROOF
  <1>0. Types /\ Stream /\ Sender /\ Greeting /\ line.kind # "data"
    BY DEF Kept
  <1>1. /\ console' = FALSE
        /\ (daemon' = daemon \/ daemon' = "dead")
        /\ UNCHANGED <<ending, tries, line, outfile, datafile, file, toDaemon, toDriver, driver,
                       confirmed, stale, right>>
    BY DEF Kill, ConsoleEnds, server, history
  <1>2. console' \in BOOLEAN /\ ~console'
    BY <1>1, Zenon
  <1>3. Types'
    BY <1>0, <1>1, <1>2 DEF Types
  <1>4. Stream'
    BY <1>0, <1>1, PipeKept DEF Kill, ConsoleEnds, server
  <1>5. Sender' /\ Greeting'
    BY <1>0, <1>1, <1>2 DEF Sender, Greeting
  <1> QED
    BY <1>0, <1>1, <1>3, <1>4, <1>5 DEF Kept

(* The driver sends a line, or the console is gone and it is lost.         *)
LEMMA SendKeeps ==
    ASSUME Kept, NEW m \in Line, Transmit(<<m>>),
           UNCHANGED <<ending, server, toDriver, console, stale, right>>,
           confirmed' \in [Block -> Val \cup {Zero, None}],
           driver' \in [at : {"down", "asked", "ready", "reading", "sending", "writing", "lost"},
                        block : Block, data : Val \cup {Zero}, tries : 0 .. DOPEN_RETRY],
           m.kind = "data" => driver.at = "sending",
           driver'.at = "sending" => m.kind = "W" /\ driver.at = "ready",
           m.kind = "W" => driver'.at \in {"sending", "down"},
           driver'.at \notin {"down", "asked"} => driver.at \notin {"down", "asked"},
           driver'.at \in {"down", "asked"} => m.kind # "data"
    PROVE  Kept'
PROOF
  <1>0. Types /\ Stream /\ Sender /\ Greeting /\ line.kind # "data"
    BY DEF Kept
  <1>1. UNCHANGED <<daemon, tries, line, outfile, datafile, file>>
    BY DEF server
  <1>2. CASE console
    <2>1. toDaemon' = toDaemon \o <<m>>
      BY <1>2 DEF Transmit
    <2>2. /\ Stream' /\ toDaemon' \in Seq(Line)
          /\ (Announced' <=> m.kind = "W") /\ (Served' <=> m.kind = "W" /\ ~Announced)
      <3>1. m.kind = "data" => Served
        BY <1>0, <1>2 DEF Sender
      <3> QED
        BY <1>0, <1>1, <2>1, <3>1, LineSent
    <2>3. Types' /\ Sender'
      <3>1. driver'.at = "sending" => ~Announced
        BY <1>0, <1>2 DEF Sender
      <3> QED
        BY <1>0, <1>1, <2>2, <3>1 DEF Types, Sender
    <2>4. Greeting'
      <3>1. SUFFICES ASSUME daemon \in {"start", "greet", "hello"} PROVE Greeting'
        BY <1>1 DEF Greeting
      <3>2. driver'.at \in {"down", "asked"} /\ m.kind # "data"
        BY <1>0, <3>1 DEF Greeting
      <3>3. /\ Len(toDaemon) \in Nat /\ Len(toDaemon') = Len(toDaemon) + 1
            /\ toDaemon'[Len(toDaemon) + 1] = m
            /\ \A i \in 1 .. Len(toDaemon) : toDaemon'[i] = toDaemon[i]
        BY <1>0, <2>1, Appended DEF Types
      <3>4. \A i \in 1 .. Len(toDaemon') : i \in 1 .. Len(toDaemon) \/ i = Len(toDaemon) + 1
        BY <3>3
      <3> QED
        BY <1>0, <1>1, <3>1, <3>2, <3>3, <3>4 DEF Greeting
    <2> QED
      BY <1>0, <1>1, <2>2, <2>3, <2>4 DEF Kept
  <1>3. CASE ~console
    <2>1. toDaemon' = toDaemon
      BY <1>3 DEF Transmit
    <2> QED
      BY <1>0, <1>1, <1>3, <2>1 DEF Kept, Types, Stream, Awaited, Sender, Greeting
  <1> QED
    BY <1>2, <1>3

(* The steps of the driver that send. *)
LEMMA DriverSends ==
    ASSUME Kept, Prints \/ Ask \/ SendData \/ User
    PROVE  Kept'
PROOF
  <1>0. Types /\ confirmed \in [Block -> Val \cup {Zero, None}]
    BY DEF Kept, Types
  <1>1. CASE Prints
    <2>1. PICK m \in Line : /\ Transmit(<<m>>) /\ m.kind # "data"
                            /\ confirmed' \in [Block -> Val \cup {Zero, None}]
      <3>1. CASE \E k \in {Text} \cup {Get(b) : b \in Block} : Transmit(<<k>>) /\ UNCHANGED confirmed
        BY <1>0, <3>1, Messages DEF Text, Get
      <3>2. ASSUME NEW b \in Block, Transmit(<<Put(b)>>), confirmed' = [confirmed EXCEPT ![b] = None]
            PROVE  \E m \in Line : /\ Transmit(<<m>>) /\ m.kind # "data"
                                   /\ confirmed' \in [Block -> Val \cup {Zero, None}]
        <4>1. Put(b) \in Line /\ Put(b).kind # "data"
          BY Messages DEF Put
        <4> QED
          BY <1>0, <3>2, <4>1
      <3> QED
        BY <1>1, <3>1, <3>2 DEF Prints
    <2>2. /\ driver.at = "down" /\ driver' = driver
          /\ UNCHANGED <<ending, server, toDriver, console, stale, right>>
      BY <1>1 DEF Prints
    <2>3. driver' \in [at : {"down", "asked", "ready", "reading", "sending", "writing", "lost"},
                       block : Block, data : Val \cup {Zero}, tries : 0 .. DOPEN_RETRY]
      BY <1>0, <2>2 DEF Types
    <2> QED
      BY <1>0, <2>1, <2>2, <2>3, SendKeeps
  <1>2. CASE Ask
    <2>1. /\ driver.at = "down" /\ driver' = [driver EXCEPT !.at = "asked", !.tries = @ + 1]
          /\ driver.tries < DOPEN_RETRY /\ Transmit(<<Query>>)
          /\ UNCHANGED <<ending, server, toDriver, console, history>>
      BY <1>2 DEF Ask
    <2>2. Query.kind = "query" /\ driver'.at = "asked"
      BY <1>0, <2>1 DEF Query, Types
    <2>3. driver' \in [at : {"down", "asked", "ready", "reading", "sending", "writing", "lost"},
                       block : Block, data : Val \cup {Zero}, tries : 0 .. DOPEN_RETRY]
      <3>1. driver.tries + 1 \in 0 .. DOPEN_RETRY
        BY <1>0, <2>1, DaemonSizes DEF Types
      <3> QED
        BY <1>0, <2>1, <3>1 DEF Types
    <2> QED
      BY <1>0, <2>1, <2>2, <2>3, Messages, SendKeeps DEF history
  <1>3. CASE SendData
    <2>1. /\ driver.at = "sending" /\ driver' = [driver EXCEPT !.at = "writing"]
          /\ Transmit(<<Data(driver.data)>>)
          /\ UNCHANGED <<ending, server, toDriver, console, history>>
      BY <1>3 DEF SendData
    <2>2. Data(driver.data) \in Line /\ Data(driver.data).kind = "data" /\ driver'.at = "writing"
      BY <1>0, <2>1, Messages DEF Data, Types
    <2>3. driver' \in [at : {"down", "asked", "ready", "reading", "sending", "writing", "lost"},
                       block : Block, data : Val \cup {Zero}, tries : 0 .. DOPEN_RETRY]
      BY <1>0, <2>1 DEF Types
    <2> QED
      BY <1>0, <2>1, <2>2, <2>3, SendKeeps DEF history
  <1>4. ASSUME NEW b \in Block, ReadRequest(b) PROVE Kept'
    <2>1. /\ driver.at = "ready" /\ driver' = [driver EXCEPT !.at = "reading", !.block = b]
          /\ Transmit(<<Get(b)>>)
          /\ UNCHANGED <<ending, server, toDriver, console, history>>
      BY <1>4 DEF ReadRequest, Request
    <2>2. Get(b) \in Line /\ Get(b).kind = "R" /\ driver'.at = "reading"
      BY <1>0, <2>1, Messages DEF Get, Types
    <2>3. driver' \in [at : {"down", "asked", "ready", "reading", "sending", "writing", "lost"},
                       block : Block, data : Val \cup {Zero}, tries : 0 .. DOPEN_RETRY]
      BY <1>0, <2>1 DEF Types
    <2> QED
      BY <1>0, <2>1, <2>2, <2>3, SendKeeps DEF history
  <1>5. ASSUME NEW b \in Block, NEW v \in Val, WriteRequest(b, v) PROVE Kept'
    <2>1. /\ driver.at = "ready"
          /\ driver' = [driver EXCEPT !.at = "sending", !.block = b, !.data = v]
          /\ Transmit(<<Put(b)>>)
          /\ confirmed' = [confirmed EXCEPT ![b] = None]
          /\ UNCHANGED <<ending, server, toDriver, console, stale, right>>
      BY <1>5 DEF WriteRequest, Request
    <2>2. Put(b) \in Line /\ Put(b).kind = "W" /\ driver'.at = "sending"
      BY <1>0, <2>1, Messages DEF Put, Types
    <2>3. driver' \in [at : {"down", "asked", "ready", "reading", "sending", "writing", "lost"},
                       block : Block, data : Val \cup {Zero}, tries : 0 .. DOPEN_RETRY]
      BY <1>0, <2>1 DEF Types
    <2> QED
      BY <1>0, <2>1, <2>2, <2>3, SendKeeps DEF history
  <1> QED
    BY <1>1, <1>2, <1>3, <1>4, <1>5 DEF User

(* The driver takes what comes, and a restart what has reached the board.  *)
LEMMA DriverTakes ==
    ASSUME Kept, Asked \/ Skip \/ ReadAnswer \/ WriteAnswer \/ Restart
    PROVE  Kept'
PROOF
  <1>0. Types /\ Stream /\ Sender /\ Greeting /\ line.kind # "data"
    BY DEF Kept
  <1>1. UNCHANGED <<ending, daemon, tries, line, outfile, datafile, file, toDaemon, console>>
    BY DEF Asked, Skip, ReadAnswer, WriteAnswer, Restart, server
  <1>2. toDriver' \in Seq(Reply) /\ \A i \in 1 .. Len(toDriver') : \E j \in 1 .. Len(toDriver) :
                                       toDriver'[i] = toDriver[j]
    <2>1. CASE Restart
      <3>1. PICK n \in 0 .. Len(toDriver) : toDriver' = SubSeq(toDriver, n + 1, Len(toDriver))
        BY <2>1 DEF Restart
      <3>2. toDriver \in Seq(Reply) /\ Len(toDriver) \in Nat
        BY <1>0 DEF Types
      <3>3. /\ toDriver' \in Seq(Reply) /\ Len(toDriver') = Len(toDriver) - n
            /\ \A i \in 1 .. Len(toDriver) - n : toDriver'[i] = toDriver[n + i]
        BY <3>1, <3>2
      <3>4. \A i \in 1 .. Len(toDriver) - n : n + i \in 1 .. Len(toDriver)
        BY <3>2
      <3> QED
        BY <3>3, <3>4
    <2>2. CASE toDriver # <<>> /\ toDriver' = Tail(toDriver)
      <3>1. /\ Len(toDriver) \in Nat \ {0} /\ toDriver' \in Seq(Reply)
            /\ Len(toDriver') = Len(toDriver) - 1
            /\ \A i \in 1 .. Len(toDriver) - 1 : toDriver'[i] = toDriver[i + 1]
        BY <1>0, <2>2, TailOf DEF Types
      <3>2. \A i \in 1 .. Len(toDriver) - 1 : i + 1 \in 1 .. Len(toDriver)
        BY <3>1
      <3> QED
        BY <3>1, <3>2
    <2> QED
      BY <2>1, <2>2 DEF Asked, Skip, ReadAnswer, WriteAnswer, Receive
  <1>3. driver' \in [at : {"down", "asked", "ready", "reading", "sending", "writing", "lost"},
                     block : Block, data : Val \cup {Zero}, tries : 0 .. DOPEN_RETRY]
    <2>1. CASE Asked \/ Skip
      BY <1>0, <2>1 DEF Asked, Skip, Types
    <2>2. CASE ReadAnswer
      BY <1>0, <2>2 DEF ReadAnswer, Types
    <2>3. CASE WriteAnswer
      BY <1>0, <2>3 DEF WriteAnswer, Types
    <2>4. CASE Restart
      <3>1. 0 \in Block /\ 0 \in 0 .. DOPEN_RETRY
        BY Messages, DaemonSizes
      <3>2. driver' = [at |-> "down", block |-> 0, data |-> Zero, tries |-> 0]
        BY <2>4 DEF Restart, Down
      <3> QED
        BY <3>1, <3>2
    <2> QED
      BY <2>1, <2>2, <2>3, <2>4
  <1>4. driver'.at = driver.at \/ (driver.at # "sending" /\ driver'.at # "sending") \/ driver'.at = "down"
    BY <1>0 DEF Asked, Skip, ReadAnswer, WriteAnswer, Restart, Down, Types
  <1>5. Types'
    <2>1. confirmed' \in [Block -> Val \cup {Zero, None}]
      BY <1>0 DEF Asked, Skip, ReadAnswer, WriteAnswer, Restart, history, Types
    <2>2. stale' \in BOOLEAN /\ right' \in BOOLEAN
      BY <1>0, Zenon DEF Asked, Skip, ReadAnswer, WriteAnswer, Restart, history, Types
    <2> QED
      BY <1>0, <1>1, <1>2, <1>3, <2>1, <2>2 DEF Types
  <1>6. Stream' /\ (console => (Announced' <=> Announced) /\ (Served' <=> Served))
    BY <1>0, <1>1, PipeKept
  <1>7. Sender'
    <2>1. Announced /\ console => driver'.at \in {"sending", "down"}
      <3>1. driver.at \in {"asked", "reading", "writing"} \/ driver' = Down
        BY DEF Asked, Skip, ReadAnswer, WriteAnswer, Restart
      <3> QED
        BY <1>0, <3>1 DEF Sender, Down
    <2>2. driver'.at = "sending" => driver.at = "sending"
      BY <1>4
    <2> QED
      BY <1>0, <1>1, <1>6, <2>1, <2>2 DEF Sender
  <1>8. Greeting'
    <2>1. SUFFICES ASSUME daemon \in {"start", "greet", "hello"} PROVE Greeting'
      BY <1>1 DEF Greeting
    <2>2. \A i \in 1 .. Len(toDriver') : toDriver'[i].kind # "ack"
      BY <1>0, <1>2, <2>1 DEF Greeting
    <2>3. driver'.at \in {"down", "asked"}
      <3>1. CASE Asked
        <4>1. toDriver # <<>> /\ driver' = [driver EXCEPT !.at = IF Head(toDriver) = ACK THEN "ready" ELSE "down"]
          BY <3>1 DEF Asked, Receive
        <4>2. Head(toDriver) = toDriver[1] /\ 1 \in 1 .. Len(toDriver)
          BY <1>0, <4>1, TailOf DEF Types
        <4>3. Head(toDriver) # ACK
          BY <1>0, <2>1, <4>2 DEF Greeting, ACK
        <4> QED
          BY <1>0, <4>1, <4>3 DEF Types
      <3> QED
        BY <1>0, <2>1, <3>1 DEF Greeting, Skip, ReadAnswer, WriteAnswer, Restart, Down
    <2> QED
      BY <1>0, <1>1, <2>1, <2>2, <2>3 DEF Greeting
  <1> QED
    BY <1>0, <1>1, <1>5, <1>6, <1>7, <1>8 DEF Kept

(* Every step keeps the invariant. *)
LEMMA KeptStep == ASSUME Kept, [Next]_vars PROVE Kept'
PROOF
  <1>1. CASE UNCHANGED vars
    BY <1>1 DEF vars, server, wires, history, Kept, Types, Stream, Awaited, Sender, Announced, Served,
                Greeting
  <1> QED
    BY <1>1, StartKeeps, ReadLineKeeps, WriteKeeps, EndKeeps, DriverSends, DriverTakes
       DEF Next, Daemon, Driver

LEMMA Invariant == Spec => []Kept
PROOF
  BY KeptInit, KeptStep, PTL DEF Spec

------------------------------------------------------------------------------
(* Between the driver and the file: what is confirmed is stored, and an open *)
(* driver has one request under way at most, whose answer is the right one.  *)

(* The data of a write waits for its flush, which comes while the daemon    *)
(* still runs, and after the answer was sent if there is one.               *)
Flushing == daemon = "flushData" \/ (daemon = "flushOut" /\ (console \/ outfile = << >>))
(* Block b has v in the file, or will have, or would have but for a kill.   *)
Holds(b, v) == \/ datafile = [block |-> b, data |-> v]
               \/ file[b] = v /\ (datafile.block = b => ~Flushing)

Buffers ==
    /\ daemon \notin {"flushOut", "dead", "quit"} => outfile = << >>
    /\ daemon \notin {"flushOut", "flushData", "dead", "quit"} => datafile = NoWrite

(* A write under way is of a block that is not confirmed. *)
Unconfirmed ==
    ~stale /\ console =>
        /\ \A i \in 1 .. Len(toDaemon) :
            toDaemon[i].kind = "W" => confirmed[toDaemon[i].block] = None
        /\ daemon = "data" => confirmed[line.block] = None

Stored == ~stale => \A b \in Block : confirmed[b] # None => Holds(b, confirmed[b])

(* The driver is open, by an answer to its own query. *)
IsOpen == driver.at \in {"ready", "reading", "sending", "writing"} /\ ~stale

IsAnswer(m)  == m.kind \in {"block", "sum"}
IsRequest(m) == m.kind \in {"R", "W"}

(* An answer that the driver will accept. *)
Right(m) ==
    \/ /\ driver.at = "reading" /\ m.kind = "block"
       /\ confirmed[driver.block] \in {None, m.data}
    \/ /\ driver.at = "writing" /\ m.kind = "sum" /\ m.data = driver.data
       /\ Holds(driver.block, driver.data)

(* What has been sent to an open driver: one answer at most, to its request. *)
Arrived ==
    IsOpen =>
        \A i \in 1 .. Len(toDriver) : IsAnswer(toDriver[i]) =>
            /\ Right(toDriver[i])
            /\ \A j \in 1 .. Len(toDriver) : IsAnswer(toDriver[j]) => j = i

(* The one request of an open driver, on its way to the daemon. *)
Pending(i) ==
    /\ toDaemon[i].block = driver.block
    /\ \/ driver.at = "reading" /\ toDaemon[i].kind = "R"
       \/ driver.at \in {"sending", "writing"} /\ toDaemon[i].kind = "W"
    /\ driver.at = "writing" => i < Len(toDaemon) /\ toDaemon[i + 1] = Data(driver.data)
    /\ \A j \in 1 .. Len(toDaemon) : IsRequest(toDaemon[j]) => j = i

(* What is to come: the request, the wait for the data, or the answer.     *)
Answering == \E i \in 1 .. Len(outfile) : IsAnswer(outfile[i])
Arriving  == \E i \in 1 .. Len(toDriver) : IsAnswer(toDriver[i])
Coming ==
    IsOpen /\ console =>
        /\ Arriving => ~Answering /\ daemon # "data"
        /\ \A i \in 1 .. Len(outfile) : IsAnswer(outfile[i]) => Right(outfile[i])
        /\ daemon = "data" =>
            /\ driver.at \in {"sending", "writing"} /\ line.block = driver.block
            /\ driver.at = "writing" => toDaemon # << >> /\ toDaemon[1] = Data(driver.data)
        /\ \A i \in 1 .. Len(toDaemon) : IsRequest(toDaemon[i]) =>
            ~Arriving /\ ~Answering /\ daemon # "data" /\ Pending(i)

(* Nothing is confirmed before the daemon serves. *)
Untold == daemon \in {"start", "greet", "hello"} => \A b \in Block : confirmed[b] = None

Known == Buffers /\ Untold /\ Unconfirmed /\ Stored /\ Arrived /\ Coming /\ ReadsRight

LEMMA LineAt == ASSUME NEW s \in Seq(Line) PROVE \A i \in 1 .. Len(s) : s[i].block \in Block
PROOF
  <1>1. \A i \in 1 .. Len(s) : s[i] \in Line
    OBVIOUS
  <1>2. \A m \in Line : m.block \in Block
    BY DEF Line
  <1> QED
    BY <1>1, <1>2

LEMMA KnownInit == ASSUME Init PROVE Known
PROOF
  <1>1. /\ outfile = <<>> /\ datafile = NoWrite /\ daemon = "start" /\ driver.at = "down"
        /\ toDaemon = <<>> /\ ~stale /\ right /\ \A b \in Block : confirmed[b] = None
    BY DEF Init, Down
  <1>2. Len(toDaemon) = 0
    BY <1>1
  <1>3. Buffers /\ Untold /\ Unconfirmed /\ Stored /\ ReadsRight
    BY <1>1, <1>2 DEF Buffers, Untold, Unconfirmed, Stored, ReadsRight
  <1>4. Arrived /\ Coming
    BY <1>1 DEF Arrived, Coming, IsOpen
  <1> QED
    BY <1>3, <1>4 DEF Known

(* Before the driver is open. *)
LEMMA NotOpen ==
    ASSUME driver'.at \notin {"ready", "reading", "sending", "writing"}
    PROVE  Arrived' /\ Coming'
PROOF
  BY DEF Arrived, Coming, IsOpen

(* With no write waiting, what a block holds is what is in the file.       *)
LEMMA HeldInFile ==
    ASSUME datafile = NoWrite, datafile' = datafile, file' = file, NEW b \in Block, NEW v
    PROVE  /\ Holds(b, v) <=> file[b] = v
           /\ Holds(b, v)' <=> file[b] = v
PROOF
  BY Messages DEF Holds, NoWrite

(* What has arrived stays right while its block holds what it held.        *)
LEMMA ArrivedStays ==
    ASSUME Arrived, UNCHANGED <<toDriver, driver, confirmed, stale>>,
           IsOpen => (Holds(driver.block, driver.data) => Holds(driver.block, driver.data)')
    PROVE  Arrived'
PROOF
  BY DEF Arrived, IsOpen, Right

LEMMA StartKnows ==
    ASSUME Kept, Kept', Known, (\E size \in 0 .. BLOCKNUM : Open(size)) \/ Greet \/ GiveUp \/ Hello
    PROVE  Known'
PROOF
  <1>0. Types' /\ Greeting /\ Buffers /\ Untold /\ ReadsRight
    BY DEF Kept, Known
  <1>1. /\ daemon \in {"start", "greet", "hello"}
        /\ UNCHANGED <<outfile, datafile, driver, confirmed, stale, right>>
    BY DEF Open, Greet, GiveUp, Hello, Fgets, history
  <1>2. daemon' \in {"greet", "hello", "serve", "dead", "quit"}
    BY DEF Open, Greet, GiveUp, Hello, Send
  <1>3. \A b \in Block : confirmed'[b] = None
    BY <1>0, <1>1 DEF Untold
  <1>4. Buffers' /\ Untold' /\ Stored' /\ ReadsRight'
    BY <1>0, <1>1, <1>2, <1>3 DEF Buffers, Untold, Stored, ReadsRight
  <1>5. Unconfirmed'
    <2>1. \A i \in 1 .. Len(toDaemon') : toDaemon'[i].block \in Block
      BY <1>0, LineAt DEF Types
    <2>2. line'.block \in Block
      BY <1>0 DEF Types, Line
    <2> QED
      BY <1>3, <2>1, <2>2 DEF Unconfirmed
  <1>6. Arrived' /\ Coming'
    BY <1>0, <1>1, NotOpen DEF Greeting
  <1> QED
    BY <1>4, <1>5, <1>6 DEF Known

(* The line the daemon takes leaves the others as they were.                *)
LEMMA LinesLeft ==
    ASSUME Types, toDaemon # <<>>, toDaemon' = Tail(toDaemon)
    PROVE  /\ Len(toDaemon) \in Nat \ {0} /\ 1 \in 1 .. Len(toDaemon) /\ Head(toDaemon) = toDaemon[1]
           /\ toDaemon[1] \in Line /\ Len(toDaemon') = Len(toDaemon) - 1
           /\ \A i \in 1 .. Len(toDaemon') :
                /\ i + 1 \in 1 .. Len(toDaemon) /\ i + 1 # 1 /\ toDaemon'[i] = toDaemon[i + 1]
                /\ i + 1 < Len(toDaemon) => i < Len(toDaemon') /\ toDaemon'[i + 1] = toDaemon[i + 2]
PROOF
  <1>1. /\ Len(toDaemon) \in Nat \ {0} /\ Head(toDaemon) = toDaemon[1] /\ toDaemon[1] \in Line
        /\ Len(toDaemon') = Len(toDaemon) - 1
        /\ \A i \in 1 .. Len(toDaemon) - 1 : toDaemon'[i] = toDaemon[i + 1]
    BY TailOf DEF Types
  <1>2. \A i \in 1 .. Len(toDaemon') :
          /\ i \in 1 .. Len(toDaemon) - 1 /\ i + 1 \in 1 .. Len(toDaemon) /\ i + 1 # 1
          /\ i + 1 < Len(toDaemon) => i < Len(toDaemon') /\ i + 1 \in 1 .. Len(toDaemon) - 1
          /\ i + 1 + 1 = i + 2
    BY <1>1
  <1> QED
    BY <1>1, <1>2

(* A request that is left is still the one of the driver.                   *)
LEMMA PendingLeft ==
    ASSUME Types, toDaemon # <<>>, toDaemon' = Tail(toDaemon), driver' = driver,
           NEW i \in 1 .. Len(toDaemon'), Pending(i + 1)
    PROVE  Pending(i)'
PROOF
  <1>1. /\ Len(toDaemon) \in Nat \ {0} /\ Len(toDaemon') = Len(toDaemon) - 1
        /\ \A j \in 1 .. Len(toDaemon') :
             /\ j + 1 \in 1 .. Len(toDaemon) /\ toDaemon'[j] = toDaemon[j + 1]
             /\ j + 1 < Len(toDaemon) => j < Len(toDaemon') /\ toDaemon'[j + 1] = toDaemon[j + 2]
    BY LinesLeft
  <1>2. i + 1 + 1 = i + 2
    BY <1>1
  <1>3. \A j \in 1 .. Len(toDaemon') : IsRequest(toDaemon'[j]) => j = i
    <2>1. \A j \in 1 .. Len(toDaemon') : IsRequest(toDaemon[j + 1]) => j + 1 = i + 1
      BY <1>1 DEF Pending
    <2> QED
      BY <1>1, <2>1
  <1> QED
    BY <1>1, <1>2, <1>3 DEF Pending, IsRequest

(* The daemon takes a line and answers it, or waits for the data.          *)
LEMMA ServeKnows == ASSUME Kept, Kept', Known, Serve PROVE Known'
PROOF
  <1>0. /\ Types /\ Types' /\ line'.kind # "data" /\ Buffers /\ Unconfirmed /\ Stored /\ Arrived
        /\ Coming /\ ReadsRight
    BY DEF Kept, Known
  <1>1. /\ daemon = "serve" /\ daemon' = IF line'.kind = "W" THEN "data" ELSE "flushOut"
        /\ toDaemon # <<>> \/ ~console
        /\ toDaemon # <<>> => line' = Head(toDaemon) /\ toDaemon' = Tail(toDaemon)
        /\ outfile' = CASE line'.kind = "R" -> <<Answer(file[line'.block])>>
                         [] line'.kind = "query" /\ ending = 0 -> <<ACK>>
                         [] OTHER -> <<>>
        /\ UNCHANGED <<datafile, file, toDriver, console, driver, confirmed, stale, right>>
    BY DEF Serve, Fgets, history
  <1>2. outfile = <<>> /\ datafile = NoWrite
    BY <1>0, <1>1 DEF Buffers
  <1>3. \/ line'.kind = "R" /\ outfile' = <<Answer(file[line'.block])>>
        \/ line'.kind = "W" /\ outfile' = <<>>
        \/ ~IsRequest(line') /\ (outfile' = <<>> \/ outfile' = <<ACK>>)
    BY <1>1 DEF IsRequest
  <1>4. Buffers' /\ Untold' /\ ReadsRight'
    BY <1>0, <1>1, <1>2, <1>3 DEF Buffers, Untold, ReadsRight
  <1>5. \A b \in Block : Holds(b, confirmed[b]) => Holds(b, confirmed[b])'
    <2>1. TAKE b \in Block
    <2>2. PICK v : v = confirmed[b]
      OBVIOUS
    <2>3. Holds(b, v) => Holds(b, v)'
      BY <1>1, <1>2, HeldInFile
    <2> QED
      BY <1>1, <2>2, <2>3 DEF Holds
  <1>6. Stored'
    BY <1>0, <1>1, <1>5 DEF Stored
  <1>7. Arrived'
    <2>1. driver.block \in Block
      BY <1>0 DEF Types
    <2>2. Holds(driver.block, driver.data) => Holds(driver.block, driver.data)'
      BY <1>1, <1>2, <2>1, HeldInFile
    <2> QED
      BY <1>0, <1>1, <2>2, ArrivedStays
  <1>8. CASE toDaemon = <<>>
    BY <1>1, <1>4, <1>6, <1>7, <1>8 DEF Known, Unconfirmed, Coming
  <1>9. CASE toDaemon # <<>>
    <2>1. /\ 1 \in 1 .. Len(toDaemon) /\ line' = toDaemon[1] /\ Len(toDaemon') = Len(toDaemon) - 1
          /\ Len(toDaemon) \in Nat
          /\ \A i \in 1 .. Len(toDaemon') :
               i + 1 \in 1 .. Len(toDaemon) /\ i + 1 # 1 /\ toDaemon'[i] = toDaemon[i + 1]
      BY <1>0, <1>1, <1>9, LinesLeft
    <2>2. Unconfirmed'
      <3>1. \A i \in 1 .. Len(toDaemon') : ~stale /\ console /\ toDaemon'[i].kind = "W" =>
                                            confirmed[toDaemon'[i].block] = None
        BY <1>0, <2>1 DEF Unconfirmed
      <3>2. ~stale /\ console /\ line'.kind = "W" => confirmed[line'.block] = None
        BY <1>0, <2>1 DEF Unconfirmed
      <3> QED
        BY <1>1, <3>1, <3>2 DEF Unconfirmed
    <2>3. Coming'
      <3>1. SUFFICES ASSUME IsOpen', console' PROVE Coming'
        BY DEF Coming
      <3>2. IsOpen /\ console /\ (Arriving' <=> Arriving)
        BY <1>1, <3>1 DEF IsOpen, Arriving
      <3>3. \A i \in 1 .. Len(toDaemon) : IsRequest(toDaemon[i]) =>
              ~Arriving /\ ~Answering /\ daemon # "data" /\ Pending(i)
        BY <1>0, <3>2 DEF Coming
      <3>4. CASE line'.kind = "R"
        <4>1. IsRequest(toDaemon[1])
          BY <2>1, <3>4 DEF IsRequest
        <4>2. ~Arriving' /\ line'.block = driver.block /\ driver.at = "reading"
              /\ \A j \in 1 .. Len(toDaemon) : IsRequest(toDaemon[j]) => j = 1
          BY <2>1, <3>2, <3>3, <3>4, <4>1 DEF Pending
        <4>3. \A j \in 1 .. Len(toDaemon') : ~IsRequest(toDaemon'[j])
          BY <2>1, <4>2
        <4>4. PICK v : v = file[driver.block]
          OBVIOUS
        <4>5. Right(Answer(v))'
          <5>1. driver.block \in Block
            BY <1>0 DEF Types
          <5>2. confirmed[driver.block] \in {None, v}
            BY <1>0, <1>1, <1>2, <3>2, <4>4, <5>1, HeldInFile DEF Stored, IsOpen
          <5> QED
            BY <1>1, <4>2, <5>2 DEF Right, Answer
        <4>6. \A i \in 1 .. Len(outfile') : outfile'[i] = Answer(v)
          <5>1. outfile' = <<Answer(v)>>
            BY <1>3, <3>4, <4>2, <4>4 DEF IsRequest
          <5> QED
            BY <5>1
        <4>7. (\A i \in 1 .. Len(outfile) : Right(outfile[i]))'
          BY <4>5, <4>6
        <4>8. daemon' # "data"
          BY <1>1, <3>4
        <4> QED
          BY <4>2, <4>3, <4>7, <4>8 DEF Coming
      <3>5. CASE line'.kind = "W"
        <4>1. IsRequest(toDaemon[1])
          BY <2>1, <3>5 DEF IsRequest
        <4>2. /\ ~Arriving' /\ line'.block = driver.block /\ driver.at \in {"sending", "writing"}
              /\ driver.at = "writing" => 1 < Len(toDaemon) /\ toDaemon[2] = Data(driver.data)
              /\ \A j \in 1 .. Len(toDaemon) : IsRequest(toDaemon[j]) => j = 1
          BY <2>1, <3>2, <3>3, <3>5, <4>1 DEF Pending
        <4>3. \A j \in 1 .. Len(toDaemon') : ~IsRequest(toDaemon'[j])
          BY <2>1, <4>2
        <4>4. driver.at = "writing" => toDaemon' # <<>> /\ toDaemon'[1] = Data(driver.data)
          BY <2>1, <4>2
        <4>5. outfile' = <<>> /\ Len(outfile') = 0
          BY <1>3, <3>5 DEF IsRequest
        <4> QED
          BY <1>1, <4>2, <4>3, <4>4, <4>5 DEF Coming, IsRequest
      <3>6. CASE ~IsRequest(line')
        <4>1. \A i \in 1 .. Len(outfile') : ~IsAnswer(outfile'[i])
          BY <1>3, <3>6 DEF IsRequest, IsAnswer, ACK
        <4>2. daemon' # "data"
          BY <1>1, <3>6 DEF IsRequest
        <4>3. \A i \in 1 .. Len(toDaemon') : IsRequest(toDaemon'[i]) => ~Arriving' /\ Pending(i)'
          <5>1. TAKE i \in 1 .. Len(toDaemon')
          <5>2. IsRequest(toDaemon'[i]) => ~Arriving' /\ Pending(i + 1)
            BY <2>1, <3>2, <3>3
          <5> QED
            BY <1>0, <1>1, <1>9, <5>2, PendingLeft
        <4> QED
          BY <4>1, <4>2, <4>3 DEF Coming, Answering, IsRequest, IsAnswer
      <3> QED
        BY <3>4, <3>5, <3>6 DEF IsRequest
    <2> QED
      BY <1>4, <1>6, <1>7, <2>2, <2>3 DEF Known
  <1> QED
    BY <1>8, <1>9

(* What comes for data is on its way to the file, and its sum to the driver. *)
LEMMA WriteBlockKnows == ASSUME Kept, Kept', Known, WriteBlock PROVE Known'
PROOF
  <1> DEFINE m == IF toDaemon = <<>> THEN Text ELSE Head(toDaemon)
  <1>0. /\ Types /\ Types' /\ Stream /\ Sender /\ Buffers /\ Unconfirmed /\ Stored /\ Arrived
        /\ Coming /\ ReadsRight
    BY DEF Kept, Known
  <1>1. PICK v : v = IF m.kind = "data" THEN m.data ELSE Junk
    OBVIOUS
  <1>2. /\ daemon = "data" /\ daemon' = "flushOut"
        /\ toDaemon # <<>> \/ ~console
        /\ toDaemon' = IF toDaemon = <<>> THEN toDaemon ELSE Tail(toDaemon)
        /\ datafile' = [block |-> line.block, data |-> v]
        /\ outfile' = <<Sum(v)>>
        /\ UNCHANGED <<line, file, toDriver, console, driver, confirmed, stale, right>>
    BY <1>1 DEF WriteBlock, history
  <1>3. datafile = NoWrite
    BY <1>0, <1>2 DEF Buffers
  <1>4. Buffers' /\ Untold' /\ ReadsRight'
    BY <1>0, <1>2 DEF Buffers, Untold, ReadsRight
  <1>5. Stored'
    <2>1. SUFFICES ASSUME ~stale, NEW b \in Block, confirmed[b] # None
                   PROVE  Holds(b, confirmed[b])'
      BY <1>2 DEF Stored
    <2>2. file[b] = confirmed[b]
      <3>1. Holds(b, confirmed[b])
        BY <1>0, <2>1 DEF Stored
      <3> QED
        BY <1>3, <3>1, Messages DEF Holds, NoWrite
    <2>3. console => line.block # b
      BY <1>0, <1>2, <2>1 DEF Unconfirmed
    <2> QED
      BY <1>2, <2>2, <2>3 DEF Holds, Flushing
  <1>6. CASE ~console
    <2>1. Unconfirmed' /\ Coming'
      BY <1>2, <1>6 DEF Unconfirmed, Coming
    <2>2. Holds(driver.block, driver.data) => Holds(driver.block, driver.data)'
      <3>1. driver.block \in Block
        BY <1>0 DEF Types
      <3> QED
        BY <1>2, <1>3, <1>6, <3>1, Messages DEF Holds, NoWrite, Flushing
    <2>3. Arrived'
      BY <1>0, <1>2, <2>2, ArrivedStays
    <2> QED
      BY <1>4, <1>5, <2>1, <2>3 DEF Known
  <1>7. CASE console
    <2>1. /\ Len(toDaemon) \in Nat \ {0} /\ toDaemon' = Tail(toDaemon) /\ Head(toDaemon) = toDaemon[1]
          /\ \A i \in 1 .. Len(toDaemon') :
               i + 1 \in 1 .. Len(toDaemon) /\ toDaemon'[i] = toDaemon[i + 1]
      BY <1>0, <1>2, <1>7, LinesLeft
    <2>2. Unconfirmed'
      BY <1>0, <1>2, <2>1 DEF Unconfirmed
    <2>3. IsOpen => ~Arriving /\ \A i \in 1 .. Len(toDaemon) : ~IsRequest(toDaemon[i])
      BY <1>0, <1>2, <1>7 DEF Coming
    <2>4. Arrived'
      BY <1>2, <2>3 DEF Arrived, IsOpen, Arriving
    <2>5. Coming'
      <3>1. SUFFICES ASSUME IsOpen PROVE Coming'
        BY <1>2 DEF Coming, IsOpen
      <3>2. driver.at = "writing" /\ line.block = driver.block /\ toDaemon[1] = Data(driver.data)
        <4>1. /\ driver.at \in {"sending", "writing"} /\ line.block = driver.block
              /\ driver.at = "writing" => toDaemon[1] = Data(driver.data)
          BY <1>0, <1>2, <1>7, <3>1 DEF Coming
        <4>2. driver.at # "sending"
          <5>1. Len(toDaemon) \in 1 .. Len(toDaemon)
            BY <2>1
          <5>2. toDaemon[Len(toDaemon)].kind # "W"
            BY <2>3, <3>1, <5>1 DEF IsRequest
          <5> QED
            BY <1>0, <1>7, <2>1, <5>2 DEF Sender, Served, Announced
        <4> QED
          BY <4>1, <4>2
      <3>3. v = driver.data
        BY <1>1, <1>2, <1>7, <2>1, <3>2 DEF Data
      <3>4. Right(Sum(v))'
        BY <1>2, <3>2, <3>3 DEF Right, Sum, Holds
      <3>5. \A i \in 1 .. Len(outfile') : outfile'[i] = Sum(v)
        BY <1>2
      <3>6. (\A i \in 1 .. Len(outfile) : Right(outfile[i]))'
        BY <3>4, <3>5
      <3>7. ~Arriving' /\ \A i \in 1 .. Len(toDaemon') : ~IsRequest(toDaemon'[i])
        BY <1>2, <2>1, <2>3, <3>1 DEF Arriving
      <3> QED
        BY <1>2, <3>6, <3>7 DEF Coming
    <2> QED
      BY <1>4, <1>5, <2>2, <2>4, <2>5 DEF Known
  <1> QED
    BY <1>6, <1>7

(* The answer goes to the driver, if the console still runs.               *)
LEMMA FlushOutKnows == ASSUME Kept, Kept', Known, FlushOut PROVE Known'
PROOF
  <1>0. /\ Types /\ Buffers /\ Unconfirmed /\ Stored /\ Arrived /\ Coming /\ ReadsRight
    BY DEF Kept, Known
  <1>1. /\ daemon = "flushOut" /\ outfile' = <<>>
        /\ IF console \/ outfile = <<>>
             THEN toDriver' = toDriver \o outfile /\ daemon' = "flushData"
             ELSE daemon' = "dead" /\ toDriver' = toDriver
        /\ UNCHANGED <<line, datafile, file, toDaemon, console, driver, confirmed, stale, right>>
    BY DEF FlushOut, Send, history
  <1>2. Flushing' <=> Flushing
    BY <1>1 DEF Flushing
  <1>3. Buffers' /\ Untold' /\ Unconfirmed' /\ Stored' /\ ReadsRight'
    BY <1>0, <1>1, <1>2 DEF Buffers, Untold, Unconfirmed, Stored, Holds, ReadsRight
  <1>4. Holds(driver.block, driver.data) => Holds(driver.block, driver.data)'
    BY <1>1, <1>2 DEF Holds
  <1>5. CASE toDriver' = toDriver
    <2>1. Arrived'
      BY <1>0, <1>1, <1>4, <1>5, ArrivedStays
    <2>2. Coming'
      BY <1>0, <1>1, <1>5 DEF Coming, IsOpen, Arriving, Answering, Pending
    <2> QED
      BY <1>3, <2>1, <2>2 DEF Known
  <1>6. CASE console /\ Len(outfile) = 1
    <2>1. PICK m : m = outfile[1]
      OBVIOUS
    <2>2. /\ Len(toDriver) \in Nat /\ Len(toDriver') = Len(toDriver) + 1
          /\ toDriver'[Len(toDriver) + 1] = m
          /\ \A i \in 1 .. Len(toDriver) : toDriver'[i] = toDriver[i]
      BY <1>0, <1>1, <1>6, <2>1, AppendedOne DEF Types
    <2>3. IsOpen /\ IsAnswer(m) => ~Arriving /\ Right(m) /\ Answering
      <3>1. 1 \in 1 .. Len(outfile) /\ outfile[1] = m
        BY <1>6, <2>1
      <3> QED
        BY <1>0, <1>6, <3>1 DEF Coming, Answering
    <2>4. Arriving' => Arriving \/ IsAnswer(m)
      BY <2>2 DEF Arriving
    <2>5. Arrived'
      <3>1. SUFFICES ASSUME IsOpen PROVE Arrived'
        BY <1>1 DEF Arrived, IsOpen
      <3>2. \A i \in 1 .. Len(toDriver') : i \in 1 .. Len(toDriver) \/ i = Len(toDriver) + 1
        BY <2>2
      <3>3. (\A i \in 1 .. Len(toDriver) : IsAnswer(toDriver[i]) => Right(toDriver[i]))'
        <4>1. SUFFICES ASSUME NEW i \in 1 .. Len(toDriver'), IsAnswer(toDriver'[i])
                       PROVE  Right(toDriver[i])'
          OBVIOUS
        <4>2. PICK k : k = toDriver'[i]
          OBVIOUS
        <4>3. Right(k)
          BY <1>0, <2>2, <2>3, <3>1, <3>2, <4>1, <4>2 DEF Arrived
        <4> QED
          BY <1>1, <1>4, <4>2, <4>3 DEF Right
      <3>4. \A i, j \in 1 .. Len(toDriver') :
              IsAnswer(toDriver'[i]) /\ IsAnswer(toDriver'[j]) => i = j
        <4>1. \A i, j \in 1 .. Len(toDriver) :
                IsAnswer(toDriver[i]) /\ IsAnswer(toDriver[j]) => i = j
          BY <1>0, <3>1 DEF Arrived
        <4>2. IsAnswer(m) => \A i \in 1 .. Len(toDriver) : ~IsAnswer(toDriver[i])
          BY <2>3, <3>1 DEF Arriving
        <4> QED
          BY <2>2, <3>2, <4>1, <4>2
      <3> QED
        BY <3>3, <3>4 DEF Arrived
    <2>6. Coming'
      <3>1. SUFFICES ASSUME IsOpen PROVE Coming'
        BY <1>1 DEF Coming, IsOpen
      <3>2. \A i \in 1 .. Len(toDaemon) : IsRequest(toDaemon[i]) => ~Arriving /\ ~Answering /\ Pending(i)
        BY <1>0, <1>6, <3>1 DEF Coming
      <3>3. \A i \in 1 .. Len(toDaemon) : IsRequest(toDaemon[i]) => ~Arriving' /\ Pending(i)'
        BY <1>1, <2>3, <2>4, <3>1, <3>2 DEF Pending
      <3>4. ~Answering' /\ daemon' # "data"
        BY <1>1, <1>6 DEF Answering
      <3> QED
        BY <1>1, <3>3, <3>4 DEF Coming, Answering
    <2> QED
      BY <1>3, <2>5, <2>6 DEF Known
  <1>7. toDriver' = toDriver \/ (console /\ Len(outfile) = 1)
    <2>1. outfile = <<>> \/ Len(outfile) = 1
      BY <1>0, AtMostOne DEF Types
    <2>2. toDriver \o <<>> = toDriver
      BY <1>0 DEF Types
    <2> QED
      BY <1>1, <2>1, <2>2
  <1> QED
    BY <1>5, <1>6, <1>7

(* The data goes to the file. *)
LEMMA FlushDataKnows == ASSUME Kept, Kept', Known, FlushData PROVE Known'
PROOF
  <1>0. /\ Types /\ Buffers /\ Unconfirmed /\ Stored /\ Arrived /\ Coming /\ ReadsRight
    BY DEF Kept, Known
  <1>1. /\ daemon = "flushData" /\ daemon' = "serve" /\ datafile' = NoWrite
        /\ file' = [b \in Block |-> IF b = datafile.block THEN datafile.data ELSE file[b]]
        /\ UNCHANGED <<line, outfile, toDaemon, toDriver, console, driver, confirmed, stale, right>>
    BY DEF FlushData, wires, history
  <1>2. outfile = <<>>
    BY <1>0, <1>1 DEF Buffers
  <1>3. Buffers' /\ Untold' /\ Unconfirmed' /\ ReadsRight'
    BY <1>0, <1>1, <1>2 DEF Buffers, Untold, Unconfirmed, ReadsRight
  <1>4. \A b \in Block : \A v : Holds(b, v) => file'[b] = v
    BY <1>1 DEF Holds, Flushing
  <1>5. Stored'
    BY <1>0, <1>1, <1>4, Messages DEF Stored, Holds, NoWrite
  <1>6. Arrived'
    <2>1. driver.block \in Block
      BY <1>0 DEF Types
    <2>2. Holds(driver.block, driver.data) => Holds(driver.block, driver.data)'
      BY <1>1, <1>4, <2>1, Messages DEF Holds, NoWrite
    <2> QED
      BY <1>0, <1>1, <2>2, ArrivedStays
  <1>7. Coming'
    BY <1>0, <1>1, <1>2 DEF Coming, IsOpen, Arriving, Answering, Pending
  <1> QED
    BY <1>3, <1>5, <1>6, <1>7 DEF Known

(* The daemon or the console ends. *)
LEMMA EndKnows == ASSUME Kept, Kept', Known, Kill \/ ConsoleEnds PROVE Known'
PROOF
  <1>0. /\ Buffers /\ Untold /\ Stored /\ Arrived /\ ReadsRight
    BY DEF Known
  <1>1. /\ console' = FALSE /\ (daemon' = daemon \/ daemon' = "dead")
        /\ UNCHANGED <<line, outfile, datafile, file, toDaemon, toDriver, driver,
                       confirmed, stale, right>>
    BY DEF Kill, ConsoleEnds, server, history
  <1>2. Flushing' => Flushing
    BY <1>1 DEF Flushing
  <1>3. \A b, v : Holds(b, v) => Holds(b, v)'
    BY <1>1, <1>2 DEF Holds
  <1>4. Buffers' /\ Untold' /\ Unconfirmed' /\ Coming' /\ ReadsRight'
    BY <1>0, <1>1 DEF Buffers, Untold, Unconfirmed, Coming, ReadsRight
  <1>5. Stored'
    BY <1>0, <1>1, <1>2 DEF Stored, Holds
  <1>6. Arrived'
    <2>1. Holds(driver.block, driver.data) => Holds(driver.block, driver.data)'
      BY <1>1, <1>2 DEF Holds
    <2> QED
      BY <1>0, <1>1, <2>1, ArrivedStays
  <1> QED
    BY <1>4, <1>5, <1>6 DEF Known

(* Whatever the driver sends, no write is announced of a confirmed block.   *)
LEMMA SentUnconfirmed ==
    ASSUME Kept, Known, NEW m \in Line, Transmit(<<m>>),
           UNCHANGED <<server, console, stale, right>>,
           \A b \in Block : confirmed'[b] \in {confirmed[b], None},
           m.kind = "W" => confirmed'[m.block] = None
    PROVE  Buffers' /\ Untold' /\ Unconfirmed' /\ Stored' /\ ReadsRight'
PROOF
  <1>0. Types /\ Buffers /\ Untold /\ Unconfirmed /\ Stored /\ ReadsRight
    BY DEF Kept, Known
  <1>1. UNCHANGED <<daemon, line, outfile, datafile, file, console, stale, right>>
    BY DEF server
  <1>2. Buffers' /\ Untold' /\ ReadsRight'
    BY <1>0, <1>1 DEF Buffers, Untold, ReadsRight
  <1>3. Stored'
    BY <1>0, <1>1 DEF Stored, Holds, Flushing
  <1>4. Unconfirmed'
    <2>1. SUFFICES ASSUME ~stale, console PROVE Unconfirmed'
      BY <1>1 DEF Unconfirmed
    <2>2. /\ Len(toDaemon) \in Nat /\ Len(toDaemon') = Len(toDaemon) + 1
          /\ toDaemon'[Len(toDaemon) + 1] = m
          /\ \A i \in 1 .. Len(toDaemon) : toDaemon'[i] = toDaemon[i]
      BY <1>0, <2>1, Appended DEF Types, Transmit
    <2>3. \A i \in 1 .. Len(toDaemon') : i \in 1 .. Len(toDaemon) \/ i = Len(toDaemon) + 1
      BY <2>2
    <2>4. \A i \in 1 .. Len(toDaemon) :
            toDaemon[i].kind = "W" => confirmed'[toDaemon[i].block] = None
      <3>1. \A i \in 1 .. Len(toDaemon) : toDaemon[i].block \in Block
        BY <1>0, LineAt DEF Types
      <3> QED
        BY <1>0, <2>1, <3>1 DEF Unconfirmed
    <2>5. daemon = "data" => confirmed'[line.block] = None
      <3>1. line.block \in Block
        BY <1>0 DEF Types, Line
      <3> QED
        BY <1>0, <2>1, <3>1 DEF Unconfirmed
    <2> QED
      BY <1>1, <2>2, <2>3, <2>4, <2>5 DEF Unconfirmed
  <1> QED
    BY <1>2, <1>3, <1>4

(* A driver that is ready has nothing under way, and sends its request.    *)
LEMMA RequestKnows ==
    ASSUME Kept, Known, NEW m \in Line, Transmit(<<m>>), IsRequest(m), driver.at = "ready",
           UNCHANGED <<server, toDriver, console, stale>>, m.block = driver'.block,
           \/ driver'.at = "reading" /\ m.kind = "R"
           \/ driver'.at = "sending" /\ m.kind = "W"
    PROVE  Arrived' /\ Coming'
PROOF
  <1>0. Types /\ Arrived /\ Coming
    BY DEF Kept, Known
  <1>1. SUFFICES ASSUME IsOpen PROVE Arrived' /\ Coming'
    BY DEF Arrived, Coming, IsOpen
  <1>2. \A k : ~Right(k)
    BY DEF Right
  <1>3. ~Arriving
    BY <1>0, <1>1, <1>2 DEF Arrived, Arriving
  <1>4. Arrived' /\ ~Arriving'
    BY <1>3 DEF Arrived, Arriving
  <1>5. Coming'
    <2>1. SUFFICES ASSUME console PROVE Coming'
      BY DEF Coming
    <2>2. /\ ~Answering /\ daemon # "data"
          /\ \A i \in 1 .. Len(toDaemon) : ~IsRequest(toDaemon[i])
      BY <1>0, <1>1, <1>2, <2>1 DEF Coming, Pending, Answering
    <2>3. /\ Len(toDaemon) \in Nat /\ Len(toDaemon') = Len(toDaemon) + 1
          /\ toDaemon'[Len(toDaemon) + 1] = m
          /\ \A i \in 1 .. Len(toDaemon) : toDaemon'[i] = toDaemon[i]
      BY <1>0, <2>1, Appended DEF Types, Transmit
    <2>4. \A i \in 1 .. Len(toDaemon') : i \in 1 .. Len(toDaemon) \/ i = Len(toDaemon) + 1
      BY <2>3
    <2>5. \A i \in 1 .. Len(toDaemon') : IsRequest(toDaemon'[i]) => i = Len(toDaemon) + 1
      BY <2>2, <2>3, <2>4
    <2>6. \A i \in 1 .. Len(toDaemon') : IsRequest(toDaemon'[i]) => Pending(i)'
      BY <2>3, <2>5 DEF Pending
    <2>7. ~Answering' /\ daemon' # "data"
      BY <2>2 DEF Answering, server
    <2> QED
      BY <1>4, <2>6, <2>7 DEF Coming, Answering
  <1> QED
    BY <1>4, <1>5

(* The data of a write follows its announcement.                            *)
LEMMA SendDataKnows == ASSUME Kept, Known, SendData PROVE Arrived' /\ Coming'
PROOF
  <1>0. Types /\ Sender /\ Arrived /\ Coming
    BY DEF Kept, Known
  <1>1. /\ driver.at = "sending" /\ driver' = [driver EXCEPT !.at = "writing"]
        /\ Transmit(<<Data(driver.data)>>)
        /\ UNCHANGED <<daemon, line, outfile, datafile, file, toDriver, console, confirmed, stale>>
    BY DEF SendData, server, history
  <1>2. driver'.at = "writing" /\ driver'.block = driver.block /\ driver'.data = driver.data
    BY <1>0, <1>1 DEF Types
  <1>3. SUFFICES ASSUME IsOpen PROVE Arrived' /\ Coming'
    BY <1>1 DEF Arrived, Coming, IsOpen
  <1>4. \A k : ~Right(k)
    BY <1>1 DEF Right
  <1>5. ~Arriving
    BY <1>0, <1>3, <1>4 DEF Arrived, Arriving
  <1>6. Arrived' /\ ~Arriving'
    BY <1>1, <1>5 DEF Arrived, Arriving
  <1>7. Coming'
    <2>1. SUFFICES ASSUME console PROVE Coming'
      BY <1>1 DEF Coming
    <2>2. ~Answering'
      BY <1>0, <1>1, <1>3, <1>4, <2>1 DEF Coming, Answering
    <2>3. PICK d : d = Data(driver.data)
      OBVIOUS
    <2>4. d \in Line /\ ~IsRequest(d)
      BY <1>0, <2>3, Messages DEF Types, Data, IsRequest
    <2>5. /\ Len(toDaemon) \in Nat /\ Len(toDaemon') = Len(toDaemon) + 1
          /\ toDaemon'[Len(toDaemon) + 1] = d
          /\ \A i \in 1 .. Len(toDaemon) : toDaemon'[i] = toDaemon[i]
      BY <1>0, <1>1, <2>1, <2>3, <2>4, Appended DEF Types, Transmit
    <2>6. \A i \in 1 .. Len(toDaemon') : i \in 1 .. Len(toDaemon) \/ i = Len(toDaemon) + 1
      BY <2>5
    <2>7. /\ daemon = "data" => line.block = driver.block
          /\ \A i \in 1 .. Len(toDaemon) : IsRequest(toDaemon[i]) => daemon # "data" /\ Pending(i)
      BY <1>0, <1>3, <2>1 DEF Coming
    <2>8. CASE Len(toDaemon) = 0
      <3>1. daemon = "data" /\ toDaemon'[1] = d /\ toDaemon' # <<>>
        BY <1>0, <1>1, <2>1, <2>5, <2>8 DEF Sender, Served, Announced
      <3>2. \A i \in 1 .. Len(toDaemon') : ~IsRequest(toDaemon'[i])
        BY <2>4, <2>5, <2>6, <2>7, <3>1
      <3> QED
        BY <1>1, <1>2, <1>6, <2>2, <2>3, <2>7, <3>1, <3>2 DEF Coming, Answering, Data
    <2>9. CASE Len(toDaemon) > 0
      <3> DEFINE n == Len(toDaemon)
      <3>1. n \in 1 .. n /\ toDaemon[n].kind = "W"
        BY <1>0, <1>1, <2>1, <2>5, <2>9 DEF Sender, Served, Announced
      <3>2. IsRequest(toDaemon[n])
        BY <3>1 DEF IsRequest
      <3>3. /\ daemon # "data" /\ toDaemon[n].block = driver.block
            /\ \A j \in 1 .. n : IsRequest(toDaemon[j]) => j = n
        BY <2>7, <3>1, <3>2 DEF Pending
      <3> HIDE DEF n
      <3>4. \A i \in 1 .. Len(toDaemon') : IsRequest(toDaemon'[i]) => i = n
        BY <2>4, <2>5, <2>6, <3>3 DEF n
      <3>5. n < Len(toDaemon') /\ toDaemon'[n + 1] = Data(driver'.data) /\ toDaemon'[n] = toDaemon[n]
        BY <1>2, <2>3, <2>5, <3>1 DEF n, Data
      <3>6. \A i \in 1 .. Len(toDaemon') : IsRequest(toDaemon'[i]) => Pending(i)'
        BY <1>2, <3>1, <3>3, <3>4, <3>5 DEF Pending
      <3> QED
        BY <1>1, <1>6, <2>2, <3>3, <3>6 DEF Coming, Answering
    <2> QED
      BY <2>5, <2>8, <2>9
  <1> QED
    BY <1>6, <1>7

LEMMA SendKnows == ASSUME Kept, Known, Prints \/ Ask \/ SendData \/ User PROVE Known'
PROOF
  <1>0. Types /\ confirmed \in [Block -> Val \cup {Zero, None}]
    BY DEF Kept, Types
  <1>1. CASE Prints \/ Ask
    <2>1. PICK m \in Line : /\ Transmit(<<m>>)
                            /\ \A b \in Block : confirmed'[b] \in {confirmed[b], None}
                            /\ m.kind = "W" => confirmed'[m.block] = None
      <3>1. CASE \E k \in {Query, Text} \cup {Get(b) : b \in Block} : Transmit(<<k>>) /\ UNCHANGED confirmed
        BY <3>1, Messages DEF Query, Text, Get
      <3>2. ASSUME NEW b \in Block, Transmit(<<Put(b)>>), confirmed' = [confirmed EXCEPT ![b] = None]
            PROVE  \E m \in Line : /\ Transmit(<<m>>)
                                   /\ \A c \in Block : confirmed'[c] \in {confirmed[c], None}
                                   /\ m.kind = "W" => confirmed'[m.block] = None
        <4>1. Put(b) \in Line /\ Put(b).block = b
          BY Messages DEF Put
        <4> QED
          BY <1>0, <3>2, <4>1
      <3> QED
        BY <1>1, <3>1, <3>2 DEF Prints, Ask, history
    <2>2. UNCHANGED <<server, console, stale, right>>
      BY <1>1 DEF Prints, Ask, history
    <2>3. Buffers' /\ Untold' /\ Unconfirmed' /\ Stored' /\ ReadsRight'
      BY <2>1, <2>2, SentUnconfirmed
    <2>4. driver'.at \in {"down", "asked"}
      BY <1>0, <1>1 DEF Prints, Ask, Types
    <2> QED
      BY <2>3, <2>4, NotOpen DEF Known
  <1>2. CASE SendData
    <2>1. PICK m \in Line : Transmit(<<m>>) /\ m.kind # "W"
      <3>1. Data(driver.data) \in Line /\ Data(driver.data).kind # "W"
        BY <1>0, Messages DEF Types, Data
      <3> QED
        BY <1>2, <3>1 DEF SendData
    <2>2. UNCHANGED <<server, console, confirmed, stale, right>>
      BY <1>2 DEF SendData, history
    <2>3. Buffers' /\ Untold' /\ Unconfirmed' /\ Stored' /\ ReadsRight'
      BY <2>1, <2>2, SentUnconfirmed
    <2> QED
      BY <1>2, <2>3, SendDataKnows DEF Known
  <1>3. ASSUME NEW b \in Block, ReadRequest(b) PROVE Known'
    <2>1. /\ driver.at = "ready" /\ driver' = [driver EXCEPT !.at = "reading", !.block = b]
          /\ Transmit(<<Get(b)>>) /\ UNCHANGED <<server, toDriver, console, confirmed, stale, right>>
      BY <1>3 DEF ReadRequest, Request, history
    <2>2. /\ Get(b) \in Line /\ Get(b).kind = "R" /\ Get(b).block = b /\ IsRequest(Get(b))
          /\ driver'.at = "reading" /\ driver'.block = b
      BY <1>0, <2>1, Messages DEF Get, Types, IsRequest
    <2>3. Buffers' /\ Untold' /\ Unconfirmed' /\ Stored' /\ ReadsRight'
      BY <2>1, <2>2, SentUnconfirmed
    <2>4. Arrived' /\ Coming'
      BY <2>1, <2>2, RequestKnows
    <2> QED
      BY <2>3, <2>4 DEF Known
  <1>4. ASSUME NEW b \in Block, NEW v \in Val, WriteRequest(b, v) PROVE Known'
    <2>1. /\ driver.at = "ready"
          /\ driver' = [driver EXCEPT !.at = "sending", !.block = b, !.data = v]
          /\ Transmit(<<Put(b)>>) /\ confirmed' = [confirmed EXCEPT ![b] = None]
          /\ UNCHANGED <<server, toDriver, console, stale, right>>
      BY <1>4 DEF WriteRequest, Request
    <2>2. /\ Put(b) \in Line /\ Put(b).kind = "W" /\ Put(b).block = b /\ IsRequest(Put(b))
          /\ driver'.at = "sending" /\ driver'.block = b
      BY <1>0, <2>1, Messages DEF Put, Types, IsRequest
    <2>3. confirmed'[b] = None /\ \A c \in Block : confirmed'[c] \in {confirmed[c], None}
      BY <1>0, <2>1
    <2>4. Buffers' /\ Untold' /\ Unconfirmed' /\ Stored' /\ ReadsRight'
      BY <2>1, <2>2, <2>3, SentUnconfirmed
    <2>5. Arrived' /\ Coming'
      BY <2>1, <2>2, RequestKnows
    <2> QED
      BY <2>4, <2>5 DEF Known
  <1> QED
    BY <1>1, <1>2, <1>3, <1>4 DEF User

(* The first line the driver takes, and the ones that are left. *)
LEMMA Taken ==
    ASSUME Types, Receive
    PROVE  /\ 1 \in 1 .. Len(toDriver) /\ Head(toDriver) = toDriver[1]
           /\ \A i \in 1 .. Len(toDriver') :
                i + 1 \in 1 .. Len(toDriver) /\ i + 1 # 1 /\ toDriver'[i] = toDriver[i + 1]
PROOF
  <1>1. /\ Len(toDriver) \in Nat \ {0} /\ Head(toDriver) = toDriver[1]
        /\ Len(toDriver') = Len(toDriver) - 1
        /\ \A i \in 1 .. Len(toDriver) - 1 : toDriver'[i] = toDriver[i + 1]
    BY TailOf DEF Types, Receive
  <1>2. \A i \in 1 .. Len(toDriver) - 1 : i + 1 \in 1 .. Len(toDriver) /\ i + 1 # 1
    BY <1>1
  <1> QED
    BY <1>1, <1>2

(* The driver is open when nothing that is owed to an older request is left. *)
LEMMA AskedKnows == ASSUME Kept, Known, Asked PROVE Known'
PROOF
  <1>0. Types /\ Buffers /\ Untold /\ Unconfirmed /\ Stored /\ ReadsRight
    BY DEF Kept, Known
  <1>1. /\ Receive /\ driver.at = "asked"
        /\ driver' = [driver EXCEPT !.at = IF Head(toDriver) = ACK THEN "ready" ELSE "down"]
        /\ stale' = (stale \/ (Head(toDriver) = ACK /\ Owed))
        /\ UNCHANGED <<daemon, line, outfile, datafile, file, toDaemon, console, confirmed, right>>
    BY DEF Asked, server
  <1>2. stale => stale'
    BY <1>1
  <1>3. Buffers' /\ Untold' /\ Unconfirmed' /\ Stored' /\ ReadsRight'
    BY <1>0, <1>1, <1>2 DEF Buffers, Untold, Unconfirmed, Stored, Holds, Flushing, ReadsRight
  <1>4. CASE Head(toDriver) # ACK
    <2>1. driver'.at = "down"
      BY <1>0, <1>1, <1>4 DEF Types
    <2> QED
      BY <1>3, <2>1, NotOpen DEF Known
  <1>5. CASE Head(toDriver) = ACK
    <2>1. driver'.at = "ready"
      BY <1>0, <1>1, <1>5 DEF Types
    <2>2. SUFFICES ASSUME ~stale' PROVE Arrived' /\ Coming'
      BY <1>3 DEF Known, Arrived, Coming, IsOpen
    <2>3. ~Owed
      BY <1>1, <1>5, <2>2
    <2>4. DOMAIN toDriver = 1 .. Len(toDriver) /\ DOMAIN outfile = 1 .. Len(outfile)
          /\ DOMAIN toDaemon = 1 .. Len(toDaemon)
      BY <1>0, LenProperties DEF Types
    <2>5. /\ \A i \in 1 .. Len(toDriver) : ~IsAnswer(toDriver[i])
          /\ \A i \in 1 .. Len(outfile) : ~IsAnswer(outfile[i])
          /\ \A i \in 1 .. Len(toDaemon) : ~IsRequest(toDaemon[i])
          /\ daemon # "data"
      BY <2>3, <2>4 DEF Owed, Answers, Requested, IsAnswer, IsRequest
    <2>6. \A i \in 1 .. Len(toDriver') : ~IsAnswer(toDriver'[i])
      BY <1>0, <1>1, <2>5, Taken
    <2> QED
      BY <1>1, <2>5, <2>6 DEF Arrived, Coming, Arriving
  <1> QED
    BY <1>4, <1>5

LEMMA SkipKnows == ASSUME Kept, Known, Skip PROVE Known'
PROOF
  <1>0. Types /\ Buffers /\ Untold /\ Unconfirmed /\ Stored /\ Arrived /\ Coming /\ ReadsRight
    BY DEF Kept, Known
  <1>1. /\ Receive
        /\ UNCHANGED <<daemon, line, outfile, datafile, file, toDaemon, console, driver,
                       confirmed, stale, right>>
    BY DEF Skip, server, history
  <1>2. Buffers' /\ Untold' /\ Unconfirmed' /\ Stored' /\ ReadsRight'
    BY <1>0, <1>1 DEF Buffers, Untold, Unconfirmed, Stored, Holds, Flushing, ReadsRight
  <1>3. \A i \in 1 .. Len(toDriver') : i + 1 \in 1 .. Len(toDriver) /\ toDriver'[i] = toDriver[i + 1]
    BY <1>0, <1>1, Taken
  <1>4. Arriving' => Arriving
    BY <1>3 DEF Arriving
  <1>5. Arrived'
    <2>1. SUFFICES ASSUME IsOpen, NEW i \in 1 .. Len(toDriver'), IsAnswer(toDriver'[i])
                   PROVE  /\ Right(toDriver[i])'
                          /\ \A j \in 1 .. Len(toDriver') : IsAnswer(toDriver'[j]) => j = i
      BY <1>1 DEF Arrived, IsOpen
    <2>2. PICK k : k = toDriver'[i]
      OBVIOUS
    <2>3. Right(k) /\ \A j \in 1 .. Len(toDriver') : IsAnswer(toDriver'[j]) => j + 1 = i + 1
      BY <1>0, <1>3, <2>1, <2>2 DEF Arrived
    <2>4. Right(toDriver[i])'
      BY <1>1, <2>2, <2>3 DEF Right, Holds, Flushing
    <2> QED
      BY <2>3, <2>4
  <1>6. Coming'
    <2>1. SUFFICES ASSUME IsOpen, console PROVE Coming'
      BY <1>1 DEF Coming, IsOpen
    <2>2. \A i \in 1 .. Len(outfile) : IsAnswer(outfile[i]) => Right(outfile[i])
      BY <1>0, <2>1 DEF Coming
    <2>3. (\A i \in 1 .. Len(outfile) : IsAnswer(outfile[i]) => Right(outfile[i]))'
      BY <1>1, <2>2 DEF Right, Holds, Flushing
    <2> QED
      BY <1>0, <1>1, <1>4, <2>1, <2>3 DEF Coming, Answering, Pending
  <1> QED
    BY <1>2, <1>5, <1>6 DEF Known

(* The answer to the request of an open driver is the only one, and right. *)
LEMMA AnswerTaken ==
    ASSUME Kept, Known, Receive, IsOpen, IsAnswer(Head(toDriver))
    PROVE  /\ Right(Head(toDriver))
           /\ \A i \in 1 .. Len(toDriver') : ~IsAnswer(toDriver'[i])
           /\ console => /\ ~Answering /\ daemon # "data"
                         /\ \A i \in 1 .. Len(toDaemon) : ~IsRequest(toDaemon[i])
PROOF
  <1>0. Types /\ Arrived /\ Coming
    BY DEF Kept, Known
  <1>1. /\ 1 \in 1 .. Len(toDriver) /\ Head(toDriver) = toDriver[1]
        /\ \A i \in 1 .. Len(toDriver') :
             i + 1 \in 1 .. Len(toDriver) /\ i + 1 # 1 /\ toDriver'[i] = toDriver[i + 1]
    BY <1>0, Taken
  <1>2. Arriving
    BY <1>1 DEF Arriving
  <1>3. Right(Head(toDriver)) /\ \A j \in 1 .. Len(toDriver) : IsAnswer(toDriver[j]) => j = 1
    BY <1>0, <1>1 DEF Arrived
  <1> QED
    BY <1>0, <1>1, <1>2, <1>3 DEF Coming

LEMMA ReadAnswerKnows == ASSUME Kept, Known, ReadAnswer PROVE Known'
PROOF
  <1>0. Types /\ Buffers /\ Untold /\ Unconfirmed /\ Stored /\ ReadsRight
    BY DEF Kept, Known
  <1> DEFINE m == Head(toDriver)
  <1>1. /\ driver.at = "reading" /\ Receive
        /\ driver' = [driver EXCEPT !.at = IF m.kind = "block" THEN "ready" ELSE "lost"]
        /\ right' = (m.kind = "block" =>
                       m.data = confirmed[driver.block] \/ confirmed[driver.block] = None)
        /\ UNCHANGED <<daemon, line, outfile, datafile, file, toDaemon, console, confirmed, stale>>
    BY DEF ReadAnswer, server
  <1> HIDE DEF m
  <1>2. Buffers' /\ Untold' /\ Unconfirmed' /\ Stored'
    BY <1>0, <1>1 DEF Buffers, Untold, Unconfirmed, Stored, Holds, Flushing
  <1>3. CASE m.kind # "block"
    <2>1. driver'.at = "lost"
      BY <1>0, <1>1, <1>3 DEF Types
    <2>2. ReadsRight'
      BY <1>1, <1>3 DEF ReadsRight
    <2> QED
      BY <1>2, <2>1, <2>2, NotOpen DEF Known
  <1>4. CASE m.kind = "block"
    <2>1. driver'.at = "ready"
      BY <1>0, <1>1, <1>4 DEF Types
    <2>2. CASE stale
      BY <1>1, <1>2, <2>2 DEF Known, Arrived, Coming, IsOpen, ReadsRight
    <2>3. CASE ~stale
      <3>1. IsOpen /\ IsAnswer(m)
        BY <1>1, <1>4, <2>3 DEF IsOpen, IsAnswer
      <3>2. /\ Right(m)
            /\ \A i \in 1 .. Len(toDriver') : ~IsAnswer(toDriver'[i])
            /\ console => /\ ~Answering /\ daemon # "data"
                          /\ \A i \in 1 .. Len(toDaemon) : ~IsRequest(toDaemon[i])
        BY <1>1, <3>1, AnswerTaken DEF m
      <3>3. ReadsRight'
        BY <1>1, <3>2 DEF Right, ReadsRight
      <3>4. Arrived' /\ Coming'
        BY <1>1, <3>2 DEF Arrived, Coming, Arriving, Answering
      <3> QED
        BY <1>2, <3>3, <3>4 DEF Known
    <2> QED
      BY <2>2, <2>3
  <1> QED
    BY <1>3, <1>4

LEMMA WriteAnswerKnows == ASSUME Kept, Known, WriteAnswer PROVE Known'
PROOF
  <1>0. Types /\ Greeting /\ Buffers /\ Untold /\ Unconfirmed /\ Stored /\ ReadsRight
    BY DEF Kept, Known
  <1> DEFINE m == Head(toDriver)
  <1>1. /\ driver.at = "writing" /\ Receive
        /\ UNCHANGED <<daemon, line, outfile, datafile, file, toDaemon, console, stale, right>>
        /\ \/ /\ m.kind = "sum" /\ m.data = driver.data
              /\ driver' = [driver EXCEPT !.at = "ready"]
              /\ confirmed' = [confirmed EXCEPT ![driver.block] = driver.data]
           \/ driver' = [driver EXCEPT !.at = "lost"] /\ UNCHANGED confirmed
    BY DEF WriteAnswer, server
  <1>2. Buffers' /\ ReadsRight'
    BY <1>0, <1>1 DEF Buffers, ReadsRight
  <1>3. Untold'
    BY <1>0, <1>1 DEF Greeting, Untold
  <1> HIDE DEF m
  <1>4. CASE driver' = [driver EXCEPT !.at = "lost"] /\ UNCHANGED confirmed
    <2>1. driver'.at = "lost"
      BY <1>0, <1>4 DEF Types
    <2>2. Unconfirmed' /\ Stored'
      BY <1>0, <1>1, <1>4 DEF Unconfirmed, Stored, Holds, Flushing
    <2> QED
      BY <1>2, <1>3, <2>1, <2>2, NotOpen DEF Known
  <1>5. CASE /\ m.kind = "sum" /\ m.data = driver.data
             /\ driver' = [driver EXCEPT !.at = "ready"]
             /\ confirmed' = [confirmed EXCEPT ![driver.block] = driver.data]
    <2>1. CASE stale
      BY <1>1, <1>2, <1>3, <2>1 DEF Known, Unconfirmed, Stored, Arrived, Coming, IsOpen
    <2>2. CASE ~stale
      <3>1. IsOpen /\ IsAnswer(m)
        BY <1>1, <1>5, <2>2 DEF IsOpen, IsAnswer
      <3>2. /\ Right(m)
            /\ \A i \in 1 .. Len(toDriver') : ~IsAnswer(toDriver'[i])
            /\ console => /\ ~Answering /\ daemon # "data"
                          /\ \A i \in 1 .. Len(toDaemon) : ~IsRequest(toDaemon[i])
        BY <1>1, <3>1, AnswerTaken DEF m
      <3>3. Holds(driver.block, driver.data)
        BY <1>1, <3>2 DEF Right
      <3>4. Stored'
        <4>1. SUFFICES ASSUME NEW b \in Block, confirmed'[b] # None PROVE Holds(b, confirmed[b])'
          BY DEF Stored
        <4>2. PICK v : v = confirmed'[b]
          OBVIOUS
        <4>3. Holds(b, v)
          BY <1>0, <1>5, <2>2, <3>3, <4>1, <4>2 DEF Types, Stored
        <4> QED
          BY <1>1, <4>2, <4>3 DEF Holds, Flushing
      <3>5. Unconfirmed'
        BY <1>1, <3>2 DEF Unconfirmed, IsRequest
      <3>6. Arrived' /\ Coming'
        BY <1>1, <3>2 DEF Arrived, Coming, Arriving, Answering
      <3> QED
        BY <1>2, <1>3, <3>4, <3>5, <3>6 DEF Known
    <2> QED
      BY <2>1, <2>2
  <1> QED
    BY <1>1, <1>4, <1>5

LEMMA RestartKnows == ASSUME Known, Restart PROVE Known'
PROOF
  <1>0. Buffers /\ Untold /\ Unconfirmed /\ Stored /\ ReadsRight
    BY DEF Known
  <1>1. /\ driver' = Down
        /\ UNCHANGED <<daemon, line, outfile, datafile, file, toDaemon, console, confirmed, stale, right>>
    BY DEF Restart, server, history
  <1>2. Buffers' /\ Untold' /\ Unconfirmed' /\ Stored' /\ ReadsRight'
    BY <1>0, <1>1 DEF Buffers, Untold, Unconfirmed, Stored, Holds, Flushing, ReadsRight
  <1>3. driver'.at = "down"
    BY <1>1 DEF Down
  <1> QED
    BY <1>2, <1>3, NotOpen DEF Known

LEMMA KnownStep == ASSUME Kept, Kept', Known, [Next]_vars PROVE Known'
PROOF
  <1>1. CASE UNCHANGED vars
    BY <1>1 DEF vars, server, wires, history, Known, Buffers, Untold, Unconfirmed, Stored, Holds,
                Flushing, Arrived, Coming, IsOpen, Right, Arriving, Answering, Pending, ReadsRight
  <1> QED
    BY <1>1, StartKnows, ServeKnows, WriteBlockKnows, FlushOutKnows, FlushDataKnows, EndKnows,
       SendKnows, AskedKnows, SkipKnows, ReadAnswerKnows, WriteAnswerKnows, RestartKnows
       DEF Next, Daemon, Driver

LEMMA KnownAlways == Spec => []Known
PROOF
  BY KnownInit, KnownStep, Invariant, PTL DEF Spec

------------------------------------------------------------------------------
(* Every variable keeps its type, and nobody greets or asks too often.     *)
THEOREM TypesKept == Spec => []TypeOK
PROOF
  <1>1. Kept => TypeOK
    BY DEF Kept, Types, TypeOK, Content
  <1> QED
    BY <1>1, Invariant, PTL

(* What the daemon serves is never the data of a write. *)
THEOREM ServesInStep == Spec => []InStep
PROOF
  <1>1. Kept => InStep
    BY DEF Kept, InStep
  <1> QED
    BY <1>1, Invariant, PTL

(* What the driver was told is stored is in the file, but for the write     *)
(* whose answer has just gone out: after a kill, at the end of the console, *)
(* and when a restarted board's query was taken for the data of a block.    *)
THEOREM ConfirmedIsStored == Spec => []Confirmed
PROOF
  <1>1. Known => Confirmed
    BY DEF Known, Stored, Holds, Confirmed
  <1> QED
    BY <1>1, KnownAlways, PTL

(* A read of an open driver answers with what was stored last. *)
THEOREM ReadsAreRight == Spec => []ReadsRight
PROOF
  <1>1. Known => ReadsRight
    BY DEF Known
  <1> QED
    BY <1>1, KnownAlways, PTL
===============================================================================
