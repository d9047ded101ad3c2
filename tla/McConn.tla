--------------------------------- MODULE McConn ---------------------------------
(***************************************************************************)
(* The connections of netshell (mcshell.cc): the state machine McConn that *)
(* turns the bytes of a socket into calls of shmc and the answers of shmc  *)
(* into bytes. Each handler is one step of driverMachine for the           *)
(* connection `current`; it reads what the socket holds at that moment.    *)
(*                                                                         *)
(* A byte string is a sequence of units. Request r of connection c is      *)
(* [c, r, 1], [c, r, 2] ...: the pieces of its command line, the newline,  *)
(* and what the client sends behind it. The stream has no other marks: a   *)
(* server that has lost its place reads data, or the rest of a line, as if *)
(* it were a command line, and what it then says is taken from Stray.      *)
(***************************************************************************)
EXTENDS Integers, Sequences, SequencesExt

CONSTANTS
  Conn,           \* the connections clients may open
  Script,         \* what they may send: functions from Conn to sequences of requests
  Key,
  HeaderSize,     \* REQ_HEADER_SIZE, in units
  DefaultCounter, \* attr default_counter
  Stray,          \* what bytes may say that are read as a line and were not sent as one
  NoConn

Storing == {"set", "add", "replace", "prepend", "append"}
Cmd == Storing \cup {"get", "incr", "decr", "delete", "stats", "dump", "load", "quit"}

\* The command line says cmd, key, the words tokenize finds in it and need, the
\* units of the data block with its newline. The client sends head units, a
\* newline and, whatever the line says, body units, of which breaks are newlines.
Request ==
  [cmd : Cmd, key : Key, ntokens : Nat, need : Nat \ {0},
   head : Nat \ {0}, body : Nat, breaks : SUBSET Nat]

ASSUME ConnAssumption ==
  /\ Script \subseteq [Conn -> Seq(Request)] /\ Stray \subseteq Request /\ Stray # {}
  /\ HeaderSize \in Nat \ {0} /\ DefaultCounter \in BOOLEAN /\ NoConn \notin Conn

VARIABLES
  script,   \* script[c]: the requests client c makes, chosen at the start
  sock,     \* sock[c]: what the kernel holds of the socket of c
  conn,     \* conn[c]: the McConn object
  db,       \* the content of the segment, key -> pieces of the value
  file,     \* the file of dump and load, key -> record
  current,  \* the connection in driverMachine, or NoConn
  ran       \* ran[c]: what has been executed of the stream of c, command by command

connVars == <<script, sock, conn, db, file, current, ran>>

\* The bytes of a request.
Unit(c, r, i) == [c |-> c, r |-> r, i |-> i]
Units(c, r, from, to) == [n \in 1 .. to - from + 1 |-> Unit(c, r, from + n - 1)]
Line(c, r) == Units(c, r, 1, script[c][r].head + 1)
Message(c, r) == Units(c, r, 1, script[c][r].head + 1 + script[c][r].body)
Newline(u) ==
  LET k == script[u.c][u.r] IN u.i = k.head + 1 \/ u.i - (k.head + 1) \in k.breaks

\* The unit that is sent after u.
Succ(u) ==
  LET k == script[u.c][u.r]
  IN  IF u.i < k.head + 1 + k.body THEN Unit(u.c, u.r, u.i + 1) ELSE Unit(u.c, u.r + 1, 1)

\* No unit of a client: the text of statistics, and what load takes from a place
\* in the file where the value does not stand.
NoUnit == Unit(NoConn, 0, 0)
Foreign == Unit(NoConn, 0, 1)

\* Before the first command.
NoRequest == [cmd |-> "none"]

\* What the constructor makes of an accepted socket. req is what tokens_ and
\* ctype_ say, line the newline of the line they are from.
Fresh ==
  [state |-> "Read", want |-> "in", header |-> <<>>, req |-> NoRequest, line |-> NoUnit,
   body |-> <<>>, bodySize |-> 0, resHeader |-> [to |-> 0, rc |-> "none"], resBody |-> <<>>,
   resFor |-> 0]

\* A socket: whether the client has it open, what it has sent and the server not
\* read, end of file and error, the replies; of the client, how many requests it
\* has begun and what it has left to send of the last.
NoSocket ==
  [open |-> FALSE, in |-> <<>>, eof |-> FALSE, err |-> FALSE, out |-> <<>>,
   begun |-> 0, todo |-> <<>>]

Absent == [Fresh EXCEPT !.state = "None", !.want = "none"]

-------------------------------------------------------------------------------
(***************************************************************************)
(* The calls of shmc and the line each of their answers is turned into. A  *)
(* result is that line, the value to send after it and the new content.    *)
(***************************************************************************)
Held == DOMAIN db
Without(k) == [x \in Held \ {k} |-> db[x]]

\* The content when room has been made: a key may have been evicted.
Room == {db} \cup {Without(x) : x \in Held}
Bind(d, k, v) == [x \in DOMAIN d \cup {k} |-> IF x = k THEN v ELSE d[x]]

Result(rc, d) == [rc |-> rc, out |-> <<>>, db |-> d, file |-> file]

\* A call may fail, and may by then have dropped the old value.
Failed(k) == {Result("SERVER_ERROR", db), Result("SERVER_ERROR", Without(k))}
Missed == {Result("NOT_FOUND", db)}

\* Mutant: no line is printed for a key that is not there.
DoGetSilent(k) == {Result(IF k \in Held THEN "SERVER_ERROR" ELSE "keep", db)}

DoGet(k) ==
  IF k \in Held THEN {[Result("VALUE", db) EXCEPT !.out = db[k]], Result("SERVER_ERROR", db)}
                ELSE {Result("END", db)}

DoSet(k, v) == {Result("STORED", Bind(d, k, v)) : d \in Room} \cup Failed(k)
DoAdd(k, v) == IF k \in Held THEN {Result("EXISTS", db)} ELSE DoSet(k, v)
DoReplace(k, v) == IF k \in Held THEN DoSet(k, v) ELSE Missed
DoPrepend(k, v) == IF k \in Held THEN DoSet(k, v \o db[k]) ELSE Missed
DoAppend(k, v) == IF k \in Held THEN DoSet(k, db[k] \o v) ELSE Missed

\* The number incr or decr leaves is one piece, whatever stands behind its NUL
\* included. It may be lost with the old value (see Vanish in Cache).
DoArithmetic(k, n) ==
  IF k \in Held \/ DefaultCounter
  THEN {Result("NUMBER", Bind(d, k, n)) : d \in Room} \cup {Result("NUMBER", Without(k))}
       \cup Failed(k)
  ELSE Missed

DoDelete(k) ==
  IF k \in Held THEN {Result("DELETED", Without(k)), Result("SERVER_ERROR", db)} ELSE Missed

\* The line is left as it was: only the value is set.
Statistics == <<NoUnit>>
DoStats == {[Result("keep", db) EXCEPT !.out = Statistics], Result("SERVER_ERROR", db)}

\* The functions on K that choose from From[k] for each k.
Chosen(K, From) == {f \in [K -> UNION {From[k] : k \in K}] : \A k \in K : f[k] \in From[k]}

Number(u) == u.c \in Conn /\ u.i = 0

\* What is printed of the value v: %.*s stops at a NUL, which follows every number
\* and which a data block may hold anywhere.
Records(v) ==
  (IF \E n \in DOMAIN v : Number(v[n]) THEN {} ELSE {[text |-> v, short |-> FALSE]})
  \cup {[text |-> SubSeq(v, 1, n), short |-> TRUE] :
          n \in {m \in 0 .. Len(v) : \A p \in 1 .. m - 1 : ~Number(v[p])}}

\* What load finds of a record: behind one that is short the bytes of the next as well.
Restored(x) == IF x.short THEN Append(x.text, Foreign) ELSE x.text

\* The file is empty or cut short where the disk is full, or cannot be opened.
DoDump ==
  {[Result("DUMPED", db) EXCEPT !.file = f] :
     f \in UNION {Chosen(K, [k \in Held |-> Records(db[k])]) : K \in SUBSET Held}}
  \cup {Result("SERVER_ERROR", db)}

\* Behind a record that is short load reads on in the middle of the next one.
Astray == \E k \in DOMAIN file : file[k].short

\* What a key may hold after load, if some keys of the file are passed over.
Loaded(some) ==
  [k \in Key |->
     (IF k \in DOMAIN file THEN {Restored(file[k])} ELSE {})
     \cup (IF k \in Held /\ (some \/ k \notin DOMAIN file) THEN {db[k]} ELSE {})
     \cup (IF Astray THEN {<<Foreign>>} ELSE {})]

\* Any key may have been evicted for the records that come after it. How far load
\* gets in the file, and what it then says, is the subject of DumpLoad.
AfterLoad(some) ==
  IF file = <<>> THEN {db} ELSE UNION {Chosen(K, Loaded(some)) : K \in SUBSET Key}

DoLoad ==
  {Result("LOADED", d) : d \in AfterLoad(Astray)}
  \cup {Result("SERVER_ERROR", d) : d \in AfterLoad(TRUE)}

\* The branches of onRead that call shmc at once, for the line that ends at u.
Do(q, u) ==
  CASE q.cmd = "get"    -> DoGet(q.key)
    [] q.cmd = "incr"   -> DoArithmetic(q.key, <<Unit(u.c, u.r, 0)>>)
    [] q.cmd = "decr"   -> DoArithmetic(q.key, <<Unit(u.c, u.r, 0)>>)
    [] q.cmd = "delete" -> DoDelete(q.key)
    [] q.cmd = "stats"  -> DoStats
    [] q.cmd = "dump"   -> DoDump
    [] q.cmd = "load"   -> DoLoad

\* The switch of onNRead; the last two bytes of the data block are not stored.
DoStore(q, block) ==
  LET v == Front(block)
  IN  CASE q.cmd = "set"     -> DoSet(q.key, v)
        [] q.cmd = "add"     -> DoAdd(q.key, v)
        [] q.cmd = "replace" -> DoReplace(q.key, v)
        [] q.cmd = "prepend" -> DoPrepend(q.key, v)
        [] q.cmd = "append"  -> DoAppend(q.key, v)

-------------------------------------------------------------------------------
(***************************************************************************)
(* The handlers. DmGoOn keeps the connection in driverMachine, DmStop      *)
(* leaves it.                                                              *)
(***************************************************************************)
In(c, state) == current = c /\ conn[c].state = state
DmGoOn == UNCHANGED current
DmStop == current' = NoConn

Become(c, o) == conn' = [conn EXCEPT ![c] = o]

\* Mutant: the room left in the buffer is not looked at.
PrefixAll(s, n) == s

\* The first n units of s, or all of them.
Prefix(s, n) == SubSeq(s, 1, IF n < Len(s) THEN n ELSE Len(s))

\* recv, until the socket is empty or the room is used up: what the buffer
\* holds then, and what stays in the socket.
Taken(c, have, room) == have \o Prefix(sock[c].in, room - Len(have))
Receive(c, have, room) ==
  sock' = [sock EXCEPT ![c].in = SubSeq(@, room - Len(have) + 1, Len(@))]

\* Mutant: recv that returns 0 is taken for nothing to read.
ErrorOnly(c, got, room) == Len(got) < room /\ sock[c].err

\* The last recv has not filled the room: it says end of file or an error.
HungUp(c, got, room) == Len(got) < room /\ (sock[c].eof \/ sock[c].err)

\* After the answer is printed: write it, or give up if epoll_ctl fails.
Prepared(o) == {[o EXCEPT !.state = "Write", !.want = "out"], [o EXCEPT !.state = "Close"]}

\* Mutant: reqHeaderBytes_ is not set back to 0.
PrintedOnly(o, r, res) ==
  [o EXCEPT !.resFor = r, !.resHeader = [to |-> r, rc |-> res.rc],
            !.resBody = IF res.rc \in {"VALUE", "keep"} THEN res.out ELSE @]

\* The answer to request r, printed over the one before it.
Printed(o, r, res) ==
  [o EXCEPT !.header = <<>>, !.resFor = r,
            !.resBody = IF res.rc \in {"VALUE", "keep"} THEN res.out ELSE @,
            !.resHeader = IF res.rc = "keep" THEN @ ELSE [to |-> r, rc |-> res.rc]]

Took(res) == db' = res.db /\ file' = res.file

Header(c) == Taken(c, conn[c].header, HeaderSize)

\* The place of the first newline, 0 if there is none.
LineEnd(c) == SelectInSeq(Header(c), Newline)

\* The unit that ends the line, and what the line says: what the client means, if
\* it is the line of a request of its own, no more and no less.
Ending(c) == Header(c)[LineEnd(c)]
Says(c) ==
  LET line == SubSeq(Header(c), 1, LineEnd(c))
      r    == Head(line).r
  IN  IF line = Line(c, r) THEN {script[c][r]} ELSE Stray

\* The words a command takes, an empty one after the last included.
Arity(cmd) ==
  IF cmd \in Storing THEN 6
  ELSE IF cmd \in {"incr", "decr"} THEN 4
  ELSE IF cmd \in {"stats", "quit"} THEN 2 ELSE 3

\* A line with nothing before its newline is no command.
Known(c, q) == LineEnd(c) > 1 /\ q.ntokens = Arity(q.cmd)

ReadHangup(c) ==
  /\ In(c, "Read") /\ HungUp(c, Header(c), HeaderSize)
  /\ Receive(c, conn[c].header, HeaderSize)
  /\ Become(c, [conn[c] EXCEPT !.header = Header(c), !.state = "Close"])
  /\ DmGoOn
  /\ UNCHANGED <<script, db, file, ran>>

\* What the three actions below have in common.
Reads(c) ==
  /\ In(c, "Read") /\ ~HungUp(c, Header(c), HeaderSize)
  /\ Receive(c, conn[c].header, HeaderSize)
  /\ UNCHANGED script

ReadNoLine(c) ==
  /\ Reads(c) /\ LineEnd(c) = 0
  /\ IF Len(Header(c)) = HeaderSize
     THEN /\ \E o \in Prepared(Printed(conn[c], Last(Header(c)).r,
                                       Result("ERROR too long", db))) :
               Become(c, o)
          /\ DmGoOn
     ELSE Become(c, [conn[c] EXCEPT !.header = Header(c)]) /\ DmStop
  /\ UNCHANGED <<db, file, ran>>

\* Mutant: what came with the line is not copied.
NothingCarried(c, need) == conn[c].body

\* What follows the line in the buffer is the start of the data block, and what
\* follows the block is dropped.
Carried(c, need) ==
  LET extra == SubSeq(Header(c), LineEnd(c) + 1, Len(Header(c)))
  IN  IF extra = <<>> THEN conn[c].body ELSE Prefix(extra, need)

\* set, add, replace, prepend, append.
ReadStoring(c) ==
  /\ Reads(c) /\ LineEnd(c) > 0
  /\ \E q \in Says(c) :
       LET block == Carried(c, q.need)
       IN  /\ Known(c, q) /\ q.cmd \in Storing
           /\ Become(c, [conn[c] EXCEPT !.header = Header(c), !.req = q, !.line = Ending(c),
                                        !.bodySize = q.need, !.body = block, !.state = "NRead"])
           /\ IF Len(block) = q.need \/ Len(Header(c)) = HeaderSize THEN DmGoOn ELSE DmStop
  /\ UNCHANGED <<db, file, ran>>

\* The other commands. All that follows the line in the buffer is dropped.
ReadCommand(c) ==
  /\ Reads(c) /\ LineEnd(c) > 0
  /\ \E q \in Says(c) :
       \/ /\ Known(c, q) /\ q.cmd = "quit"
          /\ Become(c, [conn[c] EXCEPT !.header = Header(c), !.state = "Close"])
          /\ UNCHANGED <<db, file, ran>>
       \/ /\ Known(c, q) /\ q.cmd \notin Storing \cup {"quit"}
          /\ \E res \in Do(q, Ending(c)) :
               /\ Took(res)
               /\ \E o \in Prepared(Printed(conn[c], Ending(c).r, res)) : Become(c, o)
          /\ ran' = [ran EXCEPT ![c] = Append(@, [line |-> Ending(c), last |-> Ending(c)])]
       \/ /\ ~Known(c, q)
          /\ \E o \in Prepared(Printed(conn[c], Ending(c).r, Result("CLIENT_ERROR", db))) :
               Become(c, o)
          /\ UNCHANGED <<db, file, ran>>
  /\ DmGoOn

Block(c) == Taken(c, conn[c].body, conn[c].bodySize)

\* A block that is not whole yet: the end of the connection, or more to come.
NReadShort(c) ==
  /\ In(c, "NRead") /\ Len(Block(c)) < conn[c].bodySize
  /\ Receive(c, conn[c].body, conn[c].bodySize)
  /\ \/ /\ HungUp(c, Block(c), conn[c].bodySize)
        /\ Become(c, [conn[c] EXCEPT !.body = Block(c), !.state = "Close"]) /\ DmGoOn
     \/ /\ ~HungUp(c, Block(c), conn[c].bodySize)
        /\ Become(c, [conn[c] EXCEPT !.body = Block(c)]) /\ DmStop
  /\ UNCHANGED <<script, db, file, ran>>

NRead(c) ==
  /\ In(c, "NRead") /\ Len(Block(c)) = conn[c].bodySize
  /\ Receive(c, conn[c].body, conn[c].bodySize)
  /\ \E res \in DoStore(conn[c].req, Block(c)) :
       /\ Took(res)
       /\ \E o \in Prepared(Printed(conn[c], conn[c].line.r, res)) :
            Become(c, [o EXCEPT !.body = <<>>])
  /\ ran' = [ran EXCEPT ![c] = Append(@, [line |-> conn[c].line, last |-> Last(Block(c))])]
  /\ DmGoOn
  /\ UNCHANGED script

\* The line, and with a value that is not empty the value and "\r\nEND\r\n".
Reply(o, whole) ==
  [to |-> o.resHeader.to, rc |-> o.resHeader.rc, for |-> o.resFor,
   value |-> o.resBody # <<>>, whole |-> whole]

\* Mutant: resBodySize_ is not set back to 0.
WrittenKept(o) == [o EXCEPT !.state = "Read", !.want = "in"]

Written(o) == [o EXCEPT !.resBody = <<>>, !.state = "Read", !.want = "in"]

\* All is written; or writev stops short, and the connection is given up.
Write(c) ==
  /\ In(c, "Write")
  /\ \/ /\ sock' = [sock EXCEPT ![c].out = Append(@, Reply(conn[c], TRUE))]
        /\ \/ Become(c, Written(conn[c])) /\ DmStop
           \/ Become(c, [conn[c] EXCEPT !.resBody = <<>>, !.state = "Close"]) /\ DmGoOn
     \/ /\ sock' = [sock EXCEPT ![c].out = Append(@, Reply(conn[c], FALSE))]
        /\ Become(c, [conn[c] EXCEPT !.state = "Close"]) /\ DmGoOn
  /\ UNCHANGED <<script, db, file, ran>>

\* delete this: the destructors free the buffers and close the socket.
Close(c) ==
  /\ In(c, "Close")
  /\ Become(c, [Absent EXCEPT !.state = "Gone"])
  /\ sock' = [sock EXCEPT ![c] = NoSocket]
  /\ DmStop
  /\ UNCHANGED <<script, db, file, ran>>

Handler(c) ==
  \/ ReadHangup(c) \/ ReadNoLine(c) \/ ReadStoring(c) \/ ReadCommand(c)
  \/ NReadShort(c) \/ NRead(c)
  \/ Write(c) \/ Close(c)

================================================================================
