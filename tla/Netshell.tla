-------------------------------- MODULE Netshell --------------------------------
(***************************************************************************)
(* netshell: the event loop (eventmgr.hpp), the listening socket, the      *)
(* clients at the other end of the sockets, and the signal that ends it    *)
(* all (netshell.cc). One thread runs main, the loop and the handlers of   *)
(* McConn; clients and signals come in between any two of its steps.       *)
(***************************************************************************)
EXTENDS McConn, Tokenize

CONSTANTS
  Listener,     \* the connection in state Listening
  Sync          \* the clients that wait for an answer before they ask again

ASSUME NetshellAssumption ==
  Listener \notin Conn \cup {NoConn} /\ Sync \subseteq Conn

VARIABLES
  pc,       \* where main is
  stop,     \* EventMgr::stop_
  batch     \* the events epoll_wait returned that are still to be handled

loopVars == <<pc, stop, batch>>
vars == <<script, sock, conn, db, file, current, ran, pc, stop, batch>>

Init ==
  /\ script \in Script /\ ran = [c \in Conn |-> <<>>]
  /\ sock = [c \in Conn |-> NoSocket] /\ conn = [c \in Conn |-> Absent]
  /\ db = <<>> /\ file = <<>> /\ current = NoConn
  /\ pc = "main" /\ stop = FALSE /\ batch = {}

-------------------------------------------------------------------------------
(***************************************************************************)
(* main, from the installation of the signal handlers on.                  *)
(***************************************************************************)
Goto(from, to) == pc = from /\ pc' = to /\ UNCHANGED <<connVars, batch>>

Install == Goto("main", "armed") /\ UNCHANGED stop

\* new McShell: a socket that listens, an epoll set, the flag down. Only the
\* assignment of mcShell lets the handler see it.
Construct == Goto("armed", "built") /\ stop' = FALSE

\* One of the calls of the constructor fails, and main catches it.
Throw == Goto("armed", "over") /\ UNCHANGED stop

Run == Goto("built", "loop") /\ stop' = FALSE

\* shmc_destroy, then the process ends and the kernel closes its sockets.
Exit ==
  /\ pc = "over" /\ pc' = "exited"
  /\ sock' = [c \in Conn |-> NoSocket] /\ conn' = [c \in Conn |-> Absent]
  /\ UNCHANGED <<script, db, file, current, ran, stop, batch>>

\* SIGTERM or SIGINT, once the handlers are installed.
Signal ==
  /\ pc \in {"armed", "built", "loop"}
  /\ stop' = (stop \/ pc # "armed")
  /\ UNCHANGED <<connVars, pc, batch>>

-------------------------------------------------------------------------------
(***************************************************************************)
(* EventMgr::run. The timer of the loop is not set by netshell.            *)
(***************************************************************************)
Pending == {c \in Conn : sock[c].open /\ conn[c].state = "None"}

\* Level-triggered: a socket is ready as long as it has something to read.
Ready ==
  {c \in Conn : conn[c].want = "in" /\ (sock[c].in # <<>> \/ sock[c].eof \/ sock[c].err)}
  \cup {c \in Conn : conn[c].want = "out"}
  \cup (IF Pending # {} THEN {Listener} ELSE {})

Idle == pc = "loop" /\ batch = {} /\ current = NoConn

\* Mutant: the flag is not looked at.
EpollWaitDeaf ==
  /\ Idle /\ Ready # {}
  /\ batch' = Ready
  /\ UNCHANGED <<connVars, pc, stop>>

\* With nothing ready epoll_wait waits and times out, or is interrupted, and the
\* loop goes round: nothing changes.
EpollWait ==
  /\ Idle /\ ~stop /\ Ready # {}
  /\ batch' = Ready
  /\ UNCHANGED <<connVars, pc, stop>>

Leave == Idle /\ stop /\ Goto("loop", "over") /\ UNCHANGED stop

\* epoll_wait fails for another reason than a signal.
Break == Idle /\ ~stop /\ Goto("loop", "over") /\ UNCHANGED stop

Dispatch(c) ==
  /\ pc = "loop" /\ current = NoConn /\ c \in batch
  /\ current' = c /\ batch' = batch \ {c}
  /\ UNCHANGED <<script, sock, conn, db, file, ran, pc, stop>>

\* onListening: accept fails; the new socket cannot be made non-blocking and is
\* forgotten open; epoll refuses it and it is closed; or it is served.
OnListening ==
  /\ pc = "loop" /\ current = Listener
  /\ \/ UNCHANGED <<conn, sock>>
     \/ \E c \in Pending :
          \/ conn' = [conn EXCEPT ![c].state = "Leaked"] /\ UNCHANGED sock
          \/ conn' = [conn EXCEPT ![c].state = "Gone"] /\ sock' = [sock EXCEPT ![c] = NoSocket]
          \/ conn' = [conn EXCEPT ![c] = Fresh] /\ UNCHANGED sock
  /\ DmStop
  /\ UNCHANGED <<script, db, file, ran, loopVars>>

DriverMachine(c) == pc = "loop" /\ Handler(c) /\ UNCHANGED loopVars

Server ==
  \/ Install \/ Construct \/ Run \/ Exit
  \/ EpollWait \/ Leave \/ OnListening
  \/ \E c \in Conn \cup {Listener} : Dispatch(c)
  \/ \E c \in Conn : DriverMachine(c)

-------------------------------------------------------------------------------
(***************************************************************************)
(* The clients.                                                            *)
(***************************************************************************)
\* What they do once the loop has ended reaches nobody.
Client(c) ==
  /\ pc \in {"built", "loop"} /\ sock[c].open
  /\ UNCHANGED <<script, conn, db, file, current, ran, loopVars>>

Connect(c) ==
  /\ pc \in {"built", "loop"}   \* the constructor has called listen
  /\ ~sock[c].open /\ conn[c].state = "None" /\ script[c] # <<>>
  /\ sock' = [sock EXCEPT ![c].open = TRUE]
  /\ UNCHANGED <<script, conn, db, file, current, ran, loopVars>>

Ask(c) ==
  /\ Client(c) /\ ~sock[c].eof /\ ~sock[c].err
  /\ sock[c].todo = <<>> /\ sock[c].begun < Len(script[c])
  /\ c \in Sync => Len(sock[c].out) >= sock[c].begun
  /\ sock' = [sock EXCEPT ![c].begun = @ + 1, ![c].todo = Message(c, sock[c].begun + 1)]

\* The stream reaches the server in pieces of any length.
Send(c) ==
  /\ Client(c) /\ sock[c].todo # <<>> /\ ~sock[c].eof /\ ~sock[c].err
  /\ sock' = [sock EXCEPT ![c].in = Append(@, Head(sock[c].todo)),
                          ![c].todo = Tail(@)]

Hangup(c) ==
  /\ Client(c) /\ ~sock[c].eof /\ ~sock[c].err
  /\ \/ sock' = [sock EXCEPT ![c].eof = TRUE]
     \/ sock' = [sock EXCEPT ![c].err = TRUE, ![c].in = <<>>]

Next ==
  \/ Server \/ Throw \/ Break \/ Signal
  \/ \E c \in Conn : Connect(c) \/ Ask(c) \/ Send(c) \/ Hangup(c)

\* The thread of netshell runs on, the calls of shmc return, and epoll_wait
\* reports what is ready.
Spec == Init /\ [][Next]_vars /\ WF_vars(Server)

-------------------------------------------------------------------------------
(***************************************************************************)
(* Properties.                                                             *)
(***************************************************************************)
UnitType == [c : Conn \cup {NoConn}, r : Nat, i : Nat]
Value == Seq(UnitType)

\* The fields of a connection and the places of main are those of the code, no
\* buffer is fuller than its size.
TypeOK ==
  /\ \A c \in Conn :
       /\ conn[c].state \in {"None", "Read", "NRead", "Write", "Close", "Gone", "Leaked"}
       /\ conn[c].header \in Value /\ Len(conn[c].header) <= HeaderSize
       /\ conn[c].body \in Value /\ Len(conn[c].body) <= conn[c].bodySize
       /\ conn[c].resBody \in Value
       /\ conn[c].want \in {"none", "in", "out"}
  /\ \A k \in Held : k \in Key /\ db[k] \in Value
  /\ current \in Conn \cup {Listener, NoConn} /\ batch \subseteq Conn \cup {Listener}
  /\ pc \in {"main", "armed", "built", "loop", "over", "exited"} /\ stop \in BOOLEAN

\* In v the unit at p stands among those that follow the line of e, in their order
\* and from the first on, up to the newline that ends the block or to where a
\* record of a file was short.
InBlock(v, p, e) ==
  \E i \in 1 .. p, j \in p .. Len(v) :
    /\ v[i] = Succ(e.line)
    /\ \A n \in i .. j - 1 : v[n + 1] = Succ(v[n])
    /\ Succ(v[j]) = e.last \/ (j < Len(v) /\ v[j + 1] = Foreign)

\* Whatever the lengths in which a stream arrives, whatever a client sends ahead and
\* whatever it makes netshell take for a command, a value is made of whole blocks: of
\* the units that came behind the line of a command that was executed, without a gap
\* and without a unit of anything else between them, and a dump and a load leave
\* them so but where a record is short (reqBodyBytes_, reqHeaderBytes_, the memcpy
\* of onRead; %.*s of shmc_dump_nolock).
WholeValues ==
  \A k \in Held : \A p \in DOMAIN db[k] :
    LET u == db[k][p]
    IN  u.c \in Conn /\ ~Number(u) => \E e \in Range(ran[u.c]) : InBlock(db[k], p, e)

\* tokenize, which takes one character after the other and skips what follows a
\* backslash, finds the words of a line as they are defined without it.
TokenizeFindsWords ==
  pc = "main" => \A line \in Lines : FirstWords(line, Tokens(line))

\* u is sent before w.
Before(u, w) == u.r < w.r \/ (u.r = w.r /\ u.i < w.i)

\* No byte of a stream is executed twice, and the commands of one connection are
\* executed in the order in which they were sent: what stays in the header buffer
\* after a command is not taken for a command again, and of what was stored as a
\* block nothing is.
ExecutedOnce ==
  \A c \in Conn : \A m, n \in DOMAIN ran[c] : m < n => Before(ran[c][m].last, ran[c][n].line)

\* The requests of a client that keep to the protocol and to the buffer.
Proper(k) ==
  /\ k.ntokens = Arity(k.cmd) /\ k.head < HeaderSize
  /\ k.body = IF k.cmd \in Storing THEN k.need ELSE 0

ProperSoFar(c) == \A r \in 1 .. sock[c].begun : Proper(script[c][r])

\* A client that waits for each answer gets exactly one for each request it has
\* made, in order, with a value after the line of a hit and of stats only, and the
\* line printed for that request. The line before
\* the statistics is the exception: doStats prints no line, and the one of the
\* last answer is sent again.
AnswerToEach ==
  \A c \in Sync :
    ProperSoFar(c) =>
      \A n \in DOMAIN sock[c].out :
        LET o == sock[c].out[n]
        IN  /\ n <= sock[c].begun /\ o.for = n
            /\ o.to = n \/ (script[c][n].cmd = "stats" /\ o.to < n)
            /\ o.value => o.rc = "VALUE" \/ script[c][n].cmd = "stats"

\* Between two events a connection waits for input and for nothing else, and it
\* has no answer, nor part of one, left to write.
AtRest ==
  \A c \in Conn :
    current # c /\ conn[c].state \in {"Read", "NRead", "Write", "Close"} =>
      conn[c].state # "Write" /\ conn[c].state # "Close"
      /\ conn[c].want = "in" /\ conn[c].resBody = <<>>

Serving == pc = "loop" /\ ~stop

\* The client has sent a request whole and waits.
Waiting(c) ==
  /\ ProperSoFar(c) /\ Serving /\ conn[c].state \in {"Read", "NRead", "Write"}
  /\ sock[c].todo = <<>> /\ Len(sock[c].out) < sock[c].begun

\* A client that keeps to the protocol and waits for each answer gets one, or finds its connection closed,
\* as long as netshell is not told to stop.
Answered == \A c \in Sync : Waiting(c) ~> ~Waiting(c)

\* When a client has gone its connection is given back, whatever it was doing.
HangupFrees ==
  \A c \in Conn :
    (Serving /\ sock[c].eof /\ conn[c].state \in {"Read", "NRead", "Write"})
      ~> (conn[c].state = "Gone" \/ ~Serving)

\* A signal that arrives once the loop runs ends netshell, however busy its
\* clients are. (One that arrives before line 83 of eventmgr.hpp may be lost.)
StopHeeded == (pc = "loop" /\ stop) ~> pc = "exited"

================================================================================
