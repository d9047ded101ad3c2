------------------------------- MODULE MCNetshell -------------------------------
(***************************************************************************)
(* Two clients: one that waits for its answers, one that sends ahead.      *)
(***************************************************************************)
EXTENDS Netshell

CONSTANTS c1, c2, k1

\* A request that sends the block its line declares, with no newline but the last.
Request4(cmd, ntokens, head, body) ==
  [cmd |-> cmd, key |-> k1, ntokens |-> ntokens, head |-> head,
   need |-> IF body = 0 THEN 1 ELSE body, body |-> body, breaks |-> {body} \ {0}]

Plain(cmd) == Request4(cmd, Arity(cmd), 1, IF cmd \in Storing THEN 3 ELSE 0)

Empty   == Request4("set", 6, 2, 1)    \* a set with an empty value
NoReply == Request4("set", 7, 1, 3)    \* a set with a word too many
TooLong == Request4("get", 3, 5, 0)    \* a line longer than the buffer
Pair    == Request4("set", 6, 1, 2)    \* a set of a value in one piece

Lines2  == [Plain("set") EXCEPT !.breaks = {1, 3}]   \* a value that holds a newline
Less    == [Pair EXCEPT !.body = 4, !.breaks = {2, 4}]   \* more is sent than is declared
More    == [Pair EXCEPT !.need = 4]                  \* less is sent than is declared

MCRequest == {Plain(cmd) : cmd \in Cmd} \cup {Empty, NoReply, TooLong, Lines2}

\* A stray line may be no command, show a value, or take what follows for a block.
MCStray == {NoReply, Plain("get"), Pair}

Both(p, q) == [c \in Conn |-> IF c = c1 THEN p ELSE q]

\* Alone, the client that waits makes any request and then one that shows what
\* it left behind; the other client sends ahead; or both are served.
Alone ==
  {<<p, Plain("get")>> : p \in MCRequest}
  \cup {<<Plain("get"), Plain("stats")>>, <<Pair, Plain("append")>>,
        <<Empty, Plain("prepend")>>, <<Pair, Plain("replace")>>,
        <<Less, Plain("get")>>, <<Lines2, Plain("dump"), Plain("load")>>,
        <<Pair, Plain("incr"), Plain("dump"), Plain("load")>>}

Ahead ==
  {<<Pair, Plain("set"), Plain("get")>>, <<Plain("get"), Pair, Plain("stats")>>,
   <<NoReply, Plain("set")>>, <<TooLong, Pair>>, <<Less, Pair>>, <<More, Pair, Pair>>}

Together == {<<<<Plain("incr")>>, <<Plain("delete")>>>>}

MCScript ==
  {Both(p, <<>>) : p \in Alone} \cup {Both(<<>>, q) : q \in Ahead}
  \cup {Both(t[1], t[2]) : t \in Together}

================================================================================
