----------------------------- MODULE NetshellProofs -----------------------------
(***************************************************************************)
(* The safety of netshell, for any clients, scripts, keys and size of the  *)
(* header buffer: how far a stream has been read, what has been stored of  *)
(* it, and whose turn it is, the client's to ask or netshell's to answer.  *)
(* At the end, the words tokenize finds on a command line.                 *)
(***************************************************************************)
EXTENDS Netshell, SequenceTheorems, WellFoundedInduction, TLAPS

-------------------------------------------------------------------------------
(***************************************************************************)
(* The stream of a client, that is, the units of its messages one after    *)
(* the other. c is the client, k its script and b the number of requests   *)
(* it has begun.                                                           *)
(***************************************************************************)
LineLen(k, r) == k[r].head + 1
BlockLen(k, r) == k[r].body
Total(k, r) == LineLen(k, r) + BlockLen(k, r)

\* The unit that is sent after u.
NextUnit(k, u) ==
  IF u.i < Total(k, u.r) THEN Unit(u.c, u.r, u.i + 1) ELSE Unit(u.c, u.r + 1, 1)

\* s is a stretch of the stream, without gaps.
Stretch(c, k, b, s) ==
  /\ s \in Seq(UnitType)
  /\ \A m \in DOMAIN s : s[m].c = c /\ s[m].r \in 1 .. b /\ s[m].i \in 1 .. Total(k, s[m].r)
  /\ \A m \in DOMAIN s : m + 1 \in DOMAIN s => s[m + 1] = NextUnit(k, s[m])
  /\ \A m, n \in DOMAIN s : m < n =>
       IF n - m <= Total(k, s[m].r) - s[m].i
       THEN s[n].r = s[m].r /\ s[n].i = s[m].i + (n - m)
       ELSE s[n].r > s[m].r

\* s reaches to the end of the last request.
Reaches(k, b, s) == s # <<>> => s[Len(s)].r = b /\ s[Len(s)].i = Total(k, b)

\* s is after what has been executed, which is n.
After(n, s) == \A m \in DOMAIN s, j \in DOMAIN n : Before(n[j].last, s[m])

\* What the client will have sent of the requests it has begun and the server
\* has not read.
Coming(q) == IF q.err THEN <<>> ELSE q.in \o q.todo

-------------------------------------------------------------------------------
(***************************************************************************)
(* The inductive invariant.                                                *)
(***************************************************************************)
RequestSeq == Seq(Request)

Codes ==
  {"none", "keep", "VALUE", "END", "STORED", "EXISTS", "NOT_FOUND", "NUMBER", "DELETED", "DUMPED",
   "LOADED", "SERVER_ERROR", "CLIENT_ERROR", "ERROR too long"}

ReplyType == [to : Nat, rc : Codes, for : Nat, value : BOOLEAN, whole : BOOLEAN]

Socket ==
  [open : BOOLEAN, in : Value, eof : BOOLEAN, err : BOOLEAN, out : Seq(ReplyType),
   begun : Nat, todo : Value]

States == {"None", "Read", "NRead", "Write", "Close", "Gone", "Leaked"}

Connection ==
  [state : States, want : {"none", "in", "out"}, header : Value,
   req : Request \cup {NoRequest}, line : UnitType, body : Value, bodySize : Nat,
   resHeader : [to : Nat, rc : Codes], resBody : Value, resFor : Nat]

Entry == [line : UnitType, last : UnitType]

\* A value is made of whole blocks, of the commands in n[c] for each c.
WholeBlocks(v, n) ==
  \A p \in DOMAIN v :
    v[p].c \in Conn /\ ~Number(v[p]) => \E e \in Range(n[v[p].c]) : InBlock(v, p, e)

Store == UNION {[K -> Value] : K \in SUBSET Key}
Blocks(d, n) == \A k \in DOMAIN d : WholeBlocks(d[k], n)

Record == [text : Value, short : BOOLEAN]
Files == UNION {[K -> Record] : K \in SUBSET Key}
FileBlocks(f, n) == \A k \in DOMAIN f : WholeBlocks(Restored(f[k]), n)

Types ==
  /\ script \in [Conn -> RequestSeq]
  /\ sock \in [Conn -> Socket] /\ conn \in [Conn -> Connection]
  /\ db \in Store /\ file \in Files
  /\ ran \in [Conn -> Seq(Entry)]
  /\ current \in Conn \cup {Listener, NoConn} /\ batch \subseteq Conn \cup {Listener}
  /\ pc \in {"main", "armed", "built", "loop", "over", "exited"} /\ stop \in BOOLEAN

\* Behind what has been read and is kept, which is s, comes the rest of the stream,
\* and nothing of the two has been executed: that is n.
Continues(c, k, q, n, s) ==
  LET t == s \o Coming(q)
  IN  /\ Stretch(c, k, q.begun, t) /\ After(n, t)
      /\ ~q.err => Reaches(k, q.begun, t)

\* Between two commands, or with a part of a command line in the buffer.
Between(c, k, q, o, n) ==
  /\ o.body = <<>> /\ Len(o.header) <= HeaderSize
  /\ (o.state # "Read" => o.header = <<>>)
  /\ Continues(c, k, q, n, o.header)

\* Behind the line that ends with u stands g, of a block of y units: the rest of
\* the block comes next, or nothing of what comes is before the end of the block.
Blocked(c, k, q, n, u, g, y) ==
  LET s == <<u>> \o g
  IN  /\ Len(g) <= y
      /\ Len(g) < y => Continues(c, k, q, n, s)
      /\ Len(g) = y =>
           /\ Stretch(c, k, q.begun, s) /\ After(n, s)
           /\ Continues(c, k, q, Append(n, [line |-> u, last |-> Last(g)]), <<>>)

\* In a command whose data block is on its way.
Within(c, k, q, o, n) ==
  /\ o.req \in Request /\ o.req.cmd \in Storing /\ o.bodySize = o.req.need
  /\ Len(o.header) <= HeaderSize
  /\ Blocked(c, k, q, n, o.line, o.body, o.bodySize)

\* What a connection has read of its client's stream: q is its socket, o the
\* object, n the commands executed.
Link(c, k, q, o, n) ==
  /\ q.begun \in 0 .. Len(k) /\ (q.err => q.in = <<>>)
  /\ o.state # "Gone" => \A j \in DOMAIN n : n[j].last.r <= q.begun
  /\ o.state \in {"None", "Leaked", "Read", "Write"} => Between(c, k, q, o, n)
  /\ o.state = "NRead" => Within(c, k, q, o, n)

\* Who waits for what.
Rests(c, o, cur) ==
  /\ o.state \in {"None", "Leaked", "Gone"} => o.want = "none"
  /\ o.state \in {"Read", "NRead"} => o.want = "in" /\ o.resBody = <<>>
  /\ o.state \in {"Write", "Close"} => cur = c
  /\ Len(o.header) <= HeaderSize /\ Len(o.body) <= o.bodySize

Increasing(n) == \A i, j \in DOMAIN n : i < j => Before(n[i].last, n[j].line)

NetInv ==
  /\ Types
  /\ Blocks(db, ran) /\ FileBlocks(file, ran)
  /\ \A c \in Conn : Increasing(ran[c]) /\ Rests(c, conn[c], current)
  /\ pc # "exited" => \A c \in Conn : Link(c, script[c], sock[c], conn[c], ran[c])

-------------------------------------------------------------------------------
(***************************************************************************)
(* Sequences: what recv takes and leaves, what a client sends.             *)
(***************************************************************************)
\* A part of a sequence, at its places.
LEMMA Part ==
  ASSUME NEW S, NEW s \in Seq(S), NEW x \in Nat \ {0}, NEW y \in 0 .. Len(s)
  PROVE  /\ SubSeq(s, x, y) \in Seq(S)
         /\ Len(SubSeq(s, x, y)) = IF x <= y THEN y - x + 1 ELSE 0
         /\ \A p \in 1 .. y - x + 1 : SubSeq(s, x, y)[p] = s[x + p - 1]
<1>1. Len(s) \in Nat /\ \A p \in 1 .. Len(s) : s[p] \in S
  BY LenProperties, ElementOfSeq
<1>2. \A p \in x .. y : s[p] \in S
  BY <1>1
<1>3. x \in Int /\ y \in Int
  BY <1>1
<1>4. QED
  BY <1>2, <1>3, SubSeqProperties

\* The first n elements and the rest.
LEMMA TakeDrop ==
  ASSUME NEW S, NEW s \in Seq(S), NEW n \in Nat
  PROVE  LET a == Prefix(s, n)
             b == SubSeq(s, n + 1, Len(s))
         IN  /\ a \in Seq(S) /\ b \in Seq(S)
             /\ Len(a) = IF n < Len(s) THEN n ELSE Len(s)
             /\ Len(b) = IF n < Len(s) THEN Len(s) - n ELSE 0
             /\ \A p \in 1 .. Len(a) : a[p] = s[p]
             /\ a \o b = s
<1> DEFINE a == Prefix(s, n)
           b == SubSeq(s, n + 1, Len(s))
           y == IF n < Len(s) THEN n ELSE Len(s)
<1>1. Len(s) \in Nat
  BY LenProperties
<1>2. y \in 0 .. Len(s)
  BY <1>1
<1>3. /\ a \in Seq(S) /\ Len(a) = y
      /\ \A p \in 1 .. y : a[p] = s[p]
  <2>1. a = SubSeq(s, 1, y)
    BY DEF Prefix
  <2>2. /\ SubSeq(s, 1, y) \in Seq(S)
        /\ Len(SubSeq(s, 1, y)) = IF 1 <= y THEN y - 1 + 1 ELSE 0
        /\ \A p \in 1 .. y - 1 + 1 : SubSeq(s, 1, y)[p] = s[1 + p - 1]
    <3> HIDE DEF y
    <3> QED BY <1>2, Part
  <2>3. QED
    BY <1>1, <2>1, <2>2
<1>4. /\ b \in Seq(S) /\ Len(b) = Len(s) - y
      /\ \A p \in 1 .. Len(s) - y : b[p] = s[y + p]
  <2>1. /\ b \in Seq(S)
        /\ Len(b) = IF n + 1 <= Len(s) THEN Len(s) - (n + 1) + 1 ELSE 0
        /\ \A p \in 1 .. Len(s) - (n + 1) + 1 : b[p] = s[(n + 1) + p - 1]
    <3>1. n + 1 \in Nat \ {0} /\ Len(s) \in 0 .. Len(s)
      BY <1>1
    <3>2. QED
      BY <3>1, Part
  <2> HIDE DEF a, b
  <2>2. CASE n < Len(s)
    <3>1. y = n /\ Len(s) - (n + 1) + 1 = Len(s) - y /\ Len(b) = Len(s) - y
      BY <1>1, <2>1, <2>2
    <3>2. \A p \in 1 .. Len(s) - y : (n + 1) + p - 1 = y + p
      BY <1>1, <3>1
    <3>3. QED
      BY <2>1, <3>1, <3>2
  <2>3. CASE ~(n < Len(s))
    <3>1. y = Len(s) /\ Len(b) = 0 /\ Len(s) - y = 0
      BY <1>1, <2>1, <2>3
    <3>2. 1 .. Len(s) - y = {}
      BY <3>1
    <3>3. QED
      BY <2>1, <3>1, <3>2
  <2>4. QED
    BY <2>2, <2>3
<1>5. a \o b = s
  <2> HIDE DEF a, b, y
  <2>1. /\ a \o b \in Seq(S) /\ Len(a \o b) = Len(s)
        /\ \A p \in 1 .. Len(s) : (a \o b)[p] = IF p <= y THEN a[p] ELSE b[p - y]
    <3>1. Len(a) + Len(b) = Len(s)
      BY <1>1, <1>2, <1>3, <1>4
    <3>2. QED
      BY <1>3, <1>4, <3>1, ConcatProperties
  <2>2. \A p \in 1 .. Len(s) : (a \o b)[p] = s[p]
    BY <1>1, <1>2, <1>3, <1>4, <2>1
  <2>3. QED
    BY <2>1, <2>2, SeqEqual
<1>6. Len(b) = IF n < Len(s) THEN Len(s) - n ELSE 0
  BY <1>1, <1>4
<1>7. QED
  BY <1>3, <1>4, <1>5, <1>6

\* A first part that is not empty and the rest.
LEMMA TakeLine ==
  ASSUME NEW S, NEW s \in Seq(S), NEW e \in 1 .. Len(s)
  PROVE  LET a == SubSeq(s, 1, e)
             b == SubSeq(s, e + 1, Len(s))
         IN  a \in Seq(S) /\ a # <<>> /\ b \in Seq(S) /\ a \o b = s /\ Head(a) = s[1]
<1> DEFINE a == SubSeq(s, 1, e)
           b == SubSeq(s, e + 1, Len(s))
<1>1. Len(s) \in Nat /\ e \in Nat /\ 1 <= e /\ e <= Len(s)
  BY LenProperties
<1>2. /\ Prefix(s, e) \in Seq(S) /\ b \in Seq(S)
      /\ Len(Prefix(s, e)) = IF e < Len(s) THEN e ELSE Len(s)
      /\ \A p \in 1 .. Len(Prefix(s, e)) : Prefix(s, e)[p] = s[p]
      /\ Prefix(s, e) \o b = s
  BY <1>1, TakeDrop
<1>3. CASE e < Len(s)
  <2>1. Prefix(s, e) = a
    BY <1>3 DEF Prefix
  <2> HIDE DEF a, b
  <2>2. Len(a) >= 1 /\ a \in Seq(S)
    BY <1>1, <1>2, <1>3, <2>1
  <2>3. a # <<>> /\ Head(a) = a[1] /\ a[1] = s[1]
    BY <1>2, <2>1, <2>2, EmptySeq, HeadTailProperties
  <2>4. QED
    BY <1>2, <2>1, <2>2, <2>3 DEF a, b
<1>4. CASE ~(e < Len(s))
  <2>1. e = Len(s)
    BY <1>1, <1>4
  <2>2. Prefix(s, e) = a
    BY <1>4, <2>1 DEF Prefix
  <2> HIDE DEF a, b
  <2>3. Len(a) >= 1 /\ a \in Seq(S)
    BY <1>1, <1>2, <1>4, <2>1, <2>2
  <2>4. a # <<>> /\ Head(a) = a[1] /\ a[1] = s[1]
    BY <1>2, <2>2, <2>3, EmptySeq, HeadTailProperties
  <2>5. QED
    BY <1>2, <2>2, <2>3, <2>4 DEF a, b
<1>5. QED
  BY <1>3, <1>4

\* A unit that is sent moves from one end to the other.
LEMMA SendMoves ==
  ASSUME NEW S, NEW a \in Seq(S), NEW b \in Seq(S), b # <<>>
  PROVE  /\ Append(a, Head(b)) \in Seq(S) /\ Tail(b) \in Seq(S)
         /\ Append(a, Head(b)) \o Tail(b) = a \o b
<1> DEFINE h == Head(b)
           t == Tail(b)
           l == Append(a, h)
<1>1. /\ h \in S /\ t \in Seq(S) /\ h = b[1] /\ Len(t) = Len(b) - 1
      /\ \A p \in 1 .. Len(t) : t[p] = b[p + 1]
  BY HeadTailProperties
<1>2. Len(a) \in Nat /\ Len(b) \in Nat \ {0}
  BY LenProperties, EmptySeq
<1> HIDE DEF h, t
<1>3. /\ l \in Seq(S) /\ Len(l) = Len(a) + 1 /\ l[Len(a) + 1] = h
      /\ \A p \in 1 .. Len(a) : l[p] = a[p]
  BY <1>1, AppendProperties
<1> HIDE DEF l
<1>4. /\ l \o t \in Seq(S) /\ Len(l \o t) = Len(a) + Len(b)
      /\ \A p \in 1 .. Len(a) + Len(b) :
           (l \o t)[p] = IF p <= Len(a) + 1 THEN l[p] ELSE t[p - (Len(a) + 1)]
  <2>1. Len(l) + Len(t) = Len(a) + Len(b)
    BY <1>1, <1>2, <1>3
  <2>2. /\ l \o t \in Seq(S) /\ Len(l \o t) = Len(l) + Len(t)
        /\ \A p \in 1 .. Len(l) + Len(t) :
             (l \o t)[p] = IF p <= Len(l) THEN l[p] ELSE t[p - Len(l)]
    BY <1>1, <1>3, ConcatProperties
  <2>3. Len(l \o t) = Len(a) + Len(b)
    BY <2>1, <2>2
  <2>4. ASSUME NEW p \in 1 .. Len(a) + Len(b)
        PROVE  (l \o t)[p] = IF p <= Len(a) + 1 THEN l[p] ELSE t[p - (Len(a) + 1)]
    <3>1. p \in 1 .. Len(l) + Len(t) /\ Len(l) = Len(a) + 1
      BY <1>3, <2>1
    <3>2. QED
      BY <2>2, <3>1
  <2>5. QED
    BY <2>2, <2>3, <2>4
<1>5. /\ a \o b \in Seq(S) /\ Len(a \o b) = Len(a) + Len(b)
      /\ \A p \in 1 .. Len(a) + Len(b) :
           (a \o b)[p] = IF p <= Len(a) THEN a[p] ELSE b[p - Len(a)]
  BY ConcatProperties
<1>6. \A p \in 1 .. Len(a) + Len(b) : (l \o t)[p] = (a \o b)[p]
  <2> SUFFICES ASSUME NEW p \in 1 .. Len(a) + Len(b) PROVE (l \o t)[p] = (a \o b)[p]
    OBVIOUS
  <2>1. CASE p <= Len(a)
    BY <1>2, <1>3, <1>4, <1>5, <2>1
  <2>2. CASE p = Len(a) + 1
    BY <1>1, <1>2, <1>3, <1>4, <1>5, <2>2
  <2>3. CASE p > Len(a) + 1
    <3>1. p - (Len(a) + 1) \in 1 .. Len(t)
      BY <1>1, <1>2, <2>3
    <3>2. t[p - (Len(a) + 1)] = b[p - Len(a)]
      <4>1. (p - (Len(a) + 1)) + 1 = p - Len(a)
        BY <1>2
      <4>2. QED
        BY <1>1, <3>1, <4>1
    <3>3. QED
      BY <1>2, <1>4, <1>5, <2>3, <3>2
  <2>4. p <= Len(a) \/ p = Len(a) + 1 \/ p > Len(a) + 1
    BY <1>2
  <2>5. QED
    BY <2>1, <2>2, <2>3, <2>4
<1>7. l \o t = a \o b
  BY <1>4, <1>5, <1>6, SeqEqual
<1>8. QED
  BY <1>1, <1>3, <1>7 DEF l, h, t

-------------------------------------------------------------------------------
(***************************************************************************)
(* Stretches of a stream: their parts, and what they become when the       *)
(* client makes another request.                                           *)
(***************************************************************************)
\* Both parts of a stretch are stretches.
LEMMA StretchSplit ==
  ASSUME NEW c, NEW k, NEW b, NEW n, NEW a \in Value, NEW d \in Value,
         Stretch(c, k, b, a \o d)
  PROVE  /\ Stretch(c, k, b, a) /\ Stretch(c, k, b, d)
         /\ After(n, a \o d) => After(n, a) /\ After(n, d)
         /\ Reaches(k, b, a \o d) => Reaches(k, b, d)
<1> DEFINE s == a \o d
           L == Len(a)
           D == Len(d)
<1>1. /\ s \in Value /\ Len(s) = L + D
      /\ \A p \in 1 .. L + D : s[p] = IF p <= L THEN a[p] ELSE d[p - L]
  BY ConcatProperties DEF Value
<1>2. /\ L \in Nat /\ D \in Nat
      /\ DOMAIN a = 1 .. L /\ DOMAIN d = 1 .. D
  BY LenProperties DEF Value
<1>3. DOMAIN s = 1 .. L + D
  BY <1>1, LenProperties DEF Value
<1>4. Stretch(c, k, b, s)
  OBVIOUS
<1>5. After(n, a \o d) <=> After(n, s)
  OBVIOUS
<1>6. Reaches(k, b, a \o d) <=> Reaches(k, b, s)
  OBVIOUS
<1> HIDE DEF s, L, D
<1>7. \A p \in DOMAIN a : p \in DOMAIN s /\ a[p] = s[p] /\ p \in Int
  BY <1>1, <1>2, <1>3
<1>8. \A p \in DOMAIN d : p + L \in DOMAIN s /\ d[p] = s[p + L] /\ p \in Int
  <2> SUFFICES ASSUME NEW p \in DOMAIN d PROVE p + L \in DOMAIN s /\ d[p] = s[p + L] /\ p \in Int
    OBVIOUS
  <2>1. p \in 1 .. D /\ p + L \in 1 .. L + D /\ ~(p + L <= L) /\ (p + L) - L = p
    BY <1>2
  <2>2. QED
    BY <1>1, <1>3, <2>1
<1>9. Stretch(c, k, b, a)
  <2>1. \A p \in DOMAIN a : a[p].c = c /\ a[p].r \in 1 .. b /\ a[p].i \in 1 .. Total(k, a[p].r)
    BY <1>4, <1>7 DEF Stretch
  <2>2. \A p \in DOMAIN a : p + 1 \in DOMAIN a => a[p + 1] = NextUnit(k, a[p])
    BY <1>4, <1>7 DEF Stretch
  <2>3. \A p, q \in DOMAIN a : p < q =>
          IF q - p <= Total(k, a[p].r) - a[p].i
          THEN a[q].r = a[p].r /\ a[q].i = a[p].i + (q - p)
          ELSE a[q].r > a[p].r
    BY <1>4, <1>7 DEF Stretch
  <2>4. QED
    BY <2>1, <2>2, <2>3 DEF Stretch, Value
<1>10. Stretch(c, k, b, d)
  <2>1. \A p \in DOMAIN d : d[p].c = c /\ d[p].r \in 1 .. b /\ d[p].i \in 1 .. Total(k, d[p].r)
    BY <1>4, <1>8 DEF Stretch
  <2>2. ASSUME NEW m \in DOMAIN d, NEW q \in DOMAIN d, m < q
        PROVE  IF q - m <= Total(k, d[m].r) - d[m].i
               THEN d[q].r = d[m].r /\ d[q].i = d[m].i + (q - m)
               ELSE d[q].r > d[m].r
    <3>1. m + L < q + L /\ (q + L) - (m + L) = q - m
      BY <1>2, <1>8, <2>2
    <3>2. m + L \in DOMAIN s /\ q + L \in DOMAIN s /\ d[m] = s[m + L] /\ d[q] = s[q + L]
      BY <1>8
    <3>3. IF (q + L) - (m + L) <= Total(k, s[m + L].r) - s[m + L].i
          THEN s[q + L].r = s[m + L].r /\ s[q + L].i = s[m + L].i + ((q + L) - (m + L))
          ELSE s[q + L].r > s[m + L].r
      BY <1>4, <3>1, <3>2 DEF Stretch
    <3>4. QED
      BY <3>1, <3>2, <3>3
  <2>3. ASSUME NEW p \in DOMAIN d, p + 1 \in DOMAIN d
        PROVE  d[p + 1] = NextUnit(k, d[p])
    <3>1. /\ p + L \in DOMAIN s /\ d[p] = s[p + L]
          /\ (p + 1) + L \in DOMAIN s /\ d[p + 1] = s[(p + 1) + L]
      BY <1>8, <2>3
    <3>2. (p + 1) + L = (p + L) + 1
      BY <1>2, <1>8
    <3>3. s[(p + L) + 1] = NextUnit(k, s[p + L])
      BY <1>4, <3>1, <3>2 DEF Stretch
    <3>4. QED
      BY <3>1, <3>2, <3>3
  <2>4. QED
    BY <2>1, <2>2, <2>3 DEF Stretch, Value
<1>11. After(n, s) => After(n, a) /\ After(n, d)
  BY <1>7, <1>8 DEF After
<1>12. Reaches(k, b, s) => Reaches(k, b, d)
  <2> SUFFICES ASSUME Reaches(k, b, s), d # <<>>
               PROVE  d[D].r = b /\ d[D].i = Total(k, b)
    BY DEF Reaches, D
  <2>1. D \in Nat \ {0}
    BY <1>2, EmptySeq, LenProperties DEF Value, D
  <2>2. D \in DOMAIN d /\ Len(s) = D + L
    BY <1>1, <1>2, <2>1
  <2>3. s # <<>>
    BY <1>2, <2>1, <2>2
  <2>4. QED
    BY <1>8, <2>2, <2>3 DEF Reaches
<1>13. QED
  BY <1>5, <1>6, <1>9, <1>10, <1>11, <1>12

\* The bytes of one request.
LEMMA UnitsAt ==
  ASSUME NEW c \in Conn, NEW r \in Nat, NEW x \in Nat \ {0}, NEW y \in Nat
  PROVE  /\ Units(c, r, x, y) \in Value
         /\ Len(Units(c, r, x, y)) = IF x <= y THEN y - x + 1 ELSE 0
         /\ \A p \in 1 .. y - x + 1 : Units(c, r, x, y)[p] = Unit(c, r, x + p - 1)
<1> DEFINE len == IF x <= y THEN y - x + 1 ELSE 0
<1>1. len \in Nat /\ 1 .. y - x + 1 = 1 .. len
  OBVIOUS
<1>2. Units(c, r, x, y) = [n \in 1 .. len |-> Unit(c, r, x + n - 1)]
  BY <1>1 DEF Units
<1>3. \A n \in 1 .. len : Unit(c, r, x + n - 1) \in UnitType
  BY DEF Unit, UnitType
<1>4. [n \in 1 .. len |-> Unit(c, r, x + n - 1)] \in [1 .. len -> UnitType]
  BY <1>3
<1>5. [n \in 1 .. len |-> Unit(c, r, x + n - 1)] \in Seq(UnitType)
  BY <1>1, <1>4, SeqDef
<1>6. Len(Units(c, r, x, y)) = len
  <2>1. DOMAIN Units(c, r, x, y) = 1 .. len
    BY <1>2
  <2>2. DOMAIN Units(c, r, x, y) = 1 .. Len(Units(c, r, x, y)) /\ Len(Units(c, r, x, y)) \in Nat
    BY <1>2, <1>5, LenProperties
  <2>3. QED
    BY <1>1, <2>1, <2>2
<1>7. QED
  BY <1>1, <1>2, <1>5, <1>6 DEF Value

\* The sizes of a request are those of its line and its block.
LEMMA TotalType ==
  ASSUME NEW k \in RequestSeq, NEW r \in 1 .. Len(k)
  PROVE  /\ k[r] \in Request /\ k[r].head \in Nat \ {0} /\ k[r].body \in Nat
         /\ LineLen(k, r) \in Nat \ {0} /\ BlockLen(k, r) \in Nat
         /\ LineLen(k, r) = k[r].head + 1 /\ BlockLen(k, r) = k[r].body
         /\ Total(k, r) \in Nat \ {0} /\ Total(k, r) > k[r].head
         /\ Total(k, r) = LineLen(k, r) + BlockLen(k, r)
<1>1. k[r] \in Request
  BY ElementOfSeq DEF RequestSeq
<1>2. QED
  BY <1>1 DEF Request, Total, LineLen, BlockLen

\* What is known of an entry of what has been executed.
LEMMA EntryType ==
  ASSUME NEW n \in Seq(Entry), NEW j \in DOMAIN n
  PROVE  /\ n[j] \in Entry /\ n[j].line \in UnitType /\ n[j].last \in UnitType
         /\ n[j].line.r \in Nat /\ n[j].line.i \in Nat
         /\ n[j].last.r \in Nat /\ n[j].last.i \in Nat
<1>1. n[j] \in Entry
  BY LenProperties, ElementOfSeq
<1>2. n[j].line \in UnitType /\ n[j].last \in UnitType
  BY <1>1 DEF Entry
<1>3. QED
  BY <1>1, <1>2 DEF UnitType

\* A stretch that reaches to the end of the last request is continued by the
\* next one.
LEMMA StretchGrows ==
  ASSUME NEW c \in Conn, NEW k \in RequestSeq, NEW b \in Nat, b + 1 \in 1 .. Len(k),
         NEW n \in Seq(Entry), \A j \in DOMAIN n : n[j].last.r <= b,
         NEW a, Stretch(c, k, b, a), Reaches(k, b, a), After(n, a),
         NEW d, d = Units(c, b + 1, 1, Total(k, b + 1))
  PROVE  /\ Stretch(c, k, b + 1, a \o d) /\ Reaches(k, b + 1, a \o d) /\ After(n, a \o d)
         /\ a \o d # <<>>
<1> DEFINE s == a \o d
           L == Len(a)
           D == Total(k, b + 1)
<1>1. D \in Nat \ {0}
  BY TotalType
<1>2. /\ d \in Value /\ Len(d) = D
      /\ \A p \in 1 .. D : d[p] = Unit(c, b + 1, p)
  <2> DEFINE x == 1
             r == b + 1
  <2>1. r \in Nat /\ D \in Nat /\ x <= D /\ x \in Nat \ {0}
    BY <1>1
  <2>2. d = Units(c, r, x, D)
    OBVIOUS
  <2>3. D - x + 1 = D /\ \A p \in 1 .. D : x + p - 1 = p
    BY <2>1
  <2>4. SUFFICES d \in Value /\ Len(d) = D /\ \A p \in 1 .. D : d[p] = Unit(c, r, p)
    OBVIOUS
  <2> HIDE DEF D, x, r
  <2>5. /\ Units(c, r, x, D) \in Value
        /\ Len(Units(c, r, x, D)) = IF x <= D THEN D - x + 1 ELSE 0
        /\ \A p \in 1 .. D - x + 1 : Units(c, r, x, D)[p] = Unit(c, r, x + p - 1)
    BY <2>1, UnitsAt
  <2>6. QED
    BY <2>1, <2>2, <2>3, <2>5
<1>3. a \in Value
  BY DEF Stretch, Value
<1>4. /\ s \in Value /\ Len(s) = L + D
      /\ \A p \in 1 .. L + D : s[p] = IF p <= L THEN a[p] ELSE d[p - L]
  BY <1>2, <1>3, ConcatProperties DEF Value
<1>5. L \in Nat /\ DOMAIN a = 1 .. L /\ DOMAIN s = 1 .. L + D
  BY <1>3, <1>4, LenProperties DEF Value
<1>6. ASSUME NEW p \in DOMAIN s
      PROVE  \/ p \in DOMAIN a /\ s[p] = a[p] /\ p <= L
             \/ /\ p > L /\ s[p].c = c /\ s[p].r = b + 1 /\ s[p].i = p - L /\ p - L \in 1 .. D
                /\ s[p] = Unit(c, b + 1, p - L)
  <2>1. CASE p <= L
    BY <1>1, <1>4, <1>5, <2>1
  <2>2. CASE p > L
    <3>1. p - L \in 1 .. D /\ ~(p <= L)
      BY <1>1, <1>5, <2>2
    <3>2. s[p] = Unit(c, b + 1, p - L)
      BY <1>2, <1>4, <1>5, <3>1
    <3>3. QED
      BY <2>2, <3>1, <3>2 DEF Unit
  <2>3. QED
    BY <1>1, <1>5, <2>1, <2>2
<1> HIDE DEF s, L, D
<1>7. \A p \in DOMAIN s : p \in Nat \ {0}
  BY <1>1, <1>5
<1>8. ASSUME NEW p \in DOMAIN a
      PROVE  a[p].c = c /\ a[p].r \in 1 .. b /\ a[p].i \in 1 .. Total(k, a[p].r)
  BY DEF Stretch
<1>9. \A p \in DOMAIN s :
        s[p].c = c /\ s[p].r \in 1 .. b + 1 /\ s[p].i \in 1 .. Total(k, s[p].r)
  <2> SUFFICES ASSUME NEW p \in DOMAIN s
               PROVE  s[p].c = c /\ s[p].r \in 1 .. b + 1 /\ s[p].i \in 1 .. Total(k, s[p].r)
    OBVIOUS
  <2>1. CASE p \in DOMAIN a /\ s[p] = a[p]
    BY <1>8, <2>1
  <2>2. CASE s[p].c = c /\ s[p].r = b + 1 /\ s[p].i = p - L /\ p - L \in 1 .. D
    BY <2>2 DEF D
  <2>3. QED
    BY <1>6, <2>1, <2>2
\* From the old part to the new one: the last request of the old part ends in
\* between.
<1>10. ASSUME NEW m \in DOMAIN a, NEW q \in DOMAIN s, q > L
       PROVE  ~(q - m <= Total(k, a[m].r) - a[m].i)
  <2>1. m \in 1 .. L /\ q \in Nat
    BY <1>5, <1>7
  <2>2. a # <<>> /\ L \in DOMAIN a
    BY <1>5, <2>1
  <2>3. a[L].r = b /\ a[L].i = Total(k, b)
    BY <2>2 DEF Reaches, L
  <2>4. a[m].r \in 1 .. b /\ a[m].i \in Nat /\ Total(k, a[m].r) \in Nat /\ b \in 1 .. Len(k)
    <3>1. a[m].r \in 1 .. b
      BY <1>8
    <3>2. a[m].r \in 1 .. Len(k) /\ b \in 1 .. Len(k)
      BY <3>1, LenProperties DEF RequestSeq
    <3>3. Total(k, a[m].r) \in Nat
      BY <3>2, TotalType
    <3>4. QED
      BY <1>8, <3>1, <3>2, <3>3
  <2>5. CASE m = L
    <3>1. Total(k, a[m].r) - a[m].i = 0
      BY <2>3, <2>4, <2>5
    <3>2. QED
      BY <1>10, <2>1, <2>5, <3>1
  <2>6. CASE m < L
    <3>1. IF L - m <= Total(k, a[m].r) - a[m].i
          THEN a[L].r = a[m].r /\ a[L].i = a[m].i + (L - m)
          ELSE a[L].r > a[m].r
      BY <2>2, <2>6 DEF Stretch
    <3>2. CASE L - m <= Total(k, a[m].r) - a[m].i
      <4>1. Total(k, a[m].r) = a[m].i + (L - m)
        BY <2>3, <3>1, <3>2
      <4>2. QED
        BY <1>5, <1>10, <2>1, <2>4, <4>1
    <3>3. CASE ~(L - m <= Total(k, a[m].r) - a[m].i)
      BY <1>5, <1>10, <2>1, <2>4, <3>3
    <3>4. QED
      BY <3>2, <3>3
  <2>7. QED
    BY <1>5, <2>1, <2>5, <2>6
<1>11. ASSUME NEW m \in DOMAIN s, NEW q \in DOMAIN s, m < q
       PROVE  IF q - m <= Total(k, s[m].r) - s[m].i
              THEN s[q].r = s[m].r /\ s[q].i = s[m].i + (q - m)
              ELSE s[q].r > s[m].r
  <2>1. m \in Nat /\ q \in Nat
    BY <1>7
  <2>2. CASE q <= L
    <3>1. m \in DOMAIN a /\ q \in DOMAIN a /\ s[m] = a[m] /\ s[q] = a[q]
      BY <1>5, <1>6, <1>11, <2>1, <2>2
    <3>2. QED
      BY <1>11, <3>1 DEF Stretch
  <2>3. CASE m <= L /\ q > L
    <3>1. m \in DOMAIN a /\ s[m] = a[m]
      BY <1>5, <1>6, <2>1, <2>3
    <3>2. s[q].r = b + 1 /\ s[m].r \in 1 .. b
      BY <1>5, <1>6, <1>8, <2>1, <2>3, <3>1
    <3>3. ~(q - m <= Total(k, s[m].r) - s[m].i)
      BY <1>10, <2>3, <3>1
    <3>4. QED
      BY <3>2, <3>3
  <2>4. CASE m > L
    <3>1. /\ s[m].r = b + 1 /\ s[m].i = m - L /\ s[q].r = b + 1 /\ s[q].i = q - L
          /\ q - L \in 1 .. D
      BY <1>5, <1>6, <1>11, <2>1, <2>4
    <3>2. q - m <= D - (m - L) /\ q - L = (m - L) + (q - m)
      BY <1>1, <1>5, <2>1, <3>1
    <3>3. QED
      BY <3>1, <3>2 DEF D
  <2>5. QED
    BY <1>5, <1>11, <2>1, <2>2, <2>3, <2>4
\* Where the old part ends the next request begins.
<1>17. ASSUME NEW p \in DOMAIN s, p + 1 \in DOMAIN s
       PROVE  s[p + 1] = NextUnit(k, s[p])
  <2>1. p \in Nat \ {0} /\ p + 1 \in 1 .. L + D
    BY <1>5, <1>7, <1>17
  <2>2. CASE p + 1 <= L
    <3>1. p \in DOMAIN a /\ p + 1 \in DOMAIN a /\ s[p] = a[p] /\ s[p + 1] = a[p + 1]
      BY <1>5, <1>6, <1>17, <2>1, <2>2
    <3>2. QED
      BY <3>1 DEF Stretch
  <2>3. CASE p = L
    <3>1. p \in DOMAIN a /\ s[p] = a[p] /\ a # <<>>
      BY <1>5, <1>6, <2>1, <2>3
    <3>2. a[L].r = b /\ a[L].i = Total(k, b) /\ a[L].c = c
      BY <1>8, <2>3, <3>1 DEF Reaches, L
    <3>3. (p + 1) - L = 1 /\ s[p + 1] = Unit(c, b + 1, (p + 1) - L)
      BY <1>5, <1>6, <1>17, <2>1, <2>3
    <3>4. a[L].i \in Int
      BY <1>8, <2>3, <3>1
    <3>5. NextUnit(k, a[L]) = Unit(c, b + 1, 1)
      BY <3>2, <3>4 DEF NextUnit
    <3>6. QED
      BY <2>3, <3>1, <3>3, <3>5
  <2>4. CASE p > L
    <3>1. p + 1 > L /\ (p + 1) - L = (p - L) + 1
      BY <1>5, <2>1, <2>4
    <3>2. /\ s[p].c = c /\ s[p].r = b + 1 /\ s[p].i = p - L /\ p - L \in 1 .. D
          /\ s[p + 1] = Unit(c, b + 1, (p + 1) - L) /\ (p + 1) - L \in 1 .. D
      BY <1>5, <1>6, <1>17, <2>1, <2>4, <3>1
    <3>3. p - L < D
      BY <1>1, <1>5, <2>1, <3>1, <3>2
    <3>4. NextUnit(k, s[p]) = Unit(c, b + 1, (p - L) + 1)
      BY <3>2, <3>3 DEF NextUnit, D
    <3>5. QED
      BY <3>1, <3>2, <3>4
  <2>5. QED
    BY <1>5, <2>1, <2>2, <2>3, <2>4
<1>12. Stretch(c, k, b + 1, s)
  BY <1>4, <1>9, <1>11, <1>17 DEF Stretch, Value
<1>13. Len(s) \in DOMAIN s /\ Len(s) > L /\ Len(s) - L = D /\ s # <<>>
  BY <1>1, <1>4, <1>5
<1>14. Reaches(k, b + 1, s)
  <2>1. s[Len(s)].r = b + 1 /\ s[Len(s)].i = D
    BY <1>5, <1>6, <1>13
  <2>2. QED
    BY <2>1 DEF Reaches, D
<1>15. After(n, s)
  <2> SUFFICES ASSUME NEW m \in DOMAIN s, NEW j \in DOMAIN n
               PROVE  Before(n[j].last, s[m])
    BY DEF After
  <2>1. n[j].last.r \in Nat /\ n[j].last.r <= b
    BY EntryType
  <2>2. CASE s[m].r = b + 1
    BY <2>1, <2>2 DEF Before
  <2>3. CASE m \in DOMAIN a /\ s[m] = a[m]
    BY <2>3 DEF After
  <2>4. QED
    BY <1>6, <2>2, <2>3
<1>16. QED
  BY <1>12, <1>13, <1>14, <1>15 DEF s

-------------------------------------------------------------------------------
(***************************************************************************)
(* Sockets.                                                                *)
(***************************************************************************)
\* Values are put together in any order.
LEMMA ValueJoin ==
  /\ \A a, b \in Value : a \o b \in Value /\ Len(a \o b) = Len(a) + Len(b)
  /\ \A a, b, d \in Value : (a \o b) \o d = a \o (b \o d)
  /\ \A a \in Value : a \o <<>> = a /\ <<>> \o a = a
  /\ \A a \in Value : Len(a) \in Nat /\ DOMAIN a = 1 .. Len(a)
  /\ <<>> \in Value /\ \A a \in Value : (Len(a) = 0) = (a = <<>>)
<1>1. \A a, b \in Value : a \o b \in Value /\ Len(a \o b) = Len(a) + Len(b)
  BY ConcatProperties DEF Value
<1>2. \A a, b, d \in Value : (a \o b) \o d = a \o (b \o d)
  BY ConcatAssociative DEF Value
<1>3. \A a \in Value : a \o <<>> = a /\ <<>> \o a = a
  BY ConcatEmptySeq DEF Value
<1>4. \A a \in Value : Len(a) \in Nat /\ DOMAIN a = 1 .. Len(a)
  BY LenProperties DEF Value
<1>5. <<>> \in Value /\ \A a \in Value : (Len(a) = 0) = (a = <<>>)
  BY EmptySeq DEF Value
<1>6. QED
  BY <1>1, <1>2, <1>3, <1>4, <1>5

\* The parts of a sequence may be joined in either order.
LEMMA Regroup ==
  ASSUME NEW a \in Value, NEW b \in Value, NEW d \in Value
  PROVE  (a \o b) \o d = a \o (b \o d)
  BY ConcatAssociative DEF Value

\* What is to come is a stretch of units.
LEMMA ComingType ==
  ASSUME NEW q \in Socket
  PROVE  /\ Coming(q) \in Value /\ q.in \in Value /\ q.todo \in Value /\ <<>> \in Value
         /\ q.begun \in Nat /\ q.err \in BOOLEAN
<1>1. /\ q.in \in Value /\ q.todo \in Value /\ <<>> \in Value
      /\ q.begun \in Nat /\ q.err \in BOOLEAN
  BY EmptySeq DEF Socket, Value
<1>2. q.in \o q.todo \in Value
  BY <1>1, ConcatProperties DEF Value
<1>3. QED
  BY <1>1, <1>2 DEF Coming

\* recv takes what there is room for behind h of what is in socket q.
Taking(q, h, room, x, w, z) ==
  LET n == room - Len(h)
  IN  x = Prefix(q.in, n) /\ w = SubSeq(q.in, n + 1, Len(q.in)) /\ z = [q EXCEPT !.in = w]

\* recv into a buffer that holds h and has room for room units: nothing is lost,
\* and what is not taken stays.
LEMMA Receives ==
  ASSUME NEW q \in Socket, NEW h \in Value, NEW room \in Nat, Len(h) <= room,
         q.err => q.in = <<>>, NEW x, NEW w, NEW z, Taking(q, h, room, x, w, z)
  PROVE  /\ x \in Value /\ h \o x \in Value /\ Len(h \o x) <= room
         /\ w \in Value /\ z \in Socket /\ (z.err => z.in = <<>>)
         /\ Coming(z) \in Value /\ z.begun = q.begun /\ z.err = q.err
         /\ x \o Coming(z) = Coming(q)
         /\ (h \o x) \o Coming(z) = h \o Coming(q)
         /\ Len(h \o x) < room => x = q.in /\ w = <<>>
         /\ Len(h \o x) = Len(h) + Len(x) /\ Len(x) <= Len(q.in)
<1> DEFINE n == room - Len(h)
<1>0. n = room - Len(h) /\ (Len(h) \in Nat => n \in Nat)
  OBVIOUS
<1>1. /\ q.in \in Value /\ q.todo \in Value /\ q.begun \in Nat /\ q.err \in BOOLEAN
      /\ Coming(q) \in Value /\ <<>> \in Value
  BY ComingType
<1>2. Len(h) \in Nat /\ Len(q.in) \in Nat /\ n \in Nat /\ Len(<<>>) = 0
  BY <1>0, <1>1, LenProperties DEF Value
<1>3. /\ x \in Value /\ w \in Value
      /\ Len(x) = IF n < Len(q.in) THEN n ELSE Len(q.in)
      /\ Len(w) = IF n < Len(q.in) THEN Len(q.in) - n ELSE 0
      /\ x \o w = q.in
  <2> DEFINE e == q.in
  <2>1. e \in Seq(UnitType) /\ n \in Nat
    BY <1>1, <1>2 DEF Value
  <2>2. w = SubSeq(e, n + 1, Len(e)) /\ x = Prefix(e, n)
    BY DEF Taking
  <2>3. SUFFICES /\ x \in Value /\ w \in Value
                 /\ Len(x) = IF n < Len(e) THEN n ELSE Len(e)
                 /\ Len(w) = IF n < Len(e) THEN Len(e) - n ELSE 0
                 /\ x \o w = e
    OBVIOUS
  <2> HIDE DEF e
  <2>4. QED
    BY <2>1, <2>2, TakeDrop DEF Value
<1> HIDE DEF n
<1>4. z \in Socket /\ z.in = w /\ z.err = q.err /\ z.todo = q.todo /\ z.begun = q.begun
  BY <1>3 DEF Socket, Taking
<1>5. Coming(z) \in Value
  BY <1>4, ComingType
<1>6. /\ h \o x \in Value /\ Len(h \o x) = Len(h) + Len(x)
  BY <1>3, ConcatProperties DEF Value
<1>7. Len(h \o x) <= room /\ Len(x) <= Len(q.in)
  BY <1>0, <1>2, <1>3, <1>6
<1>8. q.err => w = <<>>
  <2>1. ASSUME q.err PROVE Len(w) = 0
    BY <1>2, <1>3, <2>1
  <2>2. QED
    BY <1>3, <2>1, EmptySeq DEF Value
<1>9. x \o Coming(z) = Coming(q)
  <2>1. CASE q.err
    <3>1. Coming(z) = <<>> /\ Coming(q) = <<>>
      BY <1>4, <2>1 DEF Coming
    <3>2. x \o <<>> = <<>>
      BY <1>3, <1>8, <2>1
    <3>3. QED
      BY <3>1, <3>2
  <2>2. CASE ~q.err
    <3>1. Coming(z) = w \o q.todo /\ Coming(q) = q.in \o q.todo
      BY <1>4, <2>2 DEF Coming
    <3>2. (x \o w) \o q.todo = x \o (w \o q.todo)
      <4>1. x \in Value /\ w \in Value /\ q.todo \in Value
        BY <1>1, <1>3
      <4>2. QED
        BY <4>1, Regroup
    <3>3. QED
      BY <1>3, <3>1, <3>2
  <2>3. QED
    BY <2>1, <2>2
<1>10. (h \o x) \o Coming(z) = h \o Coming(q)
  <2>1. (h \o x) \o Coming(z) = h \o (x \o Coming(z))
    BY <1>3, <1>5, Regroup
  <2>2. QED
    BY <1>9, <2>1
<1>11. Len(h \o x) < room => x = q.in /\ w = <<>>
  <2> SUFFICES ASSUME Len(h \o x) < room PROVE x = q.in /\ w = <<>>
    OBVIOUS
  <2>1. ~(n < Len(q.in)) /\ Len(w) = 0
    BY <1>0, <1>2, <1>3, <1>6
  <2>2. w = <<>>
    BY <1>3, <2>1, EmptySeq DEF Value
  <2>3. x \o <<>> = x
    BY <1>3, ConcatEmptySeq DEF Value
  <2>4. QED
    BY <1>3, <2>2, <2>3
<1>12. z.err => z.in = <<>>
  BY <1>4, <1>8
<1>13. QED
  BY <1>3, <1>4, <1>5, <1>6, <1>7, <1>9, <1>10, <1>11, <1>12

-------------------------------------------------------------------------------
(***************************************************************************)
(* A step changes the socket, the object and the history of one            *)
(* connection, and what it stores.                                         *)
(***************************************************************************)
\* The step of connection c keeps the invariant if c is well after it.
LEMMA OneMoves ==
  ASSUME NetInv, NEW c \in Conn, NEW q \in Socket, NEW o \in Connection, NEW n \in Seq(Entry),
         script' = script, sock' = [sock EXCEPT ![c] = q], conn' = [conn EXCEPT ![c] = o],
         ran' = [ran EXCEPT ![c] = n],
         db' \in Store, file' \in Files, Blocks(db, ran)', FileBlocks(file, ran)',
         current' \in Conn \cup {Listener, NoConn}, batch' \subseteq Conn \cup {Listener},
         pc' = pc, stop' \in BOOLEAN,
         Increasing(n), Rests(c, o, current'),
         current' = current \/ current = c \/ current \notin Conn,
         pc # "exited" => Link(c, script[c], q, o, n)
  PROVE  NetInv'
<1>1. Types'
  BY DEF NetInv, Types
<1>2. /\ sock'[c] = q /\ conn'[c] = o /\ ran'[c] = n /\ script'[c] = script[c]
      /\ \A d \in Conn \ {c} : sock'[d] = sock[d] /\ conn'[d] = conn[d] /\ ran'[d] = ran[d]
  BY DEF NetInv, Types
<1>3. \A d \in Conn : Increasing(ran'[d]) /\ Rests(d, conn'[d], current')
  BY <1>2 DEF NetInv, Rests
<1>4. pc' # "exited" => \A d \in Conn : Link(d, script'[d], sock'[d], conn'[d], ran'[d])
  BY <1>2 DEF NetInv
<1>5. QED
  BY <1>1, <1>3, <1>4 DEF NetInv

-------------------------------------------------------------------------------
(***************************************************************************)
(* What the clients do to the link between a stream and its reader.        *)
(***************************************************************************)
\* A stretch of no units.
LEMMA NoStretch ==
  ASSUME NEW c, NEW k, NEW b, NEW n
  PROVE  Stretch(c, k, b, <<>>) /\ After(n, <<>>) /\ Reaches(k, b, <<>>)
<1>1. <<>> \in Seq(UnitType) /\ DOMAIN <<>> = {}
  BY EmptySeq
<1>2. QED
  BY <1>1 DEF Stretch, After, Reaches

\* The fields of a connection.
LEMMA ConnectionType ==
  ASSUME NEW o \in Connection
  PROVE  /\ o.state \in States /\ o.want \in {"none", "in", "out"}
         /\ o.header \in Value /\ o.body \in Value /\ o.resBody \in Value
         /\ o.line \in UnitType /\ o.bodySize \in Nat /\ o.resFor \in Nat
         /\ o.resHeader \in [to : Nat, rc : Codes]
  BY DEF Connection

\* A step that only moves units from the client to the socket, or marks the end of
\* the stream, or writes a reply.
LEMMA LinkStays ==
  ASSUME NEW c, NEW k, NEW q, NEW z, NEW o, NEW n, Link(c, k, q, o, n),
         z.begun = q.begun, z.err = q.err, z.err => z.in = <<>>, Coming(z) = Coming(q)
  PROVE  Link(c, k, z, o, n)
  BY DEF Link, Between, Within, Blocked, Continues

\* What a command adds to what has been executed comes after all the rest of it.
LEMMA NextEntry ==
  ASSUME NEW b \in Nat, NEW n \in Seq(Entry), NEW u \in UnitType, NEW w \in UnitType, w.r <= b
  PROVE  LET m == Append(n, [line |-> u, last |-> w])
         IN  /\ m \in Seq(Entry) /\ Len(m) = Len(n) + 1 /\ m[Len(n) + 1] = [line |-> u, last |-> w]
             /\ Len(n) \in Nat /\ DOMAIN m = 1 .. Len(n) + 1
             /\ \A j \in DOMAIN n : j \in DOMAIN m /\ m[j] = n[j]
             /\ (\A j \in DOMAIN n : n[j].last.r <= b) => \A j \in DOMAIN m : m[j].last.r <= b
             /\ Increasing(n) /\ (\A j \in DOMAIN n : Before(n[j].last, u)) => Increasing(m)
<1> DEFINE e == [line |-> u, last |-> w]
           m == Append(n, e)
           L == Len(n)
<1>1. e \in Entry /\ e.line = u /\ e.last = w
  BY DEF Entry
<1> HIDE DEF e
<1>2. /\ m \in Seq(Entry) /\ Len(m) = L + 1 /\ m[L + 1] = e
      /\ \A j \in 1 .. L : m[j] = n[j]
  BY <1>1, AppendProperties
<1>3. L \in Nat /\ DOMAIN n = 1 .. L
  BY LenProperties
<1> HIDE DEF m, L
<1>4. DOMAIN m = 1 .. L + 1
  BY <1>2, LenProperties
<1>5. \A j \in DOMAIN n : j \in DOMAIN m /\ m[j] = n[j]
  BY <1>2, <1>3, <1>4
<1>6. \A j \in DOMAIN m : (j \in DOMAIN n /\ m[j] = n[j]) \/ (j = L + 1 /\ m[j] = e)
  BY <1>2, <1>3, <1>4
<1>7. (\A j \in DOMAIN n : n[j].last.r <= b) => \A j \in DOMAIN m : m[j].last.r <= b
  BY <1>1, <1>6
<1>8. ASSUME Increasing(n), \A j \in DOMAIN n : Before(n[j].last, u) PROVE Increasing(m)
  <2> SUFFICES ASSUME NEW i \in DOMAIN m, NEW j \in DOMAIN m, i < j
               PROVE  Before(m[i].last, m[j].line)
    BY DEF Increasing
  <2>1. i \in DOMAIN n /\ m[i] = n[i]
    BY <1>3, <1>4, <1>5
  <2>2. CASE j \in DOMAIN n /\ m[j] = n[j]
    BY <1>8, <2>1, <2>2 DEF Increasing
  <2>3. CASE m[j] = e
    BY <1>1, <1>8, <2>1, <2>3
  <2>4. QED
    BY <1>6, <2>2, <2>3
<1>9. QED
  BY <1>2, <1>3, <1>4, <1>5, <1>7, <1>8 DEF m, L, e

\* The end of a stretch of units is one of them.
LEMMA LastOf ==
  ASSUME NEW g \in Value, g # <<>>
  PROVE  Last(g) = g[Len(g)] /\ Len(g) \in Nat \ {0} /\ Len(g) \in DOMAIN g /\ Last(g) \in UnitType
<1>1. Len(g) \in Nat \ {0} /\ DOMAIN g = 1 .. Len(g)
  BY ValueJoin
<1>2. g[Len(g)] \in UnitType
  BY <1>1, ElementOfSeq DEF Value
<1>3. QED
  BY <1>1, <1>2 DEF Last

\* u in front of g.
LEMMA InFront ==
  ASSUME NEW u \in UnitType, NEW g \in Value
  PROVE  LET s == <<u>> \o g
         IN  /\ <<u>> \in Value /\ s \in Value /\ Len(s) = Len(g) + 1 /\ Len(g) \in Nat
             /\ DOMAIN s = 1 .. Len(g) + 1 /\ s[1] = u
             /\ \A p \in DOMAIN g : p \in Nat \ {0} /\ p <= Len(g) /\ p + 1 \in DOMAIN s /\ s[p + 1] = g[p]
<1> DEFINE a == <<u>>
           s == a \o g
<1>1. a \in Value /\ Len(a) = 1 /\ a[1] = u
  BY DEF Value
<1>2. Len(g) \in Nat /\ DOMAIN g = 1 .. Len(g)
  BY ValueJoin
<1> HIDE DEF a
<1>3. /\ s \in Value /\ Len(s) = Len(a) + Len(g)
      /\ \A p \in 1 .. Len(a) + Len(g) : s[p] = IF p <= Len(a) THEN a[p] ELSE g[p - Len(a)]
  BY <1>1, ConcatProperties DEF Value
<1>4. DOMAIN s = 1 .. Len(s)
  BY <1>3, ValueJoin
<1> HIDE DEF s
<1>5. Len(s) = Len(g) + 1 /\ DOMAIN s = 1 .. Len(g) + 1 /\ 1 \in 1 .. Len(a) + Len(g) /\ 1 <= Len(a)
  BY <1>1, <1>2, <1>3, <1>4
<1>6. s[1] = u
  BY <1>1, <1>3, <1>5
<1>7. ASSUME NEW p \in DOMAIN g
      PROVE  p \in Nat \ {0} /\ p <= Len(g) /\ p + 1 \in DOMAIN s /\ s[p + 1] = g[p]
  <2>1. p \in Nat \ {0} /\ p <= Len(g) /\ p + 1 \in 1 .. Len(g) + 1
    BY <1>2
  <2>2. p + 1 \in 1 .. Len(a) + Len(g) /\ ~(p + 1 <= Len(a)) /\ (p + 1) - Len(a) = p
    BY <1>1, <1>2, <2>1
  <2>3. QED
    BY <1>3, <1>5, <2>1, <2>2
<1>8. QED
  BY <1>1, <1>2, <1>3, <1>5, <1>6, <1>7 DEF s, a

\* Behind the line that ends with u a whole block stands: what its command adds.
LEMMA BlockEntry ==
  ASSUME NEW c, NEW k, NEW b \in Nat, NEW n \in Seq(Entry), NEW u \in UnitType,
         NEW g \in Value, g # <<>>, Stretch(c, k, b, <<u>> \o g), After(n, <<u>> \o g),
         \A j \in DOMAIN n : n[j].last.r <= b
  PROVE  LET m == Append(n, [line |-> u, last |-> Last(g)])
         IN  /\ Last(g) \in UnitType
             /\ m \in Seq(Entry) /\ (\A j \in DOMAIN m : m[j].last.r <= b)
             /\ Increasing(n) => Increasing(m)
<1> DEFINE s == <<u>> \o g
           w == Last(g)
<1>1. /\ s \in Value /\ DOMAIN s = 1 .. Len(g) + 1 /\ s[1] = u /\ Len(g) \in Nat
      /\ \A p \in DOMAIN g : p + 1 \in DOMAIN s /\ s[p + 1] = g[p]
  BY InFront
<1>2. w = g[Len(g)] /\ Len(g) \in DOMAIN g /\ w \in UnitType
  BY LastOf
<1>3. Stretch(c, k, b, s) /\ After(n, s)
  OBVIOUS
<1> HIDE DEF s, w
<1>4. w.r <= b
  BY <1>1, <1>2, <1>3 DEF Stretch
<1>5. \A j \in DOMAIN n : Before(n[j].last, u)
  <2>1. 1 \in DOMAIN s
    BY <1>1
  <2>2. QED
    BY <1>1, <1>3, <2>1 DEF After
<1>6. QED
  BY <1>2, <1>4, <1>5, NextEntry DEF w

\* The client resets its connection.
LEMMA ResetLinks ==
  ASSUME NEW c, NEW k, NEW q \in Socket, NEW z, NEW o \in Connection, NEW n,
         Link(c, k, q, o, n), z.begun = q.begun, z.err, z.in = <<>>
  PROVE  Link(c, k, z, o, n)
<1>1. Coming(z) = <<>> /\ Coming(q) \in Value
  BY ComingType DEF Coming
<1>2. ASSUME NEW s \in Value, NEW m, Continues(c, k, q, m, s) PROVE Continues(c, k, z, m, s)
  <2>1. s \o <<>> = s
    BY ValueJoin
  <2>2. Stretch(c, k, q.begun, s) /\ After(m, s)
    BY <1>1, <1>2, StretchSplit DEF Continues
  <2>3. QED
    BY <1>1, <2>1, <2>2 DEF Continues
<1>3. Between(c, k, q, o, n) => Between(c, k, z, o, n)
  BY <1>2, ConnectionType DEF Between
<1>4. Within(c, k, q, o, n) => Within(c, k, z, o, n)
  <2> SUFFICES ASSUME Within(c, k, q, o, n)
               PROVE  Blocked(c, k, z, n, o.line, o.body, o.bodySize)
    BY DEF Within
  <2>1. <<o.line>> \o o.body \in Value /\ <<>> \in Value
    BY ConnectionType, InFront, ValueJoin
  <2>2. Blocked(c, k, q, n, o.line, o.body, o.bodySize)
    BY DEF Within
  <2>3. QED
    BY <1>2, <2>1, <2>2 DEF Blocked
<1>5. QED
  BY <1>3, <1>4 DEF Link

\* The client makes another request.
LEMMA AskLinks ==
  ASSUME NEW c \in Conn, NEW k \in RequestSeq, NEW q \in Socket, NEW z \in Socket,
         NEW o \in Connection, NEW n \in Seq(Entry), Link(c, k, q, o, n),
         ~q.err, q.todo = <<>>, q.begun < Len(k),
         z.begun = q.begun + 1, z.err = q.err, z.in = q.in,
         z.todo = Units(c, q.begun + 1, 1, Total(k, q.begun + 1))
  PROVE  Link(c, k, z, o, n)
<1> DEFINE b == q.begun
           d == z.todo
<1>1. q.in \in Value /\ q.todo \in Value /\ z.todo \in Value /\ b \in Nat /\ Len(k) \in Nat
  BY ComingType, LenProperties DEF RequestSeq
<1>2. Coming(q) = q.in /\ Coming(z) = q.in \o d
  <2>1. Coming(q) = q.in \o q.todo /\ Coming(z) = q.in \o d
    BY DEF Coming
  <2>2. q.in \o <<>> = q.in
    BY <1>1, ValueJoin
  <2>3. QED
    BY <2>1, <2>2
<1>3. b + 1 \in 1 .. Len(k)
  BY <1>1
<1>4. d = Units(c, b + 1, 1, Total(k, b + 1)) /\ z.begun = b + 1
  OBVIOUS
<1> HIDE DEF b, d
<1>5. ASSUME NEW s \in Value, NEW m \in Seq(Entry), \A j \in DOMAIN m : m[j].last.r <= b,
             Continues(c, k, q, m, s)
      PROVE  Continues(c, k, z, m, s)
  <2> DEFINE a == s \o q.in
  <2>1. Stretch(c, k, b, a) /\ Reaches(k, b, a) /\ After(m, a)
    BY <1>2, <1>5 DEF Continues, b
  <2>2. s \o (q.in \o d) = a \o d
    BY <1>1, Regroup DEF d
  <2> HIDE DEF a
  <2>3. Stretch(c, k, b + 1, a \o d) /\ Reaches(k, b + 1, a \o d) /\ After(m, a \o d)
    BY <1>1, <1>3, <1>4, <1>5, <2>1, StretchGrows
  <2>4. s \o Coming(z) = a \o d
    BY <1>2, <2>2
  <2>5. QED
    BY <1>4, <2>3, <2>4 DEF Continues
<1>6. ASSUME Between(c, k, q, o, n), o.state # "Gone" PROVE Between(c, k, z, o, n)
  <2>1. \A j \in DOMAIN n : n[j].last.r <= b
    BY <1>6 DEF Link, b
  <2>2. QED
    BY <1>5, <1>6, <2>1, ConnectionType DEF Between
<1>7. ASSUME Within(c, k, q, o, n), o.state # "Gone" PROVE Within(c, k, z, o, n)
  <2> DEFINE u == o.line
             g == o.body
             y == o.bodySize
             s == <<u>> \o g
             m == Append(n, [line |-> u, last |-> Last(g)])
  <2>1. \A j \in DOMAIN n : n[j].last.r <= b
    BY <1>7 DEF Link, b
  <2>2. Blocked(c, k, q, n, u, g, y) /\ y \in Nat \ {0}
    BY <1>7 DEF Within, Request
  <2>3. u \in UnitType /\ g \in Value
    BY ConnectionType
  <2>4. SUFFICES Blocked(c, k, z, n, u, g, y)
    BY <1>7 DEF Within
  <2> HIDE DEF u, g, y
  <2>5. s \in Value /\ <<>> \in Value /\ Len(g) \in Nat
    BY <2>3, InFront, ValueJoin
  <2>6. ASSUME Len(g) < y PROVE Continues(c, k, z, n, s)
    <3>1. Continues(c, k, q, n, s)
      BY <2>2, <2>6 DEF Blocked
    <3> HIDE DEF s
    <3>2. QED
      BY <1>5, <2>1, <2>5, <3>1
  <2>7. ASSUME Len(g) = y
        PROVE  Stretch(c, k, b + 1, s) /\ After(n, s) /\ Continues(c, k, z, m, <<>>)
    <3>1. Stretch(c, k, b, s) /\ After(n, s) /\ Continues(c, k, q, m, <<>>)
      BY <2>2, <2>7 DEF Blocked, b
    <3>2. g # <<>>
      BY <2>2, <2>3, <2>7, ValueJoin
    <3>3. m \in Seq(Entry) /\ \A j \in DOMAIN m : m[j].last.r <= b
      BY <1>1, <2>1, <2>3, <3>1, <3>2, BlockEntry
    <3> HIDE DEF s, m
    <3>4. Continues(c, k, z, m, <<>>)
      BY <1>5, <2>5, <3>1, <3>3
    <3>5. Stretch(c, k, b + 1, s)
      BY <1>1, <3>1 DEF Stretch
    <3>6. QED
      BY <3>1, <3>4, <3>5
  <2>8. Len(g) <= y
    BY <2>2 DEF Blocked
  <2>9. QED
    BY <1>4, <2>6, <2>7, <2>8 DEF Blocked
<1>8. QED
  <2>1. o.state # "Gone" => \A j \in DOMAIN n : n[j].last.r <= z.begun
    <3> SUFFICES ASSUME o.state # "Gone", NEW j \in DOMAIN n PROVE n[j].last.r <= z.begun
      OBVIOUS
    <3>1. n[j].last.r <= b /\ n[j].last.r \in Nat
      BY EntryType DEF Link, b
    <3>2. QED
      BY <1>1, <1>4, <3>1
  <2>2. o.state \in {"None", "Leaked", "Read", "Write"} => Between(c, k, z, o, n)
    BY <1>6 DEF Link
  <2>3. o.state = "NRead" => Within(c, k, z, o, n)
    BY <1>7 DEF Link
  <2>4. z.begun \in 0 .. Len(k) /\ (z.err => z.in = <<>>)
    BY <1>1, <1>3, <1>4
  <2>5. QED
    BY <2>1, <2>2, <2>3, <2>4 DEF Link

-------------------------------------------------------------------------------
(***************************************************************************)
(* The beginning of a stretch.                                             *)
(***************************************************************************)
\* From its first unit on a stretch goes to the end of that unit's request, and
\* then to later requests.
LEMMA Begins ==
  ASSUME NEW c \in Conn, NEW k \in RequestSeq, NEW b \in Nat, b <= Len(k),
         NEW s \in Value, Stretch(c, k, b, s), s # <<>>
  PROVE  LET r == s[1].r
             z == Total(k, r) - s[1].i
         IN  /\ r \in 1 .. b /\ s[1].i \in 1 .. Total(k, r)
             /\ \A p \in DOMAIN s :
                  IF p - 1 <= z THEN s[p] = Unit(c, r, s[1].i + (p - 1)) ELSE s[p].r > r
             /\ Reaches(k, b, s) => Len(s) > z
<1> DEFINE r == s[1].r
           j == s[1].i
           T == Total(k, r)
<1>1. Len(s) \in Nat \ {0} /\ DOMAIN s = 1 .. Len(s) /\ 1 \in DOMAIN s
  BY EmptySeq, LenProperties DEF Value
<1>2. \A p \in DOMAIN s : s[p] \in UnitType /\ s[p].c = c /\ p \in Nat /\ p >= 1
  BY <1>1, ElementOfSeq DEF Stretch, Value
<1>3. r \in 1 .. b /\ j \in 1 .. T
  BY <1>1 DEF Stretch
<1>4. r \in Nat /\ j \in Nat /\ T \in Nat
  <2>1. Len(k) \in Nat
    BY LenProperties DEF RequestSeq
  <2>2. r \in 1 .. Len(k)
    BY <1>3, <2>1
  <2> HIDE DEF r
  <2>3. T \in Nat
    BY <2>2, TotalType
  <2>4. QED
    BY <1>3, <2>2, <2>3
<1>5. \A p \in DOMAIN s : p > 1 =>
        IF p - 1 <= T - j THEN s[p].r = r /\ s[p].i = j + (p - 1) ELSE s[p].r > r
  BY <1>1 DEF Stretch
<1> HIDE DEF r, j, T
<1>6. ASSUME NEW p \in DOMAIN s
      PROVE  IF p - 1 <= T - j THEN s[p].r = r /\ s[p].i = j + (p - 1) ELSE s[p].r > r
  <2>1. CASE p = 1
    <3>1. p - 1 = 0 /\ T - j >= 0 /\ j + (p - 1) = j
      BY <1>3, <1>4, <2>1
    <3>2. QED
      BY <2>1, <3>1 DEF r, j
  <2>2. CASE p > 1
    BY <1>5, <2>2
  <2>3. QED
    BY <1>2, <2>1, <2>2
<1>7. ASSUME NEW p \in DOMAIN s
      PROVE  IF p - 1 <= T - j THEN s[p] = Unit(c, r, j + (p - 1)) ELSE s[p].r > r
  <2>1. s[p] = [c |-> s[p].c, r |-> s[p].r, i |-> s[p].i]
    BY <1>2 DEF UnitType
  <2>2. QED
    BY <1>2, <1>6, <2>1 DEF Unit
<1>8. Reaches(k, b, s) => Len(s) > T - j
  <2> SUFFICES ASSUME Reaches(k, b, s), Len(s) - 1 <= T - j PROVE Len(s) > T - j
    BY <1>1, <1>4
  <2>1. s[Len(s)].r = b /\ s[Len(s)].i = Total(k, b)
    BY DEF Reaches
  <2>2. s[Len(s)].r = r /\ s[Len(s)].i = j + (Len(s) - 1)
    BY <1>1, <1>6
  <2>3. T = j + (Len(s) - 1)
    BY <2>1, <2>2 DEF T
  <2>4. QED
    BY <1>1, <1>4, <2>3
<1>9. QED
  BY <1>3, <1>7, <1>8 DEF r, j, T

-------------------------------------------------------------------------------
(***************************************************************************)
(* A data block and the line in front of it.                               *)
(***************************************************************************)
\* What follows in a stretch is sent later.
LEMMA Later ==
  ASSUME NEW c, NEW k, NEW b, NEW a \in Value, a # <<>>, NEW d \in Value,
         Stretch(c, k, b, a \o d)
  PROVE  \A m \in DOMAIN d : Before(Last(a), d[m])
<1> DEFINE s == a \o d
           L == Len(a)
<1>1. /\ s \in Value /\ Len(s) = L + Len(d)
      /\ \A p \in 1 .. L + Len(d) : s[p] = IF p <= L THEN a[p] ELSE d[p - L]
  BY ConcatProperties DEF Value
<1>2. L \in Nat \ {0} /\ Len(d) \in Nat /\ DOMAIN d = 1 .. Len(d) /\ Last(a) = a[L]
  BY LastOf, ValueJoin
<1>3. DOMAIN s = 1 .. L + Len(d)
  BY <1>1, ValueJoin
<1>4. Stretch(c, k, b, s)
  OBVIOUS
<1> HIDE DEF s, L
<1>5. SUFFICES ASSUME NEW m \in DOMAIN d PROVE Before(a[L], d[m])
  BY <1>2
<1>6. L \in DOMAIN s /\ s[L] = a[L] /\ m + L \in DOMAIN s /\ s[m + L] = d[m] /\ L < m + L
  <2>1. m \in 1 .. Len(d) /\ L \in 1 .. L + Len(d) /\ m + L \in 1 .. L + Len(d)
    BY <1>2
  <2>2. ~(m + L <= L) /\ (m + L) - L = m /\ L < m + L /\ L <= L
    BY <1>2, <2>1
  <2>3. QED
    BY <1>1, <1>3, <2>1, <2>2
<1>7. IF (m + L) - L <= Total(k, s[L].r) - s[L].i
      THEN s[m + L].r = s[L].r /\ s[m + L].i = s[L].i + ((m + L) - L)
      ELSE s[m + L].r > s[L].r
  BY <1>4, <1>6 DEF Stretch
<1>8. s[L].i \in Int /\ (m + L) - L > 0 /\ (m + L) - L \in Int
  <2>1. m \in Nat \ {0}
    BY <1>2
  <2>2. (m + L) - L = m
    BY <1>2, <2>1
  <2>3. s[L].i \in 1 .. Total(k, s[L].r)
    BY <1>4, <1>6 DEF Stretch
  <2>4. QED
    BY <2>1, <2>2, <2>3
<1>9. Before(s[L], s[m + L])
  BY <1>7, <1>8 DEF Before
<1>10. QED
  BY <1>6, <1>9

\* The last unit of a block is the last of the block with its line.
LEMMA SameLast ==
  ASSUME NEW u \in UnitType, NEW g \in Value, g # <<>>
  PROVE  <<u>> \o g \in Value /\ <<u>> \o g # <<>> /\ Last(<<u>> \o g) = Last(g)
<1> DEFINE s == <<u>> \o g
<1>1. /\ s \in Value /\ Len(s) = Len(g) + 1 /\ Len(g) \in Nat
      /\ \A p \in DOMAIN g : s[p + 1] = g[p]
  BY InFront
<1>2. Last(g) = g[Len(g)] /\ Len(g) \in DOMAIN g
  BY LastOf
<1> HIDE DEF s
<1>3. s # <<>>
  BY <1>1, ValueJoin
<1>4. Last(s) = s[Len(s)]
  BY <1>1, <1>3, LastOf
<1>5. QED
  BY <1>1, <1>2, <1>3, <1>4 DEF s

\* A command is executed whose bytes end with a; x is dropped behind it.
LEMMA Executes ==
  ASSUME NEW c, NEW k, NEW q \in Socket, NEW n \in Seq(Entry), NEW u \in UnitType,
         NEW a \in Value, a # <<>>, NEW x \in Value, NEW t, t = a \o (x \o Coming(q)),
         Stretch(c, k, q.begun, t), After(n, t), ~q.err => Reaches(k, q.begun, t)
  PROVE  /\ Stretch(c, k, q.begun, a) /\ After(n, a)
         /\ Continues(c, k, q, Append(n, [line |-> u, last |-> Last(a)]), <<>>)
<1> DEFINE w == Coming(q)
           d == x \o w
           b == q.begun
           e == [line |-> u, last |-> Last(a)]
           m == Append(n, e)
<1>1. w \in Value /\ d \in Value /\ b \in Nat
  BY ComingType, ValueJoin
<1>2. Stretch(c, k, b, a \o d) /\ After(n, a \o d) /\ (~q.err => Reaches(k, b, a \o d))
  OBVIOUS
<1>3. e \in Entry /\ e.last = Last(a) /\ d = x \o w
  BY LastOf DEF Entry
<1> HIDE DEF w, d, b, e
<1>4. /\ Stretch(c, k, b, a) /\ Stretch(c, k, b, d)
      /\ After(n, a) /\ After(n, d) /\ (~q.err => Reaches(k, b, d))
  <2>1. /\ Stretch(c, k, b, a) /\ Stretch(c, k, b, d)
        /\ After(n, a \o d) => After(n, a) /\ After(n, d)
        /\ Reaches(k, b, a \o d) => Reaches(k, b, d)
    BY <1>1, <1>2, StretchSplit
  <2>2. QED
    BY <1>2, <2>1
<1>5. \A p \in DOMAIN d : Before(Last(a), d[p])
  BY <1>1, <1>2, Later
<1>6. After(m, d)
  <2> SUFFICES ASSUME NEW p \in DOMAIN d, NEW j \in DOMAIN m PROVE Before(m[j].last, d[p])
    BY DEF After
  <2>1. /\ m \in Seq(Entry) /\ Len(m) = Len(n) + 1 /\ m[Len(n) + 1] = e
        /\ \A i \in 1 .. Len(n) : m[i] = n[i]
    BY <1>3, AppendProperties
  <2>2. Len(n) \in Nat /\ DOMAIN n = 1 .. Len(n) /\ DOMAIN m = 1 .. Len(m)
    BY <2>1, LenProperties
  <2> HIDE DEF m
  <2>3. (j \in DOMAIN n /\ m[j] = n[j]) \/ m[j] = e
    BY <2>1, <2>2
  <2>4. QED
    BY <1>3, <1>4, <1>5, <2>3 DEF After
<1> HIDE DEF m
<1>7. Stretch(c, k, b, w) /\ After(m, w) /\ (~q.err => Reaches(k, b, w))
  BY <1>1, <1>3, <1>4, <1>6, StretchSplit
<1>8. <<>> \o w = w
  BY <1>1, ValueJoin
<1>9. QED
  BY <1>4, <1>7, <1>8 DEF Continues, w, b, m, e

\* g is what is kept of a block of y units, and x what is dropped behind it.
LEMMA BlockBehind ==
  ASSUME NEW c, NEW k, NEW q \in Socket, NEW n \in Seq(Entry), NEW u \in UnitType,
         NEW g \in Value, NEW x \in Value, NEW y \in Nat \ {0},
         Len(g) <= y, Len(g) < y => x = <<>>,
         NEW t, t = (<<u>> \o g) \o (x \o Coming(q)),
         Stretch(c, k, q.begun, t), After(n, t), ~q.err => Reaches(k, q.begun, t)
  PROVE  Blocked(c, k, q, n, u, g, y)
<1> DEFINE w == Coming(q)
           s == <<u>> \o g
           d == x \o w
           b == q.begun
           m == Append(n, [line |-> u, last |-> Last(g)])
<1>1. w \in Value /\ d \in Value /\ s \in Value /\ b \in Nat /\ Len(g) \in Nat
  BY ComingType, ValueJoin, InFront
<1>2. t = s \o d /\ Stretch(c, k, b, t) /\ After(n, t) /\ (~q.err => Reaches(k, b, t))
  OBVIOUS
<1>3. ASSUME Len(g) < y PROVE Continues(c, k, q, n, s)
  <2>1. x = <<>>
    BY <1>3
  <2>2. d = w
    BY <1>1, <2>1, ValueJoin
  <2>3. QED
    BY <1>2, <2>2 DEF Continues
<1>4. ASSUME Len(g) = y
      PROVE  Stretch(c, k, b, s) /\ After(n, s) /\ Continues(c, k, q, m, <<>>)
  <2>1. g # <<>>
    BY <1>4, ValueJoin
  <2>2. s # <<>> /\ Last(s) = Last(g) /\ Last(g) \in UnitType
    BY <2>1, SameLast, LastOf
  <2>3. t = s \o (x \o Coming(q))
    OBVIOUS
  <2> HIDE DEF w, s, d, b
  <2>4. /\ Stretch(c, k, q.begun, s) /\ After(n, s)
        /\ Continues(c, k, q, Append(n, [line |-> u, last |-> Last(s)]), <<>>)
    BY <1>1, <2>2, <2>3, Executes
  <2>5. QED
    BY <2>2, <2>4 DEF b
<1>5. QED
  BY <1>3, <1>4 DEF Blocked

\* What came with the line is the beginning of its block.
LEMMA BlockStarts ==
  ASSUME NEW c, NEW k, NEW q \in Socket, NEW n \in Seq(Entry), NEW u \in UnitType,
         NEW x \in Value, NEW y \in Nat \ {0}, Continues(c, k, q, n, <<u>> \o x)
  PROVE  Blocked(c, k, q, n, u, Prefix(x, y), y) /\ Prefix(x, y) \in Value
<1> DEFINE g == Prefix(x, y)
           d == SubSeq(x, y + 1, Len(x))
           w == Coming(q)
           t == (<<u>> \o x) \o w
           b == q.begun
<1>1. /\ g \in Value /\ d \in Value
      /\ Len(g) = IF y < Len(x) THEN y ELSE Len(x)
      /\ Len(d) = IF y < Len(x) THEN Len(x) - y ELSE 0
      /\ g \o d = x
  BY TakeDrop DEF Value
<1>2. Stretch(c, k, b, t) /\ After(n, t) /\ (~q.err => Reaches(k, b, t))
  BY DEF Continues
<1>3. w \in Value /\ <<u>> \in Value /\ Len(x) \in Nat
  BY ComingType, InFront, ValueJoin
<1>4. x = g \o d
  BY <1>1
<1> HIDE DEF g, d, w, b
<1>5. Len(g) <= y
  BY <1>1, <1>3
<1>6. Len(g) < y => d = <<>>
  <2> SUFFICES ASSUME Len(g) < y PROVE d = <<>>
    OBVIOUS
  <2>1. Len(d) = 0
    BY <1>1, <1>3
  <2>2. QED
    BY <1>1, <2>1, ValueJoin
<1>7. t = (<<u>> \o g) \o (d \o w)
  <2>1. <<u>> \o (g \o d) = (<<u>> \o g) \o d /\ <<u>> \o g \in Value
    <3>0. <<u>> \in Value /\ g \in Value /\ d \in Value
      BY <1>1, <1>3
    <3>1. <<u>> \o g \in Value
      BY <3>0, ValueJoin
    <3>2. (<<u>> \o g) \o d = <<u>> \o (g \o d)
      BY <3>0, Regroup
    <3>3. QED
      BY <3>1, <3>2
  <2>2. ((<<u>> \o g) \o d) \o w = (<<u>> \o g) \o (d \o w)
    BY <1>1, <1>3, <2>1, Regroup
  <2>3. QED
    BY <1>4, <2>1, <2>2
<1> HIDE DEF t
<1>8. t = (<<u>> \o g) \o (d \o Coming(q))
  BY <1>7 DEF w
<1>9. Stretch(c, k, q.begun, t) /\ After(n, t) /\ (~q.err => Reaches(k, q.begun, t))
  BY <1>2 DEF b
<1>10. Blocked(c, k, q, n, u, g, y)
  BY <1>1, <1>5, <1>6, <1>8, <1>9, BlockBehind
<1>11. QED
  BY <1>1, <1>10 DEF g

\* What onNRead receives goes on with the block.
LEMMA BlockReceives ==
  ASSUME NEW c, NEW k, NEW q \in Socket, NEW z \in Socket, NEW n \in Seq(Entry),
         NEW u \in UnitType, NEW a \in Value, NEW x \in Value, NEW y \in Nat \ {0},
         Blocked(c, k, q, n, u, a, y), Len(a \o x) <= y, Len(a \o x) = Len(a) + Len(x),
         z.begun = q.begun, z.err = q.err, x \o Coming(z) = Coming(q)
  PROVE  Blocked(c, k, z, n, u, a \o x, y)
<1> DEFINE w == Coming(z)
           g == a \o x
           e == <<>>
           t == (<<u>> \o a) \o Coming(q)
<1>1. /\ w \in Value /\ <<u>> \in Value /\ g \in Value /\ Len(a) \in Nat /\ Len(x) \in Nat
      /\ e \in Value /\ e \o w = w
  BY ComingType, InFront, ValueJoin
<1>2. CASE Len(a) = y
  <2>1. x = <<>>
    <3>1. Len(x) = 0
      BY <1>1, <1>2
    <3>2. QED
      BY <3>1, ValueJoin
  <2>2. a \o x = a /\ Coming(z) = Coming(q)
    BY <1>1, <2>1, ValueJoin
  <2>3. QED
    BY <2>2 DEF Blocked, Continues
<1>3. CASE Len(a) < y
  <2>1. Stretch(c, k, z.begun, t) /\ After(n, t) /\ (~z.err => Reaches(k, z.begun, t))
    BY <1>3 DEF Blocked, Continues
  <2>2. t = (<<u>> \o g) \o (e \o w)
    <3>1. <<u>> \o a \in Value /\ (<<u>> \o a) \o x = <<u>> \o (a \o x)
      <4>1. a \in Value /\ x \in Value /\ <<u>> \in Value
        BY <1>1
      <4>2. <<u>> \o a \in Value
        BY <4>1, ValueJoin
      <4>3. (<<u>> \o a) \o x = <<u>> \o (a \o x)
        BY <4>1, Regroup
      <4>4. QED
        BY <4>2, <4>3
    <3>2. (<<u>> \o a) \o (x \o w) = ((<<u>> \o a) \o x) \o w
      BY <1>1, <3>1, Regroup
    <3>3. QED
      BY <1>1, <3>1, <3>2
  <2>3. Len(g) <= y /\ (Len(g) < y => e = <<>>)
    OBVIOUS
  <2> HIDE DEF t, g, e
  <2>4. t = (<<u>> \o g) \o (e \o Coming(z))
    BY <2>2 DEF w
  <2>5. Blocked(c, k, z, n, u, g, y)
    BY <1>1, <2>1, <2>3, <2>4, BlockBehind
  <2>6. QED
    BY <2>5 DEF g
<1>4. Len(a) <= y
  BY DEF Blocked
<1>5. QED
  BY <1>1, <1>2, <1>3, <1>4

-------------------------------------------------------------------------------
(***************************************************************************)
(* Values made of whole blocks.                                            *)
(***************************************************************************)
\* The unit that follows, in the script of its client.
LEMMA SuccNext ==
  ASSUME NEW u
  PROVE  Succ(u) = NextUnit(script[u.c], u)
  BY DEF Succ, NextUnit, Total, LineLen, BlockLen

\* A block stays one where it is put in a longer value.
LEMMA InBlockMoves ==
  ASSUME NEW v, NEW s, Len(v) \in Nat, Len(s) \in Nat, NEW L \in Nat, L + Len(v) <= Len(s),
         \A x \in 1 .. Len(v) : s[L + x] = v[x],
         NEW p \in 1 .. Len(v), NEW e, InBlock(v, p, e)
  PROVE  InBlock(s, L + p, e)
<1>1. PICK i \in 1 .. p, j \in p .. Len(v) :
        /\ v[i] = Succ(e.line)
        /\ \A n \in i .. j - 1 : v[n + 1] = Succ(v[n])
        /\ Succ(v[j]) = e.last \/ (j < Len(v) /\ v[j + 1] = Foreign)
  BY DEF InBlock
<1> DEFINE I == L + i
           J == L + j
<1>2. /\ I \in 1 .. L + p /\ J \in L + p .. Len(s) /\ i \in 1 .. Len(v) /\ j \in 1 .. Len(v)
      /\ (j < Len(v) => j + 1 \in 1 .. Len(v) /\ J < Len(s)) /\ L + (j + 1) = J + 1
  <2> DEFINE A == Len(v)
             B == Len(s)
  <2>1. A \in Nat /\ B \in Nat /\ L + A <= B /\ p \in 1 .. A /\ i \in 1 .. p /\ j \in p .. A
    OBVIOUS
  <2> HIDE DEF A, B
  <2>2. /\ L + i \in 1 .. L + p /\ L + j \in L + p .. B /\ i \in 1 .. A /\ j \in 1 .. A
        /\ (j < A => j + 1 \in 1 .. A /\ L + j < B) /\ L + (j + 1) = (L + j) + 1
    BY <2>1
  <2>3. QED
    BY <2>2 DEF A, B
<1>3. s[I] = Succ(e.line)
  <2>1. s[L + i] = v[i]
    BY <1>2
  <2>2. QED
    BY <1>1, <2>1
<1>4. ASSUME NEW n \in I .. J - 1 PROVE s[n + 1] = Succ(s[n])
  <2> DEFINE m == n - L
  <2>1. m \in i .. j - 1 /\ m \in 1 .. Len(v) /\ m + 1 \in 1 .. Len(v) /\ L + m = n /\ L + (m + 1) = n + 1
    <3> DEFINE A == Len(v)
    <3>1. A \in Nat /\ i \in 1 .. A /\ j \in 1 .. A
      BY <1>2
    <3> HIDE DEF A
    <3>2. m \in i .. j - 1 /\ m \in 1 .. A /\ m + 1 \in 1 .. A /\ L + m = n /\ L + (m + 1) = n + 1
      BY <3>1
    <3>3. QED
      BY <3>2 DEF A
  <2> HIDE DEF m
  <2>2. s[n] = v[m] /\ s[n + 1] = v[m + 1]
    <3>1. s[L + m] = v[m] /\ s[L + (m + 1)] = v[m + 1]
      BY <2>1
    <3>2. QED
      BY <2>1, <3>1
  <2>3. QED
    BY <1>1, <2>1, <2>2
<1>5. Succ(s[J]) = e.last \/ (J < Len(s) /\ s[J + 1] = Foreign)
  <2>1. s[J] = v[j]
    BY <1>2
  <2>2. CASE Succ(v[j]) = e.last
    BY <2>1, <2>2
  <2>3. CASE j < Len(v) /\ v[j + 1] = Foreign
    <3>1. j + 1 \in 1 .. Len(v) /\ J < Len(s)
      BY <1>2, <2>3
    <3>2. s[L + (j + 1)] = v[j + 1]
      BY <3>1
    <3>3. QED
      BY <1>2, <2>3, <3>1, <3>2
  <2>4. QED
    BY <1>1, <2>2, <2>3
<1> HIDE DEF I, J
<1>6. QED
  BY <1>2, <1>3, <1>4, <1>5 DEF InBlock

\* What has been executed is not forgotten.
LEMMA WholeGrows ==
  ASSUME NEW n, NEW m, \A c \in Conn : Range(n[c]) \subseteq Range(m[c]), NEW v, WholeBlocks(v, n)
  PROVE  WholeBlocks(v, m)
  BY DEF WholeBlocks

\* A block whose command has been executed, but for its newline.
LEMMA WholeBlock ==
  ASSUME NEW c \in Conn, NEW b, NEW u \in UnitType, NEW g \in Value, g # <<>>,
         Stretch(c, script[c], b, <<u>> \o g),
         NEW n, [line |-> u, last |-> Last(g)] \in Range(n[c])
  PROVE  WholeBlocks(Front(g), n) /\ Front(g) \in Value
<1> DEFINE s == <<u>> \o g
           v == Front(g)
           L == Len(g)
           e == [line |-> u, last |-> Last(g)]
           k == script[c]
<1>1. /\ s \in Value /\ DOMAIN s = 1 .. L + 1 /\ s[1] = u
      /\ \A p \in DOMAIN g : p + 1 \in DOMAIN s /\ s[p + 1] = g[p]
  BY InFront
<1>2. L \in Nat \ {0} /\ DOMAIN g = 1 .. L /\ Last(g) = g[L]
  BY LastOf, ValueJoin
<1>3. v \in Value /\ Len(v) = L - 1 /\ DOMAIN v = 1 .. L - 1 /\ \A p \in 1 .. L - 1 : v[p] = g[p]
  <2> DEFINE x == 1
             y == L - 1
  <2>1. y \in 0 .. L /\ y \in Nat /\ x \in Nat \ {0} /\ g \in Seq(UnitType)
    BY <1>2 DEF Value
  <2>2. v = SubSeq(g, x, y)
    BY DEF Front
  <2>3. y - x + 1 = y /\ (IF x <= y THEN y - x + 1 ELSE 0) = y /\ \A p \in 1 .. y : x + p - 1 = p
    BY <2>1
  <2> HIDE DEF x, y
  <2>4. /\ SubSeq(g, x, y) \in Seq(UnitType)
        /\ Len(SubSeq(g, x, y)) = IF x <= y THEN y - x + 1 ELSE 0
        /\ \A p \in 1 .. y - x + 1 : SubSeq(g, x, y)[p] = g[x + p - 1]
    BY <2>1, Part
  <2>5. v \in Value /\ Len(v) = y /\ \A p \in 1 .. y : v[p] = g[p]
    BY <2>2, <2>3, <2>4 DEF Value
  <2>6. DOMAIN v = 1 .. Len(v)
    BY <2>5, ValueJoin
  <2>7. QED
    BY <2>5, <2>6 DEF y
<1>4. Stretch(c, k, b, s) /\ e.line = u /\ e.last = Last(g)
  OBVIOUS
<1> HIDE DEF s, v, L, e, k
<1>5. ASSUME NEW p \in DOMAIN s, p + 1 \in DOMAIN s PROVE s[p + 1] = Succ(s[p])
  <2>1. s[p].c = c /\ s[p + 1] = NextUnit(k, s[p])
    BY <1>4, <1>5 DEF Stretch
  <2>2. QED
    BY <2>1, SuccNext DEF k
<1>6. ASSUME NEW p \in 1 .. L - 1 PROVE g[p + 1] = Succ(g[p])
  <2>1. p \in DOMAIN g /\ p + 1 \in DOMAIN g
    BY <1>2
  <2>2. /\ p + 1 \in DOMAIN s /\ s[p + 1] = g[p]
        /\ (p + 1) + 1 \in DOMAIN s /\ s[(p + 1) + 1] = g[p + 1]
    BY <1>1, <2>1
  <2> DEFINE m == p + 1
  <2>3. m \in DOMAIN s /\ m + 1 \in DOMAIN s /\ s[m] = g[p] /\ s[m + 1] = g[p + 1]
    BY <2>2
  <2> HIDE DEF m
  <2>4. s[m + 1] = Succ(s[m])
    BY <1>5, <2>3
  <2>5. QED
    BY <2>3, <2>4
<1>7. g[1] = Succ(u)
  <2>1. 1 \in DOMAIN g /\ 1 \in DOMAIN s
    BY <1>1, <1>2
  <2>2. s[1 + 1] = g[1] /\ 1 + 1 \in DOMAIN s
    BY <1>1, <2>1
  <2>3. s[1 + 1] = Succ(s[1])
    BY <1>5, <2>1, <2>2
  <2>4. QED
    BY <1>1, <2>2, <2>3
<1>8. ASSUME NEW p \in DOMAIN v PROVE InBlock(v, p, e)
  <2> DEFINE i == 1
             j == L - 1
  <2>1. i \in 1 .. p /\ j \in p .. Len(v) /\ p \in 1 .. L - 1 /\ j \in 1 .. L - 1 /\ 1 \in 1 .. L - 1
    BY <1>2, <1>3
  <2>2. v[i] = Succ(e.line)
    BY <1>3, <1>4, <1>7, <2>1
  <2>3. ASSUME NEW m \in i .. j - 1 PROVE v[m + 1] = Succ(v[m])
    <3>1. m \in 1 .. L - 1 /\ m + 1 \in 1 .. L - 1
      BY <1>2
    <3>2. QED
      BY <1>3, <1>6, <3>1
  <2>4. Succ(v[j]) = e.last
    <3>1. j + 1 = L
      BY <1>2
    <3>2. v[j] = g[j] /\ g[j + 1] = Succ(g[j])
      BY <1>3, <1>6, <2>1
    <3>3. QED
      BY <1>2, <1>4, <3>1, <3>2
  <2> HIDE DEF i, j
  <2>5. QED
    BY <2>1, <2>2, <2>3, <2>4 DEF InBlock
<1>9. ASSUME NEW p \in DOMAIN v PROVE v[p].c = c
  <2>1. p \in DOMAIN g /\ v[p] = g[p]
    BY <1>2, <1>3
  <2>2. p + 1 \in DOMAIN s /\ s[p + 1] = g[p]
    BY <1>1, <2>1
  <2>3. QED
    BY <1>4, <2>1, <2>2 DEF Stretch
<1>10. e \in Range(n[c])
  BY DEF e
<1>11. WholeBlocks(v, n)
  BY <1>8, <1>9, <1>10 DEF WholeBlocks
<1>12. QED
  BY <1>3, <1>11 DEF v

\* Whole blocks put together are whole blocks.
LEMMA WholeJoin ==
  ASSUME NEW n, NEW v \in Value, NEW w \in Value, WholeBlocks(v, n), WholeBlocks(w, n)
  PROVE  WholeBlocks(v \o w, n) /\ v \o w \in Value
<1> DEFINE s == v \o w
           L == Len(v)
<1>1. /\ s \in Value /\ Len(s) = L + Len(w)
      /\ \A p \in 1 .. L + Len(w) : s[p] = IF p <= L THEN v[p] ELSE w[p - L]
  BY ConcatProperties DEF Value
<1>2. /\ L \in Nat /\ Len(w) \in Nat /\ DOMAIN v = 1 .. L /\ DOMAIN w = 1 .. Len(w)
      /\ DOMAIN s = 1 .. L + Len(w)
  BY <1>1, ValueJoin
<1>3. L = Len(v)
  OBVIOUS
<1> HIDE DEF s, L
<1>4. \A x \in 1 .. L : s[x] = v[x]
  BY <1>1, <1>2
<1>5. \A x \in 1 .. Len(w) : s[L + x] = w[x]
  <2> SUFFICES ASSUME NEW x \in 1 .. Len(w) PROVE s[L + x] = w[x]
    OBVIOUS
  <2>1. L + x \in 1 .. L + Len(w) /\ ~(L + x <= L) /\ (L + x) - L = x
    BY <1>2
  <2>2. QED
    BY <1>1, <2>1
<1>6. ASSUME NEW p \in DOMAIN s, s[p].c \in Conn, ~Number(s[p])
      PROVE  \E e \in Range(n[s[p].c]) : InBlock(s, p, e)
  <2>1. CASE p <= L
    <3>1. p \in DOMAIN v /\ s[p] = v[p] /\ p \in 1 .. L
      BY <1>2, <1>4, <2>1
    <3>2. PICK e \in Range(n[s[p].c]) : InBlock(v, p, e)
      BY <1>6, <3>1 DEF WholeBlocks
    <3> DEFINE z == 0
    <3>3. z \in Nat /\ z + L <= Len(s) /\ z + p = p /\ \A x \in 1 .. L : z + x = x
      BY <1>1, <1>2
    <3> HIDE DEF z
    <3>4. \A x \in 1 .. Len(v) : s[z + x] = v[x]
      BY <1>3, <1>4, <3>3
    <3>5. Len(v) \in Nat /\ Len(s) \in Nat /\ z + Len(v) <= Len(s) /\ p \in 1 .. Len(v)
      BY <1>1, <1>2, <1>3, <3>1, <3>3
    <3>6. InBlock(s, z + p, e)
      BY <3>2, <3>3, <3>4, <3>5, InBlockMoves
    <3>7. QED
      BY <3>3, <3>6
  <2>2. CASE ~(p <= L)
    <3> DEFINE P == p - L
    <3>1. P \in 1 .. Len(w) /\ p = L + P
      BY <1>2, <2>2
    <3> HIDE DEF P
    <3>2. s[p] = w[P] /\ P \in DOMAIN w
      BY <1>2, <1>5, <3>1
    <3>3. PICK e \in Range(n[s[p].c]) : InBlock(w, P, e)
      BY <1>6, <3>2 DEF WholeBlocks
    <3>4. Len(w) \in Nat /\ Len(s) \in Nat /\ L + Len(w) <= Len(s)
      BY <1>1, <1>2
    <3>5. InBlock(s, L + P, e)
      BY <1>2, <1>5, <3>1, <3>3, <3>4, InBlockMoves
    <3>6. QED
      BY <3>1, <3>5
  <2>3. QED
    BY <2>1, <2>2
<1>7. WholeBlocks(s, n)
  BY <1>6 DEF WholeBlocks
<1>8. QED
  BY <1>1, <1>7 DEF s

\* The first units of a value, and behind them bytes that are not of it.
LEMMA WholeCut ==
  ASSUME NEW n, NEW v \in Value, WholeBlocks(v, n), NEW y \in 0 .. Len(v)
  PROVE  /\ WholeBlocks(Append(SubSeq(v, 1, y), Foreign), n)
         /\ SubSeq(v, 1, y) \in Value /\ Append(SubSeq(v, 1, y), Foreign) \in Value
<1> DEFINE a == SubSeq(v, 1, y)
           s == Append(a, Foreign)
<1>1. Len(v) \in Nat /\ DOMAIN v = 1 .. Len(v) /\ y \in Nat /\ y <= Len(v)
  BY ValueJoin
<1>2. a \in Value /\ Len(a) = y /\ \A p \in 1 .. y : a[p] = v[p]
  <2> DEFINE x == 1
  <2>1. x \in Nat \ {0} /\ v \in Seq(UnitType)
    BY DEF Value
  <2>2. y - x + 1 = y /\ (IF x <= y THEN y - x + 1 ELSE 0) = y /\ \A p \in 1 .. y : x + p - 1 = p
    BY <1>1
  <2>3. a = SubSeq(v, x, y)
    OBVIOUS
  <2> HIDE DEF x
  <2>4. /\ SubSeq(v, x, y) \in Seq(UnitType)
        /\ Len(SubSeq(v, x, y)) = IF x <= y THEN y - x + 1 ELSE 0
        /\ \A p \in 1 .. y - x + 1 : SubSeq(v, x, y)[p] = v[x + p - 1]
    BY <2>1, Part
  <2>5. QED
    BY <2>2, <2>3, <2>4 DEF Value
<1>3. Foreign \in UnitType /\ Foreign.c \notin Conn
  BY ConnAssumption DEF Foreign, Unit, UnitType
<1> HIDE DEF a
<1>4. /\ s \in Value /\ Len(s) = y + 1 /\ s[y + 1] = Foreign
      /\ \A p \in 1 .. y : s[p] = a[p]
  BY <1>2, <1>3, AppendProperties DEF Value
<1> HIDE DEF s
<1>5. DOMAIN s = 1 .. y + 1 /\ \A p \in 1 .. y : s[p] = v[p]
  BY <1>2, <1>4, ValueJoin
<1>6. ASSUME NEW p \in DOMAIN s, s[p].c \in Conn, ~Number(s[p])
      PROVE  \E e \in Range(n[s[p].c]) : InBlock(s, p, e)
  <2>1. p \in 1 .. y /\ s[p] = v[p] /\ p \in DOMAIN v
    BY <1>1, <1>3, <1>4, <1>5, <1>6
  <2>2. PICK e \in Range(n[s[p].c]) : InBlock(v, p, e)
    BY <1>6, <2>1 DEF WholeBlocks
  <2>3. PICK i \in 1 .. p, j \in p .. Len(v) :
          /\ v[i] = Succ(e.line)
          /\ \A m \in i .. j - 1 : v[m + 1] = Succ(v[m])
          /\ Succ(v[j]) = e.last \/ (j < Len(v) /\ v[j + 1] = Foreign)
    BY <2>2 DEF InBlock
  <2>4. i \in 1 .. y /\ s[i] = Succ(e.line) /\ y + 1 = Len(s)
    BY <1>1, <1>4, <1>5, <2>1, <2>3
  <2>5. CASE j < y
    <3>1. j \in p .. Len(s) /\ j \in 1 .. y /\ j + 1 \in 1 .. y /\ j < Len(s)
      BY <1>1, <2>1, <2>4, <2>5
    <3>2. \A m \in i .. j - 1 : s[m + 1] = Succ(s[m])
      <4> SUFFICES ASSUME NEW m \in i .. j - 1 PROVE s[m + 1] = Succ(s[m])
        OBVIOUS
      <4>1. m \in 1 .. y /\ m + 1 \in 1 .. y
        BY <1>1, <2>1, <2>5
      <4>2. QED
        BY <1>5, <2>3, <4>1
    <3>3. s[j] = v[j] /\ s[j + 1] = v[j + 1]
      BY <1>5, <3>1
    <3>4. Succ(s[j]) = e.last \/ (j < Len(s) /\ s[j + 1] = Foreign)
      BY <2>3, <3>1, <3>3
    <3>5. QED
      BY <2>4, <3>1, <3>2, <3>4 DEF InBlock
  <2>6. CASE ~(j < y)
    <3>1. y \in p .. Len(s) /\ y < Len(s)
      BY <1>1, <2>1, <2>4
    <3>2. \A m \in i .. y - 1 : s[m + 1] = Succ(s[m])
      <4> SUFFICES ASSUME NEW m \in i .. y - 1 PROVE s[m + 1] = Succ(s[m])
        OBVIOUS
      <4>1. m \in 1 .. y /\ m + 1 \in 1 .. y /\ m \in i .. j - 1
        BY <1>1, <2>1, <2>6
      <4>2. QED
        BY <1>5, <2>3, <4>1
    <3>3. QED
      BY <1>4, <2>4, <3>1, <3>2 DEF InBlock
  <2>7. QED
    BY <2>5, <2>6
<1>7. WholeBlocks(s, n)
  BY <1>6 DEF WholeBlocks
<1>8. QED
  BY <1>2, <1>4, <1>7 DEF s, a

\* A number, bytes that are of no value, and no units at all.
LEMMA WholeOne ==
  ASSUME NEW n
  PROVE  /\ \A u \in UnitType : <<Unit(u.c, u.r, 0)>> \in Value /\ WholeBlocks(<<Unit(u.c, u.r, 0)>>, n)
         /\ <<Foreign>> \in Value /\ WholeBlocks(<<Foreign>>, n)
         /\ <<NoUnit>> \in Value
<1>1. ASSUME NEW u \in UnitType
      PROVE  <<Unit(u.c, u.r, 0)>> \in Value /\ WholeBlocks(<<Unit(u.c, u.r, 0)>>, n)
  <2> DEFINE e == Unit(u.c, u.r, 0)
             v == <<e>>
  <2>1. e \in UnitType /\ (e.c \in Conn => Number(e))
    BY DEF Unit, UnitType, Number
  <2> HIDE DEF e
  <2>2. v \in Value /\ \A p \in DOMAIN v : v[p] = e
    BY <2>1 DEF Value
  <2>3. WholeBlocks(v, n)
    BY <2>1, <2>2 DEF WholeBlocks
  <2>4. QED
    BY <2>2, <2>3 DEF e
<1>2. Foreign \in UnitType /\ Foreign.c \notin Conn /\ NoUnit \in UnitType
  BY ConnAssumption DEF Foreign, NoUnit, Unit, UnitType
<1>3. <<Foreign>> \in Value /\ WholeBlocks(<<Foreign>>, n)
  <2> DEFINE v == <<Foreign>>
  <2>1. v \in Value /\ \A p \in DOMAIN v : v[p] = Foreign
    BY <1>2 DEF Value
  <2>2. WholeBlocks(v, n)
    BY <1>2, <2>1 DEF WholeBlocks
  <2>3. QED
    BY <2>1, <2>2
<1>4. <<NoUnit>> \in Value
  BY <1>2 DEF Value
<1>5. QED
  BY <1>1, <1>3, <1>4

-------------------------------------------------------------------------------
(***************************************************************************)
(* What the calls of shmc leave.                                           *)
(***************************************************************************)
\* A content, and a file, made of whole blocks of the commands in n.
Whole(d, n) == d \in Store /\ Blocks(d, n)
WholeFile(f, n) == f \in Files /\ FileBlocks(f, n)

\* A result that may be taken.
Sound(res, n) ==
  res.rc \in Codes /\ res.out \in Value /\ Whole(res.db, n) /\ WholeFile(res.file, n)

\* A value that may be bound.
Good(v, n) == v \in Value /\ WholeBlocks(v, n)

\* The values of a content, and the records of a file, one by one.
LEMMA WholeEach ==
  ASSUME NEW n
  PROVE  /\ \A d : Whole(d, n) => DOMAIN d \subseteq Key /\ \A k \in DOMAIN d : Good(d[k], n)
         /\ \A K \in SUBSET Key : \A d :
              d = [k \in K |-> d[k]] /\ (\A k \in K : Good(d[k], n)) => Whole(d, n)
<1>1. ASSUME NEW d, Whole(d, n)
      PROVE  DOMAIN d \subseteq Key /\ \A k \in DOMAIN d : Good(d[k], n)
  <2>1. PICK K \in SUBSET Key : d \in [K -> Value]
    BY <1>1 DEF Whole, Store
  <2>2. QED
    BY <1>1, <2>1 DEF Whole, Blocks, Good
<1>2. ASSUME NEW K \in SUBSET Key, NEW d, d = [k \in K |-> d[k]], \A k \in K : Good(d[k], n)
      PROVE  Whole(d, n)
  <2>1. DOMAIN d = K /\ d \in [K -> Value]
    BY <1>2 DEF Good
  <2>2. QED
    BY <1>2, <2>1 DEF Whole, Store, Blocks, Good
<1>3. QED
  BY <1>1, <1>2

LEMMA FileEach ==
  ASSUME NEW n
  PROVE  /\ \A f : WholeFile(f, n) => DOMAIN f \subseteq Key /\ \A k \in DOMAIN f : Good(Restored(f[k]), n)
         /\ \A K \in SUBSET Key : \A f :
              /\ f = [k \in K |-> f[k]]
              /\ \A k \in K : f[k] \in Record /\ Good(Restored(f[k]), n)
              => WholeFile(f, n)
<1>1. ASSUME NEW f, WholeFile(f, n)
      PROVE  DOMAIN f \subseteq Key /\ \A k \in DOMAIN f : Good(Restored(f[k]), n)
  <2>1. PICK K \in SUBSET Key : f \in [K -> Record]
    BY <1>1 DEF WholeFile, Files
  <2>2. ASSUME NEW k \in K PROVE Restored(f[k]) \in Value
    <3> DEFINE x == f[k]
    <3>1. x.text \in Value
      BY <2>1 DEF Record
    <3>2. Foreign \in UnitType
      BY ConnAssumption DEF Foreign, Unit, UnitType
    <3> DEFINE v == x.text
    <3> HIDE DEF v
    <3>3. Append(v, Foreign) \in Value
      BY <3>1, <3>2, AppendProperties DEF Value, v
    <3>4. QED
      BY <3>1, <3>3 DEF Restored, v
  <2>3. QED
    BY <1>1, <2>1, <2>2 DEF WholeFile, FileBlocks, Good
<1>2. ASSUME NEW K \in SUBSET Key, NEW f, f = [k \in K |-> f[k]],
             \A k \in K : f[k] \in Record /\ Good(Restored(f[k]), n)
      PROVE  WholeFile(f, n)
  <2>1. DOMAIN f = K /\ f \in [K -> Record]
    BY <1>2
  <2>2. QED
    BY <1>2, <2>1 DEF WholeFile, Files, FileBlocks, Good
<1>3. QED
  BY <1>1, <1>2

\* A value is bound or dropped, when room has been made.
LEMMA BindWhole ==
  ASSUME NEW n, Whole(db, n), NEW k \in Key, NEW v, Good(v, n)
  PROVE  /\ \A x : Whole(Without(x), n)
         /\ \A d \in Room : Whole(d, n) /\ Whole(Bind(d, k, v), n)
<1>1. Held \subseteq Key /\ \A x \in Held : Good(db[x], n)
  BY WholeEach DEF Held
<1>2. ASSUME NEW y PROVE Whole(Without(y), n)
  <2> DEFINE d == Without(y)
             K == Held \ {y}
  <2>1. K \in SUBSET Key
    BY <1>1
  <2>2. d = [x \in K |-> d[x]] /\ \A x \in K : d[x] = db[x]
    BY DEF Without
  <2>3. \A x \in K : Good(d[x], n)
    BY <1>1, <2>2
  <2> HIDE DEF d, K
  <2>4. Whole(d, n)
    BY <2>1, <2>2, <2>3, WholeEach
  <2>5. QED
    BY <2>4 DEF d
<1>3. ASSUME NEW d \in Room PROVE Whole(d, n)
  BY <1>2 DEF Room
<1>4. ASSUME NEW r \in Room PROVE Whole(Bind(r, k, v), n)
  <2> DEFINE d == Bind(r, k, v)
             K == DOMAIN r \cup {k}
  <2>1. DOMAIN r \subseteq Key /\ \A x \in DOMAIN r : Good(r[x], n)
    BY <1>3, WholeEach
  <2>2. K \in SUBSET Key
    BY <2>1
  <2>3. d = [x \in K |-> d[x]] /\ \A x \in K : d[x] = IF x = k THEN v ELSE r[x]
    BY DEF Bind
  <2>4. \A x \in K : Good(d[x], n)
    <3> HIDE DEF d
    <3>1. QED
      BY <2>1, <2>3
  <2> HIDE DEF d, K
  <2>5. Whole(d, n)
    BY <2>2, <2>3, <2>4, WholeEach
  <2>6. QED
    BY <2>5 DEF d
<1>5. QED
  BY <1>2, <1>3, <1>4

\* A line, and a content.
LEMMA ResultSound ==
  ASSUME NEW n, WholeFile(file, n)
  PROVE  \A d : Whole(d, n) => \A rc \in Codes : Sound(Result(rc, d), n)
<1>1. <<>> \in Value
  BY ValueJoin
<1>2. QED
  BY <1>1 DEF Sound, Result

\* shmc_set and its kin.
LEMMA SetSound ==
  ASSUME NEW n, Whole(db, n), WholeFile(file, n), NEW k \in Key, NEW v, Good(v, n)
  PROVE  /\ \A res \in Failed(k) : Sound(res, n)
         /\ \A res \in Missed : Sound(res, n)
         /\ \A res \in DoSet(k, v) : Sound(res, n)
<1>1. Whole(Without(k), n) /\ \A d \in Room : Whole(Bind(d, k, v), n)
  BY BindWhole
<1>2. /\ Sound(Result("SERVER_ERROR", db), n) /\ Sound(Result("SERVER_ERROR", Without(k)), n)
      /\ Sound(Result("NOT_FOUND", db), n)
      /\ \A d \in Room : Sound(Result("STORED", Bind(d, k, v)), n)
  BY <1>1, ResultSound DEF Codes
<1>3. QED
  BY <1>2 DEF Failed, Missed, DoSet

\* A data block is stored.
LEMMA StoreSound ==
  ASSUME NEW n, Whole(db, n), WholeFile(file, n), NEW q \in Request, q.cmd \in Storing,
         NEW block, Good(Front(block), n), NEW res \in DoStore(q, block)
  PROVE  Sound(res, n)
<1> DEFINE k == q.key
           v == Front(block)
<1>1. q.key \in Key
  BY DEF Request
<1>2. Good(v, n)
  OBVIOUS
<1>3. \/ res \in DoSet(k, v) \/ res \in DoAdd(k, v) \/ res \in DoReplace(k, v)
      \/ res \in DoPrepend(k, v) \/ res \in DoAppend(k, v)
  BY DEF DoStore, Storing
<1> HIDE DEF v
<1>4. k \in Key
  BY <1>1
<1> HIDE DEF k
<1>5. /\ \A x \in Failed(k) : Sound(x, n)
      /\ \A x \in Missed : Sound(x, n)
      /\ \A x \in DoSet(k, v) : Sound(x, n)
  BY <1>2, <1>4, SetSound
<1>6. \A x \in DoAdd(k, v) : Sound(x, n)
  <2>1. Sound(Result("EXISTS", db), n)
    BY ResultSound DEF Codes
  <2>2. QED
    BY <1>5, <2>1 DEF DoAdd
<1>7. \A x \in DoReplace(k, v) : Sound(x, n)
  BY <1>5 DEF DoReplace
<1>8. ASSUME k \in Held
      PROVE  /\ \A x \in DoSet(k, v \o db[k]) : Sound(x, n)
             /\ \A x \in DoSet(k, db[k] \o v) : Sound(x, n)
  <2> DEFINE w == db[k]
             vw == v \o w
             wv == w \o v
  <2>1. Good(w, n)
    BY <1>8, WholeEach DEF Held
  <2> HIDE DEF w
  <2>2. Good(vw, n) /\ Good(wv, n)
    BY <1>2, <2>1, WholeJoin DEF Good
  <2> HIDE DEF vw, wv
  <2>3. (\A x \in DoSet(k, vw) : Sound(x, n)) /\ (\A x \in DoSet(k, wv) : Sound(x, n))
    BY <1>4, <2>2, SetSound
  <2>4. QED
    BY <2>3 DEF vw, wv, w
<1>9. \A x \in DoPrepend(k, v) : Sound(x, n)
  BY <1>5, <1>8 DEF DoPrepend
<1>10. \A x \in DoAppend(k, v) : Sound(x, n)
  BY <1>5, <1>8 DEF DoAppend
<1>11. QED
  BY <1>3, <1>5, <1>6, <1>7, <1>9, <1>10

\* A choice is one for each element.
LEMMA ChosenOf ==
  ASSUME NEW K, NEW From, NEW f \in Chosen(K, From)
  PROVE  f = [k \in K |-> f[k]] /\ \A k \in K : f[k] \in From[k]
  BY DEF Chosen

\* What is printed of a value, and what load makes of it.
LEMMA RecordsGood ==
  ASSUME NEW n, NEW v, Good(v, n), NEW x \in Records(v)
  PROVE  x \in Record /\ Good(Restored(x), n)
<1>1. CASE x = [text |-> v, short |-> FALSE]
  BY <1>1 DEF Good, Record, Restored
<1>2. ASSUME NEW y \in 0 .. Len(v), x = [text |-> SubSeq(v, 1, y), short |-> TRUE]
      PROVE  x \in Record /\ Good(Restored(x), n)
  <2>1. /\ WholeBlocks(Append(SubSeq(v, 1, y), Foreign), n)
        /\ SubSeq(v, 1, y) \in Value /\ Append(SubSeq(v, 1, y), Foreign) \in Value
    BY WholeCut DEF Good
  <2>2. Restored(x) = Append(SubSeq(v, 1, y), Foreign) /\ x \in Record
    BY <1>2, <2>1 DEF Restored, Record
  <2>3. QED
    BY <2>1, <2>2 DEF Good
<1>3. \/ x = [text |-> v, short |-> FALSE]
      \/ \E y \in 0 .. Len(v) : x = [text |-> SubSeq(v, 1, y), short |-> TRUE]
  BY DEF Records
<1>4. QED
  BY <1>1, <1>2, <1>3

\* shmc_dump and shmc_load.
LEMMA DumpSound ==
  ASSUME NEW n, Whole(db, n), WholeFile(file, n)
  PROVE  /\ \A res \in DoDump : Sound(res, n)
         /\ \A res \in DoLoad : Sound(res, n)
<1>1. Sound(Result("SERVER_ERROR", db), n) /\ Sound(Result("DUMPED", db), n)
  BY ResultSound DEF Codes
<1>2. Held \subseteq Key /\ \A x \in Held : Good(db[x], n)
  BY WholeEach DEF Held
<1>3. ASSUME NEW K \in SUBSET Held, NEW f \in Chosen(K, [k \in Held |-> Records(db[k])])
      PROVE  Sound([Result("DUMPED", db) EXCEPT !.file = f], n)
  <2> DEFINE From == [k \in Held |-> Records(db[k])]
  <2>1. f = [k \in K |-> f[k]] /\ \A k \in K : f[k] \in From[k]
    <3> HIDE DEF From
    <3>1. f \in Chosen(K, From)
      BY DEF From
    <3>2. QED
      BY <3>1, ChosenOf
  <2>2. ASSUME NEW k \in K PROVE f[k] \in Record /\ Good(Restored(f[k]), n)
    <3>1. f[k] \in Records(db[k]) /\ Good(db[k], n)
      BY <1>2, <2>1
    <3>2. QED
      BY <3>1, RecordsGood
  <2>3. WholeFile(f, n)
    BY <1>2, <2>1, <2>2, FileEach
  <2>4. QED
    BY <1>1, <2>3 DEF Sound, Result
<1>4. \A res \in DoDump : Sound(res, n)
  <2> SUFFICES ASSUME NEW res \in DoDump PROVE Sound(res, n)
    OBVIOUS
  <2>1. \/ res = Result("SERVER_ERROR", db)
        \/ \E K \in SUBSET Held : \E f \in Chosen(K, [k \in Held |-> Records(db[k])]) :
             res = [Result("DUMPED", db) EXCEPT !.file = f]
    BY DEF DoDump
  <2>2. QED
    BY <1>1, <1>3, <2>1
<1>5. DOMAIN file \subseteq Key /\ \A x \in DOMAIN file : Good(Restored(file[x]), n)
  BY FileEach
<1>6. Good(<<Foreign>>, n)
  BY WholeOne DEF Good
<1>7. ASSUME NEW some, NEW d \in AfterLoad(some) PROVE Whole(d, n)
  <2>1. CASE d = db
    BY <2>1
  <2>2. ASSUME NEW K \in SUBSET Key, d \in Chosen(K, Loaded(some)) PROVE Whole(d, n)
    <3> DEFINE From == Loaded(some)
    <3>1. d = [k \in K |-> d[k]] /\ \A k \in K : d[k] \in From[k]
      <4> HIDE DEF From
      <4>1. d \in Chosen(K, From)
        BY <2>2 DEF From
      <4>2. QED
        BY <4>1, ChosenOf
    <3>2. ASSUME NEW k \in K PROVE Good(d[k], n)
      <4>1. d[k] \in From[k]
        BY <3>1
      <4>2. \/ k \in DOMAIN file /\ d[k] = Restored(file[k])
            \/ k \in Held /\ d[k] = db[k]
            \/ d[k] = <<Foreign>>
        <5>1. From[k] \subseteq (IF k \in DOMAIN file THEN {Restored(file[k])} ELSE {})
                                \cup (IF k \in Held THEN {db[k]} ELSE {}) \cup {<<Foreign>>}
          BY DEF Loaded
        <5> HIDE DEF From
        <5>2. QED
          BY <4>1, <5>1
      <4>3. QED
        BY <1>2, <1>5, <1>6, <4>2
    <3>3. QED
      BY <3>1, <3>2, WholeEach
  <2>3. QED
    BY <2>1, <2>2 DEF AfterLoad
<1>8. \A res \in DoLoad : Sound(res, n)
  <2>1. \A some : \A d \in AfterLoad(some) :
          Sound(Result("LOADED", d), n) /\ Sound(Result("SERVER_ERROR", d), n)
    BY <1>7, ResultSound DEF Codes
  <2>2. QED
    BY <2>1 DEF DoLoad
<1>9. QED
  BY <1>4, <1>8

\* A command that has no data block.
LEMMA DoSound ==
  ASSUME NEW n, Whole(db, n), WholeFile(file, n), NEW q \in Request,
         q.cmd \notin Storing \cup {"quit"}, NEW u \in UnitType, NEW res \in Do(q, u)
  PROVE  Sound(res, n)
<1> DEFINE k == q.key
           v == <<Unit(u.c, u.r, 0)>>
<1>1. q.key \in Key /\ q.cmd \in Cmd
  BY DEF Request
<1>2. Good(v, n)
  BY WholeOne DEF Good
<1>3. \/ res \in DoGet(k) \/ res \in DoArithmetic(k, v) \/ res \in DoDelete(k)
      \/ res \in DoStats \/ res \in DoDump \/ res \in DoLoad
  <2>1. q.cmd \in {"get", "incr", "decr", "delete", "stats", "dump", "load"}
    BY <1>1 DEF Cmd
  <2> HIDE DEF v
  <2>2. Do(q, u) = CASE q.cmd = "get"    -> DoGet(q.key)
                     [] q.cmd = "incr"   -> DoArithmetic(q.key, v)
                     [] q.cmd = "decr"   -> DoArithmetic(q.key, v)
                     [] q.cmd = "delete" -> DoDelete(q.key)
                     [] q.cmd = "stats"  -> DoStats
                     [] q.cmd = "dump"   -> DoDump
                     [] q.cmd = "load"   -> DoLoad
    BY DEF Do, v
  <2>3. QED
    BY <2>1, <2>2
<1> HIDE DEF v
<1>4. k \in Key
  BY <1>1
<1> HIDE DEF k
<1>5. /\ \A x \in Failed(k) : Sound(x, n)
      /\ \A x \in Missed : Sound(x, n)
  BY <1>2, <1>4, SetSound
<1>6. Whole(Without(k), n) /\ \A d \in Room : Whole(Bind(d, k, v), n)
  BY <1>2, <1>4, BindWhole
<1>7. /\ Sound(Result("SERVER_ERROR", db), n) /\ Sound(Result("NUMBER", Without(k)), n)
      /\ \A d \in Room : Sound(Result("NUMBER", Bind(d, k, v)), n)
      /\ Sound(Result("DELETED", Without(k)), n) /\ Sound(Result("END", db), n)
      /\ Sound(Result("VALUE", db), n) /\ Sound(Result("keep", db), n)
  BY <1>6, ResultSound DEF Codes
<1>8. \A x \in DoGet(k) : Sound(x, n)
  <2>1. k \in Held => Sound([Result("VALUE", db) EXCEPT !.out = db[k]], n)
    BY <1>7, WholeEach DEF Sound, Result, Held, Good
  <2>2. QED
    BY <1>7, <2>1 DEF DoGet
<1>9. \A x \in DoStats : Sound(x, n)
  <2>1. Statistics \in Value
    BY WholeOne DEF Statistics
  <2>2. Sound([Result("keep", db) EXCEPT !.out = Statistics], n)
    BY <1>7, <2>1 DEF Sound, Result
  <2>3. QED
    BY <1>7, <2>2 DEF DoStats
<1>10. \A x \in DoArithmetic(k, v) : Sound(x, n)
  BY <1>5, <1>7 DEF DoArithmetic
<1>11. \A x \in DoDelete(k) : Sound(x, n)
  BY <1>5, <1>7 DEF DoDelete
<1>12. QED
  BY <1>3, <1>8, <1>9, <1>10, <1>11, DumpSound

-------------------------------------------------------------------------------
(***************************************************************************)
(* Places in a sequence.                                                   *)
(***************************************************************************)
\* A set of places has a first one.
LEMMA MinIn ==
  ASSUME NEW n \in Nat, NEW I \in SUBSET (1 .. n), I # {}
  PROVE  Min(I) \in I /\ \A y \in I : Min(I) <= y
<1> DEFINE R == OpToRel(<, Nat)
<1>1. IsWellFoundedOn(R, Nat) 
  BY NatLessThanWellFounded
<1>2. I \subseteq Nat
  OBVIOUS
<1>5. \A x, y \in Nat : <<y, x>> \in R <=> y < x
  BY DEF OpToRel
<1> HIDE DEF R
<1>3. PICK x \in I : \A y \in I : ~(<<y, x>> \in R)
  BY <1>1, <1>2, WFMin
<1>4. ASSUME NEW y \in I PROVE x <= y
  <2>1. x \in Nat /\ y \in Nat
    BY <1>2
  <2>2. ~(y < x)
    BY <1>3, <1>5, <2>1
  <2>3. QED
    BY <2>1, <2>2
<1>6. QED
  BY <1>4 DEF Min

-------------------------------------------------------------------------------
(***************************************************************************)
(* The handlers.                                                           *)
(***************************************************************************)
\* The invariant, of one connection.
LEMMA Here ==
  ASSUME NetInv, NEW c \in Conn
  PROVE  /\ Types /\ Whole(db, ran) /\ WholeFile(file, ran)
         /\ script[c] \in RequestSeq /\ sock[c] \in Socket /\ conn[c] \in Connection
         /\ ran[c] \in Seq(Entry) /\ Increasing(ran[c]) /\ Rests(c, conn[c], current)
         /\ pc # "exited" => Link(c, script[c], sock[c], conn[c], ran[c])
  BY DEF NetInv, Types, Whole, WholeFile

\* What is stored stays made of whole blocks.
LEMMA StaysWhole ==
  ASSUME script' = script, Whole(db', ran'), WholeFile(file', ran')
  PROVE  db' \in Store /\ file' \in Files /\ Blocks(db, ran)' /\ FileBlocks(file, ran)'
<1>1. \A u : Succ(u) = Succ(u)'
  BY DEF Succ
<1>2. \A v, p, e : InBlock(v, p, e) <=> InBlock(v, p, e)'
  BY <1>1 DEF InBlock
<1>3. \A v : WholeBlocks(v, ran') <=> WholeBlocks(v, ran)'
  BY <1>2 DEF WholeBlocks
<1>4. QED
  BY <1>3 DEF Whole, Blocks, WholeFile, FileBlocks

\* What is whole stays so when more is executed.
LEMMA RanGrows ==
  ASSUME Types, NEW c \in Conn, NEW e \in Entry, NEW m,
         m = [ran EXCEPT ![c] = Append(ran[c], e)]
  PROVE  /\ e \in Range(m[c])
         /\ \A d : Whole(d, ran) => Whole(d, m)
         /\ \A f : WholeFile(f, ran) => WholeFile(f, m)
<1> DEFINE n == ran[c]
           l == Append(n, e)
<1>1. n \in Seq(Entry) /\ m[c] = l /\ \A x \in Conn \ {c} : m[x] = ran[x]
  BY DEF Types
<1> HIDE DEF n
<1>2. /\ l \in Seq(Entry) /\ Len(l) = Len(n) + 1 /\ l[Len(n) + 1] = e
      /\ \A j \in 1 .. Len(n) : l[j] = n[j]
  BY <1>1, AppendProperties
<1>3. Len(n) \in Nat /\ DOMAIN n = 1 .. Len(n) /\ DOMAIN l = 1 .. Len(l)
  BY <1>1, <1>2, LenProperties
<1> HIDE DEF l
<1>4. Len(n) + 1 \in DOMAIN l /\ \A j \in DOMAIN n : j \in DOMAIN l /\ l[j] = n[j]
  BY <1>2, <1>3
<1>5. e \in Range(l) /\ Range(n) \subseteq Range(l)
  BY <1>2, <1>4 DEF Range
<1>6. \A x \in Conn : Range(ran[x]) \subseteq Range(m[x])
  BY <1>1, <1>5 DEF n
<1>7. \A v : WholeBlocks(v, ran) => WholeBlocks(v, m)
  BY <1>6, WholeGrows
<1>8. QED
  BY <1>1, <1>5, <1>7 DEF Whole, WholeFile, Blocks, FileBlocks

\* A handler moves its connection.
LEMMA Moves ==
  ASSUME NetInv, pc = "loop", NEW c \in Conn, current = c,
         NEW z \in Socket, NEW o \in Connection, NEW n \in Seq(Entry),
         script' = script, sock' = [sock EXCEPT ![c] = z], conn' = [conn EXCEPT ![c] = o],
         ran' = [ran EXCEPT ![c] = n], Whole(db', ran'), WholeFile(file', ran'),
         UNCHANGED loopVars,
         current' \in {c, NoConn}, Increasing(n), Rests(c, o, current'),
         Link(c, script[c], z, o, n)
  PROVE  NetInv'
<1>1. db' \in Store /\ file' \in Files /\ Blocks(db, ran)' /\ FileBlocks(file, ran)'
  BY StaysWhole
<1>2. /\ current' \in Conn \cup {Listener, NoConn}
      /\ current' = current \/ current' = c \/ current' \notin Conn
  BY ConnAssumption
<1>3. batch' \subseteq Conn \cup {Listener} /\ pc' = pc /\ stop' \in BOOLEAN
  BY DEF loopVars, NetInv, Types
<1>4. QED
  BY <1>1, <1>2, <1>3, OneMoves

\* And executes nothing.
LEMMA MovesOnly ==
  ASSUME NetInv, pc = "loop", NEW c \in Conn, current = c,
         NEW z \in Socket, NEW o \in Connection,
         script' = script, sock' = [sock EXCEPT ![c] = z], conn' = [conn EXCEPT ![c] = o],
         ran' = ran, db' = db, file' = file, UNCHANGED loopVars,
         current' \in {c, NoConn}, Rests(c, o, current'),
         Link(c, script[c], z, o, ran[c])
  PROVE  NetInv'
<1>1. /\ Types /\ Whole(db, ran) /\ WholeFile(file, ran)
      /\ ran[c] \in Seq(Entry) /\ Increasing(ran[c])
  BY Here
<1>2. ran' = [ran EXCEPT ![c] = ran[c]] /\ Whole(db', ran') /\ WholeFile(file', ran')
  BY <1>1 DEF Types
<1>3. QED
  BY <1>1, <1>2, Moves

\* What recv takes, and what stays in the socket.
LEMMA Receiving ==
  ASSUME NetInv, pc = "loop", NEW c \in Conn, NEW h \in Value, NEW room \in Nat,
         Len(h) <= room, Receive(c, h, room)
  PROVE  \E z \in Socket, x \in Value :
           /\ sock' = [sock EXCEPT ![c] = z] /\ (z.err => z.in = <<>>)
           /\ z.begun = sock[c].begun /\ z.err = sock[c].err
           /\ Taken(c, h, room) = h \o x
           /\ h \o x \in Value /\ Len(h \o x) <= room /\ Len(h \o x) = Len(h) + Len(x)
           /\ Coming(z) \in Value /\ x \o Coming(z) = Coming(sock[c])
           /\ (h \o x) \o Coming(z) = h \o Coming(sock[c])
<1> DEFINE q == sock[c]
           m == room - Len(h)
           x == Prefix(q.in, m)
           w == SubSeq(q.in, m + 1, Len(q.in))
           z == [q EXCEPT !.in = w]
<1>1. q \in Socket /\ (q.err => q.in = <<>>) /\ sock \in [Conn -> Socket]
  BY Here DEF Link, NetInv, Types
<1>2. Taken(c, h, room) = h \o x
  BY DEF Taken
<1>3. sock' = [sock EXCEPT ![c] = z]
  BY <1>1 DEF Receive
<1>0. Taking(q, h, room, x, w, z)
  BY DEF Taking
<1> HIDE DEF q, m, x, w, z
<1>4. /\ x \in Value /\ h \o x \in Value /\ Len(h \o x) <= room
      /\ w \in Value /\ z \in Socket /\ (z.err => z.in = <<>>)
      /\ Coming(z) \in Value /\ z.begun = q.begun /\ z.err = q.err
      /\ x \o Coming(z) = Coming(q)
      /\ (h \o x) \o Coming(z) = h \o Coming(q)
      /\ Len(h \o x) < room => x = q.in /\ w = <<>>
      /\ Len(h \o x) = Len(h) + Len(x) /\ Len(x) <= Len(q.in)
  BY <1>0, <1>1, Receives, Zenon
<1>5. QED
  BY <1>2, <1>3, <1>4 DEF q

\* An answer that is printed, over the one before it.
LEMMA Printing ==
  ASSUME NEW o \in Connection, NEW r \in Nat, NEW res, res.rc \in Codes, res.out \in Value,
         NEW p \in Prepared(Printed(o, r, res))
  PROVE  /\ p \in Connection /\ p.header = <<>> /\ p.body = o.body /\ p.bodySize = o.bodySize
         /\ p.state \in {"Write", "Close"}
<1> DEFINE b == Printed(o, r, res)
<1>1. <<>> \in Value
  BY ValueJoin
<1>2. b \in Connection /\ b.header = <<>> /\ b.body = o.body /\ b.bodySize = o.bodySize
  BY <1>1 DEF Printed, Connection
<1> HIDE DEF b
<1>3. p = [b EXCEPT !.state = "Write", !.want = "out"] \/ p = [b EXCEPT !.state = "Close"]
  BY DEF Prepared, b
<1>4. CASE p = [b EXCEPT !.state = "Write", !.want = "out"]
  BY <1>2, <1>4 DEF Connection, States
<1>5. CASE p = [b EXCEPT !.state = "Close"]
  BY <1>2, <1>5 DEF Connection, States
<1>6. QED
  BY <1>3, <1>4, <1>5

\* A connection whose answer is printed has nothing more in its buffers.
LEMMA AnswerLinks ==
  ASSUME NEW c, NEW k \in RequestSeq, NEW z \in Socket, NEW p \in Connection, NEW n,
         p.header = <<>>, p.body = <<>>, p.state \in {"Write", "Close"},
         z.begun \in 0 .. Len(k), z.err => z.in = <<>>,
         \A j \in DOMAIN n : n[j].last.r <= z.begun, Continues(c, k, z, n, <<>>)
  PROVE  Link(c, k, z, p, n) /\ Rests(c, p, c)
<1>1. Len(<<>>) = 0
  BY ValueJoin
<1>2. HeaderSize \in Nat /\ p.bodySize \in Nat
  BY ConnAssumption, ConnectionType
<1>3. Between(c, k, z, p, n)
  BY <1>1, <1>2 DEF Between
<1>4. QED
  BY <1>1, <1>2, <1>3 DEF Link, Rests

\* A connection that is given up is read no more.
LEMMA CloseLinks ==
  ASSUME NEW c, NEW k, NEW z, NEW p \in Connection, NEW n, p.state = "Close",
         Len(p.header) <= HeaderSize, Len(p.body) <= p.bodySize,
         z.begun \in 0 .. Len(k), z.err => z.in = <<>>,
         \A j \in DOMAIN n : n[j].last.r <= z.begun
  PROVE  Link(c, k, z, p, n) /\ Rests(c, p, c)
  BY DEF Link, Rests

\* What onRead finds: g is what the buffer holds now, z what the socket is then.
Found(c, z, g) ==
  /\ sock' = [sock EXCEPT ![c] = z] /\ z.begun = sock[c].begun /\ z.begun \in 0 .. Len(script[c])
  /\ z.err => z.in = <<>>
  /\ g \in Value /\ Len(g) <= HeaderSize /\ conn[c].body = <<>>
  /\ \A j \in DOMAIN ran[c] : ran[c][j].last.r <= z.begun
  /\ Continues(c, script[c], z, ran[c], g)

\* What onRead finds is a stretch of the stream that continues the buffer.
LEMMA Reading ==
  ASSUME NetInv, pc = "loop", NEW c \in Conn, In(c, "Read"), Receive(c, conn[c].header, HeaderSize)
  PROVE  \E z \in Socket : Found(c, z, Header(c))
<1> DEFINE h == conn[c].header
           q == sock[c]
<1>1. Link(c, script[c], q, conn[c], ran[c]) /\ conn[c].state = "Read"
  BY Here DEF In
<1>2. Between(c, script[c], q, conn[c], ran[c])
  BY <1>1 DEF Link
<1>3. /\ h \in Value /\ Len(h) <= HeaderSize /\ HeaderSize \in Nat
      /\ Continues(c, script[c], q, ran[c], h)
  BY <1>2, Here, ConnectionType, ConnAssumption DEF Between
<1>4. Receive(c, h, HeaderSize)
  OBVIOUS
<1>5. Header(c) = Taken(c, h, HeaderSize)
  BY DEF Header
<1>6. /\ q.begun \in 0 .. Len(script[c]) /\ conn[c].body = <<>>
      /\ \A j \in DOMAIN ran[c] : ran[c][j].last.r <= q.begun
  BY <1>1, <1>2 DEF Link, Between
<1> HIDE DEF h
<1>7. PICK z \in Socket, x \in Value :
           /\ sock' = [sock EXCEPT ![c] = z] /\ (z.err => z.in = <<>>)
           /\ z.begun = sock[c].begun /\ z.err = sock[c].err
           /\ Taken(c, h, HeaderSize) = h \o x
           /\ h \o x \in Value /\ Len(h \o x) <= HeaderSize /\ Len(h \o x) = Len(h) + Len(x)
           /\ Coming(z) \in Value /\ x \o Coming(z) = Coming(sock[c])
           /\ (h \o x) \o Coming(z) = h \o Coming(sock[c])
  BY <1>3, <1>4, Receiving
<1>8. Continues(c, script[c], z, ran[c], h \o x)
  BY <1>3, <1>7 DEF Continues
<1>9. Found(c, z, h \o x)
  BY <1>6, <1>7, <1>8 DEF Found
<1>10. QED
  BY <1>5, <1>7, <1>9

\* What is left when the buffer is emptied.
LEMMA FoundRest ==
  ASSUME NetInv, NEW c \in Conn, NEW z \in Socket, NEW g, Found(c, z, g)
  PROVE  Continues(c, script[c], z, ran[c], <<>>)
<1> DEFINE w == Coming(z)
           k == script[c]
           b == z.begun
           n == ran[c]
<1>1. /\ w \in Value /\ g \in Value /\ Stretch(c, k, b, g \o w) /\ After(n, g \o w)
      /\ ~z.err => Reaches(k, b, g \o w)
  BY ComingType DEF Found, Continues
<1> HIDE DEF w, k, b, n
<1>2. /\ Stretch(c, k, b, w) /\ After(n, w) /\ (~z.err => Reaches(k, b, w))
  BY <1>1, StretchSplit
<1>3. <<>> \o w = w
  BY <1>1, ValueJoin
<1>4. QED
  BY <1>2, <1>3 DEF w, k, b, n, Continues

\* The connection is given up.
LEMMA ReadHangupStep ==
  ASSUME NetInv, pc = "loop", NEW c \in Conn, ReadHangup(c), UNCHANGED loopVars
  PROVE  NetInv'
<1>1. PICK z \in Socket : Found(c, z, Header(c))
  BY Reading DEF ReadHangup
<1> DEFINE o == [conn[c] EXCEPT !.header = Header(c), !.state = "Close"]
<1>2. conn[c] \in Connection /\ Rests(c, conn[c], current)
  BY Here
<1>3. o \in Connection /\ o.state = "Close" /\ o.header = Header(c) /\ o.body = conn[c].body
      /\ o.bodySize = conn[c].bodySize
  BY <1>1, <1>2 DEF Found, Connection, States
<1>4. Link(c, script[c], z, o, ran[c]) /\ Rests(c, o, c)
  <2>1. Len(o.header) <= HeaderSize /\ Len(o.body) <= o.bodySize
    BY <1>1, <1>2, <1>3 DEF Found, Rests
  <2> HIDE DEF o
  <2>2. QED
    BY <1>1, <1>3, <2>1, CloseLinks DEF Found
<1>5. /\ current = c /\ script' = script /\ sock' = [sock EXCEPT ![c] = z]
      /\ conn' = [conn EXCEPT ![c] = o] /\ ran' = ran
      /\ db' = db /\ file' = file /\ current' = c
  BY <1>1 DEF ReadHangup, In, Become, DmGoOn, Found
<1> HIDE DEF o
<1>6. QED
  BY <1>3, <1>4, <1>5, MovesOnly

\* No whole line yet: the buffer is kept; or there cannot be one: it is answered.
LEMMA ReadNoLineStep ==
  ASSUME NetInv, pc = "loop", NEW c \in Conn, ReadNoLine(c), UNCHANGED loopVars
  PROVE  NetInv'
<1> DEFINE g == Header(c)
<1>1. PICK z \in Socket : Found(c, z, g)
  BY Reading DEF ReadNoLine, Reads
<1>2. /\ conn[c] \in Connection /\ Rests(c, conn[c], current) /\ script[c] \in RequestSeq
  BY Here
<1>3. /\ current = c /\ script' = script /\ sock' = [sock EXCEPT ![c] = z]
      /\ ran' = ran /\ db' = db /\ file' = file /\ conn[c].state = "Read"
  BY <1>1 DEF ReadNoLine, Reads, In, Found
<1>4. CASE Len(g) = HeaderSize
  <2>1. HeaderSize \in Nat \ {0} /\ g \in Value
    BY <1>1, ConnAssumption DEF Found
  <2>2. Last(g).r \in Nat
    <3>1. Len(g) \in 1 .. Len(g)
      BY <1>4, <2>1
    <3>2. g[Len(g)] \in UnitType
      BY <2>1, <3>1, ElementOfSeq DEF Value
    <3>3. QED
      BY <3>2 DEF Last, UnitType
  <2> DEFINE r == Last(g).r
             res == Result("ERROR too long", db)
  <2>3. PICK o \in Prepared(Printed(conn[c], r, res)) :
          conn' = [conn EXCEPT ![c] = o] /\ current' = current
    BY <1>4 DEF ReadNoLine, Become, DmGoOn
  <2>4. res.rc \in Codes /\ res.out \in Value
    BY ValueJoin DEF Result, Codes
  <2>5. r \in Nat
    BY <2>2
  <2> HIDE DEF r, res
  <2>6. /\ o \in Connection /\ o.header = <<>> /\ o.body = conn[c].body
        /\ o.bodySize = conn[c].bodySize /\ o.state \in {"Write", "Close"}
    BY <1>2, <2>3, <2>4, <2>5, Printing
  <2>7. Link(c, script[c], z, o, ran[c]) /\ Rests(c, o, c)
    <3>1. /\ conn[c].body = <<>> /\ z.begun \in 0 .. Len(script[c]) /\ (z.err => z.in = <<>>)
          /\ \A j \in DOMAIN ran[c] : ran[c][j].last.r <= z.begun
      BY <1>1 DEF Found
    <3>2. Continues(c, script[c], z, ran[c], <<>>)
      BY <1>1, FoundRest
    <3>3. script[c] \in RequestSeq
      BY Here
    <3>4. QED
      BY <2>6, <3>1, <3>2, <3>3, AnswerLinks
  <2>8. current' \in {c, NoConn} /\ current' = c
    BY <1>3, <2>3
  <2>9. QED
    BY <1>3, <2>3, <2>6, <2>7, <2>8, MovesOnly
<1>5. CASE Len(g) # HeaderSize
  <2> DEFINE o == [conn[c] EXCEPT !.header = g]
  <2>1. conn' = [conn EXCEPT ![c] = o] /\ current' = NoConn
    BY <1>5 DEF ReadNoLine, Become, DmStop
  <2>2. /\ o \in Connection /\ o.header = g /\ o.state = "Read" /\ o.body = <<>>
        /\ o.want = conn[c].want /\ o.resBody = conn[c].resBody /\ o.bodySize = conn[c].bodySize
    BY <1>1, <1>2, <1>3 DEF Found, Connection
  <2> HIDE DEF o, g
  <2>3. Between(c, script[c], z, o, ran[c])
    BY <1>1, <2>2 DEF Between, Found
  <2>4. Link(c, script[c], z, o, ran[c])
    BY <1>1, <2>2, <2>3 DEF Link, Found
  <2>5. Rests(c, o, current')
    BY <1>1, <1>2, <1>3, <2>2 DEF Rests, Found
  <2>6. current' \in {c, NoConn}
    BY <2>1
  <2>7. QED
    BY <1>3, <2>1, <2>2, <2>4, <2>5, <2>6, MovesOnly
<1>6. QED
  BY <1>4, <1>5

\* A line is found: it ends with u, and extra follows it in the buffer.
LEMMA LineFound ==
  ASSUME NetInv, NEW c \in Conn, NEW z \in Socket, Found(c, z, Header(c)), LineEnd(c) > 0
  PROVE  LET u == Ending(c)
             extra == SubSeq(Header(c), LineEnd(c) + 1, Len(Header(c)))
         IN  /\ u \in UnitType /\ u.r \in Nat /\ u.r <= z.begun /\ extra \in Value
             /\ Continues(c, script[c], z, ran[c], <<u>> \o extra)
             /\ \A j \in DOMAIN ran[c] : Before(ran[c][j].last, u)
             /\ Says(c) \subseteq Request
<1> DEFINE g == Header(c)
           e == LineEnd(c)
           k == script[c]
           n == ran[c]
           b == z.begun
           w == Coming(z)
           line == SubSeq(g, 1, e)
           extra == SubSeq(g, e + 1, Len(g))
           I == {i \in 1 .. Len(g) : Newline(g[i])}
           u == g[e]
<1>1. g \in Value /\ g \in Seq(UnitType) /\ Len(g) \in Nat /\ DOMAIN g = 1 .. Len(g)
  BY ValueJoin DEF Found, Value
<1>2. e = IF I # {} THEN Min(I) ELSE 0
  BY DEF LineEnd, SelectInSeq
<1>3. e \in 1 .. Len(g)
  <2>1. I \in SUBSET (1 .. Len(g))
    OBVIOUS
  <2>2. I # {} /\ e = Min(I)
    BY <1>2
  <2> HIDE DEF I, g, e
  <2>3. Min(I) \in I
    BY <1>1, <2>1, <2>2, MinIn
  <2>4. QED
    BY <2>1, <2>2, <2>3
<1>4. /\ w \in Value /\ b \in 0 .. Len(k) /\ k \in RequestSeq
      /\ Stretch(c, k, b, g \o w) /\ After(n, g \o w) /\ (~z.err => Reaches(k, b, g \o w))
  BY Here, ComingType DEF Found, Continues
<1>5. /\ line = SubSeq(g, 1, e) /\ extra = SubSeq(g, e + 1, Len(g)) /\ u = g[e]
      /\ Says(c) = IF line = Line(c, Head(line).r) THEN {k[Head(line).r]} ELSE Stray
  BY DEF Says
<1>6. SUFFICES /\ u \in UnitType /\ u.r \in Nat /\ u.r <= b /\ extra \in Value
               /\ Continues(c, k, z, n, <<u>> \o extra)
               /\ \A j \in DOMAIN n : Before(n[j].last, u)
               /\ Says(c) \subseteq Request
  BY DEF Ending
<1> HIDE DEF g, e, k, n, b, w, line, extra, I, u
<1>7. u \in UnitType /\ u.r \in Nat /\ e \in Nat /\ <<u>> \in Value
  <2>1. u \in UnitType
    BY <1>1, <1>3, <1>5, ElementOfSeq
  <2>2. QED
    BY <1>3, <2>1 DEF UnitType, Value
<1>8. /\ line \in Value /\ line # <<>> /\ extra \in Value /\ line \o extra = g
      /\ Head(line) = g[1]
  BY <1>1, <1>3, <1>5, TakeLine DEF Value
<1>9. 1 \in DOMAIN g /\ e \in DOMAIN g
  BY <1>1, <1>3
<1>10. ASSUME NEW p \in DOMAIN g PROVE g[p].r \in 1 .. b /\ \A j \in DOMAIN n : Before(n[j].last, g[p])
  <2>1. Stretch(c, k, b, g) /\ After(n, g)
    BY <1>1, <1>4, StretchSplit
  <2>2. QED
    BY <2>1 DEF Stretch, After
<1>11. Says(c) \subseteq Request
  <2>1. Head(line).r \in 1 .. Len(k)
    <3>1. Len(k) \in Nat /\ b \in 0 .. Len(k)
      BY <1>4, LenProperties DEF RequestSeq
    <3>2. g[1].r \in 1 .. b
      BY <1>9, <1>10
    <3>3. Head(line).r \in 1 .. b
      BY <1>8, <3>2
    <3>4. QED
      BY <3>1, <3>3
  <2>2. k[Head(line).r] \in Request
    BY <1>4, <2>1, TotalType
  <2>3. QED
    BY <1>5, <2>2, ConnAssumption
\* The line without its end, which u is, is dropped.
<1>12. Continues(c, k, z, n, <<u>> \o extra)
  <2> DEFINE y == e - 1
             a == SubSeq(g, 1, y)
             t == g \o w
             s == <<u>> \o extra
  <2>1. y \in 0 .. Len(g) /\ y \in Nat /\ y + 1 = e
    BY <1>1, <1>3
  <2>2. a \in Value /\ g = a \o s /\ s \in Value
    <3>1. /\ Prefix(g, y) \in Seq(UnitType) /\ SubSeq(g, y + 1, Len(g)) \in Seq(UnitType)
          /\ Prefix(g, y) \o SubSeq(g, y + 1, Len(g)) = g
      BY <1>1, <2>1, TakeDrop
    <3>2. Prefix(g, y) = a
      <4>1. y < Len(g)
        BY <1>1, <1>3
      <4>2. QED
        BY <4>1 DEF Prefix
    <3>3. SubSeq(g, y + 1, Len(g)) = s
      <4> DEFINE v == SubSeq(g, e, Len(g))
                 L == Len(g)
      <4>1. e \in Nat \ {0} /\ L \in 0 .. L /\ L \in Nat
        BY <1>1, <1>3
      <4>2. v = SubSeq(g, e, L) /\ extra = SubSeq(g, e + 1, L)
        BY <1>5
      <4>3. e + 1 \in Nat \ {0} /\ L = Len(g)
        BY <4>1
      <4> HIDE DEF v, L
      <4>4. /\ v \in Value /\ Len(v) = IF e <= L THEN L - e + 1 ELSE 0
            /\ \A p \in 1 .. L - e + 1 : v[p] = g[e + p - 1]
        BY <1>1, <4>1, <4>2, <4>3, Part DEF Value
      <4>5. /\ Len(extra) = IF e + 1 <= L THEN L - (e + 1) + 1 ELSE 0
            /\ \A p \in 1 .. L - (e + 1) + 1 : extra[p] = g[(e + 1) + p - 1]
        <5> DEFINE x == e + 1
        <5>1. x \in Nat \ {0} /\ extra = SubSeq(g, x, L)
          BY <4>2, <4>3
        <5> HIDE DEF x
        <5>2. /\ Len(extra) = IF x <= L THEN L - x + 1 ELSE 0
              /\ \A p \in 1 .. L - x + 1 : extra[p] = g[x + p - 1]
          BY <1>1, <4>1, <4>3, <5>1, Part
        <5>3. QED
          BY <5>2 DEF x
      <4>6. /\ s \in Value /\ Len(s) = Len(extra) + 1 /\ s[1] = u
            /\ \A p \in DOMAIN extra : s[p + 1] = extra[p]
        BY <1>7, <1>8, InFront
      <4>7. DOMAIN extra = 1 .. Len(extra)
        BY <1>8, ValueJoin
      <4> HIDE DEF s
      <4>8. e <= L /\ Len(extra) = L - e /\ Len(v) = L - e + 1 /\ Len(s) = Len(v)
        BY <1>3, <4>1, <4>3, <4>4, <4>5, <4>6
      <4>9. ASSUME NEW p \in 1 .. Len(v) PROVE v[p] = s[p]
        <5>1. v[p] = g[e + p - 1] /\ e \in Int /\ L \in Int
          BY <4>1, <4>4, <4>8
        <5>2. CASE p = 1
          <6>1. e + p - 1 = e
            BY <5>1, <5>2
          <6>2. QED
            BY <1>5, <4>6, <5>1, <5>2, <6>1
        <5>3. CASE p # 1
          <6> DEFINE m == p - 1
          <6>1. m \in 1 .. L - e /\ m + 1 = p /\ (e + 1) + m - 1 = e + p - 1 /\ L - (e + 1) + 1 = L - e
            BY <4>8, <5>1, <5>3
          <6> HIDE DEF m
          <6>2. m \in DOMAIN extra /\ m \in 1 .. L - (e + 1) + 1
            BY <4>7, <4>8, <6>1
          <6>3. s[m + 1] = extra[m] /\ extra[m] = g[(e + 1) + m - 1]
            BY <4>5, <4>6, <6>2
          <6>4. QED
            BY <5>1, <6>1, <6>3
        <5>4. QED
          BY <5>2, <5>3
      <4>10. v = s
        BY <4>4, <4>6, <4>8, <4>9, SeqEqual DEF Value
      <4>11. QED
        BY <2>1, <4>10 DEF v
    <3>4. QED
      BY <3>1, <3>2, <3>3 DEF Value
  <2>3. t = a \o (s \o w)
    <3>1. t = g \o w
      OBVIOUS
    <3> HIDE DEF t, s, a
    <3>2. QED
      BY <1>4, <2>2, <3>1, Regroup
  <2>4. s \o w \in Value
    BY <1>4, <2>2, ValueJoin
  <2>5. /\ Stretch(c, k, b, a \o (s \o w)) /\ After(n, a \o (s \o w))
        /\ ~z.err => Reaches(k, b, a \o (s \o w))
    BY <1>4, <2>3
  <2> DEFINE d == s \o w
  <2>6. d \in Value /\ Stretch(c, k, b, a \o d) /\ After(n, a \o d) /\ (~z.err => Reaches(k, b, a \o d))
    BY <2>4, <2>5
  <2> HIDE DEF d, a, s, t, y
  <2>7. Stretch(c, k, b, d) /\ After(n, d) /\ (~z.err => Reaches(k, b, d))
    <3>1. /\ Stretch(c, k, b, d) /\ (After(n, a \o d) => After(n, a) /\ After(n, d))
          /\ Reaches(k, b, a \o d) => Reaches(k, b, d)
      BY <2>2, <2>6, StretchSplit
    <3>2. QED
      BY <2>6, <3>1
  <2>8. QED
    BY <2>7 DEF Continues, d, s, w, b
<1>13. u.r <= b
  <2>1. u.r \in 1 .. b /\ b \in Int
    BY <1>4, <1>5, <1>9, <1>10
  <2>2. QED
    BY <2>1
<1>14. \A j \in DOMAIN n : Before(n[j].last, u)
  BY <1>5, <1>9, <1>10
<1>15. QED
  BY <1>7, <1>8, <1>11, <1>12, <1>13, <1>14

\* A command with a data block: what is in the buffer is the start of the block.
LEMMA ReadStoringStep ==
  ASSUME NetInv, pc = "loop", NEW c \in Conn, ReadStoring(c), UNCHANGED loopVars
  PROVE  NetInv'
<1> DEFINE k == script[c]
           n == ran[c]
           u == Ending(c)
           x == SubSeq(Header(c), LineEnd(c) + 1, Len(Header(c)))
<1>1. PICK z \in Socket : Found(c, z, Header(c))
  BY Reading DEF ReadStoring, Reads
<1>2. conn[c] \in Connection /\ n \in Seq(Entry) /\ Rests(c, conn[c], current)
  BY Here
<1>3. LineEnd(c) > 0 /\ conn[c].state = "Read"
  BY DEF ReadStoring, Reads, In
<1>4. /\ u \in UnitType /\ x \in Value /\ Continues(c, k, z, n, <<u>> \o x)
      /\ Says(c) \subseteq Request
  BY <1>1, <1>3, LineFound
<1>5. PICK q \in Says(c) :
        LET block == Carried(c, q.need)
        IN  /\ q.cmd \in Storing
            /\ conn' = [conn EXCEPT ![c] =
                 [conn[c] EXCEPT !.header = Header(c), !.req = q, !.line = Ending(c),
                                 !.bodySize = q.need, !.body = block, !.state = "NRead"]]
            /\ current' \in {c, NoConn}
  BY DEF ReadStoring, Become, DmGoOn, DmStop, Reads, In
<1> DEFINE need == q.need
           block == Carried(c, need)
           o == [conn[c] EXCEPT !.header = Header(c), !.req = q, !.line = u,
                                !.bodySize = need, !.body = block, !.state = "NRead"]
<1>6. /\ current = c /\ script' = script /\ sock' = [sock EXCEPT ![c] = z]
      /\ conn' = [conn EXCEPT ![c] = o] /\ ran' = ran
      /\ db' = db /\ file' = file /\ current' \in {c, NoConn}
  BY <1>1, <1>5 DEF ReadStoring, Reads, In, Found
<1>7. /\ Header(c) \in Value /\ Len(Header(c)) <= HeaderSize
      /\ conn[c].body = <<>> /\ z.begun \in 0 .. Len(k) /\ (z.err => z.in = <<>>)
      /\ \A j \in DOMAIN n : n[j].last.r <= z.begun
  BY <1>1 DEF Found
<1>8. q \in Request /\ q.cmd \in Storing /\ need \in Nat \ {0} /\ need = q.need
  BY <1>4, <1>5 DEF Request
<1>9. block = Prefix(x, need)
  <2>1. block = IF x = <<>> THEN <<>> ELSE Prefix(x, need)
    BY <1>7 DEF Carried
  <2> HIDE DEF x, block, need
  <2>2. x = <<>> => Prefix(x, need) = <<>>
    <3> SUFFICES ASSUME x = <<>> PROVE Prefix(x, need) = <<>>
      OBVIOUS
    <3>1. Len(x) = 0 /\ x \in Seq(UnitType)
      BY <1>4, ValueJoin DEF Value
    <3> DEFINE a == Prefix(x, need)
    <3>2. a \in Seq(UnitType) /\ Len(a) = IF need < Len(x) THEN need ELSE Len(x)
      <4>1. need \in Nat /\ x \in Seq(UnitType)
        BY <1>8, <3>1
      <4> HIDE DEF a
      <4>2. /\ Prefix(x, need) \in Seq(UnitType)
            /\ Len(Prefix(x, need)) = IF need < Len(x) THEN need ELSE Len(x)
        BY <4>1, TakeDrop
      <4>3. QED
        BY <4>2 DEF a
    <3> HIDE DEF a
    <3>3. Len(a) = 0
      BY <1>8, <3>1, <3>2
    <3>4. QED
      BY <3>2, <3>3, ValueJoin DEF Value, a
  <2>3. QED
    BY <2>1, <2>2
<1> HIDE DEF k, n, x, u, need, block
<1>10. Blocked(c, k, z, n, u, block, need) /\ block \in Value
  BY <1>2, <1>4, <1>8, <1>9, BlockStarts
<1>11. /\ o.header = Header(c) /\ o.req = q /\ o.line = u /\ o.bodySize = need /\ o.body = block
       /\ o.state = "NRead" /\ o.want = conn[c].want /\ o.resBody = conn[c].resBody
  BY <1>2 DEF Connection
<1>12. o \in Connection
  BY <1>2, <1>4, <1>7, <1>8, <1>10 DEF Connection, States
<1> HIDE DEF o
<1>13. Within(c, k, z, o, n)
  BY <1>7, <1>8, <1>10, <1>11 DEF Within
<1>14. Link(c, k, z, o, n)
  BY <1>7, <1>11, <1>13 DEF Link
<1>15. Len(block) <= need
  BY <1>10 DEF Blocked
<1>16. Rests(c, o, current')
  BY <1>2, <1>3, <1>7, <1>11, <1>15 DEF Rests
<1>17. QED
  <2>1. Link(c, script[c], z, o, ran[c])
    BY <1>14 DEF k, n
  <2>2. QED
    BY <1>6, <1>12, <1>16, <2>1, MovesOnly

\* A command without one, or a line that is none.
LEMMA ReadCommandStep ==
  ASSUME NetInv, pc = "loop", NEW c \in Conn, ReadCommand(c), UNCHANGED loopVars
  PROVE  NetInv'
<1> DEFINE k == script[c]
           n == ran[c]
           u == Ending(c)
           x == SubSeq(Header(c), LineEnd(c) + 1, Len(Header(c)))
           v == [line |-> Ending(c), last |-> Ending(c)]
<1>1. PICK z \in Socket : Found(c, z, Header(c))
  BY Reading DEF ReadCommand, Reads
<1>2. /\ conn[c] \in Connection /\ n \in Seq(Entry) /\ Increasing(n)
      /\ Whole(db, ran) /\ WholeFile(file, ran) /\ Types /\ Rests(c, conn[c], current)
      /\ k \in RequestSeq
  BY Here
<1>3. LineEnd(c) > 0
  BY DEF ReadCommand
<1>4. /\ current = c /\ script' = script /\ sock' = [sock EXCEPT ![c] = z]
      /\ current' = c
  BY <1>1 DEF ReadCommand, Reads, In, DmGoOn, Found
<1>5. /\ Header(c) \in Value /\ Len(Header(c)) <= HeaderSize
      /\ conn[c].body = <<>> /\ z.begun \in 0 .. Len(k) /\ (z.err => z.in = <<>>)
      /\ \A j \in DOMAIN n : n[j].last.r <= z.begun
  BY <1>1 DEF Found
<1>6. /\ u \in UnitType /\ u.r \in Nat /\ u.r <= z.begun /\ x \in Value
      /\ Continues(c, k, z, n, <<u>> \o x)
      /\ \A j \in DOMAIN n : Before(n[j].last, u)
      /\ Says(c) \subseteq Request
  BY <1>1, <1>3, LineFound
<1>7. PICK q \in Says(c) :
       \/ /\ q.cmd = "quit"
          /\ Become(c, [conn[c] EXCEPT !.header = Header(c), !.state = "Close"])
          /\ UNCHANGED <<db, file, ran>>
       \/ /\ q.cmd \notin Storing \cup {"quit"}
          /\ \E res \in Do(q, u) :
               /\ Took(res)
               /\ \E o \in Prepared(Printed(conn[c], u.r, res)) : Become(c, o)
          /\ ran' = [ran EXCEPT ![c] = Append(@, v)]
       \/ /\ \E o \in Prepared(Printed(conn[c], u.r, Result("CLIENT_ERROR", db))) :
               Become(c, o)
          /\ UNCHANGED <<db, file, ran>>
  BY DEF ReadCommand
<1>8. CASE Become(c, [conn[c] EXCEPT !.header = Header(c), !.state = "Close"])
           /\ UNCHANGED <<db, file, ran>>
  <2> DEFINE o == [conn[c] EXCEPT !.header = Header(c), !.state = "Close"]
  <2>1. conn' = [conn EXCEPT ![c] = o] /\ db' = db /\ file' = file /\ ran' = ran
    BY <1>8 DEF Become
  <2>2. o \in Connection /\ o.state = "Close" /\ o.header = Header(c) /\ o.body = conn[c].body
        /\ o.bodySize = conn[c].bodySize
    BY <1>2, <1>5 DEF Connection, States
  <2> HIDE DEF o
  <2>3. Len(o.header) <= HeaderSize /\ Len(o.body) <= o.bodySize
    BY <1>2, <1>5, <2>2 DEF Rests
  <2>4. Link(c, script[c], z, o, ran[c]) /\ Rests(c, o, c)
    BY <1>5, <2>2, <2>3, CloseLinks
  <2>5. QED
    BY <1>4, <2>1, <2>2, <2>4, MovesOnly
<1>9. ASSUME q.cmd \notin Storing \cup {"quit"}, NEW res \in Do(q, u), Took(res),
             \E o \in Prepared(Printed(conn[c], u.r, res)) : Become(c, o),
             ran' = [ran EXCEPT ![c] = Append(@, v)]
      PROVE  NetInv'
  <2>1. PICK o \in Prepared(Printed(conn[c], u.r, res)) : conn' = [conn EXCEPT ![c] = o]
    BY <1>9 DEF Become
  <2>2. v = [line |-> u, last |-> u] /\ v \in Entry
    BY <1>6 DEF Entry
  <2>3. ran' = [ran EXCEPT ![c] = Append(n, v)]
    BY <1>2, <1>9 DEF Types
  <2>4. Sound(res, ran)
    BY <1>2, <1>6, <1>9, DoSound
  <2>5. Whole(db', ran') /\ WholeFile(file', ran')
    <3>1. Whole(res.db, ran) /\ WholeFile(res.file, ran) /\ db' = res.db /\ file' = res.file
      BY <1>9, <2>4 DEF Took, Sound
    <3> DEFINE m == ran'
    <3>2. m = [ran EXCEPT ![c] = Append(ran[c], v)]
      BY <2>3
    <3> HIDE DEF v, m
    <3>3. Whole(res.db, m) /\ WholeFile(res.file, m)
      BY <1>2, <2>2, <3>1, <3>2, RanGrows
    <3>4. QED
      BY <3>1, <3>3 DEF m
  <2>6. /\ o \in Connection /\ o.header = <<>> /\ o.body = <<>> /\ o.state \in {"Write", "Close"}
    <3> HIDE DEF u
    <3>1. QED
      BY <1>2, <1>5, <1>6, <2>1, <2>4, Printing DEF Sound
  <2> DEFINE l == Append(n, v)
  <2>7. /\ l \in Seq(Entry) /\ Increasing(l) /\ \A j \in DOMAIN l : l[j].last.r <= z.begun
    <3>1. z.begun \in Nat
      BY ComingType
    <3>2. l = Append(n, [line |-> u, last |-> u])
      BY <2>2
    <3> HIDE DEF u, n, v, l
    <3>3. /\ l \in Seq(Entry)
          /\ (\A j \in DOMAIN n : n[j].last.r <= z.begun) => \A j \in DOMAIN l : l[j].last.r <= z.begun
          /\ Increasing(n) /\ (\A j \in DOMAIN n : Before(n[j].last, u)) => Increasing(l)
      BY <1>2, <1>6, <3>1, <3>2, NextEntry
    <3>4. QED
      BY <1>2, <1>5, <1>6, <3>3
  <2>8. Continues(c, k, z, l, <<>>)
    <3> DEFINE a == <<u>>
               w == Coming(z)
               t == (a \o x) \o w
    <3>1. a \in Value /\ a # <<>> /\ Last(a) = u /\ w \in Value
      <4>1. a \in Value /\ a # <<>> /\ Len(a) = 1 /\ a[1] = u
        BY <1>6 DEF Value
      <4>2. QED
        BY <4>1, ComingType DEF Last
    <3>2. Stretch(c, k, z.begun, t) /\ After(n, t) /\ (~z.err => Reaches(k, z.begun, t))
      BY <1>6 DEF Continues
    <3>3. v = [line |-> u, last |-> Last(a)]
      BY <2>2, <3>1
    <3> HIDE DEF u, x, k, n, v, a
    <3>4. t = a \o (x \o Coming(z))
      BY <1>6, <3>1, Regroup
    <3> HIDE DEF t
    <3>5. Continues(c, k, z, Append(n, [line |-> u, last |-> Last(a)]), <<>>)
      BY <1>2, <1>6, <3>1, <3>2, <3>4, Executes
    <3>6. QED
      BY <3>3, <3>5
  <2>9. l = Append(n, v) /\ k = script[c]
    OBVIOUS
  <2> HIDE DEF l, n, v, k, u
  <2>10. Link(c, k, z, o, l) /\ Rests(c, o, c)
    BY <1>2, <1>5, <2>6, <2>7, <2>8, AnswerLinks
  <2>11. Link(c, script[c], z, o, l) /\ ran' = [ran EXCEPT ![c] = l]
    BY <2>3, <2>9, <2>10
  <2>12. QED
    BY <1>4, <2>1, <2>5, <2>6, <2>7, <2>10, <2>11, Moves
<1>10. ASSUME \E o \in Prepared(Printed(conn[c], u.r, Result("CLIENT_ERROR", db))) : Become(c, o),
              UNCHANGED <<db, file, ran>>
       PROVE  NetInv'
  <2> DEFINE r == u.r
             res == Result("CLIENT_ERROR", db)
  <2>1. PICK o \in Prepared(Printed(conn[c], r, res)) : conn' = [conn EXCEPT ![c] = o]
    BY <1>10 DEF Become
  <2>2. db' = db /\ file' = file /\ ran' = ran
    BY <1>10
  <2>3. r \in Nat
    BY <1>6
  <2>4. res.rc \in Codes /\ res.out \in Value
    BY ValueJoin DEF Result, Codes
  <2> HIDE DEF r, res
  <2>5. o \in Connection /\ o.header = <<>> /\ o.body = <<>> /\ o.state \in {"Write", "Close"}
    BY <1>2, <1>5, <2>1, <2>3, <2>4, Printing
  <2>6. Continues(c, k, z, n, <<>>)
    BY <1>1, FoundRest
  <2>7. k = script[c] /\ n = ran[c]
    OBVIOUS
  <2> HIDE DEF k, n
  <2>8. Link(c, k, z, o, n) /\ Rests(c, o, c)
    BY <1>2, <1>5, <2>5, <2>6, AnswerLinks
  <2>9. Link(c, script[c], z, o, ran[c])
    BY <2>7, <2>8
  <2>10. QED
    BY <1>4, <2>1, <2>2, <2>5, <2>8, <2>9, MovesOnly
<1>11. QED
  <2> HIDE DEF u, v
  <2>1. QED
    BY <1>7, <1>8, <1>9, <1>10

\* What onNRead finds: g is what the buffer of the block holds now.
FoundBlock(c, z, g) ==
  /\ sock' = [sock EXCEPT ![c] = z] /\ z.begun = sock[c].begun /\ z.begun \in 0 .. Len(script[c])
  /\ z.err => z.in = <<>>
  /\ g \in Value /\ Len(g) <= conn[c].bodySize /\ Len(conn[c].header) <= HeaderSize
  /\ conn[c].req \in Request /\ conn[c].req.cmd \in Storing
  /\ conn[c].bodySize = conn[c].req.need
  /\ \A j \in DOMAIN ran[c] : ran[c][j].last.r <= z.begun
  /\ Blocked(c, script[c], z, ran[c], conn[c].line, g, conn[c].bodySize)

\* What onNRead finds is the next part of the data block.
LEMMA ReadingBlock ==
  ASSUME NetInv, pc = "loop", NEW c \in Conn, In(c, "NRead"),
         Receive(c, conn[c].body, conn[c].bodySize)
  PROVE  \E z \in Socket : FoundBlock(c, z, Block(c))
<1> DEFINE a == conn[c].body
           y == conn[c].bodySize
           q == sock[c]
           k == script[c]
           n == ran[c]
           u == conn[c].line
<1>1. Link(c, k, q, conn[c], n) /\ conn[c].state = "NRead"
  BY Here DEF In
<1>2. Within(c, k, q, conn[c], n)
  BY <1>1 DEF Link
<1>3. /\ conn[c].req \in Request /\ conn[c].req.cmd \in Storing /\ y = conn[c].req.need
      /\ Len(conn[c].header) <= HeaderSize /\ Blocked(c, k, q, n, u, a, y)
  BY <1>2 DEF Within
<1>4. a \in Value /\ u \in UnitType /\ q \in Socket /\ n \in Seq(Entry)
  BY Here, ConnectionType
<1>5. y \in Nat \ {0}
  BY <1>3 DEF Request
<1>6. Receive(c, a, y) /\ Block(c) = Taken(c, a, y) /\ q = sock[c]
  BY DEF Block
<1>7. q.begun \in 0 .. Len(k) /\ \A j \in DOMAIN n : n[j].last.r <= q.begun
  BY <1>1 DEF Link
<1>8. Len(a) <= y
  BY <1>3 DEF Blocked
<1> HIDE DEF a, y, q, k, n, u
<1>9. PICK z \in Socket, x \in Value :
           /\ sock' = [sock EXCEPT ![c] = z] /\ (z.err => z.in = <<>>)
           /\ z.begun = sock[c].begun /\ z.err = sock[c].err
           /\ Taken(c, a, y) = a \o x
           /\ a \o x \in Value /\ Len(a \o x) <= y /\ Len(a \o x) = Len(a) + Len(x)
           /\ Coming(z) \in Value /\ x \o Coming(z) = Coming(sock[c])
           /\ (a \o x) \o Coming(z) = a \o Coming(sock[c])
  BY <1>4, <1>5, <1>6, <1>8, Receiving
<1>10. Blocked(c, k, z, n, u, a \o x, y)
  BY <1>3, <1>4, <1>5, <1>6, <1>9, BlockReceives
<1>11. FoundBlock(c, z, a \o x)
  BY <1>3, <1>6, <1>7, <1>9, <1>10 DEF FoundBlock, y, k, n, u
<1>12. QED
  BY <1>6, <1>9, <1>11

\* A data block that is not whole yet: the next part of it, or the connection ends.
LEMMA NReadShortStep ==
  ASSUME NetInv, pc = "loop", NEW c \in Conn, NReadShort(c), UNCHANGED loopVars
  PROVE  NetInv'
<1> DEFINE g == Block(c)
<1>1. PICK z \in Socket : FoundBlock(c, z, g)
  BY ReadingBlock DEF NReadShort
<1>2. conn[c] \in Connection /\ Rests(c, conn[c], current)
  BY Here
<1>3. /\ current = c /\ script' = script /\ sock' = [sock EXCEPT ![c] = z]
      /\ ran' = ran /\ db' = db /\ file' = file /\ conn[c].state = "NRead"
  BY <1>1 DEF NReadShort, In, FoundBlock
<1>4. CASE /\ conn' = [conn EXCEPT ![c] = [conn[c] EXCEPT !.body = g, !.state = "Close"]]
           /\ current' = c
  <2> DEFINE o == [conn[c] EXCEPT !.body = g, !.state = "Close"]
  <2>1. o \in Connection /\ o.state = "Close" /\ o.header = conn[c].header /\ o.body = g
        /\ o.bodySize = conn[c].bodySize
    BY <1>1, <1>2 DEF FoundBlock, Connection, States
  <2>2. conn' = [conn EXCEPT ![c] = o]
    BY <1>4
  <2> HIDE DEF o
  <2>3. Link(c, script[c], z, o, ran[c]) /\ Rests(c, o, c)
    <3>1. /\ Len(o.header) <= HeaderSize /\ Len(o.body) <= o.bodySize
          /\ z.begun \in 0 .. Len(script[c]) /\ (z.err => z.in = <<>>)
          /\ \A j \in DOMAIN ran[c] : ran[c][j].last.r <= z.begun
      BY <1>1, <2>1 DEF FoundBlock
    <3>2. QED
      BY <2>1, <3>1, CloseLinks
  <2>4. QED
    BY <1>3, <1>4, <2>1, <2>2, <2>3, MovesOnly
<1>5. CASE conn' = [conn EXCEPT ![c] = [conn[c] EXCEPT !.body = g]] /\ current' = NoConn
  <2> DEFINE o == [conn[c] EXCEPT !.body = g]
  <2>1. /\ o \in Connection /\ o.state = "NRead" /\ o.header = conn[c].header /\ o.body = g
        /\ o.bodySize = conn[c].bodySize /\ o.req = conn[c].req /\ o.want = conn[c].want
        /\ o.resBody = conn[c].resBody /\ o.line = conn[c].line
    BY <1>1, <1>2, <1>3 DEF FoundBlock, Connection
  <2>2. conn' = [conn EXCEPT ![c] = o]
    BY <1>5
  <2> HIDE DEF o, g
  <2>3. Within(c, script[c], z, o, ran[c])
    BY <1>1, <2>1 DEF FoundBlock, Within
  <2>4. Link(c, script[c], z, o, ran[c])
    BY <1>1, <2>1, <2>3 DEF FoundBlock, Link
  <2>5. Rests(c, o, current')
    BY <1>1, <1>2, <1>3, <2>1 DEF FoundBlock, Rests
  <2>6. QED
    BY <1>3, <1>5, <2>1, <2>2, <2>4, <2>5, MovesOnly
<1>6. QED
  BY <1>3, <1>4, <1>5 DEF NReadShort, Become, DmGoOn, DmStop

\* A data block that is whole is stored, and the command is done.
LEMMA NReadStep ==
  ASSUME NetInv, pc = "loop", NEW c \in Conn, NRead(c), UNCHANGED loopVars
  PROVE  NetInv'
<1> DEFINE g == Block(c)
           n == ran[c]
           k == script[c]
           q == conn[c].req
           u == conn[c].line
           e == [line |-> u, last |-> Last(g)]
           l == Append(n, e)
           m == [ran EXCEPT ![c] = l]
<1>1. PICK z \in Socket : FoundBlock(c, z, g)
  BY ReadingBlock DEF NRead
<1>2. /\ conn[c] \in Connection /\ n \in Seq(Entry) /\ Increasing(n) /\ Types
      /\ Whole(db, ran) /\ WholeFile(file, ran) /\ k \in RequestSeq
  BY Here
<1>3. PICK res \in DoStore(q, g) :
        /\ Took(res)
        /\ \E o \in Prepared(Printed(conn[c], u.r, res)) : Become(c, [o EXCEPT !.body = <<>>])
  BY DEF NRead
<1>4. PICK p \in Prepared(Printed(conn[c], u.r, res)) :
        conn' = [conn EXCEPT ![c] = [p EXCEPT !.body = <<>>]]
  BY <1>3 DEF Become
<1>5. /\ current = c /\ current' = c /\ script' = script /\ sock' = [sock EXCEPT ![c] = z]
      /\ ran' = m
  BY <1>1 DEF NRead, In, FoundBlock, DmGoOn
<1>6. /\ z.begun \in 0 .. Len(k) /\ (z.err => z.in = <<>>) /\ g \in Value
      /\ q \in Request /\ q.cmd \in Storing /\ conn[c].bodySize = q.need
      /\ \A j \in DOMAIN n : n[j].last.r <= z.begun
      /\ Blocked(c, k, z, n, u, g, conn[c].bodySize)
  BY <1>1 DEF FoundBlock
<1>7. Len(g) = conn[c].bodySize /\ Len(g) \in Nat \ {0}
  BY <1>6 DEF NRead, Request
<1>8. z.begun \in Nat /\ u \in UnitType /\ u.r \in Nat
  <2>1. z.begun \in Nat /\ u \in UnitType
    BY <1>2, ComingType, ConnectionType
  <2>2. QED
    BY <2>1 DEF UnitType
<1>9. g # <<>>
  BY <1>6, <1>7, ValueJoin
<1>10. /\ Stretch(c, k, z.begun, <<u>> \o g) /\ After(n, <<u>> \o g)
       /\ Continues(c, k, z, l, <<>>)
  BY <1>6, <1>7 DEF Blocked
<1>11. l = Append(n, [line |-> u, last |-> Last(g)]) /\ e = [line |-> u, last |-> Last(g)]
  OBVIOUS
<1>12. m = [ran EXCEPT ![c] = Append(ran[c], e)] /\ k = script[c]
  OBVIOUS
<1> DEFINE o == [p EXCEPT !.body = <<>>]
<1>13. conn' = [conn EXCEPT ![c] = o]
  BY <1>4
<1> HIDE DEF g, n, k, q, u, e, l, m
<1>14. Last(g) \in UnitType /\ l \in Seq(Entry) /\ Increasing(l) /\ \A j \in DOMAIN l : l[j].last.r <= z.begun
  <2>1. /\ Last(g) \in UnitType
        /\ l \in Seq(Entry) /\ (\A j \in DOMAIN l : l[j].last.r <= z.begun)
        /\ Increasing(n) => Increasing(l)
    BY <1>2, <1>6, <1>8, <1>9, <1>10, <1>11, BlockEntry
  <2>2. QED
    BY <1>2, <2>1
<1>15. e \in Entry
  BY <1>8, <1>11, <1>14 DEF Entry
<1>16. e \in Range(m[c]) /\ Whole(db, m) /\ WholeFile(file, m)
  <2>1. /\ e \in Range(m[c])
        /\ \A d : Whole(d, ran) => Whole(d, m)
        /\ \A f : WholeFile(f, ran) => WholeFile(f, m)
    BY <1>2, <1>12, <1>15, RanGrows
  <2>2. QED
    BY <1>2, <2>1
<1>17. Good(Front(g), m)
  <2>1. [line |-> u, last |-> Last(g)] \in Range(m[c]) /\ Stretch(c, script[c], z.begun, <<u>> \o g)
    BY <1>10, <1>11, <1>12, <1>16
  <2>2. WholeBlocks(Front(g), m) /\ Front(g) \in Value
    BY <1>6, <1>8, <1>9, <2>1, WholeBlock
  <2>3. QED
    BY <2>2 DEF Good
<1>18. Sound(res, m)
  BY <1>3, <1>6, <1>16, <1>17, StoreSound
<1>19. /\ p \in Connection /\ p.header = <<>> /\ p.state \in {"Write", "Close"}
  BY <1>2, <1>4, <1>8, <1>18, Printing DEF Sound
<1>20. o \in Connection /\ o.header = <<>> /\ o.body = <<>> /\ o.state \in {"Write", "Close"}
  BY <1>19, ValueJoin DEF Connection
<1> HIDE DEF o
<1>21. Link(c, k, z, o, l) /\ Rests(c, o, c)
  BY <1>2, <1>6, <1>10, <1>14, <1>20, AnswerLinks
<1>22. Whole(db', ran') /\ WholeFile(file', ran')
  BY <1>3, <1>5, <1>18 DEF Took, Sound
<1>23. Link(c, script[c], z, o, l) /\ ran' = [ran EXCEPT ![c] = l]
  BY <1>5, <1>12, <1>21 DEF m
<1>24. QED
  BY <1>5, <1>13, <1>14, <1>20, <1>21, <1>22, <1>23, Moves

\* A reply is written. Whatever the client reads, its stream is where it was.
LEMMA WriteStep ==
  ASSUME NetInv, pc = "loop", NEW c \in Conn, Write(c), UNCHANGED loopVars
  PROVE  NetInv'
<1> DEFINE q == sock[c]
           n == ran[c]
<1>1. /\ conn[c] \in Connection /\ q \in Socket
      /\ Rests(c, conn[c], current) /\ Link(c, script[c], q, conn[c], n)
  BY Here
<1>2. conn[c].state = "Write" /\ current = c
  BY DEF Write, In
<1>3. PICK whole \in BOOLEAN : sock' = [sock EXCEPT ![c].out = Append(@, Reply(conn[c], whole))]
  BY DEF Write
<1> DEFINE z == [q EXCEPT !.out = Append(@, Reply(conn[c], whole))]
<1>4. sock' = [sock EXCEPT ![c] = z]
  BY <1>3
<1>5. Reply(conn[c], whole) \in ReplyType
  BY <1>1, ConnectionType DEF Reply, ReplyType
<1>6. /\ z \in Socket /\ z.begun = q.begun /\ z.err = q.err /\ z.in = q.in /\ z.todo = q.todo
      /\ Coming(z) = Coming(q)
  <2>1. q.out \in Seq(ReplyType)
    BY <1>1 DEF Socket
  <2>2. Append(q.out, Reply(conn[c], whole)) \in Seq(ReplyType)
    BY <1>5, <2>1, AppendProperties
  <2>3. z \in Socket
    BY <1>1, <2>2 DEF Socket
  <2>4. z.begun = q.begun /\ z.err = q.err /\ z.in = q.in /\ z.todo = q.todo
    BY <1>1 DEF Socket
  <2>5. QED
    BY <2>3, <2>4 DEF Coming
<1>7. /\ script' = script /\ ran' = ran /\ db' = db /\ file' = file
  BY <1>1 DEF Write
<1> HIDE DEF z, q, n
<1>8. /\ Link(c, script[c], z, conn[c], n) /\ (z.err => z.in = <<>>)
  <2>1. z.err => z.in = <<>>
    BY <1>1, <1>6 DEF Link
  <2>2. QED
    BY <1>1, <1>6, <2>1, LinkStays
<1>9. /\ conn[c].header = <<>> /\ conn[c].body = <<>> /\ z.begun \in 0 .. Len(script[c])
      /\ \A j \in DOMAIN n : n[j].last.r <= z.begun
  BY <1>2, <1>8 DEF Link, Between
<1>10. Len(conn[c].header) <= HeaderSize /\ Len(conn[c].body) <= conn[c].bodySize
  BY <1>1 DEF Rests
<1>11. n = ran[c]
  BY DEF n
<1>12. CASE conn' = [conn EXCEPT ![c] = Written(conn[c])] /\ current' = NoConn
  <2> DEFINE o == Written(conn[c])
  <2>1. /\ o \in Connection /\ o.header = conn[c].header /\ o.body = conn[c].body
        /\ o.bodySize = conn[c].bodySize /\ o.state = "Read" /\ o.want = "in" /\ o.resBody = <<>>
    BY <1>1, ValueJoin DEF Written, Connection, States
  <2>2. conn' = [conn EXCEPT ![c] = o]
    BY <1>12
  <2> HIDE DEF o
  <2>3. Between(c, script[c], z, o, n)
    BY <1>2, <1>8, <2>1 DEF Link, Between
  <2>4. Link(c, script[c], z, o, n)
    BY <1>8, <1>9, <2>1, <2>3 DEF Link
  <2>5. Rests(c, o, current')
    BY <1>10, <2>1 DEF Rests
  <2>6. QED
    <3>1. Link(c, script[c], z, o, ran[c])
      BY <1>11, <2>4
    <3>2. QED
      BY <1>2, <1>4, <1>6, <1>7, <1>12, <2>1, <2>2, <2>5, <3>1, MovesOnly
<1>13. CASE /\ \E x \in Value :
                 conn' = [conn EXCEPT ![c] = [conn[c] EXCEPT !.resBody = x, !.state = "Close"]]
            /\ current' = c
  <2>1. PICK x \in Value :
          conn' = [conn EXCEPT ![c] = [conn[c] EXCEPT !.resBody = x, !.state = "Close"]]
    BY <1>13
  <2> DEFINE o == [conn[c] EXCEPT !.resBody = x, !.state = "Close"]
  <2>2. /\ o \in Connection /\ o.header = conn[c].header /\ o.body = conn[c].body
        /\ o.bodySize = conn[c].bodySize /\ o.state = "Close"
    BY <1>1 DEF Connection, States
  <2>3. conn' = [conn EXCEPT ![c] = o]
    BY <2>1
  <2> HIDE DEF o
  <2>4. Link(c, script[c], z, o, n) /\ Rests(c, o, c)
    BY <1>8, <1>9, <1>10, <2>2, CloseLinks
  <2>5. QED
    <3>1. Link(c, script[c], z, o, ran[c])
      BY <1>11, <2>4
    <3>2. QED
      BY <1>2, <1>4, <1>6, <1>7, <1>13, <2>2, <2>3, <2>4, <3>1, MovesOnly
<1>14. <<>> \in Value /\ conn[c].resBody \in Value
  BY <1>1, ValueJoin, ConnectionType
<1>15. [conn[c] EXCEPT !.state = "Close"]
         = [conn[c] EXCEPT !.resBody = conn[c].resBody, !.state = "Close"]
  BY <1>1 DEF Connection
<1>16. QED
  BY <1>2, <1>12, <1>13, <1>14, <1>15 DEF Write, Become, DmStop, DmGoOn

\* The two units that no client sends.
LEMMA NotUnits == NoUnit \in UnitType /\ Foreign \in UnitType
  BY DEF NoUnit, Foreign, Unit, UnitType

\* An object that is not, or no longer, the reader of a stream.
LEMMA AbsentType ==
  /\ NoSocket \in Socket /\ NoSocket.begun = 0 /\ ~NoSocket.err /\ NoSocket.in = <<>>
  /\ Coming(NoSocket) = <<>>
  /\ Absent \in Connection /\ Absent.state = "None" /\ Absent.want = "none"
  /\ Absent.header = <<>> /\ Absent.body = <<>> /\ Absent.bodySize = 0
  /\ [Absent EXCEPT !.state = "Gone"] \in Connection
  /\ [Absent EXCEPT !.state = "Gone"].state = "Gone"
  /\ [Absent EXCEPT !.state = "Gone"].want = "none"
  /\ [Absent EXCEPT !.state = "Gone"].header = <<>> /\ [Absent EXCEPT !.state = "Gone"].body = <<>>
  /\ [Absent EXCEPT !.state = "Gone"].bodySize = 0
  /\ Fresh \in Connection /\ Fresh.state = "Read" /\ Fresh.want = "in" /\ Fresh.resBody = <<>>
  /\ Fresh.header = <<>> /\ Fresh.body = <<>> /\ Fresh.bodySize = 0
<1>1. <<>> \in Value /\ <<>> \o <<>> = <<>> /\ <<>> \in Seq(ReplyType)
  BY ValueJoin, EmptySeq
<1>2. NoSocket \in Socket /\ Coming(NoSocket) = <<>>
  BY <1>1 DEF NoSocket, Socket, Coming
<1>3. [to |-> 0, rc |-> "none"] \in [to : Nat, rc : Codes]
  BY DEF Codes
<1>4. Fresh \in Connection
  BY <1>1, <1>3, NotUnits DEF Fresh, Connection, States
<1>5. Absent \in Connection /\ [Absent EXCEPT !.state = "Gone"] \in Connection
  BY <1>1, <1>3, NotUnits DEF Absent, Fresh, Connection, States
<1>6. QED
  BY <1>2, <1>4, <1>5 DEF NoSocket, Absent, Fresh

\* Once its object is gone nothing is asked of a connection.
LEMMA GoneLinks ==
  ASSUME NEW c, NEW k \in RequestSeq, NEW n, NEW cur
  PROVE  /\ Link(c, k, NoSocket, [Absent EXCEPT !.state = "Gone"], n)
         /\ Rests(c, [Absent EXCEPT !.state = "Gone"], cur)
<1>1. Len(<<>>) = 0 /\ HeaderSize \in Nat /\ Len(k) \in Nat
  BY ConnAssumption, EmptySeq, LenProperties DEF RequestSeq
<1>2. Link(c, k, NoSocket, [Absent EXCEPT !.state = "Gone"], n)
  BY <1>1, AbsentType DEF Link
<1>3. Rests(c, [Absent EXCEPT !.state = "Gone"], cur)
  BY <1>1, AbsentType DEF Rests
<1>4. QED
  BY <1>2, <1>3

\* The connection is freed.
LEMMA CloseStep ==
  ASSUME NetInv, pc = "loop", NEW c \in Conn, Close(c), UNCHANGED loopVars
  PROVE  NetInv'
<1> DEFINE o == [Absent EXCEPT !.state = "Gone"]
<1>1. script[c] \in RequestSeq
  BY Here
<1>2. /\ current = c /\ current' = NoConn /\ script' = script /\ sock' = [sock EXCEPT ![c] = NoSocket]
      /\ conn' = [conn EXCEPT ![c] = o] /\ ran' = ran /\ db' = db /\ file' = file
  BY DEF Close, In, Become, DmStop
<1>3. o \in Connection /\ NoSocket \in Socket
  BY AbsentType
<1>4. Link(c, script[c], NoSocket, o, ran[c]) /\ Rests(c, o, current')
  BY <1>1, GoneLinks
<1> HIDE DEF o
<1>5. QED
  BY <1>2, <1>3, <1>4, MovesOnly

\* One step of driverMachine.
LEMMA HandlerStep ==
  ASSUME NetInv, NEW c \in Conn, DriverMachine(c)
  PROVE  NetInv'
<1>1. pc = "loop" /\ UNCHANGED loopVars
  BY DEF DriverMachine
<1>2. QED
  BY <1>1, ReadHangupStep, ReadNoLineStep, ReadStoringStep, ReadCommandStep, NReadShortStep,
     NReadStep, WriteStep, CloseStep DEF DriverMachine, Handler

-------------------------------------------------------------------------------
(***************************************************************************)
(* The steps of main, of the loop and of the clients.                      *)
(***************************************************************************)
\* What is stored is not touched.
LEMMA StoreStays ==
  ASSUME NetInv, UNCHANGED <<script, db, file, ran>>
  PROVE  db' \in Store /\ file' \in Files /\ Blocks(db, ran)' /\ FileBlocks(file, ran)'
<1>1. Whole(db, ran) /\ WholeFile(file, ran)
  BY DEF NetInv, Types, Whole, WholeFile
<1>2. Whole(db', ran') /\ WholeFile(file', ran')
  BY <1>1
<1>3. QED
  BY <1>2, StaysWhole

\* A step that touches no connection.
LEMMA QuietStep ==
  ASSUME NetInv, UNCHANGED connVars, pc # "exited", batch' \subseteq Conn \cup {Listener},
         pc' \in {"main", "armed", "built", "loop", "over", "exited"}, stop' \in BOOLEAN
  PROVE  NetInv'
<1>1. /\ script' = script /\ sock' = sock /\ conn' = conn /\ db' = db /\ file' = file
      /\ current' = current /\ ran' = ran
  BY DEF connVars
<1>2. Types'
  BY <1>1 DEF NetInv, Types
<1>3. Blocks(db, ran)' /\ FileBlocks(file, ran)'
  BY <1>1, StoreStays
<1>4. \A c \in Conn : Increasing(ran'[c]) /\ Rests(c, conn'[c], current')
  BY <1>1 DEF NetInv
<1>5. pc' # "exited" => \A c \in Conn : Link(c, script'[c], sock'[c], conn'[c], ran'[c])
  BY <1>1 DEF NetInv
<1>6. QED
  BY <1>2, <1>3, <1>4, <1>5 DEF NetInv

\* The loop passes from one event to the next.
LEMMA CurrentMoves ==
  ASSUME NetInv, UNCHANGED <<script, sock, conn, db, file, ran, pc, stop>>,
         current \notin Conn, current' \in Conn \cup {Listener, NoConn},
         batch' \subseteq Conn \cup {Listener}
  PROVE  NetInv'
<1>1. Types'
  BY DEF NetInv, Types
<1>2. Blocks(db, ran)' /\ FileBlocks(file, ran)'
  BY StoreStays
<1>3. \A c \in Conn : Increasing(ran'[c]) /\ Rests(c, conn'[c], current')
  BY DEF NetInv, Rests
<1>4. pc' # "exited" => \A c \in Conn : Link(c, script'[c], sock'[c], conn'[c], ran'[c])
  BY DEF NetInv
<1>5. QED
  BY <1>1, <1>2, <1>3, <1>4 DEF NetInv

\* A client does something with its socket.
LEMMA ClientMoves ==
  ASSUME NetInv, NEW c \in Conn, pc # "exited", NEW z \in Socket,
         UNCHANGED <<script, conn, db, file, current, ran, loopVars>>,
         sock' = [sock EXCEPT ![c] = z], Link(c, script[c], z, conn[c], ran[c])
  PROVE  NetInv'
<1>1. /\ conn[c] \in Connection /\ ran[c] \in Seq(Entry) /\ Increasing(ran[c])
      /\ Rests(c, conn[c], current)
      /\ conn \in [Conn -> Connection] /\ ran \in [Conn -> Seq(Entry)]
  BY Here DEF Types
<1>2. /\ script' = script /\ conn' = [conn EXCEPT ![c] = conn[c]] /\ ran' = [ran EXCEPT ![c] = ran[c]]
      /\ current' = current /\ pc' = pc
  BY <1>1 DEF loopVars
<1>3. db' \in Store /\ file' \in Files /\ Blocks(db, ran)' /\ FileBlocks(file, ran)'
  BY StoreStays
<1>4. /\ current' \in Conn \cup {Listener, NoConn}
      /\ batch' \subseteq Conn \cup {Listener} /\ stop' \in BOOLEAN
  BY DEF loopVars, NetInv, Types
<1>5. QED
  BY <1>1, <1>2, <1>3, <1>4, OneMoves

\* The process ends.
LEMMA ExitStep ==
  ASSUME NetInv, Exit
  PROVE  NetInv'
<1>1. Types'
  BY AbsentType DEF NetInv, Types, Exit
<1>2. Blocks(db, ran)' /\ FileBlocks(file, ran)'
  BY StoreStays DEF Exit
<1>3. Len(<<>>) = 0 /\ HeaderSize \in Nat
  BY ConnAssumption, EmptySeq
<1>4. ASSUME NEW c \in Conn PROVE Increasing(ran'[c]) /\ Rests(c, conn'[c], current')
  <2>1. conn'[c] = Absent /\ ran'[c] = ran[c]
    BY DEF Exit
  <2>2. QED
    BY <1>3, <2>1, AbsentType DEF Rests, NetInv
<1>5. pc' = "exited"
  BY DEF Exit
<1>6. QED
  BY <1>1, <1>2, <1>4, <1>5 DEF NetInv

\* onListening: no connection, one that is left open or closed at once, or one to serve.
LEMMA ListeningStep ==
  ASSUME NetInv, OnListening
  PROVE  NetInv'
<1>1. /\ pc = "loop" /\ current = Listener /\ Listener \notin Conn /\ NoConn \notin Conn
      /\ current' = NoConn /\ UNCHANGED <<script, db, file, ran, pc, stop, batch>>
  BY ConnAssumption, NetshellAssumption DEF OnListening, DmStop, loopVars
<1>2. CASE UNCHANGED <<conn, sock>>
  <2>1. batch' \subseteq Conn \cup {Listener} /\ current' \in Conn \cup {Listener, NoConn}
    BY <1>1 DEF NetInv, Types
  <2>2. QED
    BY <1>1, <1>2, <2>1, CurrentMoves
<1>3. ASSUME NEW c \in Pending, NEW z \in Socket, NEW o \in Connection,
             conn' = [conn EXCEPT ![c] = o], sock' = [sock EXCEPT ![c] = z],
             Link(c, script[c], z, o, ran[c]), Rests(c, o, NoConn)
      PROVE  NetInv'
  <2>1. c \in Conn
    BY DEF Pending
  <2>2. ran[c] \in Seq(Entry) /\ Increasing(ran[c]) /\ ran \in [Conn -> Seq(Entry)]
    BY <2>1, Here DEF Types
  <2>3. script' = script /\ ran' = [ran EXCEPT ![c] = ran[c]] /\ pc' = pc
    BY <1>1, <2>2
  <2>4. db' \in Store /\ file' \in Files /\ Blocks(db, ran)' /\ FileBlocks(file, ran)'
    BY <1>1, StoreStays
  <2>5. /\ current' \in Conn \cup {Listener, NoConn} /\ current' \notin Conn
        /\ batch' \subseteq Conn \cup {Listener} /\ stop' \in BOOLEAN
    BY <1>1 DEF NetInv, Types
  <2>6. Rests(c, o, current')
    BY <1>1, <1>3
  <2>7. QED
    BY <1>1, <1>3, <2>1, <2>2, <2>3, <2>4, <2>5, <2>6, OneMoves
<1>4. ASSUME NEW c \in Pending
      PROVE  /\ conn[c] \in Connection /\ sock[c] \in Socket /\ conn[c].state = "None"
             /\ Link(c, script[c], sock[c], conn[c], ran[c]) /\ Rests(c, conn[c], NoConn)
             /\ sock = [sock EXCEPT ![c] = sock[c]] /\ script[c] \in RequestSeq
  <2>1. c \in Conn /\ conn[c].state = "None"
    BY DEF Pending
  <2>2. sock \in [Conn -> Socket]
    BY DEF NetInv, Types
  <2>3. QED
    BY <1>1, <2>1, <2>2, Here DEF Rests
<1>5. ASSUME NEW c \in Pending, conn' = [conn EXCEPT ![c].state = "Leaked"], sock' = sock
      PROVE  NetInv'
  <2> DEFINE o == [conn[c] EXCEPT !.state = "Leaked"]
  <2>1. /\ o \in Connection /\ o.state = "Leaked" /\ o.want = conn[c].want
        /\ o.header = conn[c].header /\ o.body = conn[c].body /\ o.bodySize = conn[c].bodySize
    BY <1>4 DEF Connection, States
  <2>2. conn' = [conn EXCEPT ![c] = o]
    BY <1>5
  <2> HIDE DEF o
  <2>3. Link(c, script[c], sock[c], o, ran[c]) /\ Rests(c, o, NoConn)
    BY <1>4, <2>1 DEF Link, Between, Rests
  <2>4. QED
    BY <1>3, <1>4, <1>5, <2>1, <2>2, <2>3
<1>6. ASSUME NEW c \in Pending, conn' = [conn EXCEPT ![c].state = "Gone"],
             sock' = [sock EXCEPT ![c] = NoSocket]
      PROVE  NetInv'
  <2> DEFINE o == [conn[c] EXCEPT !.state = "Gone"]
  <2>1. /\ o \in Connection /\ o.state = "Gone" /\ o.want = conn[c].want
        /\ o.header = conn[c].header /\ o.body = conn[c].body /\ o.bodySize = conn[c].bodySize
    BY <1>4 DEF Connection, States
  <2>2. conn' = [conn EXCEPT ![c] = o]
    BY <1>6
  <2> HIDE DEF o
  <2>3. Len(script[c]) \in Nat
    BY <1>4, LenProperties DEF RequestSeq
  <2>4. Link(c, script[c], NoSocket, o, ran[c]) /\ Rests(c, o, NoConn)
    BY <1>4, <2>1, <2>3, AbsentType DEF Link, Rests
  <2>5. QED
    BY <1>3, <1>6, <2>1, <2>2, <2>4, AbsentType
<1>7. ASSUME NEW c \in Pending, conn' = [conn EXCEPT ![c] = Fresh], sock' = sock
      PROVE  NetInv'
  <2>1. Len(<<>>) = 0 /\ HeaderSize \in Nat
    BY ConnAssumption, EmptySeq
  <2>2. Between(c, script[c], sock[c], conn[c], ran[c]) /\ conn[c].header = <<>>
    BY <1>4 DEF Link, Between
  <2>3. Between(c, script[c], sock[c], Fresh, ran[c])
    BY <2>1, <2>2, AbsentType DEF Between
  <2>4. Link(c, script[c], sock[c], Fresh, ran[c]) /\ Rests(c, Fresh, NoConn)
    BY <1>4, <2>1, <2>3, AbsentType DEF Link, Rests
  <2>5. QED
    BY <1>3, <1>4, <1>7, <2>4, AbsentType
<1>8. QED
  BY <1>2, <1>5, <1>6, <1>7 DEF OnListening

\* A client connects.
LEMMA ConnectStep ==
  ASSUME NetInv, NEW c \in Conn, Connect(c)
  PROVE  NetInv'
<1> DEFINE q == sock[c]
           z == [q EXCEPT !.open = TRUE]
<1>1. q \in Socket /\ pc # "exited" /\ sock' = [sock EXCEPT ![c] = z]
  BY Here DEF Connect
<1>2. /\ z \in Socket /\ z.begun = q.begun /\ z.err = q.err /\ z.in = q.in
      /\ Coming(z) = Coming(q)
  BY <1>1 DEF Socket, Coming
<1>3. UNCHANGED <<script, conn, db, file, current, ran, loopVars>>
  BY DEF Connect
<1> HIDE DEF z
<1>4. Link(c, script[c], q, conn[c], ran[c])
  BY <1>1, Here
<1>5. z.err => z.in = <<>>
  BY <1>2, <1>4 DEF Link
<1> HIDE DEF q
<1>6. Link(c, script[c], z, conn[c], ran[c])
  BY <1>2, <1>4, <1>5, LinkStays
<1>7. QED
  BY <1>1, <1>2, <1>3, <1>6, ClientMoves

\* A client begins another request.
LEMMA AskStep ==
  ASSUME NetInv, NEW c \in Conn, Ask(c)
  PROVE  NetInv'
<1> DEFINE q == sock[c]
           k == script[c]
           r == q.begun + 1
           m == Message(c, r)
           z == [q EXCEPT !.begun = r, !.todo = m]
<1>1. /\ q \in Socket /\ k \in RequestSeq /\ conn[c] \in Connection /\ ran[c] \in Seq(Entry)
      /\ pc # "exited" /\ Link(c, k, q, conn[c], ran[c])
  BY Here DEF Ask, Client
<1>2. sock' = [sock EXCEPT ![c] = z]
  BY DEF Ask
<1>3. ~q.err /\ q.todo = <<>> /\ q.begun < Len(k)
  BY DEF Ask
<1>4. q.begun \in Nat /\ r \in Nat /\ r \in 1 .. Len(k)
  <2>1. q.begun \in Nat /\ Len(k) \in Nat
    BY <1>1, ComingType, LenProperties DEF RequestSeq
  <2>2. QED
    BY <1>3, <2>1
<1>5. m = Units(c, r, 1, Total(k, r))
  BY DEF Message, Total, LineLen, BlockLen
<1> HIDE DEF q, k, m
<1>6. Total(k, r) \in Nat
  <2> HIDE DEF r
  <2>1. QED
    BY <1>1, <1>4, TotalType
<1>7. m \in Value
  <2>1. 1 \in Nat \ {0}
    OBVIOUS
  <2> HIDE DEF r
  <2>2. QED
    BY <1>4, <1>5, <1>6, <2>1, UnitsAt
<1>8. /\ z \in Socket /\ z.begun = q.begun + 1 /\ z.err = q.err /\ z.in = q.in
      /\ z.todo = Units(c, q.begun + 1, 1, Total(k, q.begun + 1))
  BY <1>1, <1>4, <1>5, <1>7 DEF Socket
<1> HIDE DEF z, r
<1>9. Link(c, k, z, conn[c], ran[c])
  BY <1>1, <1>3, <1>8, AskLinks
<1>10. Link(c, script[c], z, conn[c], ran[c])
  BY <1>9 DEF k
<1>11. UNCHANGED <<script, conn, db, file, current, ran, loopVars>>
  BY DEF Ask, Client
<1>12. QED
  BY <1>1, <1>2, <1>8, <1>10, <1>11, ClientMoves

\* One unit more reaches the server.
LEMMA SendStep ==
  ASSUME NetInv, NEW c \in Conn, Send(c)
  PROVE  NetInv'
<1> DEFINE q == sock[c]
           x == Append(q.in, Head(q.todo))
           y == Tail(q.todo)
           z == [q EXCEPT !.in = x, !.todo = y]
<1>1. q \in Socket /\ pc # "exited" /\ Link(c, script[c], q, conn[c], ran[c])
  BY Here DEF Send, Client
<1>2. sock' = [sock EXCEPT ![c] = z] /\ q.todo # <<>> /\ ~q.err
  BY DEF Send
<1>3. q.in \in Seq(UnitType) /\ q.todo \in Seq(UnitType)
  BY <1>1, ComingType DEF Value
<1>4. UNCHANGED <<script, conn, db, file, current, ran, loopVars>>
  BY DEF Send, Client
<1> HIDE DEF q
<1>5. x \in Value /\ y \in Value /\ x \o y = q.in \o q.todo
  BY <1>2, <1>3, SendMoves DEF Value
<1> HIDE DEF x, y
<1>6. /\ z \in Socket /\ z.begun = q.begun /\ z.err = q.err /\ z.in = x /\ z.todo = y
  BY <1>1, <1>5 DEF Socket
<1> HIDE DEF z
<1>7. Coming(z) = Coming(q) /\ ~z.err
  BY <1>2, <1>5, <1>6 DEF Coming
<1>8. Link(c, script[c], z, conn[c], ran[c])
  BY <1>1, <1>6, <1>7, LinkStays
<1>9. QED
  BY <1>1, <1>2, <1>4, <1>6, <1>8, ClientMoves

\* A client ends its stream, or resets the connection and loses what is not read.
LEMMA HangupStep ==
  ASSUME NetInv, NEW c \in Conn, Hangup(c)
  PROVE  NetInv'
<1> DEFINE q == sock[c]
           y == [q EXCEPT !.eof = TRUE]
           z == [q EXCEPT !.err = TRUE, !.in = <<>>]
<1>1. /\ q \in Socket /\ pc # "exited" /\ Link(c, script[c], q, conn[c], ran[c])
      /\ conn[c] \in Connection
  BY Here DEF Hangup, Client
<1>2. UNCHANGED <<script, conn, db, file, current, ran, loopVars>>
  BY DEF Hangup, Client
<1>3. ~q.err /\ (sock' = [sock EXCEPT ![c] = y] \/ sock' = [sock EXCEPT ![c] = z])
  BY DEF Hangup
<1>4. y \in Socket /\ Link(c, script[c], y, conn[c], ran[c])
  <2>1. y \in Socket /\ y.begun = q.begun /\ y.err = q.err /\ Coming(y) = Coming(q)
    BY <1>1 DEF Socket, Coming
  <2> HIDE DEF q, y
  <2>2. QED
    BY <1>1, <1>3, <2>1, LinkStays
<1>5. z \in Socket /\ Link(c, script[c], z, conn[c], ran[c])
  <2>1. z \in Socket /\ z.begun = q.begun /\ z.err /\ z.in = <<>>
    BY <1>1, ValueJoin DEF Socket
  <2> HIDE DEF q, z
  <2>2. QED
    BY <1>1, <2>1, ResetLinks
<1> HIDE DEF q, y, z
<1>6. QED
  BY <1>1, <1>2, <1>3, <1>4, <1>5, ClientMoves

\* The next event.
LEMMA DispatchStep ==
  ASSUME NetInv, NEW c \in Conn \cup {Listener}, Dispatch(c)
  PROVE  NetInv'
<1>1. /\ UNCHANGED <<script, sock, conn, db, file, ran, pc, stop>> /\ current \notin Conn
      /\ current' \in Conn \cup {Listener, NoConn}
  BY ConnAssumption DEF Dispatch
<1>2. batch' \subseteq Conn \cup {Listener}
  BY DEF Dispatch, NetInv, Types
<1>3. QED
  BY <1>1, <1>2, CurrentMoves

\* The steps of main and of the loop that touch no connection.
LEMMA MainStep ==
  ASSUME NetInv, Install \/ Construct \/ Throw \/ Run \/ Signal \/ EpollWait \/ Leave \/ Break
  PROVE  NetInv'
<1>1. /\ pc \in {"main", "armed", "built", "loop", "over", "exited"} /\ stop \in BOOLEAN
      /\ batch \subseteq Conn \cup {Listener}
  BY DEF NetInv, Types
<1>2. Ready \subseteq Conn \cup {Listener}
  BY DEF Ready
<1>3. UNCHANGED connVars /\ pc # "exited"
  BY DEF Install, Construct, Throw, Run, Signal, EpollWait, Leave, Break, Goto, Idle
<1>4. stop' \in BOOLEAN
  BY <1>1 DEF Install, Construct, Throw, Run, Signal, EpollWait, Leave, Break, Goto
<1>5. pc' \in {"main", "armed", "built", "loop", "over", "exited"}
  BY <1>1 DEF Install, Construct, Throw, Run, Signal, EpollWait, Leave, Break, Goto
<1>6. batch' \subseteq Conn \cup {Listener}
  BY <1>1, <1>2 DEF Install, Construct, Throw, Run, Signal, EpollWait, Leave, Break, Goto
<1>7. QED
  BY <1>3, <1>4, <1>5, <1>6, QuietStep

-------------------------------------------------------------------------------
(***************************************************************************)
(* The theorems.                                                           *)
(***************************************************************************)
\* At the start nothing has been sent, read or stored.
LEMMA NetInit == Init => NetInv
<1> SUFFICES ASSUME Init PROVE NetInv
  OBVIOUS
<1>1. script \in [Conn -> RequestSeq]
  BY ConnAssumption DEF Init, RequestSeq
<1>2. <<>> \in Seq(Entry) /\ Len(<<>>) = 0 /\ DOMAIN <<>> = {} /\ HeaderSize \in Nat
      /\ <<>> \o <<>> = <<>>
  BY EmptySeq, ConnAssumption, ValueJoin
<1>3. <<>> \in Store /\ <<>> \in Files /\ Blocks(<<>>, ran) /\ FileBlocks(<<>>, ran)
  <2>1. \A k \in {} : <<>>[k] \in Value /\ <<>>[k] \in Record
    OBVIOUS
  <2>2. <<>> = [k \in {} |-> <<>>[k]]
    BY SMT
  <2>3. <<>> \in [{} -> Value] /\ <<>> \in [{} -> Record] /\ {} \in SUBSET Key
    BY <2>1, <2>2
  <2>4. QED
    BY <1>2, <2>3 DEF Store, Files, Blocks, FileBlocks
<1>4. Types
  BY <1>1, <1>2, <1>3, AbsentType DEF Init, Types
<1>5. ASSUME NEW c \in Conn
      PROVE  /\ Increasing(ran[c]) /\ Rests(c, conn[c], current)
             /\ Link(c, script[c], sock[c], conn[c], ran[c])
  <2>1. ran[c] = <<>> /\ conn[c] = Absent /\ sock[c] = NoSocket /\ script[c] \in RequestSeq
    BY <1>1 DEF Init
  <2>2. Increasing(<<>>)
    BY <1>2 DEF Increasing
  <2>3. Rests(c, Absent, current)
    BY <1>2, AbsentType DEF Rests
  <2>4. Between(c, script[c], NoSocket, Absent, <<>>)
    <3>1. Continues(c, script[c], NoSocket, <<>>, <<>>)
      BY <1>2, AbsentType, NoStretch DEF Continues
    <3>2. QED
      BY <1>2, <3>1, AbsentType DEF Between
  <2>5. Len(script[c]) \in Nat
    BY <2>1, LenProperties DEF RequestSeq
  <2>6. Link(c, script[c], NoSocket, Absent, <<>>)
    BY <1>2, <2>4, <2>5, AbsentType DEF Link
  <2>7. QED
    BY <2>1, <2>2, <2>3, <2>6
<1>6. QED
  BY <1>3, <1>4, <1>5 DEF NetInv, Init

\* Every step keeps it.
LEMMA NetNext == NetInv /\ [Next]_vars => NetInv'
<1> SUFFICES ASSUME NetInv, [Next]_vars PROVE NetInv'
  OBVIOUS
<1>1. CASE Server
  <2>1. CASE Install \/ Construct \/ Run \/ EpollWait \/ Leave
    BY <2>1, MainStep
  <2>2. CASE Exit
    BY <2>2, ExitStep
  <2>3. CASE OnListening
    BY <2>3, ListeningStep
  <2>4. CASE \E c \in Conn \cup {Listener} : Dispatch(c)
    BY <2>4, DispatchStep
  <2>5. CASE \E c \in Conn : DriverMachine(c)
    BY <2>5, HandlerStep
  <2>6. QED
    BY <1>1, <2>1, <2>2, <2>3, <2>4, <2>5 DEF Server
<1>2. CASE Throw \/ Break \/ Signal
  BY <1>2, MainStep
<1>3. CASE \E c \in Conn : Connect(c) \/ Ask(c) \/ Send(c) \/ Hangup(c)
  BY <1>3, ConnectStep, AskStep, SendStep, HangupStep
<1>4. CASE UNCHANGED vars
  <2>1. /\ script' = script /\ sock' = sock /\ conn' = conn /\ db' = db /\ file' = file
        /\ current' = current /\ ran' = ran /\ pc' = pc /\ stop' = stop /\ batch' = batch
    BY <1>4 DEF vars
  <2>2. Types'
    BY <2>1 DEF NetInv, Types
  <2>3. Blocks(db, ran)' /\ FileBlocks(file, ran)'
    BY <2>1, StoreStays
  <2>4. QED
    BY <2>1, <2>2, <2>3 DEF NetInv
<1>5. QED
  BY <1>1, <1>2, <1>3, <1>4 DEF Next

\* The invariant holds of every state netshell can reach, with any number of clients,
\* any requests, and whatever a line says that was not sent as one: what each
\* connection has read and what is to come is a stretch of its stream, behind all that
\* has been executed, and values and records are made of blocks.
THEOREM NetInvariance == Spec => []NetInv
<1>1. Init => NetInv
  BY NetInit
<1>2. NetInv /\ [Next]_vars => NetInv'
  BY NetNext
<1>3. QED
  BY <1>1, <1>2, PTL DEF Spec

\* The fields of the connections and of the loop are what the code declares, and no
\* buffer (reqHeader_, reqBody_) is fuller than its size.
THEOREM NetTypes == Spec => []TypeOK
<1>1. NetInv => TypeOK
  <2> SUFFICES ASSUME NetInv PROVE TypeOK
    OBVIOUS
  <2>1. ASSUME NEW c \in Conn
        PROVE  /\ conn[c].state \in {"None", "Read", "NRead", "Write", "Close", "Gone", "Leaked"}
               /\ conn[c].header \in Value /\ Len(conn[c].header) <= HeaderSize
               /\ conn[c].body \in Value /\ Len(conn[c].body) <= conn[c].bodySize
               /\ conn[c].resBody \in Value
               /\ conn[c].want \in {"none", "in", "out"}
    BY Here, ConnectionType DEF Rests, States
  <2>2. \A k \in Held : k \in Key /\ db[k] \in Value
    <3>1. Whole(db, ran)
      BY DEF NetInv, Types, Whole
    <3>2. QED
      BY <3>1, WholeEach DEF Held, Good
  <2>3. QED
    BY <2>1, <2>2 DEF TypeOK, NetInv, Types
<1>2. QED
  BY <1>1, NetInvariance, PTL

\* However a stream is cut into pieces, each command of a connection is executed once
\* at most, in the order of the stream (reqHeaderBytes_).
THEOREM Executed == Spec => []ExecutedOnce
<1>1. NetInv => ExecutedOnce
  BY DEF NetInv, Increasing, ExecutedOnce
<1>2. QED
  BY <1>1, NetInvariance, PTL

\* A connection that driverMachine has left waits for input, and for nothing else.
THEOREM Rest == Spec => []AtRest
<1>1. NetInv => AtRest
  BY DEF NetInv, Rests, AtRest
<1>2. QED
  BY <1>1, NetInvariance, PTL

\* Whatever the lengths in which a stream arrives, and whatever lines the server finds
\* in it (onRead, onNRead), a value is made of units that came behind the line of a
\* command that was executed: from the first on, without a gap, to the end of its
\* block, or to where a record of a dump was short (shmc_dump_nolock). Only numbers
\* and the bytes load finds behind a short record are not asked about.
THEOREM NothingTorn == Spec => []WholeValues
<1>1. NetInv => WholeValues
  BY DEF NetInv, Blocks, WholeBlocks, WholeValues, Held
<1>2. QED
  BY <1>1, NetInvariance, PTL

-------------------------------------------------------------------------------
(***************************************************************************)
(* One answer to each request: client c waits, and k are its requests, q   *)
(* its socket, o the object.                                               *)
(***************************************************************************)
\* The first b requests keep to the protocol and to the buffer.
ProperTo(k, b) == \A r \in 1 .. b : Proper(k[r])

\* The answers are those to the first requests, in order.
Answers(k, q) ==
  \A n \in DOMAIN q.out :
    LET a == q.out[n]
    IN  /\ n <= q.begun /\ a.for = n
        /\ a.to = n \/ (k[n].cmd = "stats" /\ a.to < n)
        /\ a.value => a.rc = "VALUE" \/ k[n].cmd = "stats"

\* The last request has no answer yet, and all before it have theirs.
Owed(q) == q.begun = Len(q.out) + 1

\* s is empty or starts where the request without an answer starts.
Unanswered(c, q, s) == s # <<>> => Owed(q) /\ s[1] = Unit(c, q.begun, 1)

\* The answer that is owed is printed.
Due(k, q, o) ==
  /\ Owed(q) /\ o.resFor = q.begun
  /\ o.resHeader.to = q.begun \/ (k[q.begun].cmd = "stats" /\ o.resHeader.to < q.begun)
  /\ o.resBody # <<>> => o.resHeader.rc = "VALUE" \/ k[q.begun].cmd = "stats"

\* The command in the object is what the b-th request says.
OfLast(c, k, b, o) == o.req = k[b] /\ o.line = Unit(c, b, LineLen(k, b))

\* What has come, and is still to come, is of the request without an answer; when
\* that answer is printed there is nothing left of it to be read.
Turn(c, k, q, o) ==
  /\ Answers(k, q)
  /\ o.state \in {"None", "Leaked", "Read"} =>
       Unanswered(c, q, o.header \o Coming(q)) /\ o.resHeader.to <= Len(q.out)
  /\ o.state = "NRead" =>
       /\ Owed(q) /\ OfLast(c, k, q.begun, o) /\ o.resHeader.to <= Len(q.out)
       /\ Len(o.body) = o.bodySize => Coming(q) = <<>>
  /\ o.state = "Write" => Due(k, q, o) /\ Coming(q) = <<>>

InTurn(c, k, q, o) == ProperTo(k, q.begun) => Turn(c, k, q, o)

TurnInv == \A c \in Sync : InTurn(c, script[c], sock[c], conn[c])

\* A step of one connection.
LEMMA TurnMoves ==
  ASSUME NetInv, TurnInv, NEW c \in Conn, NEW z, NEW o, script' = script,
         sock' = [sock EXCEPT ![c] = z], conn' = [conn EXCEPT ![c] = o],
         c \in Sync => InTurn(c, script[c], z, o)
  PROVE  TurnInv'
<1>1. sock \in [Conn -> Socket] /\ conn \in [Conn -> Connection] /\ Sync \subseteq Conn
  BY NetshellAssumption DEF NetInv, Types
<1>2. ASSUME NEW d \in Sync PROVE InTurn(d, script'[d], sock'[d], conn'[d])
  <2>1. CASE d = c
    <3>1. sock'[d] = z /\ conn'[d] = o /\ script'[d] = script[c]
      BY <1>1, <2>1
    <3>2. QED
      BY <2>1, <3>1
  <2>2. CASE d # c
    <3>1. sock'[d] = sock[d] /\ conn'[d] = conn[d] /\ script'[d] = script[d]
      BY <1>1, <2>2
    <3>2. QED
      BY <3>1 DEF TurnInv
  <2>3. QED
    BY <2>1, <2>2
<1>3. QED
  BY <1>2 DEF TurnInv

\* A step that moves no connection.
LEMMA TurnStays ==
  ASSUME TurnInv, UNCHANGED <<script, sock, conn>>
  PROVE  TurnInv'
BY DEF TurnInv

\* A stretch that starts in the last request stays in it.
LEMMA OneRequest ==
  ASSUME NEW c \in Conn, NEW k \in RequestSeq, NEW b \in Nat, b <= Len(k),
         NEW s \in Value, Stretch(c, k, b, s), s # <<>>,
         NEW i \in Nat, s[1] = Unit(c, b, i)
  PROVE  /\ b \in 1 .. Len(k) /\ Len(s) + i <= Total(k, b) + 1
         /\ \A p \in DOMAIN s : s[p] = Unit(c, b, i + (p - 1))
<1> DEFINE r == s[1].r
           j == s[1].i
           z == Total(k, r) - j
<1>1. /\ r \in 1 .. b /\ j \in 1 .. Total(k, r)
      /\ \A p \in DOMAIN s : IF p - 1 <= z THEN s[p] = Unit(c, r, j + (p - 1)) ELSE s[p].r > r
  BY Begins
<1>2. r = b /\ j = i
  BY DEF Unit
<1>3. Len(s) \in Nat \ {0} /\ DOMAIN s = 1 .. Len(s) /\ Len(k) \in Nat
  BY EmptySeq, LenProperties DEF Value, RequestSeq
<1>4. b \in 1 .. Len(k)
  BY <1>1, <1>2, <1>3
<1>5. Total(k, b) \in Nat
  BY <1>4, TotalType
<1> HIDE DEF r, j
<1>6. ASSUME NEW p \in DOMAIN s PROVE p - 1 <= z
  <2>1. s[p].r \in 1 .. b
    BY DEF Stretch
  <2>2. ~(s[p].r > r)
    BY <1>2, <2>1
  <2>3. QED
    BY <1>1, <2>2
<1>7. Len(s) \in DOMAIN s
  BY <1>3
<1>8. Len(s) - 1 <= z
  BY <1>6, <1>7
<1>9. Len(s) + i <= Total(k, b) + 1
  BY <1>2, <1>3, <1>5, <1>8
<1> HIDE DEF z
<1>10. QED
  BY <1>1, <1>2, <1>4, <1>6, <1>9

\* What onRead finds, and that it is all that was to come.
LEMMA Arriving ==
  ASSUME NetInv, pc = "loop", NEW c \in Conn, In(c, "Read"), Receive(c, conn[c].header, HeaderSize)
  PROVE  \E z \in Socket :
           /\ Found(c, z, Header(c)) /\ z.out = sock[c].out
           /\ Header(c) \o Coming(z) = conn[c].header \o Coming(sock[c])
<1> DEFINE h == conn[c].header
<1>1. PICK z \in Socket : Found(c, z, Header(c))
  BY Reading
<1>2. sock \in [Conn -> Socket]
  BY DEF NetInv, Types
<1>3. sock' = [sock EXCEPT ![c] = z] /\ sock'[c] = z
  BY <1>1, <1>2 DEF Found
<1>4. h \in Value /\ Len(h) <= HeaderSize /\ HeaderSize \in Nat
  BY Here, ConnAssumption, ConnectionType DEF Rests
<1>5. Receive(c, h, HeaderSize) /\ Header(c) = Taken(c, h, HeaderSize)
  BY DEF Header
<1> HIDE DEF h
<1>6. PICK y \in Socket, x \in Value :
           /\ sock' = [sock EXCEPT ![c] = y] /\ (y.err => y.in = <<>>)
           /\ y.begun = sock[c].begun /\ y.err = sock[c].err
           /\ Taken(c, h, HeaderSize) = h \o x
           /\ h \o x \in Value /\ Len(h \o x) <= HeaderSize /\ Len(h \o x) = Len(h) + Len(x)
           /\ Coming(y) \in Value /\ x \o Coming(y) = Coming(sock[c])
           /\ (h \o x) \o Coming(y) = h \o Coming(sock[c])
  BY <1>4, <1>5, Receiving
<1>7. y = z
  BY <1>2, <1>3, <1>6
<1>8. z.out = sock[c].out
  BY <1>2, <1>3, <1>5 DEF Receive, Socket
<1>9. QED
  BY <1>1, <1>5, <1>6, <1>7, <1>8 DEF h

\* The newlines in what is sent behind a line come after the one that ends it.
LEMMA BreaksType ==
  ASSUME NEW k \in RequestSeq, NEW b \in 1 .. Len(k)
  PROVE  k[b] \in Request /\ k[b].breaks \subseteq Nat /\ k[b].need \in Nat \ {0} /\ k[b].cmd \in Cmd
<1>1. k[b] \in Request
  BY TotalType
<1>2. QED
  BY <1>1 DEF Request

\* The newline of the line is the first one.
LEMMA FirstNewline ==
  ASSUME NEW c \in Conn, NEW g \in Value, NEW b \in 1 .. Len(script[c]), script[c] \in RequestSeq,
         \A p \in DOMAIN g : g[p] = Unit(c, b, p)
  PROVE  SelectInSeq(g, Newline) =
           IF LineLen(script[c], b) <= Len(g) THEN LineLen(script[c], b) ELSE 0
<1> DEFINE h == LineLen(script[c], b)
           I == {i \in 1 .. Len(g) : Newline(g[i])}
<1>1. Len(g) \in Nat /\ DOMAIN g = 1 .. Len(g) /\ h \in Nat \ {0} /\ h = script[c][b].head + 1
  BY ValueJoin, TotalType
<1>2. ASSUME NEW i \in 1 .. Len(g)
      PROVE  /\ Newline(g[i]) => i >= h
             /\ i = h => Newline(g[i])
  <2>1. g[i].c = c /\ g[i].r = b /\ g[i].i = i
    BY <1>1 DEF Unit
  <2>2. script[c][b].breaks \subseteq Nat
    BY BreaksType
  <2>3. Newline(g[i]) <=> (i = h \/ i - h \in script[c][b].breaks)
    BY <1>1, <2>1 DEF Newline
  <2>4. QED
    BY <1>1, <2>2, <2>3
<1> HIDE DEF h
<1>3. I \in SUBSET (1 .. Len(g)) /\ SelectInSeq(g, Newline) = IF I # {} THEN Min(I) ELSE 0
  BY DEF SelectInSeq
<1>4. (\A i \in I : i \in 1 .. Len(g) /\ i >= h) /\ (h \in 1 .. Len(g) => h \in I)
  BY <1>2
<1> HIDE DEF I
<1>5. I # {} => Min(I) \in I /\ \A y \in I : Min(I) <= y
  BY <1>1, <1>3, MinIn
<1>6. CASE h <= Len(g)
  <2>1. h \in I
    BY <1>1, <1>4, <1>6
  <2> DEFINE e == Min(I)
  <2>2. e \in I /\ e <= h
    BY <1>5, <2>1
  <2> HIDE DEF e
  <2>3. e = h
    BY <1>1, <1>4, <2>2
  <2>4. QED
    BY <1>3, <1>6, <2>1, <2>3 DEF h, e
<1>7. CASE ~(h <= Len(g))
  <2>1. I = {}
    BY <1>1, <1>4, <1>7
  <2>2. QED
    BY <1>3, <1>7, <2>1 DEF h
<1>8. QED
  BY <1>6, <1>7

\* What onRead finds of a client that waits for its answers, and keeps to the protocol:
\* the last request or its first part. z is the socket then, g the buffer.
Asked(c, z, g) ==
  LET k == script[c]
      b == z.begun
  IN  /\ k \in RequestSeq /\ b \in 1 .. Len(k) /\ Proper(k[b]) /\ Owed(z) /\ g \in Value
      /\ \A p \in DOMAIN g : g[p] = Unit(c, b, p)
      /\ Len(g) + Len(Coming(z)) <= Total(k, b)
      /\ Coming(z) \in Value

\* A buffer that is not empty holds the start of the last request, and of no other.
LEMMA WhatIsAsked ==
  ASSUME NetInv, NEW c \in Conn, NEW z \in Socket, NEW g, Found(c, z, g), g # <<>>,
         ProperTo(script[c], z.begun), Unanswered(c, z, g \o Coming(z))
  PROVE  Asked(c, z, g)
<1> DEFINE k == script[c]
           b == z.begun
           w == Coming(z)
           s == g \o w
<1>1. k \in RequestSeq /\ b \in Nat /\ Len(k) \in Nat
  BY Here, ComingType, LenProperties DEF RequestSeq
<1>2. g \in Value /\ w \in Value /\ b <= Len(k) /\ Stretch(c, k, b, s)
  BY <1>1, ComingType DEF Found, Continues
<1>3. Unanswered(c, z, s)
  OBVIOUS
<1> HIDE DEF k, w, s
<1>4. /\ s \in Value /\ Len(s) = Len(g) + Len(w) /\ Len(g) \in Nat \ {0} /\ Len(w) \in Nat
      /\ DOMAIN s = 1 .. Len(s) /\ DOMAIN g = 1 .. Len(g)
  BY <1>2, ValueJoin DEF s
<1>5. \A p \in DOMAIN g : s[p] = g[p] /\ p \in DOMAIN s /\ p \in Nat
  <2>1. \A p \in 1 .. Len(g) + Len(w) : s[p] = IF p <= Len(g) THEN g[p] ELSE w[p - Len(g)]
    BY <1>2, ConcatProperties DEF s, Value
  <2>2. QED
    BY <1>4, <2>1
<1>6. s # <<>>
  BY <1>4, ValueJoin
<1>7. Owed(z) /\ s[1] = Unit(c, b, 1)
  BY <1>3, <1>6 DEF Unanswered
<1> HIDE DEF b
<1>8. /\ b \in 1 .. Len(k) /\ Len(s) + 1 <= Total(k, b) + 1
      /\ \A p \in DOMAIN s : s[p] = Unit(c, b, 1 + (p - 1))
  <2> DEFINE i == 1
  <2>1. i \in Nat /\ s[1] = Unit(c, b, i)
    BY <1>7
  <2>2. SUFFICES /\ b \in 1 .. Len(k) /\ Len(s) + i <= Total(k, b) + 1
                 /\ \A p \in DOMAIN s : s[p] = Unit(c, b, i + (p - 1))
    OBVIOUS
  <2> HIDE DEF i
  <2>3. QED
    <3>1. c \in Conn /\ k \in RequestSeq /\ b \in Nat /\ b <= Len(k) /\ s \in Value
      BY <1>1, <1>2, <1>4
    <3>2. Stretch(c, k, b, s) /\ s # <<>> /\ i \in Nat /\ s[1] = Unit(c, b, i)
      BY <1>2, <1>6, <2>1
    <3>3. QED
      BY <3>1, <3>2, OneRequest
<1>9. \A p \in DOMAIN g : g[p] = Unit(c, b, p)
  <2>1. \A p \in Nat : 1 + (p - 1) = p
    OBVIOUS
  <2>2. QED
    BY <1>5, <1>8, <2>1
<1>10. Len(g) + Len(w) <= Total(k, b)
  <2>1. Total(k, b) \in Nat
    BY <1>1, <1>8, TotalType
  <2>2. QED
    BY <1>4, <1>8, <2>1
<1>11. Proper(k[b])
  <2>1. b \in 1 .. b
    BY <1>8
  <2>2. QED
    BY <2>1 DEF ProperTo, k, b
<1>12. QED
  BY <1>1, <1>2, <1>7, <1>8, <1>9, <1>10, <1>11 DEF Asked, k, b, w

\* The line is found as soon as its newline is there, and it is the command line.
LEMMA LineAsked ==
  ASSUME NetInv, NEW c \in Conn, NEW z \in Socket, Found(c, z, Header(c)),
         Asked(c, z, Header(c))
  PROVE  LET g == Header(c)
             k == script[c]
             b == z.begun
         IN  /\ LineEnd(c) = IF LineLen(k, b) <= Len(g) THEN LineLen(k, b) ELSE 0
             /\ LineEnd(c) > 0 => Says(c) = {k[b]} /\ Ending(c) = Unit(c, b, LineLen(k, b))
                                  /\ Known(c, k[b])
<1> DEFINE g == Header(c)
           k == script[c]
           b == z.begun
           h == LineLen(k, b)
           line == SubSeq(g, 1, h)
<1>1. /\ k \in RequestSeq /\ b \in 1 .. Len(k) /\ Proper(k[b]) /\ g \in Value
      /\ \A p \in DOMAIN g : g[p] = Unit(c, b, p)
  BY DEF Asked
<1>2. LineEnd(c) = SelectInSeq(g, Newline)
  BY DEF LineEnd
<1>3. SUFFICES /\ LineEnd(c) = IF h <= Len(g) THEN h ELSE 0
               /\ LineEnd(c) > 0 => Says(c) = {k[b]} /\ Ending(c) = Unit(c, b, h) /\ Known(c, k[b])
  OBVIOUS
<1>4. LineEnd(c) = IF h <= Len(g) THEN h ELSE 0
  BY <1>1, <1>2, FirstNewline
<1>5. ASSUME LineEnd(c) > 0
      PROVE  Says(c) = {k[b]} /\ Ending(c) = Unit(c, b, h) /\ Known(c, k[b])
  <2>1. h \in Nat \ {0} /\ Len(g) \in Nat /\ Len(k) \in Nat /\ b \in Nat
    BY <1>1, TotalType, LenProperties DEF Value, RequestSeq
  <2>2. LineEnd(c) = h /\ h <= Len(g)
    BY <1>4, <1>5
  <2>3. /\ Says(c) = IF line = Line(c, Head(line).r) THEN {k[Head(line).r]} ELSE Stray
        /\ Ending(c) = g[h] /\ h \in DOMAIN g
    <3>1. DOMAIN g = 1 .. Len(g)
      BY <1>1, ValueJoin
    <3>2. QED
      BY <2>1, <2>2, <3>1 DEF Says, Ending
  <2>4. Line(c, b) = Units(c, b, 1, h)
    BY DEF Line, LineLen
  <2> HIDE DEF g, k, b, h, line
  <2>5. /\ line \in Value /\ Len(line) = h
        /\ \A p \in 1 .. h : line[p] = Unit(c, b, p)
    <3>1. g \in Seq(UnitType) /\ 1 \in Nat \ {0} /\ h \in 0 .. Len(g) /\ 1 <= h
      BY <1>1, <2>1, <2>2 DEF Value
    <3>2. /\ line \in Seq(UnitType) /\ Len(line) = IF 1 <= h THEN h - 1 + 1 ELSE 0
          /\ \A p \in 1 .. h - 1 + 1 : line[p] = g[1 + p - 1]
      BY <3>1, Part DEF line
    <3>3. h - 1 + 1 = h /\ \A p \in 1 .. h : 1 + p - 1 = p /\ p \in DOMAIN g
      <4>1. DOMAIN g = 1 .. Len(g)
        BY <1>1, ValueJoin
      <4>2. QED
        BY <2>1, <2>2, <4>1
    <3>4. QED
      BY <1>1, <3>1, <3>2, <3>3 DEF Value
  <2>6. /\ Units(c, b, 1, h) \in Value /\ Len(Units(c, b, 1, h)) = h
        /\ \A p \in 1 .. h : Units(c, b, 1, h)[p] = Unit(c, b, p)
    <3>1. 1 \in Nat \ {0} /\ h \in Nat /\ 1 <= h /\ h - 1 + 1 = h /\ \A p \in 1 .. h : 1 + p - 1 = p
      BY <2>1
    <3>2. /\ Units(c, b, 1, h) \in Value
          /\ Len(Units(c, b, 1, h)) = IF 1 <= h THEN h - 1 + 1 ELSE 0
          /\ \A p \in 1 .. h - 1 + 1 : Units(c, b, 1, h)[p] = Unit(c, b, 1 + p - 1)
      BY <2>1, <3>1, UnitsAt
    <3>3. QED
      BY <3>1, <3>2
  <2>7. line = Units(c, b, 1, h)
    <3> DEFINE u == Units(c, b, 1, h)
    <3>1. u \in Seq(UnitType) /\ Len(u) = h /\ \A p \in 1 .. h : u[p] = Unit(c, b, p)
      BY <2>6 DEF Value
    <3> HIDE DEF u
    <3>2. line = u
      BY <2>5, <3>1, SeqEqual DEF Value
    <3>3. QED
      BY <3>2 DEF u
  <2>8. Head(line).r = b
    <3>1. line # <<>> /\ line[1] = Unit(c, b, 1)
      BY <2>1, <2>5, ValueJoin
    <3>2. Head(line) = line[1]
      BY <2>5, <3>1, HeadTailProperties DEF Value
    <3>3. QED
      BY <3>1, <3>2 DEF Unit
  <2>9. Known(c, k[b])
    <3>1. k[b].ntokens = Arity(k[b].cmd)
      BY <1>1 DEF Proper
    <3>2. h > 1
      <4>1. h = k[b].head + 1 /\ k[b].head \in Nat \ {0}
        BY <1>1, TotalType DEF h, LineLen
      <4>2. QED
        BY <4>1
    <3>3. QED
      BY <2>2, <3>1, <3>2 DEF Known
  <2>10. Says(c) = {k[b]}
    BY <2>3, <2>4, <2>7, <2>8
  <2>11. Ending(c) = Unit(c, b, h)
    BY <1>1, <2>3
  <2>12. QED
    BY <2>9, <2>10, <2>11
<1>6. QED
  BY <1>4, <1>5

\* The line of a result is the one it was made with.
LEMMA ResultLine ==
  ASSUME NEW rc, NEW d, NEW x
  PROVE  /\ Result(rc, d).rc = rc /\ [Result(rc, d) EXCEPT !.out = x].rc = rc
         /\ [Result(rc, d) EXCEPT !.file = x].rc = rc
  BY DEF Result

\* Each of the results comes with a line.
Prints(R) == \A res \in R : res.rc # "keep"

\* The answers that set and its like print.
LEMMA SetPrints ==
  ASSUME NEW k, NEW v
  PROVE  /\ Prints(DoSet(k, v)) /\ Prints(Failed(k)) /\ Prints(Missed)
         /\ Prints({Result("EXISTS", db)})
<1>1. Prints(Failed(k)) /\ Prints(Missed) /\ Prints({Result("EXISTS", db)})
  BY ResultLine DEF Prints, Failed, Missed
<1>2. Prints({Result("STORED", Bind(d, k, v)) : d \in Room})
  BY ResultLine DEF Prints
<1>3. QED
  BY <1>1, <1>2 DEF Prints, DoSet

\* A call that stores a data block has its line printed.
LEMMA StorePrints ==
  ASSUME NEW q, q.cmd \in Storing, NEW block, NEW res \in DoStore(q, block)
  PROVE  res.rc # "keep"
<1> DEFINE k == q.key
           v == Front(block)
           pv == v \o db[k]
           av == db[k] \o v
<1>1. \/ res \in DoSet(k, v) \/ res \in DoAdd(k, v) \/ res \in DoReplace(k, v)
      \/ res \in DoPrepend(k, v) \/ res \in DoAppend(k, v)
  BY DEF DoStore, Storing
<1>2. /\ DoPrepend(k, v) = (IF k \in Held THEN DoSet(k, pv) ELSE Missed)
      /\ DoAppend(k, v) = (IF k \in Held THEN DoSet(k, av) ELSE Missed)
      /\ DoAdd(k, v) = (IF k \in Held THEN {Result("EXISTS", db)} ELSE DoSet(k, v))
      /\ DoReplace(k, v) = (IF k \in Held THEN DoSet(k, v) ELSE Missed)
  BY DEF DoPrepend, DoAppend, DoAdd, DoReplace
<1> HIDE DEF k, v, pv, av
<1>3. /\ Prints(DoSet(k, v)) /\ Prints(DoSet(k, pv)) /\ Prints(DoSet(k, av)) /\ Prints(Missed)
      /\ Prints({Result("EXISTS", db)})
  BY SetPrints
<1>4. QED
  BY <1>1, <1>2, <1>3 DEF Prints

\* So has every other call, but that of stats.
LEMMA CommandPrints ==
  ASSUME NEW q, q.cmd \in Cmd \ (Storing \cup {"quit"}), NEW u, NEW res \in Do(q, u)
  PROVE  res.rc = "keep" => q.cmd = "stats"
<1> DEFINE k == q.key
           v == <<Unit(u.c, u.r, 0)>>
<1>1. q.cmd \in {"get", "incr", "decr", "delete", "stats", "dump", "load"}
  BY DEF Cmd
<1>2. SUFFICES ASSUME q.cmd # "stats" PROVE res.rc # "keep"
  OBVIOUS
<1>3. \/ res \in DoGet(k) \/ res \in DoArithmetic(k, v) \/ res \in DoDelete(k)
      \/ res \in DoDump \/ res \in DoLoad
  <2> HIDE DEF v
  <2>1. Do(q, u) = CASE q.cmd = "get"    -> DoGet(q.key)
                     [] q.cmd = "incr"   -> DoArithmetic(q.key, v)
                     [] q.cmd = "decr"   -> DoArithmetic(q.key, v)
                     [] q.cmd = "delete" -> DoDelete(q.key)
                     [] q.cmd = "stats"  -> DoStats
                     [] q.cmd = "dump"   -> DoDump
                     [] q.cmd = "load"   -> DoLoad
    BY DEF Do, v
  <2>2. QED
    BY <1>1, <1>2, <2>1
<1> HIDE DEF k, v
<1>4. Prints(DoGet(k))
  <2> DEFINE x == [Result("VALUE", db) EXCEPT !.out = db[k]]
             y == Result("SERVER_ERROR", db)
             w == Result("END", db)
  <2>1. x.rc = "VALUE" /\ y.rc = "SERVER_ERROR" /\ w.rc = "END"
    BY ResultLine
  <2>2. DoGet(k) = IF k \in Held THEN {x, y} ELSE {w}
    BY DEF DoGet
  <2> HIDE DEF x, y, w
  <2>3. QED
    BY <2>1, <2>2 DEF Prints
<1>5. Prints(DoArithmetic(k, v))
  <2>1. Prints({Result("NUMBER", Bind(d, k, v)) : d \in Room}) /\ Prints({Result("NUMBER", Without(k))})
    BY ResultLine DEF Prints
  <2>2. QED
    BY <2>1, SetPrints DEF Prints, DoArithmetic
<1>6. Prints(DoDelete(k))
  BY ResultLine, SetPrints DEF Prints, DoDelete
<1>7. Prints(DoDump) /\ Prints(DoLoad)
  <2>1. ASSUME NEW x \in DoDump PROVE x.rc # "keep"
    <3>1. CASE \E f : x = [Result("DUMPED", db) EXCEPT !.file = f]
      <4>1. PICK f : x = [Result("DUMPED", db) EXCEPT !.file = f]
        BY <3>1
      <4>2. x.rc = "DUMPED"
        BY <4>1, ResultLine
      <4>3. QED
        BY <4>2
    <3>2. CASE x = Result("SERVER_ERROR", db)
      BY <3>2 DEF Result
    <3>3. QED
      BY <2>1, <3>1, <3>2 DEF DoDump
  <2>2. ASSUME NEW x \in DoLoad PROVE x.rc # "keep"
    <3>1. \E d : x = Result("LOADED", d) \/ x = Result("SERVER_ERROR", d)
      BY <2>2 DEF DoLoad
    <3>2. QED
      BY <3>1 DEF Result
  <2>3. QED
    BY <2>1, <2>2 DEF Prints
<1>8. QED
  BY <1>3, <1>4, <1>5, <1>6, <1>7 DEF Prints

\* A connection that is given up owes nothing more.
LEMMA CloseTurn ==
  ASSUME NEW c, NEW k, NEW z, NEW p, Answers(k, z), p.state \in {"Close", "Gone"}
  PROVE  Turn(c, k, z, p)
  BY DEF Turn

\* The answer to the last request is printed.
LEMMA PrintTurn ==
  ASSUME NEW c, NEW k, NEW z \in Socket, Answers(k, z), Owed(z), Coming(z) = <<>>,
         NEW o \in Connection, o.resBody = <<>>, o.resHeader.to <= Len(z.out),
         NEW res, res.rc = "keep" => k[z.begun].cmd = "stats",
         NEW p \in Prepared(Printed(o, z.begun, res)),
         NEW n, n.state = p.state, n.resFor = p.resFor, n.resHeader = p.resHeader,
         n.resBody = p.resBody
  PROVE  Turn(c, k, z, n)
<1> DEFINE b == z.begun
           a == Printed(o, b, res)
<1>1. b \in Nat /\ Len(z.out) \in Nat /\ b = Len(z.out) + 1
  BY LenProperties DEF Socket, Owed
<1>2. o.resHeader.to \in Nat
  BY ConnectionType
<1>3. /\ a.resFor = b
      /\ a.resBody = IF res.rc \in {"VALUE", "keep"} THEN res.out ELSE o.resBody
      /\ a.resHeader = IF res.rc = "keep" THEN o.resHeader ELSE [to |-> b, rc |-> res.rc]
  BY DEF Printed, Connection
<1> HIDE DEF a, b
<1>4. /\ p.resFor = a.resFor /\ p.resBody = a.resBody /\ p.resHeader = a.resHeader
      /\ p.state \in {"Write", "Close"}
  <2>1. p = [a EXCEPT !.state = "Write", !.want = "out"] \/ p = [a EXCEPT !.state = "Close"]
    BY DEF Prepared, a, b
  <2>2. "state" \in DOMAIN a /\ "resFor" \in DOMAIN a /\ "resBody" \in DOMAIN a
        /\ "resHeader" \in DOMAIN a
    BY DEF a, Printed, Connection
  <2>3. QED
    BY <2>1, <2>2
<1>5. n.resHeader.to = b \/ (k[b].cmd = "stats" /\ n.resHeader.to < b)
  <2>1. CASE res.rc = "keep"
    BY <1>1, <1>2, <1>3, <1>4, <2>1 DEF b
  <2>2. CASE res.rc # "keep"
    BY <1>3, <1>4, <2>2
  <2>3. QED
    BY <2>1, <2>2
<1>6. n.resBody # <<>> => n.resHeader.rc = "VALUE" \/ k[b].cmd = "stats"
  <2>1. CASE res.rc = "keep"
    BY <2>1 DEF b
  <2>2. CASE res.rc # "keep"
    BY <1>3, <1>4, <2>2
  <2>3. QED
    BY <2>1, <2>2
<1>7. Due(k, z, n)
  BY <1>3, <1>4, <1>5, <1>6 DEF Due, b
<1>8. QED
  BY <1>4, <1>7 DEF Turn

-------------------------------------------------------------------------------
(***************************************************************************)
(* The handlers answer in turn.                                            *)
(***************************************************************************)
\* What onRead finds in the buffer and the socket of a client that waits.
Expected(c, z, g) ==
  /\ Answers(script[c], z) /\ Unanswered(c, z, g \o Coming(z))
  /\ conn[c].resHeader.to <= Len(z.out)
  /\ g # <<>> => Asked(c, z, g)

\* What onRead finds of a client that waits is as expected.
LEMMA ReadTurn ==
  ASSUME NetInv, TurnInv, pc = "loop", NEW c \in Conn, In(c, "Read"),
         Receive(c, conn[c].header, HeaderSize)
  PROVE  \E z \in Socket :
           /\ Found(c, z, Header(c))
           /\ c \in Sync /\ ProperTo(script[c], z.begun) => Expected(c, z, Header(c))
<1> DEFINE g == Header(c)
           q == sock[c]
<1>1. PICK z \in Socket : /\ Found(c, z, g) /\ z.out = q.out
                          /\ g \o Coming(z) = conn[c].header \o Coming(q)
  BY Arriving
<1>2. z.begun = q.begun
  BY <1>1 DEF Found
<1>3. ASSUME c \in Sync, ProperTo(script[c], z.begun) PROVE Expected(c, z, g)
  <2>1. Turn(c, script[c], q, conn[c]) /\ conn[c].state = "Read"
    BY <1>2, <1>3 DEF TurnInv, InTurn, In
  <2>2. /\ Answers(script[c], q) /\ Unanswered(c, q, conn[c].header \o Coming(q))
        /\ conn[c].resHeader.to <= Len(q.out)
    BY <2>1 DEF Turn
  <2>3. /\ Answers(script[c], z) /\ Unanswered(c, z, g \o Coming(z))
        /\ conn[c].resHeader.to <= Len(z.out)
    BY <1>1, <1>2, <2>2 DEF Answers, Unanswered, Owed
  <2> HIDE DEF g, q
  <2>4. g # <<>> => Asked(c, z, g)
    BY <1>1, <1>3, <2>3, WhatIsAsked
  <2>5. QED
    BY <2>3, <2>4 DEF Expected
<1>4. QED
  BY <1>1, <1>3

\* The connection is given up in Read.
LEMMA ReadHangupTurn ==
  ASSUME NetInv, TurnInv, pc = "loop", NEW c \in Conn, ReadHangup(c)
  PROVE  TurnInv'
<1>1. PICK z \in Socket :
        /\ Found(c, z, Header(c))
        /\ c \in Sync /\ ProperTo(script[c], z.begun) => Expected(c, z, Header(c))
  BY ReadTurn DEF ReadHangup
<1> DEFINE o == [conn[c] EXCEPT !.header = Header(c), !.state = "Close"]
<1>2. /\ script' = script /\ sock' = [sock EXCEPT ![c] = z] /\ conn' = [conn EXCEPT ![c] = o]
  BY <1>1 DEF ReadHangup, Become, Found
<1>3. o.state = "Close"
  BY Here DEF Connection
<1> HIDE DEF o
<1>4. c \in Sync => InTurn(c, script[c], z, o)
  BY <1>1, <1>3, CloseTurn DEF InTurn, Expected
<1>5. QED
  BY <1>2, <1>4, TurnMoves

\* The buffer cannot be full without the newline of the command line in it.
LEMMA ReadNoLineTurn ==
  ASSUME NetInv, TurnInv, pc = "loop", NEW c \in Conn, ReadNoLine(c)
  PROVE  TurnInv'
<1> DEFINE g == Header(c)
           k == script[c]
<1>1. PICK z \in Socket :
        Found(c, z, g) /\ (c \in Sync /\ ProperTo(k, z.begun) => Expected(c, z, g))
  BY ReadTurn DEF ReadNoLine, Reads
<1>2. /\ script' = script /\ sock' = [sock EXCEPT ![c] = z] /\ conn[c] \in Connection
      /\ conn[c].state = "Read" /\ LineEnd(c) = 0
  BY <1>1, Here DEF ReadNoLine, Reads, Found, In
<1>3. CASE Len(g) = HeaderSize
  <2>1. PICK o : conn' = [conn EXCEPT ![c] = o]
    BY <1>3 DEF ReadNoLine, Become
  <2>2. ASSUME c \in Sync, ProperTo(k, z.begun) PROVE FALSE
    <3>1. HeaderSize \in Nat \ {0} /\ Expected(c, z, g)
      BY <1>1, <2>2, ConnAssumption
    <3>2. Asked(c, z, g)
      BY <1>3, <3>1, ValueJoin DEF Expected
    <3>3. LineEnd(c) = IF LineLen(k, z.begun) <= Len(g) THEN LineLen(k, z.begun) ELSE 0
      BY <1>1, <3>2, LineAsked
    <3>4. /\ LineLen(k, z.begun) \in Nat \ {0} /\ LineLen(k, z.begun) = k[z.begun].head + 1
          /\ k[z.begun].head \in Nat /\ k[z.begun].head < HeaderSize
      BY <3>2, TotalType DEF Asked, Proper
    <3>5. LineLen(k, z.begun) <= Len(g)
      BY <1>3, <3>1, <3>4
    <3>6. QED
      BY <1>2, <3>3, <3>4, <3>5
  <2>3. c \in Sync => InTurn(c, k, z, o)
    BY <2>2 DEF InTurn
  <2>4. QED
    BY <1>2, <2>1, <2>3, TurnMoves
<1>4. CASE Len(g) # HeaderSize
  <2> DEFINE o == [conn[c] EXCEPT !.header = g]
  <2>1. conn' = [conn EXCEPT ![c] = o]
    BY <1>4 DEF ReadNoLine, Become
  <2>2. o.header = g /\ o.state = "Read" /\ o.resHeader = conn[c].resHeader
    BY <1>2 DEF Connection
  <2> HIDE DEF o, g
  <2>3. c \in Sync => InTurn(c, k, z, o)
    BY <1>1, <2>2 DEF InTurn, Expected, Turn
  <2>4. QED
    BY <1>2, <2>1, <2>3, TurnMoves
<1>5. QED
  BY <1>3, <1>4

\* A line that is found is the command line of the last request.
LEMMA LineTurn ==
  ASSUME NetInv, NEW c \in Conn, NEW z \in Socket, Found(c, z, Header(c)),
         Expected(c, z, Header(c)), LineEnd(c) > 0
  PROVE  /\ Asked(c, z, Header(c)) /\ Says(c) = {script[c][z.begun]}
         /\ Ending(c) = Unit(c, z.begun, LineLen(script[c], z.begun))
         /\ Known(c, script[c][z.begun])
         /\ LineEnd(c) = LineLen(script[c], z.begun) /\ LineEnd(c) <= Len(Header(c))
<1>1. Header(c) # <<>>
  <2>1. ASSUME Header(c) = <<>> PROVE FALSE
    <3>1. {i \in 1 .. Len(Header(c)) : Newline(Header(c)[i])} = {}
      BY <2>1
    <3>2. LineEnd(c) = 0
      BY <3>1 DEF LineEnd, SelectInSeq
    <3>3. QED
      BY <3>2
  <2>2. QED
    BY <2>1
<1>2. Asked(c, z, Header(c))
  BY <1>1 DEF Expected
<1>3. /\ LineEnd(c) = IF LineLen(script[c], z.begun) <= Len(Header(c))
                      THEN LineLen(script[c], z.begun) ELSE 0
      /\ LineEnd(c) > 0 => /\ Says(c) = {script[c][z.begun]}
                           /\ Ending(c) = Unit(c, z.begun, LineLen(script[c], z.begun))
                           /\ Known(c, script[c][z.begun])
  BY <1>2, LineAsked
<1>4. QED
  BY <1>2, <1>3

\* A data block that came whole with its line was all there was.
LEMMA CarriedWhole ==
  ASSUME NetInv, NEW c \in Conn, NEW z \in Socket, Found(c, z, Header(c)),
         Asked(c, z, Header(c)), LineEnd(c) = LineLen(script[c], z.begun),
         LineEnd(c) <= Len(Header(c)), NEW need \in Nat \ {0},
         need = BlockLen(script[c], z.begun), Len(Carried(c, need)) = need
  PROVE  Coming(z) = <<>>
<1> DEFINE g == Header(c)
           e == LineEnd(c)
           x == SubSeq(g, e + 1, Len(g))
<1>1. /\ g \in Seq(UnitType) /\ Coming(z) \in Value /\ conn[c].body = <<>>
      /\ Len(g) + Len(Coming(z)) <= e + need
  BY DEF Asked, Found, Total, Value
<1>2. Len(g) \in Nat /\ e \in Nat /\ e <= Len(g) /\ Len(Coming(z)) \in Nat
  <2>1. e \in Nat
    BY TotalType DEF Asked
  <2>2. QED
    BY <1>1, <2>1, LenProperties DEF Value
<1>3. x \in Seq(UnitType) /\ Len(x) = IF e < Len(g) THEN Len(g) - e ELSE 0
  <2> HIDE DEF g, e
  <2>1. QED
    BY <1>1, <1>2, TakeDrop
<1>4. Carried(c, need) = IF x = <<>> THEN conn[c].body ELSE Prefix(x, need)
  BY DEF Carried
<1>5. Len(Prefix(x, need)) = IF need < Len(x) THEN need ELSE Len(x)
  <2> HIDE DEF x
  <2>1. QED
    BY <1>3, TakeDrop
<1> HIDE DEF g, e, x
<1>6. Carried(c, need) = Prefix(x, need)
  <2>1. Len(<<>>) = 0
    BY EmptySeq
  <2>2. QED
    BY <1>1, <1>4, <2>1
<1>7. need <= Len(g) - e
  BY <1>2, <1>3, <1>5, <1>6
<1>8. Len(Coming(z)) = 0
  BY <1>1, <1>2, <1>7
<1>9. QED
  BY <1>1, <1>8, EmptySeq DEF Value

\* The block of the last request is waited for, and nothing is to come after it.
LEMMA ReadStoringTurn ==
  ASSUME NetInv, TurnInv, pc = "loop", NEW c \in Conn, ReadStoring(c)
  PROVE  TurnInv'
<1> DEFINE k == script[c]
<1>1. PICK z \in Socket :
        Found(c, z, Header(c)) /\ (c \in Sync /\ ProperTo(k, z.begun) => Expected(c, z, Header(c)))
  BY ReadTurn DEF ReadStoring, Reads
<1>2. PICK q \in Says(c) :
        /\ q.cmd \in Storing
        /\ conn' = [conn EXCEPT ![c] =
             [conn[c] EXCEPT !.header = Header(c), !.req = q, !.line = Ending(c),
                             !.bodySize = q.need, !.body = Carried(c, q.need),
                             !.state = "NRead"]]
  BY DEF ReadStoring, Become
<1> DEFINE need == q.need
           block == Carried(c, need)
           o == [conn[c] EXCEPT !.header = Header(c), !.req = q, !.line = Ending(c),
                                !.bodySize = need, !.body = block, !.state = "NRead"]
<1>3. /\ script' = script /\ sock' = [sock EXCEPT ![c] = z] /\ conn' = [conn EXCEPT ![c] = o]
      /\ LineEnd(c) > 0
  BY <1>1, <1>2 DEF ReadStoring, Reads, Found
<1>4. /\ o.state = "NRead" /\ o.req = q /\ o.line = Ending(c) /\ o.bodySize = need /\ o.body = block
      /\ o.resHeader = conn[c].resHeader
  BY Here DEF Connection
<1>5. ASSUME c \in Sync, ProperTo(k, z.begun) PROVE Turn(c, k, z, o)
  <2>1. Expected(c, z, Header(c))
    BY <1>1, <1>5
  <2>2. /\ Asked(c, z, Header(c)) /\ Says(c) = {k[z.begun]}
        /\ Ending(c) = Unit(c, z.begun, LineLen(k, z.begun))
        /\ LineEnd(c) = LineLen(k, z.begun) /\ LineEnd(c) <= Len(Header(c))
    BY <1>1, <1>3, <2>1, LineTurn
  <2>3. Answers(k, z) /\ conn[c].resHeader.to <= Len(z.out)
    BY <2>1 DEF Expected
  <2>4. q = k[z.begun]
    BY <2>2
  <2>5. Owed(z) /\ need \in Nat \ {0} /\ need = BlockLen(k, z.begun)
    <3>1. Owed(z) /\ Proper(k[z.begun]) /\ z.begun \in 1 .. Len(k) /\ k \in RequestSeq
      BY <2>2 DEF Asked
    <3>2. k[z.begun].need \in Nat \ {0}
      BY <3>1, BreaksType
    <3>3. QED
      BY <1>2, <2>4, <3>1, <3>2 DEF Proper, BlockLen
  <2> HIDE DEF o, block, need
  <2>6. Len(block) = need => Coming(z) = <<>>
    <3>1. block = Carried(c, need)
      BY DEF block
    <3>2. QED
      BY <1>1, <2>2, <2>5, <3>1, CarriedWhole
  <2>7. OfLast(c, k, z.begun, o)
    BY <1>4, <2>2, <2>4 DEF OfLast
  <2>8. QED
    BY <1>4, <2>3, <2>5, <2>6, <2>7 DEF Turn
<1> HIDE DEF o
<1>6. c \in Sync => InTurn(c, script[c], z, o)
  BY <1>5 DEF InTurn
<1>7. QED
  BY <1>3, <1>6, TurnMoves

\* The last request is executed and its answer printed.
LEMMA ReadCommandTurn ==
  ASSUME NetInv, TurnInv, pc = "loop", NEW c \in Conn, ReadCommand(c)
  PROVE  TurnInv'
<1> DEFINE k == script[c]
           g == Header(c)
           u == Ending(c)
<1>1. PICK z \in Socket :
        Found(c, z, g) /\ (c \in Sync /\ ProperTo(k, z.begun) => Expected(c, z, g))
  BY ReadTurn DEF ReadCommand, Reads
<1>2. /\ script' = script /\ sock' = [sock EXCEPT ![c] = z] /\ LineEnd(c) > 0
      /\ conn[c] \in Connection /\ conn[c].state = "Read" /\ conn[c].resBody = <<>>
  BY <1>1, Here DEF ReadCommand, Reads, Found, In, Rests
<1>3. PICK q \in Says(c) :
       \/ q.cmd = "quit" /\ Become(c, [conn[c] EXCEPT !.header = g, !.state = "Close"])
       \/ /\ q.cmd \notin Storing \cup {"quit"}
          /\ \E res \in Do(q, u) :
               \E o \in Prepared(Printed(conn[c], u.r, res)) : Become(c, o)
       \/ /\ ~Known(c, q)
          /\ \E o \in Prepared(Printed(conn[c], u.r, Result("CLIENT_ERROR", db))) : Become(c, o)
  BY DEF ReadCommand
<1>4. ASSUME c \in Sync, ProperTo(k, z.begun)
      PROVE  /\ q = k[z.begun] /\ Known(c, q) /\ q.cmd \in Cmd /\ u.r = z.begun
             /\ Answers(k, z) /\ Owed(z) /\ conn[c].resHeader.to <= Len(z.out)
             /\ q.cmd \notin Storing => Coming(z) = <<>>
  <2>1. Expected(c, z, g)
    BY <1>1, <1>4
  <2>2. /\ Asked(c, z, g) /\ Says(c) = {k[z.begun]} /\ u = Unit(c, z.begun, LineLen(k, z.begun))
        /\ Known(c, k[z.begun])
        /\ LineEnd(c) = LineLen(k, z.begun) /\ LineEnd(c) <= Len(g)
    BY <1>1, <1>2, <2>1, LineTurn
  <2> DEFINE r == z.begun
  <2>3. /\ k \in RequestSeq /\ r \in 1 .. Len(k) /\ Proper(k[r]) /\ Owed(z) /\ g \in Value
        /\ Len(g) + Len(Coming(z)) <= Total(k, r) /\ Coming(z) \in Value
    BY <2>2 DEF Asked
  <2>4. q = k[r]
    BY <2>2
  <2>5. /\ q.cmd \in Cmd /\ Total(k, r) = LineLen(k, r) + k[r].body /\ k[r].body \in Nat
        /\ LineLen(k, r) \in Nat
    BY <2>3, <2>4, TotalType, BreaksType
  <2>6. ASSUME q.cmd \notin Storing PROVE Coming(z) = <<>>
    <3>1. k[r].body = 0
      BY <2>3, <2>4, <2>6 DEF Proper
    <3>2. Len(g) \in Nat /\ Len(Coming(z)) \in Nat
      BY <2>3, LenProperties DEF Value
    <3>3. LineLen(k, r) <= Len(g)
      BY <2>2
    <3>4. Len(Coming(z)) = 0
      <4> HIDE DEF r, k, g
      <4>1. QED
        BY <2>3, <2>5, <3>1, <3>2, <3>3
    <3>5. QED
      BY <2>3, <3>4, EmptySeq DEF Value
  <2>7. u.r = z.begun
    BY <2>2 DEF Unit
  <2>8. QED
    BY <2>1, <2>2, <2>3, <2>4, <2>5, <2>6, <2>7 DEF Expected
<1>5. CASE Become(c, [conn[c] EXCEPT !.header = g, !.state = "Close"])
  <2> DEFINE o == [conn[c] EXCEPT !.header = g, !.state = "Close"]
  <2>1. conn' = [conn EXCEPT ![c] = o]
    BY <1>5 DEF Become
  <2>2. o.state = "Close"
    BY <1>2 DEF Connection
  <2> HIDE DEF o
  <2>3. c \in Sync => InTurn(c, k, z, o)
    BY <1>4, <2>2, CloseTurn DEF InTurn
  <2>4. QED
    BY <1>2, <2>1, <2>3, TurnMoves
<1>6. ASSUME q.cmd \notin Storing \cup {"quit"}, NEW res \in Do(q, u),
             NEW o \in Prepared(Printed(conn[c], u.r, res)), Become(c, o)
      PROVE  TurnInv'
  <2>1. conn' = [conn EXCEPT ![c] = o]
    BY <1>6 DEF Become
  <2>2. ASSUME c \in Sync, ProperTo(k, z.begun) PROVE Turn(c, k, z, o)
    <3>1. /\ q = k[z.begun] /\ q.cmd \in Cmd \ (Storing \cup {"quit"}) /\ u.r = z.begun
          /\ Answers(k, z) /\ Owed(z) /\ Coming(z) = <<>>
          /\ conn[c].resHeader.to <= Len(z.out)
      BY <1>4, <1>6, <2>2
    <3>2. res.rc = "keep" => q.cmd = "stats"
      <4> HIDE DEF u
      <4>1. QED
        BY <3>1, CommandPrints
    <3> HIDE DEF u, k
    <3>3. /\ res.rc = "keep" => k[z.begun].cmd = "stats"
          /\ o \in Prepared(Printed(conn[c], z.begun, res))
      BY <3>1, <3>2
    <3>4. QED
      BY <1>2, <3>1, <3>3, PrintTurn
  <2>3. c \in Sync => InTurn(c, k, z, o)
    BY <2>2 DEF InTurn
  <2>4. QED
    BY <1>2, <2>1, <2>3, TurnMoves
<1>7. ASSUME ~Known(c, q), NEW o, Become(c, o)
      PROVE  TurnInv'
  <2>1. conn' = [conn EXCEPT ![c] = o]
    BY <1>7 DEF Become
  <2>2. c \in Sync => InTurn(c, k, z, o)
    BY <1>4, <1>7 DEF InTurn
  <2>3. QED
    BY <1>2, <2>1, <2>2, TurnMoves
<1>8. QED
  <2> HIDE DEF u, g
  <2>1. QED
    BY <1>3, <1>5, <1>6, <1>7

\* What onNRead finds, and that it is all that was to come.
LEMMA ArrivingBlock ==
  ASSUME NetInv, pc = "loop", NEW c \in Conn, In(c, "NRead"),
         Receive(c, conn[c].body, conn[c].bodySize)
  PROVE  \E z \in Socket :
           /\ FoundBlock(c, z, Block(c)) /\ z.out = sock[c].out /\ z.err = sock[c].err
           /\ \E x \in Value : /\ x \o Coming(z) = Coming(sock[c])
                               /\ Len(Block(c)) = Len(conn[c].body) + Len(x)
<1> DEFINE h == conn[c].body
           room == conn[c].bodySize
<1>1. PICK z \in Socket : FoundBlock(c, z, Block(c))
  BY ReadingBlock
<1>2. sock \in [Conn -> Socket]
  BY DEF NetInv, Types
<1>3. sock' = [sock EXCEPT ![c] = z] /\ sock'[c] = z
  BY <1>1, <1>2 DEF FoundBlock
<1>4. h \in Value /\ Len(h) <= room /\ room \in Nat
  BY Here, ConnectionType DEF Rests
<1>5. Receive(c, h, room) /\ Block(c) = Taken(c, h, room)
  BY DEF Block
<1> HIDE DEF h, room
<1>6. PICK y \in Socket, x \in Value :
           /\ sock' = [sock EXCEPT ![c] = y] /\ (y.err => y.in = <<>>)
           /\ y.begun = sock[c].begun /\ y.err = sock[c].err
           /\ Taken(c, h, room) = h \o x
           /\ h \o x \in Value /\ Len(h \o x) <= room /\ Len(h \o x) = Len(h) + Len(x)
           /\ Coming(y) \in Value /\ x \o Coming(y) = Coming(sock[c])
           /\ (h \o x) \o Coming(y) = h \o Coming(sock[c])
  BY <1>4, <1>5, Receiving
<1>7. y = z
  BY <1>2, <1>3, <1>6
<1>8. z.out = sock[c].out
  BY <1>2, <1>3, <1>5 DEF Receive, Socket
<1>9. QED
  BY <1>1, <1>5, <1>6, <1>7, <1>8 DEF h

\* What onNRead finds of a client that waits: the block of the last request, and
\* nothing after it.
ExpectedBlock(c, z, g) ==
  /\ Answers(script[c], z) /\ Owed(z) /\ OfLast(c, script[c], z.begun, conn[c])
  /\ conn[c].resHeader.to <= Len(z.out)
  /\ Len(g) = conn[c].bodySize => Coming(z) = <<>>

\* When the block is whole all of the last request has been read.
LEMMA BlockIsLast ==
  ASSUME NetInv, pc = "loop", NEW c \in Conn, conn[c].state = "NRead",
         OfLast(c, script[c], sock[c].begun, conn[c]),
         sock[c].begun # 0, Proper(script[c][sock[c].begun]),
         Len(conn[c].body) = conn[c].bodySize => Coming(sock[c]) = <<>>,
         NEW x \in Value, NEW w \in Value, x \o w = Coming(sock[c]),
         Len(conn[c].body) + Len(x) = conn[c].bodySize
  PROVE  w = <<>>
<1> DEFINE q == sock[c]
           s == Coming(q)
           k == script[c]
           b == q.begun
           h == conn[c].body
           room == conn[c].bodySize
           u == conn[c].line
           t == (<<u>> \o h) \o s
           i == LineLen(k, b)
<1>1. /\ Within(c, k, q, conn[c], ran[c]) /\ b \in 0 .. Len(k)
  BY Here DEF Link
<1>2. /\ k \in RequestSeq /\ b \in Nat /\ s \in Value /\ h \in Value /\ Len(h) \in Nat
      /\ Len(k) \in Nat /\ u \in UnitType /\ room \in Nat
  BY Here, ComingType, ConnectionType, LenProperties DEF Value, RequestSeq
<1>3. b \in 1 .. Len(k) /\ b <= Len(k)
  BY <1>1, <1>2
<1>4. room = BlockLen(k, b)
  BY <1>1 DEF Within, OfLast, Proper, BlockLen
<1>5. Len(s) = Len(x) + Len(w) /\ Len(x) \in Nat /\ Len(w) \in Nat
  BY ValueJoin
<1>6. Len(h) + Len(x) = room /\ (Len(h) = room => s = <<>>) /\ u = Unit(c, b, i)
  BY DEF OfLast
<1>7. Len(h) < room => Stretch(c, k, b, t)
  BY <1>1 DEF Within, Blocked, Continues
<1>8. t \in Value /\ Len(t) = Len(h) + 1 + Len(s) /\ t[1] = u
  <2> DEFINE a == <<u>> \o h
  <2>1. a \in Value /\ Len(a) = Len(h) + 1 /\ a[1] = u
    BY <1>2, InFront
  <2>2. t = a \o s
    OBVIOUS
  <2> HIDE DEF a, t, s, h, u
  <2>3. t \in Value /\ Len(t) = Len(a) + Len(s)
    BY <1>2, <2>1, <2>2, ValueJoin
  <2>4. Len(s) \in Nat /\ Len(a) \in Nat
    BY <1>2, <2>1, ValueJoin
  <2>5. t[1] = a[1]
    <3>1. \A p \in 1 .. Len(a) + Len(s) : (a \o s)[p] = IF p <= Len(a) THEN a[p] ELSE s[p - Len(a)]
      <4>1. a \in Seq(UnitType) /\ s \in Seq(UnitType)
        BY <1>2, <2>1 DEF Value
      <4>2. QED
        BY <4>1, ConcatProperties
    <3> DEFINE A == Len(a)
               S == Len(s)
    <3>2. A \in Nat /\ S \in Nat /\ A = Len(h) + 1 /\ Len(h) \in Nat
      BY <1>2, <2>1, <2>4
    <3> HIDE DEF A, S
    <3>3. 1 \in 1 .. A + S /\ 1 <= A
      BY <3>2
    <3>4. QED
      BY <2>2, <3>1, <3>3 DEF A, S
  <2>6. QED
    BY <2>1, <2>3, <2>5
<1>9. Total(k, b) = i + room /\ i \in Nat
  BY <1>2, <1>3, <1>4, TotalType
<1> HIDE DEF q, s, k, b, h, room, u, t, i
<1>10. Len(w) = 0
  <2>1. CASE Len(h) = room
    <3> DEFINE X == Len(x)
               W == Len(w)
    <3>1. X + W = 0 /\ X \in Nat /\ W \in Nat
      BY <1>5, <1>6, <2>1, ValueJoin
    <3> HIDE DEF X, W
    <3>2. W = 0
      BY <3>1
    <3>3. QED
      BY <3>2 DEF W
  <2>2. CASE Len(h) < room
    <3>1. t # <<>>
      <4> DEFINE H == Len(h)
                 S == Len(s)
      <4>1. H \in Nat /\ S \in Nat /\ Len(t) = H + 1 + S
        BY <1>2, <1>8, ValueJoin
      <4> HIDE DEF H, S
      <4>2. Len(t) # 0
        BY <4>1
      <4>3. QED
        BY <1>8, <4>2, ValueJoin
    <3>2. Stretch(c, k, b, t) /\ t[1] = Unit(c, b, i)
      BY <1>6, <1>7, <1>8, <2>2
    <3>3. Len(t) + i <= Total(k, b) + 1
      BY <1>2, <1>3, <1>8, <1>9, <3>1, <3>2, OneRequest
    <3>4. QED
      BY <1>2, <1>5, <1>6, <1>8, <1>9, <3>3
  <2>3. QED
    BY <1>2, <1>5, <1>6, <2>1, <2>2
<1>11. QED
  BY <1>10, ValueJoin

\* What onNRead finds of a client that waits is as expected.
LEMMA BlockTurn ==
  ASSUME NetInv, TurnInv, pc = "loop", NEW c \in Conn, In(c, "NRead"),
         Receive(c, conn[c].body, conn[c].bodySize)
  PROVE  \E z \in Socket :
           /\ FoundBlock(c, z, Block(c))
           /\ c \in Sync /\ ProperTo(script[c], z.begun) => ExpectedBlock(c, z, Block(c))
<1> DEFINE q == sock[c]
           g == Block(c)
<1>1. PICK z \in Socket :
        /\ FoundBlock(c, z, g) /\ z.out = q.out /\ z.err = q.err
        /\ \E x \in Value : x \o Coming(z) = Coming(q) /\ Len(g) = Len(conn[c].body) + Len(x)
  BY ArrivingBlock
<1>2. PICK x \in Value : x \o Coming(z) = Coming(q) /\ Len(g) = Len(conn[c].body) + Len(x)
  BY <1>1
<1>3. z.begun = q.begun /\ Coming(z) \in Value /\ z.begun \in Nat
  BY <1>1, ComingType DEF FoundBlock
<1>4. ASSUME c \in Sync, ProperTo(script[c], z.begun) PROVE ExpectedBlock(c, z, g)
  <2>1. Turn(c, script[c], q, conn[c]) /\ conn[c].state = "NRead"
    BY <1>3, <1>4 DEF TurnInv, InTurn, In
  <2>2. /\ Answers(script[c], q) /\ Owed(q) /\ OfLast(c, script[c], q.begun, conn[c])
        /\ conn[c].resHeader.to <= Len(q.out)
        /\ Len(conn[c].body) = conn[c].bodySize => Coming(q) = <<>>
    BY <2>1 DEF Turn
  <2>3. /\ Answers(script[c], z) /\ Owed(z) /\ OfLast(c, script[c], z.begun, conn[c])
        /\ conn[c].resHeader.to <= Len(z.out)
    BY <1>1, <1>3, <2>2 DEF Answers, Owed
  <2>4. q.begun # 0 /\ Proper(script[c][q.begun])
    <3>1. Len(q.out) \in Nat /\ q.begun = Len(q.out) + 1
      BY <2>2, Here, LenProperties DEF Socket, Owed
    <3>2. q.begun # 0 /\ q.begun \in 1 .. q.begun
      BY <3>1
    <3>3. QED
      BY <1>3, <1>4, <3>2 DEF ProperTo
  <2>5. ASSUME Len(g) = conn[c].bodySize PROVE Coming(z) = <<>>
    BY <1>2, <1>3, <2>1, <2>2, <2>4, <2>5, BlockIsLast
  <2>6. QED
    BY <2>3, <2>5 DEF ExpectedBlock
<1>5. QED
  BY <1>1, <1>4

\* The block is not whole yet, or the connection is given up in NRead.
LEMMA NReadShortTurn ==
  ASSUME NetInv, TurnInv, pc = "loop", NEW c \in Conn, NReadShort(c)
  PROVE  TurnInv'
<1> DEFINE g == Block(c)
<1>1. PICK z \in Socket :
        /\ FoundBlock(c, z, g)
        /\ c \in Sync /\ ProperTo(script[c], z.begun) => ExpectedBlock(c, z, g)
  BY BlockTurn DEF NReadShort
<1>2. /\ script' = script /\ sock' = [sock EXCEPT ![c] = z] /\ Len(g) < conn[c].bodySize
      /\ conn[c] \in Connection /\ conn[c].state = "NRead"
  BY <1>1, Here DEF NReadShort, FoundBlock, In
<1>3. Len(g) \in Nat /\ conn[c].bodySize \in Nat
  BY <1>1, <1>2, ConnectionType, ValueJoin DEF FoundBlock
<1>4. CASE conn' = [conn EXCEPT ![c] = [conn[c] EXCEPT !.body = g, !.state = "Close"]]
  <2> DEFINE o == [conn[c] EXCEPT !.body = g, !.state = "Close"]
  <2>1. o.state = "Close" /\ conn' = [conn EXCEPT ![c] = o]
    BY <1>2, <1>4 DEF Connection
  <2> HIDE DEF o
  <2>2. c \in Sync => InTurn(c, script[c], z, o)
    BY <1>1, <2>1, CloseTurn DEF InTurn, ExpectedBlock
  <2>3. QED
    BY <1>2, <2>1, <2>2, TurnMoves
<1>5. CASE conn' = [conn EXCEPT ![c] = [conn[c] EXCEPT !.body = g]]
  <2> DEFINE o == [conn[c] EXCEPT !.body = g]
  <2>1. /\ o.state = "NRead" /\ o.body = g /\ o.bodySize = conn[c].bodySize
        /\ o.req = conn[c].req /\ o.line = conn[c].line /\ o.resHeader = conn[c].resHeader
        /\ conn' = [conn EXCEPT ![c] = o]
    BY <1>2, <1>5 DEF Connection
  <2> HIDE DEF o, g
  <2>2. c \in Sync => InTurn(c, script[c], z, o)
    BY <1>1, <2>1 DEF InTurn, Turn, ExpectedBlock, OfLast
  <2>3. QED
    BY <1>2, <2>1, <2>2, TurnMoves
<1>6. QED
  BY <1>4, <1>5 DEF NReadShort, Become

\* The block of the last request is stored and its answer printed.
LEMMA NReadTurn ==
  ASSUME NetInv, TurnInv, pc = "loop", NEW c \in Conn, NRead(c)
  PROVE  TurnInv'
<1> DEFINE g == Block(c)
           k == script[c]
           q == conn[c].req
           r == conn[c].line.r
<1>1. PICK z \in Socket :
        /\ FoundBlock(c, z, g)
        /\ c \in Sync /\ ProperTo(k, z.begun) => ExpectedBlock(c, z, g)
  BY BlockTurn DEF NRead
<1>2. /\ script' = script /\ sock' = [sock EXCEPT ![c] = z] /\ Len(g) = conn[c].bodySize
      /\ conn[c] \in Connection /\ conn[c].state = "NRead" /\ conn[c].resBody = <<>>
      /\ q.cmd \in Storing
  BY <1>1, Here DEF NRead, FoundBlock, In, Rests
<1>3. PICK res \in DoStore(q, g) :
        \E p \in Prepared(Printed(conn[c], r, res)) : Become(c, [p EXCEPT !.body = <<>>])
  BY DEF NRead
<1>4. PICK p \in Prepared(Printed(conn[c], r, res)) :
        conn' = [conn EXCEPT ![c] = [p EXCEPT !.body = <<>>]]
  BY <1>3 DEF Become
<1> DEFINE n == [p EXCEPT !.body = <<>>]
<1>5. /\ n.state = p.state /\ n.resFor = p.resFor /\ n.resHeader = p.resHeader
      /\ n.resBody = p.resBody
  <2> DEFINE a == Printed(conn[c], r, res)
  <2>1. a = [conn[c] EXCEPT !.header = <<>>, !.resFor = r,
               !.resBody = IF res.rc \in {"VALUE", "keep"} THEN res.out ELSE @,
               !.resHeader = IF res.rc = "keep" THEN @ ELSE [to |-> r, rc |-> res.rc]]
    BY DEF Printed
  <2>2. {"state", "resFor", "resHeader", "resBody", "body"} \subseteq DOMAIN a
    BY <1>2, <2>1 DEF Connection
  <2> HIDE DEF a
  <2>3. p = [a EXCEPT !.state = "Write", !.want = "out"] \/ p = [a EXCEPT !.state = "Close"]
    BY DEF Prepared, a
  <2>4. {"state", "resFor", "resHeader", "resBody", "body"} \subseteq DOMAIN p
    BY <2>2, <2>3
  <2>5. QED
    BY <2>4
<1>6. conn' = [conn EXCEPT ![c] = n]
  BY <1>4
<1> HIDE DEF n
<1>7. ASSUME c \in Sync, ProperTo(k, z.begun) PROVE Turn(c, k, z, n)
  <2>1. ExpectedBlock(c, z, g)
    BY <1>1, <1>7
  <2>2. /\ Answers(k, z) /\ Owed(z) /\ r = z.begun /\ Coming(z) = <<>>
        /\ conn[c].resHeader.to <= Len(z.out)
    BY <1>2, <2>1 DEF ExpectedBlock, OfLast, Unit
  <2>3. res.rc # "keep"
    <3> HIDE DEF g, q
    <3>1. QED
      BY <1>2, StorePrints
  <2> HIDE DEF r, k
  <2>4. res.rc = "keep" => k[z.begun].cmd = "stats"
    BY <2>3
  <2>5. p \in Prepared(Printed(conn[c], z.begun, res))
    BY <2>2
  <2>6. QED
    BY <1>2, <1>5, <2>2, <2>4, <2>5, PrintTurn
<1>8. c \in Sync => InTurn(c, script[c], z, n)
  BY <1>7 DEF InTurn
<1>9. QED
  BY <1>2, <1>6, <1>8, TurnMoves

\* The answer that is owed is the next one.
LEMMA AnswerGiven ==
  ASSUME NEW k, NEW q \in Socket, NEW o \in Connection, NEW whole \in BOOLEAN,
         Answers(k, q), Due(k, q, o),
         NEW z \in Socket, z.begun = q.begun, z.out = Append(q.out, Reply(o, whole))
  PROVE  Answers(k, z) /\ o.resHeader.to <= Len(z.out)
<1> DEFINE a == Reply(o, whole)
           l == Len(q.out)
<1>1. /\ a.to = o.resHeader.to /\ a.rc = o.resHeader.rc /\ a.for = o.resFor
      /\ a.value = (o.resBody # <<>>)
  BY DEF Reply
<1>2. q.out \in Seq(ReplyType) /\ o.resHeader.to \in Nat /\ q.begun \in Nat /\ l \in Nat
  BY ConnectionType, LenProperties DEF Socket
<1>3. /\ q.begun = l + 1 /\ o.resFor = q.begun
      /\ o.resHeader.to = q.begun \/ (k[q.begun].cmd = "stats" /\ o.resHeader.to < q.begun)
      /\ o.resBody # <<>> => o.resHeader.rc = "VALUE" \/ k[q.begun].cmd = "stats"
  BY DEF Due, Owed
<1>4. a \in ReplyType
  BY ConnectionType DEF Reply, ReplyType
<1>5. z.out = Append(q.out, a)
  OBVIOUS
<1> HIDE DEF a
<1>6. /\ Len(z.out) = l + 1 /\ DOMAIN z.out = 1 .. l + 1 /\ DOMAIN q.out = 1 .. l
      /\ \A n \in 1 .. l : z.out[n] = q.out[n]
      /\ z.out[l + 1] = a
  BY <1>2, <1>4, <1>5, AppendProperties, LenProperties
<1> HIDE DEF l
<1>7. ASSUME NEW n \in DOMAIN z.out
      PROVE  /\ n <= z.begun /\ z.out[n].for = n
             /\ z.out[n].to = n \/ (k[n].cmd = "stats" /\ z.out[n].to < n)
             /\ z.out[n].value => z.out[n].rc = "VALUE" \/ k[n].cmd = "stats"
  <2>1. CASE n = l + 1
    <3>1. z.out[n] = a /\ n = q.begun
      BY <1>3, <1>6, <2>1
    <3>2. n <= z.begun /\ a.for = n /\ (a.to = n \/ (k[n].cmd = "stats" /\ a.to < n))
      BY <1>1, <1>2, <1>3, <3>1
    <3>3. a.value => a.rc = "VALUE" \/ k[n].cmd = "stats"
      BY <1>1, <1>3, <3>1, Zenon
    <3>4. QED
      BY <3>1, <3>2, <3>3
  <2>2. CASE n # l + 1
    <3>1. n \in DOMAIN q.out /\ z.out[n] = q.out[n]
      BY <1>2, <1>6, <2>2
    <3>2. QED
      BY <3>1 DEF Answers
  <2>3. QED
    BY <2>1, <2>2
<1>8. QED
  BY <1>2, <1>3, <1>6, <1>7 DEF Answers

\* The answer that was owed is written.
LEMMA WriteTurn ==
  ASSUME NetInv, TurnInv, pc = "loop", NEW c \in Conn, Write(c)
  PROVE  TurnInv'
<1> DEFINE q == sock[c]
           k == script[c]
<1>1. /\ q \in Socket /\ conn[c] \in Connection /\ conn[c].state = "Write"
      /\ Between(c, k, q, conn[c], ran[c]) /\ script' = script
  BY Here DEF Write, In, Link
<1>2. PICK whole \in BOOLEAN : sock' = [sock EXCEPT ![c].out = Append(@, Reply(conn[c], whole))]
  BY DEF Write
<1> DEFINE z == [q EXCEPT !.out = Append(@, Reply(conn[c], whole))]
<1>3. sock' = [sock EXCEPT ![c] = z]
  BY <1>2
<1>4. /\ z \in Socket /\ z.begun = q.begun /\ z.out = Append(q.out, Reply(conn[c], whole))
      /\ Coming(z) = Coming(q)
  <2>1. q.out \in Seq(ReplyType) /\ Reply(conn[c], whole) \in ReplyType
    BY <1>1, ConnectionType DEF Socket, Reply, ReplyType
  <2>2. Append(q.out, Reply(conn[c], whole)) \in Seq(ReplyType)
    BY <2>1, AppendProperties
  <2>3. z \in Socket /\ z.out = Append(q.out, Reply(conn[c], whole))
    BY <1>1, <2>2 DEF Socket
  <2>4. z.begun = q.begun /\ z.err = q.err /\ z.in = q.in /\ z.todo = q.todo
    BY <1>1 DEF Socket
  <2>5. QED
    BY <2>3, <2>4 DEF Coming
<1> HIDE DEF z, q, k
<1>5. ASSUME c \in Sync, ProperTo(k, z.begun)
      PROVE  Answers(k, z) /\ conn[c].resHeader.to <= Len(z.out) /\ Coming(z) = <<>>
  <2>1. Turn(c, k, q, conn[c])
    BY <1>4, <1>5 DEF TurnInv, InTurn, q, k
  <2>2. Answers(k, q) /\ Due(k, q, conn[c]) /\ Coming(q) = <<>>
    BY <1>1, <2>1 DEF Turn
  <2>3. QED
    BY <1>1, <1>4, <2>2, AnswerGiven
<1>6. conn[c].header = <<>> /\ <<>> \o <<>> = <<>>
  BY <1>1, ValueJoin DEF Between
<1>7. CASE conn' = [conn EXCEPT ![c] = Written(conn[c])]
  <2> DEFINE o == Written(conn[c])
  <2>1. o.state = "Read" /\ o.header = <<>> /\ o.resHeader = conn[c].resHeader
    BY <1>1, <1>6 DEF Written, Connection
  <2>2. conn' = [conn EXCEPT ![c] = o]
    BY <1>7
  <2> HIDE DEF o
  <2>3. c \in Sync => InTurn(c, k, z, o)
    BY <1>5, <1>6, <2>1 DEF InTurn, Turn, Unanswered
  <2>4. QED
    BY <1>1, <1>3, <2>2, <2>3, TurnMoves DEF k
<1>8. ASSUME NEW o, o.state = "Close", conn' = [conn EXCEPT ![c] = o]
      PROVE  TurnInv'
  <2>1. c \in Sync => InTurn(c, k, z, o)
    BY <1>5, <1>8, CloseTurn DEF InTurn
  <2>2. QED
    BY <1>1, <1>3, <1>8, <2>1, TurnMoves DEF k
<1>9. /\ [conn[c] EXCEPT !.resBody = <<>>, !.state = "Close"].state = "Close"
      /\ [conn[c] EXCEPT !.state = "Close"].state = "Close"
  BY <1>1 DEF Connection
<1>10. QED
  BY <1>7, <1>8, <1>9 DEF Write, Become

\* Of a socket nothing was ever read or written.
LEMMA NothingAsked ==
  ASSUME NEW c, NEW k, NEW o, o.state \in {"None", "Gone"}, o.header = <<>>, o.resHeader.to = 0
  PROVE  Turn(c, k, NoSocket, o)
<1>1. /\ DOMAIN NoSocket.out = {} /\ Len(NoSocket.out) = 0 /\ Coming(NoSocket) = <<>>
      /\ <<>> \o <<>> = <<>>
  BY AbsentType, EmptySeq, ValueJoin DEF NoSocket
<1>2. QED
  BY <1>1 DEF Turn, Answers, Unanswered

\* So it is before a connection is accepted and when its object is gone.
LEMMA AbsentTurn ==
  ASSUME NEW c, NEW k
  PROVE  Turn(c, k, NoSocket, Absent) /\ Turn(c, k, NoSocket, [Absent EXCEPT !.state = "Gone"])
<1> DEFINE o == [Absent EXCEPT !.state = "Gone"]
<1>1. /\ Absent.state = "None" /\ Absent.header = <<>> /\ Absent.resHeader.to = 0
      /\ o.state = "Gone" /\ o.header = <<>> /\ o.resHeader.to = 0
  BY DEF Absent, Fresh
<1> HIDE DEF o
<1>2. Turn(c, k, NoSocket, Absent) /\ Turn(c, k, NoSocket, o)
  BY <1>1, NothingAsked
<1>3. QED
  BY <1>2 DEF o

\* The connection is freed.
LEMMA FreedTurn ==
  ASSUME NetInv, TurnInv, NEW c \in Conn, Close(c)
  PROVE  TurnInv'
<1> DEFINE o == [Absent EXCEPT !.state = "Gone"]
<1>1. /\ script' = script /\ sock' = [sock EXCEPT ![c] = NoSocket]
      /\ conn' = [conn EXCEPT ![c] = o]
  BY DEF Close, Become
<1>2. InTurn(c, script[c], NoSocket, o)
  BY AbsentTurn DEF InTurn
<1> HIDE DEF o
<1>3. QED
  BY <1>1, <1>2, TurnMoves

\* One step of driverMachine.
LEMMA HandlerTurn ==
  ASSUME NetInv, TurnInv, NEW c \in Conn, DriverMachine(c)
  PROVE  TurnInv'
<1>1. pc = "loop"
  BY DEF DriverMachine
<1>2. QED
  BY <1>1, ReadHangupTurn, ReadNoLineTurn, ReadStoringTurn, ReadCommandTurn, NReadShortTurn,
     NReadTurn, WriteTurn, FreedTurn DEF DriverMachine, Handler

\* The process ends.
LEMMA ExitTurn ==
  ASSUME NetInv, TurnInv, Exit
  PROVE  TurnInv'
<1>1. Sync \subseteq Conn
  BY NetshellAssumption
<1>2. ASSUME NEW c \in Sync PROVE InTurn(c, script'[c], sock'[c], conn'[c])
  <2>1. sock'[c] = NoSocket /\ conn'[c] = Absent
    BY <1>1 DEF Exit
  <2>2. QED
    BY <2>1, AbsentTurn DEF InTurn
<1>3. QED
  BY <1>2 DEF TurnInv

\* A connection that is accepted starts with an empty buffer and no answer printed.
LEMMA ListeningTurn ==
  ASSUME NetInv, TurnInv, OnListening
  PROVE  TurnInv'
<1>1. script' = script /\ pc = "loop"
  BY DEF OnListening
<1>2. CASE UNCHANGED <<conn, sock>>
  BY <1>1, <1>2, TurnStays
<1>3. ASSUME NEW c \in Pending
      PROVE  /\ c \in Conn /\ conn[c] \in Connection /\ sock[c] \in Socket /\ conn[c].state = "None"
             /\ conn[c].header = <<>> /\ sock = [sock EXCEPT ![c] = sock[c]]
             /\ c \in Sync /\ ProperTo(script[c], sock[c].begun) =>
                  /\ Answers(script[c], sock[c])
                  /\ Unanswered(c, sock[c], conn[c].header \o Coming(sock[c]))
                  /\ conn[c].resHeader.to <= Len(sock[c].out)
  <2>1. c \in Conn /\ conn[c].state = "None"
    BY DEF Pending
  <2>2. sock \in [Conn -> Socket]
    BY DEF NetInv, Types
  <2>3. conn[c] \in Connection /\ sock[c] \in Socket /\ conn[c].header = <<>>
    BY <1>1, <2>1, Here DEF Link, Between
  <2>4. c \in Sync /\ ProperTo(script[c], sock[c].begun) =>
          Turn(c, script[c], sock[c], conn[c])
    BY DEF TurnInv, InTurn
  <2>5. QED
    BY <2>1, <2>2, <2>3, <2>4 DEF Turn
<1>4. ASSUME NEW c \in Pending, conn' = [conn EXCEPT ![c].state = "Leaked"], sock' = sock
      PROVE  TurnInv'
  <2> DEFINE o == [conn[c] EXCEPT !.state = "Leaked"]
  <2>1. /\ o.state = "Leaked" /\ o.header = conn[c].header /\ o.resHeader = conn[c].resHeader
        /\ conn' = [conn EXCEPT ![c] = o]
    BY <1>3, <1>4 DEF Connection
  <2> HIDE DEF o
  <2>2. c \in Sync => InTurn(c, script[c], sock[c], o)
    BY <1>3, <2>1 DEF InTurn, Turn
  <2>3. QED
    <3>1. /\ script' = script /\ sock' = [sock EXCEPT ![c] = sock[c]]
          /\ conn' = [conn EXCEPT ![c] = o] /\ c \in Conn
      BY <1>1, <1>3, <1>4, <2>1
    <3>2. QED
      BY <2>2, <3>1, TurnMoves
<1>5. ASSUME NEW c \in Pending, conn' = [conn EXCEPT ![c].state = "Gone"],
             sock' = [sock EXCEPT ![c] = NoSocket]
      PROVE  TurnInv'
  <2> DEFINE o == [conn[c] EXCEPT !.state = "Gone"]
  <2>1. o.state = "Gone" /\ conn' = [conn EXCEPT ![c] = o]
    BY <1>3, <1>5 DEF Connection
  <2> HIDE DEF o
  <2>2. Answers(script[c], NoSocket)
    BY AbsentTurn DEF Turn
  <2>3. c \in Sync => InTurn(c, script[c], NoSocket, o)
    BY <2>1, <2>2, CloseTurn DEF InTurn
  <2>4. QED
    BY <1>1, <1>3, <1>5, <2>1, <2>3, TurnMoves
<1>6. ASSUME NEW c \in Pending, conn' = [conn EXCEPT ![c] = Fresh], sock' = sock
      PROVE  TurnInv'
  <2>1. Fresh.state = "Read" /\ Fresh.header = <<>> /\ Fresh.resHeader.to = 0
    BY DEF Fresh
  <2>2. Len(sock[c].out) \in Nat
    BY <1>3, LenProperties DEF Socket
  <2>3. c \in Sync => InTurn(c, script[c], sock[c], Fresh)
    <3>1. ASSUME c \in Sync, ProperTo(script[c], sock[c].begun)
          PROVE  /\ Answers(script[c], sock[c])
                 /\ Unanswered(c, sock[c], Fresh.header \o Coming(sock[c]))
                 /\ Fresh.resHeader.to <= Len(sock[c].out)
      <4>1. /\ Answers(script[c], sock[c]) /\ conn[c].header = Fresh.header
            /\ Unanswered(c, sock[c], conn[c].header \o Coming(sock[c]))
        BY <1>3, <2>1, <3>1
      <4>2. Fresh.resHeader.to <= Len(sock[c].out)
        BY <2>1, <2>2
      <4>3. QED
        BY <4>1, <4>2
    <3>2. QED
      BY <2>1, <3>1 DEF InTurn, Turn
  <2>4. QED
    <3>1. /\ script' = script /\ sock' = [sock EXCEPT ![c] = sock[c]]
          /\ conn' = [conn EXCEPT ![c] = Fresh] /\ c \in Conn
      BY <1>1, <1>3, <1>6
    <3>2. QED
      BY <2>3, <3>1, TurnMoves
<1>7. QED
  BY <1>2, <1>4, <1>5, <1>6 DEF OnListening

\* Nothing but what has begun, what is answered and what is to come matters.
LEMMA SameTurn ==
  ASSUME NEW c, NEW k, NEW q, NEW z, NEW o, Turn(c, k, q, o),
         z.begun = q.begun, z.out = q.out, Coming(z) = Coming(q)
  PROVE  Turn(c, k, z, o)
<1>1. /\ Owed(z) <=> Owed(q)
      /\ Due(k, z, o) <=> Due(k, q, o)
      /\ Answers(k, z) <=> Answers(k, q)
  BY DEF Owed, Due, Answers
<1>2. Unanswered(c, z, o.header \o Coming(z)) <=> Unanswered(c, q, o.header \o Coming(q))
  BY DEF Unanswered, Owed
<1>3. QED
  BY <1>1, <1>2 DEF Turn

\* A client moves units to its socket, or opens or ends its stream.
LEMMA ClientTurn ==
  ASSUME NetInv, TurnInv, NEW c \in Conn, NEW z, script' = script, conn' = conn,
         sock' = [sock EXCEPT ![c] = z], z.begun = sock[c].begun, z.out = sock[c].out,
         Coming(z) = Coming(sock[c])
  PROVE  TurnInv'
<1>1. c \in Sync => InTurn(c, script[c], z, conn[c])
  <2>1. c \in Sync => InTurn(c, script[c], sock[c], conn[c])
    BY DEF TurnInv
  <2>2. QED
    BY <2>1, SameTurn DEF InTurn
<1>2. conn' = [conn EXCEPT ![c] = conn[c]]
  BY DEF NetInv, Types
<1>3. QED
  BY <1>1, <1>2, TurnMoves

\* A client connects.
LEMMA ConnectTurn ==
  ASSUME NetInv, TurnInv, NEW c \in Conn, Connect(c)
  PROVE  TurnInv'
<1> DEFINE q == sock[c]
           z == [q EXCEPT !.open = TRUE]
<1>1. q \in Socket /\ sock' = [sock EXCEPT ![c] = z] /\ script' = script /\ conn' = conn
  BY Here DEF Connect
<1>2. z.begun = q.begun /\ z.out = q.out /\ Coming(z) = Coming(q)
  BY <1>1 DEF Socket, Coming
<1> HIDE DEF z
<1>3. QED
  BY <1>1, <1>2, ClientTurn

\* One unit more reaches the server.
LEMMA SendTurn ==
  ASSUME NetInv, TurnInv, NEW c \in Conn, Send(c)
  PROVE  TurnInv'
<1> DEFINE q == sock[c]
           x == Append(q.in, Head(q.todo))
           y == Tail(q.todo)
           z == [q EXCEPT !.in = x, !.todo = y]
<1>1. /\ q \in Socket /\ sock' = [sock EXCEPT ![c] = z] /\ script' = script /\ conn' = conn
      /\ q.todo # <<>> /\ ~q.err
  BY Here DEF Send, Client
<1>2. q.in \in Seq(UnitType) /\ q.todo \in Seq(UnitType)
  BY <1>1, ComingType DEF Value
<1>3. x \o y = q.in \o q.todo
  <2> HIDE DEF q
  <2>1. QED
    BY <1>1, <1>2, SendMoves
<1> HIDE DEF x, y
<1>4. z.begun = q.begun /\ z.out = q.out /\ z.err = q.err /\ z.in = x /\ z.todo = y
  BY <1>1 DEF Socket
<1>5. Coming(z) = Coming(q)
  BY <1>1, <1>3, <1>4 DEF Coming
<1> HIDE DEF z
<1>6. QED
  BY <1>1, <1>4, <1>5, ClientTurn

\* What the server will not read any more does not matter.
LEMMA HangupTurn ==
  ASSUME NetInv, TurnInv, NEW c \in Conn, Hangup(c)
  PROVE  TurnInv'
<1> DEFINE q == sock[c]
           o == conn[c]
           k == script[c]
           y == [q EXCEPT !.eof = TRUE]
           z == [q EXCEPT !.err = TRUE, !.in = <<>>]
<1>1. /\ q \in Socket /\ o \in Connection /\ script' = script /\ conn' = conn
      /\ sock' = [sock EXCEPT ![c] = y] \/ sock' = [sock EXCEPT ![c] = z]
  BY Here DEF Hangup, Client
<1>2. CASE sock' = [sock EXCEPT ![c] = y]
  <2>1. y.begun = q.begun /\ y.out = q.out /\ Coming(y) = Coming(q)
    BY <1>1 DEF Socket, Coming
  <2> HIDE DEF y
  <2>2. QED
    BY <1>1, <1>2, <2>1, ClientTurn
<1>3. CASE sock' = [sock EXCEPT ![c] = z]
  <2>1. z.begun = q.begun /\ z.out = q.out /\ Coming(z) = <<>>
    BY <1>1 DEF Socket, Coming
  <2>2. Coming(q) \in Value /\ o.header \in Value
    BY <1>1, ComingType, ConnectionType
  <2> HIDE DEF z, q, o, k
  <2>3. ASSUME Unanswered(c, q, o.header \o Coming(q)) PROVE Unanswered(c, z, o.header \o <<>>)
    <3>1. o.header \o <<>> = o.header
      BY <2>2, ValueJoin
    <3>2. CASE o.header = <<>>
      BY <3>1, <3>2 DEF Unanswered
    <3>3. CASE o.header # <<>>
      <4>1. /\ Len(o.header) \in Nat \ {0} /\ Len(o.header \o Coming(q)) # 0
        <5>1. /\ Len(o.header \o Coming(q)) = Len(o.header) + Len(Coming(q))
              /\ Len(o.header) \in Nat /\ Len(Coming(q)) \in Nat /\ Len(o.header) # 0
          BY <2>2, <3>3, ValueJoin
        <5>2. QED
          BY <5>1
      <4>2. (o.header \o Coming(q))[1] = o.header[1]
        <5> DEFINE h == o.header
                   w == Coming(q)
        <5>1. \A p \in 1 .. Len(h) + Len(w) : (h \o w)[p] = IF p <= Len(h) THEN h[p] ELSE w[p - Len(h)]
          BY <2>2, ConcatProperties DEF Value
        <5>2. 1 \in 1 .. Len(h) + Len(w) /\ 1 <= Len(h)
          BY <2>2, <4>1, ValueJoin
        <5>3. QED
          BY <5>1, <5>2
      <4>3. o.header \o Coming(q) # <<>>
        BY <4>1, EmptySeq
      <4>4. Owed(q) /\ o.header[1] = Unit(c, q.begun, 1)
        BY <2>3, <4>2, <4>3 DEF Unanswered
      <4>5. QED
        BY <2>1, <3>1, <4>4 DEF Unanswered, Owed
    <3>4. QED
      BY <3>2, <3>3
  <2>4. c \in Sync => InTurn(c, k, q, o)
    BY DEF TurnInv, q, o, k
  <2>5. c \in Sync => InTurn(c, k, z, o)
    BY <2>1, <2>3, <2>4 DEF InTurn, Turn, Answers, Owed, Due
  <2>6. conn' = [conn EXCEPT ![c] = o]
    BY <1>1 DEF NetInv, Types, o
  <2>7. QED
    BY <1>1, <1>3, <2>5, <2>6, TurnMoves DEF k
<1>4. QED
  BY <1>1, <1>2, <1>3

\* A client that waits asks when all has been read and answered.
LEMMA AskTurn ==
  ASSUME NetInv, TurnInv, NEW c \in Conn, Ask(c)
  PROVE  TurnInv'
<1> DEFINE q == sock[c]
           o == conn[c]
           k == script[c]
           b == q.begun
           r == b + 1
           m == Message(c, r)
           z == [q EXCEPT !.begun = r, !.todo = m]
<1>1. /\ q \in Socket /\ o \in Connection /\ k \in RequestSeq
      /\ script' = script /\ conn' = conn /\ sock' = [sock EXCEPT ![c] = z]
      /\ q.todo = <<>> /\ ~q.err /\ b < Len(k) /\ (c \in Sync => Len(q.out) >= b)
  BY Here DEF Ask, Client
<1>2. /\ b \in Nat /\ Len(q.out) \in Nat /\ DOMAIN q.out = 1 .. Len(q.out)
      /\ o.header \in Value /\ q.in \in Value /\ Len(k) \in Nat
  BY <1>1, ComingType, ConnectionType, LenProperties DEF Socket, RequestSeq
<1>3. r \in Nat /\ r \in 1 .. Len(k)
  BY <1>1, <1>2
<1>4. z.begun = b + 1 /\ z.out = q.out /\ z.err = q.err /\ z.in = q.in /\ z.todo = m
  BY <1>1 DEF Socket
<1>5. m = Units(c, r, 1, Total(k, r))
  BY DEF Message, Total, LineLen, BlockLen
<1> HIDE DEF z, m
<1>6. m \in Value /\ m[1] = Unit(c, b + 1, 1)
  <2> DEFINE i == 1
             t == Total(k, r)
  <2>1. i \in Nat \ {0} /\ t \in Nat \ {0} /\ i <= t /\ t - i + 1 = t /\ i + 1 - 1 = 1 /\ 1 \in 1 .. t
    <3> HIDE DEF r, k
    <3>1. t \in Nat \ {0}
      BY <1>1, <1>3, TotalType
    <3> HIDE DEF t
    <3>2. QED
      BY <3>1
  <2>2. m = Units(c, r, i, t)
    BY <1>5
  <2> HIDE DEF i, t, r
  <2>3. /\ Units(c, r, i, t) \in Value
        /\ \A p \in 1 .. t - i + 1 : Units(c, r, i, t)[p] = Unit(c, r, i + p - 1)
    BY <1>3, <2>1, UnitsAt
  <2>4. QED
    BY <2>1, <2>2, <2>3 DEF r
<1>7. ASSUME c \in Sync, ProperTo(k, z.begun) PROVE Turn(c, k, z, o)
  <2>1. ProperTo(k, b)
    <3>1. 1 .. b \subseteq 1 .. z.begun
      BY <1>2, <1>4
    <3>2. QED
      BY <1>7, <3>1 DEF ProperTo
  <2>2. Turn(c, k, q, o)
    BY <1>7, <2>1 DEF TurnInv, InTurn
  <2>3. Answers(k, q)
    BY <2>2 DEF Turn
  <2>4. Len(q.out) = b
    <3> DEFINE L == Len(q.out)
    <3>1. \A n \in 1 .. L : n <= b
      BY <1>2, <2>3 DEF Answers
    <3>2. L \in Nat /\ b \in Nat /\ L >= b
      BY <1>1, <1>2, <1>7
    <3> HIDE DEF q, b, L
    <3>3. L = 0 \/ L \in 1 .. L
      BY <3>2
    <3>4. L = b
      BY <3>1, <3>2, <3>3
    <3>5. QED
      BY <3>4 DEF L
  <2>5. ~Owed(q) /\ Owed(z)
    BY <1>2, <1>4, <2>4 DEF Owed
  <2>6. Answers(k, z)
    <3>1. \A n \in 1 .. Len(q.out) : n <= z.begun
      BY <1>2, <1>4, <2>4
    <3>2. DOMAIN z.out = 1 .. Len(q.out)
      BY <1>2, <1>4
    <3>3. QED
      BY <1>2, <1>4, <2>3, <3>1, <3>2 DEF Answers
  <2>7. ASSUME o.state \in {"None", "Leaked", "Read"}
        PROVE  Unanswered(c, z, o.header \o Coming(z)) /\ o.resHeader.to <= Len(z.out)
    <3>1. o.header \o (q.in \o q.todo) = <<>> /\ o.resHeader.to <= Len(q.out)
      BY <1>1, <2>2, <2>5, <2>7 DEF Turn, Unanswered, Coming
    <3>2. q.in \o q.todo = q.in
      BY <1>1, <1>2, ValueJoin
    <3>3. o.header = <<>> /\ q.in = <<>>
      <4>1. /\ Len(o.header \o q.in) = Len(o.header) + Len(q.in)
            /\ Len(o.header) \in Nat /\ Len(q.in) \in Nat
        BY <1>2, ValueJoin
      <4>2. Len(o.header \o q.in) = 0
        BY <3>1, <3>2, EmptySeq
      <4> DEFINE i == Len(o.header)
                 j == Len(q.in)
      <4>0. i + j = 0 /\ i \in Nat /\ j \in Nat
        BY <4>1, <4>2
      <4>3. i = 0 /\ j = 0
        <5> HIDE DEF i, j
        <5>1. QED
          BY <4>0
      <4>4. QED
        BY <1>2, <4>3, ValueJoin
    <3>4. o.header \o Coming(z) = m
      BY <1>1, <1>4, <1>6, <3>3, ValueJoin DEF Coming
    <3>5. QED
      BY <1>4, <1>6, <2>5, <3>1, <3>4 DEF Unanswered
  <2>8. o.state # "NRead" /\ o.state # "Write"
    BY <2>2, <2>5 DEF Turn, Due
  <2>9. QED
    BY <2>6, <2>7, <2>8 DEF Turn
<1>8. c \in Sync => InTurn(c, script[c], z, o)
  BY <1>7 DEF InTurn
<1>9. conn' = [conn EXCEPT ![c] = o]
  BY <1>1 DEF NetInv, Types
<1>10. QED
  BY <1>1, <1>8, <1>9, TurnMoves

-------------------------------------------------------------------------------
(***************************************************************************)
(* The turns are kept.                                                     *)
(***************************************************************************)
\* At the start nothing has been asked.
LEMMA TurnInit == Init => TurnInv
<1> SUFFICES ASSUME Init PROVE TurnInv
  OBVIOUS
<1>1. Sync \subseteq Conn
  BY NetshellAssumption
<1>2. ASSUME NEW c \in Sync PROVE InTurn(c, script[c], sock[c], conn[c])
  <2>1. sock[c] = NoSocket /\ conn[c] = Absent
    BY <1>1 DEF Init
  <2>2. QED
    BY <2>1, AbsentTurn DEF InTurn
<1>3. QED
  BY <1>2 DEF TurnInv

\* Every step keeps the turns.
LEMMA TurnNext == NetInv /\ TurnInv /\ [Next]_vars => TurnInv'
<1> SUFFICES ASSUME NetInv, TurnInv, [Next]_vars PROVE TurnInv'
  OBVIOUS
<1>1. CASE Server
  <2>1. CASE Install \/ Construct \/ Run \/ EpollWait \/ Leave
    BY <2>1, TurnStays DEF Install, Construct, Run, EpollWait, Leave, Goto, connVars
  <2>2. CASE Exit
    BY <2>2, ExitTurn
  <2>3. CASE OnListening
    BY <2>3, ListeningTurn
  <2>4. CASE \E c \in Conn \cup {Listener} : Dispatch(c)
    BY <2>4, TurnStays DEF Dispatch
  <2>5. CASE \E c \in Conn : DriverMachine(c)
    BY <2>5, HandlerTurn
  <2>6. QED
    BY <1>1, <2>1, <2>2, <2>3, <2>4, <2>5 DEF Server
<1>2. CASE Throw \/ Break \/ Signal
  BY <1>2, TurnStays DEF Throw, Break, Signal, Goto, connVars
<1>3. CASE \E c \in Conn : Connect(c) \/ Ask(c) \/ Send(c) \/ Hangup(c)
  BY <1>3, ConnectTurn, AskTurn, SendTurn, HangupTurn
<1>4. CASE UNCHANGED vars
  BY <1>4, TurnStays DEF vars
<1>5. QED
  BY <1>1, <1>2, <1>3, <1>4 DEF Next

\* A client that waits for each answer before it asks again, and whose requests keep
\* to the protocol, is answered once for each request, in order: with the line printed
\* for that request (reqHeaderBytes_, resHeaderBytes_), and with a value after the
\* line of a hit and of stats only (resBodySize_).
THEOREM EachAnswered == Spec => []AnswerToEach
<1>1. Init => NetInv /\ TurnInv
  BY NetInit, TurnInit
<1>2. NetInv /\ TurnInv /\ [Next]_vars => NetInv' /\ TurnInv'
  BY NetNext, TurnNext
<1>3. TurnInv => AnswerToEach
  <2> SUFFICES ASSUME TurnInv, NEW c \in Sync,
                      ProperSoFar(c)
               PROVE  Answers(script[c], sock[c])
    BY DEF AnswerToEach, Answers
  <2>1. QED
    BY DEF TurnInv, InTurn, Turn, ProperTo, ProperSoFar
<1>4. QED
  BY <1>1, <1>2, <1>3, PTL DEF Spec

-------------------------------------------------------------------------------
(***************************************************************************)
(* The words of a line. A character is escaped when the run of backslashes *)
(* before it is of odd length.                                             *)
(***************************************************************************)
\* n backslashes, and no more, stand before p.
Backslashes(line, p, n) ==
  /\ n \in 1 .. p - 1
  /\ \A q \in p - n .. p - 1 : line[q] = "\\"
  /\ p - n > 1 => line[p - n - 1] # "\\"

\* There are only so many of them.
LEMMA BackslashesOnce ==
  ASSUME NEW line, NEW p \in Nat, NEW n, NEW m, Backslashes(line, p, n), Backslashes(line, p, m)
  PROVE  n = m
<1>1. n \in 1 .. p - 1 /\ m \in 1 .. p - 1
  BY DEF Backslashes
<1>2. ASSUME n < m PROVE FALSE
  <2>1. p - n > 1 /\ p - n - 1 \in p - m .. p - 1
    BY <1>1, <1>2
  <2>2. QED
    BY <2>1 DEF Backslashes
<1>3. ASSUME m < n PROVE FALSE
  <2>1. p - m > 1 /\ p - m - 1 \in p - n .. p - 1
    BY <1>1, <1>3
  <2>2. QED
    BY <2>1 DEF Backslashes
<1>4. QED
  BY <1>1, <1>2, <1>3

\* A backslash has some number of them before the next place.
LEMMA BackslashesCounted ==
  ASSUME NEW line, NEW p \in Nat, p > 1, line[p - 1] = "\\"
  PROVE  \E n : Backslashes(line, p, n)
<1> DEFINE I == {i \in 1 .. p - 1 : \A q \in i .. p - 1 : line[q] = "\\"}
           m == Min(I)
<1>1. p - 1 \in I
  BY SMT
<1>2. p - 1 \in Nat /\ I \in SUBSET (1 .. p - 1) /\ I # {}
  BY <1>1
<1> HIDE DEF I
<1>3. m \in I /\ \A y \in I : m <= y
  BY <1>2, MinIn
<1> HIDE DEF m
<1> USE DEF I
<1>4. m \in 1 .. p - 1 /\ \A q \in m .. p - 1 : line[q] = "\\"
  BY <1>3
<1>5. ASSUME m > 1, line[m - 1] = "\\" PROVE FALSE
  <2>1. m - 1 \in 1 .. p - 1
    BY <1>4, <1>5
  <2>2. ASSUME NEW q \in m - 1 .. p - 1 PROVE line[q] = "\\"
    <3>1. q = m - 1 \/ q \in m .. p - 1
      BY <1>4
    <3>2. QED
      BY <3>1, <1>4, <1>5
  <2>3. m - 1 \in I
    BY <2>1, <2>2
  <2>4. m <= m - 1
    BY <2>3, <1>3
  <2>5. QED
    BY <2>4, <1>4
<1>6. p - (p - m) = m /\ p - m \in 1 .. p - 1
  BY <1>4
<1>7. Backslashes(line, p, p - m)
  BY <1>4, <1>5, <1>6 DEF Backslashes
<1>8. QED
  BY <1>7

\* One more backslash, one more before the next place.
LEMMA BackslashesNext ==
  ASSUME NEW line, NEW p \in Nat \ {0}, line[p] = "\\"
  PROVE  /\ \A n : Backslashes(line, p, n) => Backslashes(line, p + 1, n + 1)
         /\ (p = 1 \/ line[p - 1] # "\\") => Backslashes(line, p + 1, 1)
<1>1. ASSUME NEW n, Backslashes(line, p, n) PROVE Backslashes(line, p + 1, n + 1)
  <2>1. n \in 1 .. p - 1
    BY <1>1 DEF Backslashes
  <2>2. n + 1 \in 1 .. p + 1 - 1 /\ p + 1 - (n + 1) = p - n /\ p + 1 - 1 = p
    BY <2>1
  <2>3. ASSUME NEW q \in p - n .. p PROVE line[q] = "\\"
    <3>1. q = p \/ q \in p - n .. p - 1
      BY <2>1
    <3>2. QED
      BY <3>1, <1>1 DEF Backslashes
  <2>4. p - n > 1 => line[p - n - 1] # "\\"
    BY <1>1 DEF Backslashes
  <2>5. QED
    BY <2>2, <2>3, <2>4 DEF Backslashes
<1>2. ASSUME p = 1 \/ line[p - 1] # "\\" PROVE Backslashes(line, p + 1, 1)
  <2>1. p + 1 - 1 = p /\ 1 \in 1 .. p
    OBVIOUS
  <2>2. \A q \in p .. p : line[q] = "\\"
    OBVIOUS
  <2>3. p > 1 => line[p - 1] # "\\"
    BY <1>2
  <2>4. QED
    BY <2>1, <2>2, <2>3 DEF Backslashes
<1>3. QED
  BY <1>1, <1>2

\* Escaped, with the run of backslashes named.
LEMMA EscapedRun ==
  ASSUME NEW line, NEW p \in Nat
  PROVE  Escaped(line, p) <=> \E n : n % 2 = 1 /\ Backslashes(line, p, n)
BY Zenon DEF Escaped, Backslashes

\* What the flag esc of the loop goes by: the place after p is escaped when p is a
\* backslash that is not.
LEMMA EscapedNext ==
  ASSUME NEW line, NEW p \in Nat \ {0}
  PROVE  Escaped(line, p + 1) <=> (line[p] = "\\" /\ ~Escaped(line, p))
<1>0. p \in Nat /\ p + 1 \in Nat
  OBVIOUS
<1>1. Escaped(line, p) <=> \E n : n % 2 = 1 /\ Backslashes(line, p, n)
  BY <1>0, EscapedRun
<1>2. Escaped(line, p + 1) <=> \E n : n % 2 = 1 /\ Backslashes(line, p + 1, n)
  BY <1>0, EscapedRun
<1>3. ASSUME Escaped(line, p + 1) PROVE line[p] = "\\" /\ ~Escaped(line, p)
  <2>1. PICK n : n % 2 = 1 /\ Backslashes(line, p + 1, n)
    BY <1>2, <1>3
  <2>2. p \in p + 1 - n .. p + 1 - 1
    BY <2>1 DEF Backslashes
  <2>3. line[p] = "\\"
    BY <2>1, <2>2 DEF Backslashes
  <2>4. ASSUME NEW m, m % 2 = 1, Backslashes(line, p, m) PROVE FALSE
    <3>1. Backslashes(line, p + 1, m + 1)
      BY <2>3, <2>4, BackslashesNext
    <3>2. n = m + 1
      BY <1>0, <2>1, <3>1, BackslashesOnce
    <3>3. m \in Nat
      BY <2>4 DEF Backslashes
    <3>4. QED
      BY <2>1, <2>4, <3>2, <3>3
  <2>5. QED
    BY <1>1, <2>3, <2>4
<1>4. ASSUME line[p] = "\\", ~Escaped(line, p) PROVE Escaped(line, p + 1)
  <2>1. CASE p = 1 \/ line[p - 1] # "\\"
    <3>1. Backslashes(line, p + 1, 1)
      BY <1>4, <2>1, BackslashesNext
    <3>2. QED
      BY <3>1, <1>2
  <2>2. CASE p > 1 /\ line[p - 1] = "\\"
    <3>1. PICK n : Backslashes(line, p, n)
      BY <2>2, <1>0, BackslashesCounted
    <3>2. Backslashes(line, p + 1, n + 1)
      BY <3>1, <1>4, BackslashesNext
    <3>3. n \in Nat
      BY <3>1 DEF Backslashes
    <3>6. n % 2 # 1
      BY <3>1, <1>4, <1>1, Zenon
    <3>4. (n + 1) % 2 = 1
      BY <3>3, <3>6
    <3>5. QED
      BY <3>2, <3>4, <1>2
  <2>3. QED
    BY <2>1, <2>2
<1>5. QED
  BY <1>3, <1>4

-------------------------------------------------------------------------------
(***************************************************************************)
(* The loop of tokenize. s is where the word that is looked at starts.     *)
(***************************************************************************)
\* t are the words of the line that start before b, in order.
Collected(line, b, t) ==
  /\ t \in Seq(WordsOf(line))
  /\ \A i, j \in DOMAIN t : i < j => t[i][1] < t[j][1]
  /\ \A i \in DOMAIN t : t[i][1] < b
  /\ \A w \in WordsOf(line) : w[1] < b => \E i \in DOMAIN t : t[i] = w

\* A word may start at s, and none has ended up to e.
Unbroken(line, s, e) ==
  /\ s \in 1 .. e + 1
  /\ s = 1 \/ Blank(line, s - 1)
  /\ \A q \in s .. e : ~Blank(line, q)

\* What the loop has after the first e characters.
Seen(line, e, st) ==
  /\ st \in [s : Nat, esc : BOOLEAN, tokens : Seq(Nat \X Nat), done : BOOLEAN]
  /\ Len(st.tokens) < MaxTokens
  /\ Collected(line, st.s, st.tokens)
  /\ ~st.done => Unbroken(line, st.s, e) /\ (st.esc <=> Escaped(line, e + 1))
  /\ st.done => Len(st.tokens) = MaxTokens - 1

\* What makes a pair a word.
LEMMA WordIs ==
  ASSUME NEW line, NEW p, NEW n
  PROVE  <<p, n>> \in WordsOf(line) <=>
           /\ p \in 1 .. Len(line) /\ n \in 1 .. Len(line)
           /\ p + n - 1 <= Len(line)
           /\ \A q \in p .. p + n - 1 : ~Blank(line, q)
           /\ p = 1 \/ Blank(line, p - 1)
           /\ p + n > Len(line) \/ Blank(line, p + n)
BY DEF WordsOf

\* Words are pairs of numbers.
LEMMA WordsPairs ==
  ASSUME NEW line, NEW w \in WordsOf(line)
  PROVE  /\ w = <<w[1], w[2]>>
         /\ w[1] \in 1 .. Len(line) /\ w[2] \in 1 .. Len(line)
BY DEF WordsOf

\* Where a stretch without blanks ends, at e, it is a word unless it is empty.
LEMMA WordEnds ==
  ASSUME NEW line, Len(line) \in Nat, NEW e \in 1 .. Len(line) + 1, NEW s,
         Unbroken(line, s, e - 1), e > Len(line) \/ Blank(line, e), s # e
  PROVE  <<s, e - s>> \in WordsOf(line)
<1>1. s \in 1 .. e /\ s < e
  BY DEF Unbroken
<1> DEFINE n == e - s
<1>2. /\ s \in 1 .. Len(line) /\ n \in 1 .. Len(line)
      /\ s + n = e /\ s + n - 1 <= Len(line) /\ s + n - 1 = e - 1
  BY <1>1
<1> HIDE DEF n
<1>3. /\ \A q \in s .. s + n - 1 : ~Blank(line, q)
      /\ s = 1 \/ Blank(line, s - 1)
      /\ s + n > Len(line) \/ Blank(line, s + n)
  BY <1>2 DEF Unbroken
<1>4. <<s, n>> \in WordsOf(line)
  BY <1>2, <1>3, WordIs
<1>5. QED
  BY <1>4 DEF n

\* It is the only word that starts between s and e.
LEMMA WordOnly ==
  ASSUME NEW line, Len(line) \in Nat, NEW e \in 1 .. Len(line) + 1, NEW s,
         Unbroken(line, s, e - 1), e > Len(line) \/ Blank(line, e),
         NEW w \in WordsOf(line), w[1] >= s, w[1] <= e
  PROVE  w = <<s, e - s>> /\ s # e
<1> DEFINE p == w[1]
           n == w[2]
<1>1. w = <<p, n>> /\ p \in 1 .. Len(line) /\ n \in 1 .. Len(line)
  BY WordsPairs
<1>2. p >= s /\ p <= e /\ s \in 1 .. e
  BY DEF Unbroken
<1> HIDE DEF p, n
<1>3. /\ p + n - 1 <= Len(line)
      /\ \A q \in p .. p + n - 1 : ~Blank(line, q)
      /\ p = 1 \/ Blank(line, p - 1)
      /\ p + n > Len(line) \/ Blank(line, p + n)
  <2>1. <<p, n>> \in WordsOf(line)
    BY <1>1
  <2>2. QED
    BY <2>1, WordIs
<1>4. \A q \in s .. e - 1 : ~Blank(line, q)
  BY DEF Unbroken
<1>5. ~(p > s)
  <2>1. ASSUME p > s PROVE FALSE
    <3>1. p # 1 /\ p - 1 \in s .. e - 1
      BY <2>1, <1>1, <1>2
    <3>2. QED
      BY <3>1, <1>3, <1>4
  <2>2. QED
    BY <2>1
<1>6. p = s
  BY <1>1, <1>2, <1>5
<1>7. p + n <= e
  <2>1. ASSUME p + n > e PROVE FALSE
    <3>1. e \in p .. p + n - 1 /\ e <= Len(line)
      BY <2>1, <1>1, <1>2, <1>3
    <3>2. QED
      BY <3>1, <1>3
  <2>2. QED
    BY <2>1, <1>1
<1>8. ~(p + n < e)
  <2>1. ASSUME p + n < e PROVE FALSE
    <3>1. p + n \in s .. e - 1 /\ ~(p + n > Len(line))
      BY <2>1, <1>1, <1>2, <1>6
    <3>2. QED
      BY <3>1, <1>3, <1>4
  <2>2. QED
    BY <2>1
<1>9. n = e - s /\ s # e
  BY <1>1, <1>2, <1>6, <1>7, <1>8
<1>10. QED
  BY <1>1, <1>6, <1>9

\* Cut adds it.
LEMMA CutCollects ==
  ASSUME NEW line, Len(line) \in Nat, NEW e \in 1 .. Len(line) + 1, NEW st,
         Unbroken(line, st.s, e - 1), e > Len(line) \/ Blank(line, e),
         Collected(line, st.s, st.tokens)
  PROVE  /\ Collected(line, e + 1, Cut(st, e))
         /\ Len(Cut(st, e)) <= Len(st.tokens) + 1
<1> DEFINE s == st.s
           t == st.tokens
           v == <<s, e - s>>
           u == Append(t, v)
           W == WordsOf(line)
<1>1. s \in 1 .. e
  BY DEF Unbroken
<1>2. /\ t \in Seq(W)
      /\ \A i, j \in DOMAIN t : i < j => t[i][1] < t[j][1]
      /\ \A i \in DOMAIN t : t[i][1] < s
      /\ \A w \in W : w[1] < s => \E i \in DOMAIN t : t[i] = w
  BY DEF Collected
<1>3. s # e => v \in W
  BY WordEnds
<1>4. \A w \in W : w[1] >= s /\ w[1] <= e => w = v /\ s # e
  BY WordOnly
<1>5. \A w \in W : w[1] \in Nat
  BY WordsPairs
<1>6. v[1] = s
  OBVIOUS
<1>7. Cut(st, e) = IF s # e THEN u ELSE t
  BY DEF Cut
<1> HIDE DEF s, t, v, W
<1>8. CASE s = e
  <2>1. ASSUME NEW w \in W, w[1] < e + 1 PROVE \E i \in DOMAIN t : t[i] = w
    <3>1. w[1] < s
      BY <2>1, <1>1, <1>4, <1>5, <1>8
    <3>2. QED
      BY <3>1, <1>2
  <2>2. \A i \in DOMAIN t : t[i][1] < e + 1
    <3>1. ASSUME NEW i \in DOMAIN t PROVE t[i][1] < e + 1
      <4>1. t[i] \in W
        BY <1>2
      <4>2. t[i][1] \in Nat /\ t[i][1] < s
        BY <4>1, <1>2, <1>5
      <4>3. QED
        BY <4>2, <1>1
    <3>2. QED
      BY <3>1
  <2>3. Collected(line, e + 1, t)
    BY <1>2, <2>1, <2>2 DEF Collected, W
  <2>4. Cut(st, e) = t /\ Len(t) <= Len(t) + 1
    BY <1>2, <1>7, <1>8
  <2>5. QED
    BY <2>3, <2>4 DEF t
<1>9. CASE s # e
  <2>1. v \in W /\ Cut(st, e) = u
    BY <1>3, <1>7, <1>9
  <2>2. /\ u \in Seq(W) /\ Len(u) = Len(t) + 1 /\ Len(t) \in Nat
        /\ DOMAIN t = 1 .. Len(t) /\ DOMAIN u = 1 .. Len(t) + 1
        /\ \A i \in 1 .. Len(t) : u[i] = t[i]
        /\ u[Len(t) + 1] = v
    BY <2>1, <1>2
  <2> DEFINE k == Len(t)
  <2> HIDE DEF k, u
  <2>3. /\ k \in Nat /\ DOMAIN t = 1 .. k /\ DOMAIN u = 1 .. k + 1
        /\ \A i \in 1 .. k : u[i] = t[i]
        /\ u[k + 1] = v
    BY <2>2 DEF k
  <2>4. \A i \in 1 .. k : t[i] \in W /\ t[i][1] \in Nat /\ t[i][1] < s
    <3>1. ASSUME NEW i \in 1 .. k PROVE t[i] \in W /\ t[i][1] \in Nat /\ t[i][1] < s
      <4>1. i \in DOMAIN t
        BY <2>3
      <4>2. t[i] \in W
        BY <4>1, <1>2
      <4>3. QED
        BY <4>1, <4>2, <1>2, <1>5, Zenon
    <3>2. QED
      BY <3>1
  <2>5. ASSUME NEW i \in DOMAIN u, NEW j \in DOMAIN u, i < j PROVE u[i][1] < u[j][1]
    <3>1. i \in 1 .. k /\ (j \in 1 .. k \/ j = k + 1)
      BY <2>3, <2>5
    <3>2. u[i] = t[i] /\ t[i][1] < s
      BY <3>1, <2>3, <2>4
    <3>3. CASE j \in 1 .. k
      BY <3>1, <3>2, <3>3, <2>3, <2>5, <1>2
    <3>4. CASE j = k + 1
      BY <3>2, <3>4, <2>3, <1>6
    <3>5. QED
      BY <3>1, <3>3, <3>4
  <2>6. ASSUME NEW i \in DOMAIN u PROVE u[i][1] < e + 1
    <3>1. CASE i \in 1 .. k
      BY <3>1, <2>3, <2>4, <1>1
    <3>2. CASE i = k + 1
      BY <3>2, <2>3, <1>1, <1>6
    <3>3. QED
      BY <3>1, <3>2, <2>3
  <2>7. ASSUME NEW w \in W, w[1] < e + 1 PROVE \E i \in DOMAIN u : u[i] = w
    <3>1. CASE w[1] < s
      <4>1. PICK i \in DOMAIN t : t[i] = w
        BY <3>1, <1>2
      <4>2. i \in DOMAIN u /\ u[i] = w
        BY <4>1, <2>3
      <4>3. QED
        BY <4>2
    <3>2. CASE w[1] >= s
      <4>1. w = v
        BY <2>7, <3>2, <1>1, <1>4, <1>5
      <4>2. k + 1 \in DOMAIN u /\ u[k + 1] = w
        BY <4>1, <2>3
      <4>3. QED
        BY <4>2
    <3>3. QED
      BY <3>1, <3>2, <1>1, <1>5
  <2>8. u \in Seq(WordsOf(line))
    BY <2>2 DEF W
  <2>9. Collected(line, e + 1, u)
    BY <2>5, <2>6, <2>7, <2>8 DEF Collected, W
  <2>10. QED
    BY <2>1, <2>2, <2>9 DEF t
<1>10. QED
  BY <1>8, <1>9

\* Words collected are pairs of numbers.
LEMMA CollectedPairs ==
  ASSUME NEW line, NEW b, NEW t, Collected(line, b, t)
  PROVE  t \in Seq(Nat \X Nat)
<1>1. WordsOf(line) \subseteq Nat \X Nat
  BY DEF WordsOf
<1>2. t \in Seq(WordsOf(line))
  BY DEF Collected
<1>3. QED
  BY <1>1, <1>2

\* One character on, what has been seen is still so.
LEMMA SeenStep ==
  ASSUME NEW line \in Seq(Char), NEW e \in 1 .. Len(line), NEW st, Seen(line, e - 1, st)
  PROVE  Seen(line, e, Step(st, line[e], e))
<1> DEFINE ch == line[e]
           nx == Step(st, ch, e)
           State == [s : Nat, esc : BOOLEAN, tokens : Seq(Nat \X Nat), done : BOOLEAN]
<1>0. /\ Len(line) \in Nat /\ e \in 1 .. Len(line) + 1 /\ e \in Nat \ {0}
      /\ e - 1 + 1 = e /\ ch \in Char
  OBVIOUS
<1>1. /\ st \in State
      /\ Len(st.tokens) < MaxTokens /\ Len(st.tokens) \in Nat
      /\ Collected(line, st.s, st.tokens)
  BY DEF Seen
<1>2. MaxTokens \in Nat
  BY TokenizeAssumption
<1>3. ~st.done => Unbroken(line, st.s, e - 1) /\ (st.esc <=> Escaped(line, e))
  BY <1>0 DEF Seen
<1>4. st.done => Len(st.tokens) = MaxTokens - 1
  BY DEF Seen
<1>5. Escaped(line, e + 1) <=> (ch = "\\" /\ ~Escaped(line, e))
  BY <1>0, EscapedNext
<1>6. Blank(line, e) <=> (ch = " " /\ ~Escaped(line, e))
  BY DEF Blank
<1>7. ASSUME ~st.done, ~Blank(line, e) PROVE Unbroken(line, st.s, e)
  <2>1. /\ st.s \in 1 .. e - 1 + 1 /\ (st.s = 1 \/ Blank(line, st.s - 1))
        /\ \A q \in st.s .. e - 1 : ~Blank(line, q)
    BY <1>3, <1>7 DEF Unbroken
  <2>2. \A q \in st.s .. e : q \in st.s .. e - 1 \/ q = e
    BY <2>1
  <2>3. st.s \in 1 .. e + 1
    BY <2>1
  <2>4. QED
    BY <2>1, <2>2, <2>3, <1>7 DEF Unbroken
<1>8. CASE st.done \/ Len(st.tokens) >= MaxTokens - 1
  <2>1. nx = [st EXCEPT !.done = TRUE]
    BY <1>8 DEF Step
  <2>2. nx \in State /\ nx.s = st.s /\ nx.tokens = st.tokens /\ nx.done
    BY <2>1, <1>1
  <2>3. Len(st.tokens) = MaxTokens - 1
    BY <1>1, <1>2, <1>4, <1>8
  <2>4. QED
    BY <2>2, <2>3, <1>1 DEF Seen
<1>9. CASE ~st.done /\ ~(Len(st.tokens) >= MaxTokens - 1) /\ st.esc
  <2>1. nx = [st EXCEPT !.esc = FALSE]
    BY <1>9 DEF Step
  <2>2. nx \in State /\ nx.s = st.s /\ nx.tokens = st.tokens /\ nx.done = st.done /\ ~nx.esc
    BY <2>1, <1>1
  <2>3. Unbroken(line, st.s, e) /\ ~Escaped(line, e + 1)
    BY <1>3, <1>5, <1>6, <1>7, <1>9
  <2>4. QED
    BY <2>2, <2>3, <1>1, <1>9 DEF Seen
<1>10. CASE ~st.done /\ ~(Len(st.tokens) >= MaxTokens - 1) /\ ~st.esc /\ ch = " "
  <2>1. nx = [st EXCEPT !.tokens = Cut(st, e), !.s = e + 1]
    BY <1>10 DEF Step
  <2>2. Blank(line, e) /\ ~Escaped(line, e + 1) /\ Unbroken(line, st.s, e - 1)
    BY <1>3, <1>5, <1>6, <1>10
  <2>3. /\ Collected(line, e + 1, Cut(st, e))
        /\ Len(Cut(st, e)) <= Len(st.tokens) + 1
    BY <1>0, <1>1, <2>2, CutCollects
  <2>4. Cut(st, e) \in Seq(Nat \X Nat)
    BY <2>3, CollectedPairs
  <2>5. /\ nx \in State /\ nx.s = e + 1 /\ nx.tokens = Cut(st, e)
        /\ nx.done = st.done /\ nx.esc = st.esc
    <3> DEFINE c == Cut(st, e)
               r == [st EXCEPT !.tokens = c, !.s = e + 1]
    <3>1. c \in Seq(Nat \X Nat) /\ e + 1 \in Nat
      BY <2>4, <1>0
    <3> HIDE DEF c
    <3>2. /\ r \in State /\ r.s = e + 1 /\ r.tokens = c
          /\ r.done = st.done /\ r.esc = st.esc
      BY <3>1, <1>1
    <3>3. nx = r
      BY <2>1 DEF c
    <3> HIDE DEF r
    <3>4. QED
      BY <3>2, <3>3 DEF c
  <2>6. Unbroken(line, e + 1, e)
    <3>1. e + 1 \in 1 .. e + 1 /\ e + 1 - 1 = e /\ \A q \in e + 1 .. e : FALSE
      BY <1>0
    <3>2. QED
      BY <2>2, <3>1 DEF Unbroken
  <2>7. Len(Cut(st, e)) < MaxTokens
    <3> DEFINE i == Len(Cut(st, e))
               j == Len(st.tokens)
    <3>1. i \in Nat
      BY <2>4
    <3>2. i <= j + 1 /\ j \in Nat /\ ~(j >= MaxTokens - 1)
      BY <2>3, <1>1, <1>10
    <3> HIDE DEF i, j
    <3>3. i < MaxTokens
      BY <3>1, <3>2, <1>2
    <3>4. QED
      BY <3>3 DEF i
  <2>8. QED
    BY <2>2, <2>3, <2>5, <2>6, <2>7, <1>10 DEF Seen
<1>11. CASE ~st.done /\ ~(Len(st.tokens) >= MaxTokens - 1) /\ ~st.esc /\ ch # " "
  <2>1. ch # Nul
    BY <1>0 DEF Char, Nul
  <2>2. nx = [st EXCEPT !.esc = (ch = "\\")]
    BY <2>1, <1>11 DEF Step
  <2>3. /\ nx \in State /\ nx.s = st.s /\ nx.tokens = st.tokens /\ nx.done = st.done
        /\ nx.esc = (ch = "\\")
    BY <2>2, <1>1
  <2>4. Unbroken(line, st.s, e) /\ (Escaped(line, e + 1) <=> ch = "\\")
    BY <1>3, <1>5, <1>6, <1>7, <1>11
  <2>5. QED
    BY <2>3, <2>4, <1>1, <1>11 DEF Seen
<1>12. QED
  BY <1>8, <1>9, <1>10, <1>11

\* Nothing has been seen before the first character.
LEMMA SeenNothing ==
  ASSUME NEW line
  PROVE  Seen(line, 0, [s |-> 1, esc |-> FALSE, tokens |-> <<>>, done |-> FALSE])
<1> DEFINE st == [s |-> 1, esc |-> FALSE, tokens |-> <<>>, done |-> FALSE]
<1>1. /\ st \in [s : Nat, esc : BOOLEAN, tokens : Seq(Nat \X Nat), done : BOOLEAN]
      /\ st.s = 1 /\ ~st.esc /\ st.tokens = <<>> /\ ~st.done
  OBVIOUS
<1>2. Len(<<>>) < MaxTokens
  BY TokenizeAssumption
<1>3. \A w \in WordsOf(line) : ~(w[1] < 1)
  <2>1. ASSUME NEW w \in WordsOf(line) PROVE ~(w[1] < 1)
    <3>1. w[1] \in 1 .. Len(line)
      BY WordsPairs
    <3>2. QED
      BY <3>1
  <2>2. QED
    BY <2>1
<1>4. Collected(line, 1, <<>>)
  <2>1. <<>> \in Seq(WordsOf(line)) /\ DOMAIN <<>> = {}
    OBVIOUS
  <2>2. QED
    BY <2>1, <1>3 DEF Collected
<1>5. Unbroken(line, 1, 0)
  BY DEF Unbroken
<1>6. ~Escaped(line, 1)
  BY DEF Escaped
<1> HIDE DEF st
<1>7. 0 + 1 = 1
  OBVIOUS
<1>8. Seen(line, 0, st)
  BY <1>1, <1>2, <1>4, <1>5, <1>6, <1>7 DEF Seen
<1>9. QED
  BY <1>8 DEF st

\* The NUL ends the line: the words are found.
LEMMA SeenAll ==
  ASSUME NEW line \in Seq(Char), NEW st, Seen(line, Len(line), st),
         ~Escaped(line, Len(line) + 1)
  PROVE  FirstWords(line, Step(st, Nul, Len(line) + 1).tokens)
<1> DEFINE e == Len(line) + 1
           nx == Step(st, Nul, e)
<1>0. /\ Len(line) \in Nat /\ e \in 1 .. Len(line) + 1
      /\ e - 1 = Len(line) /\ e > Len(line)
  OBVIOUS
<1>1. /\ st \in [s : Nat, esc : BOOLEAN, tokens : Seq(Nat \X Nat), done : BOOLEAN]
      /\ Len(st.tokens) < MaxTokens /\ Len(st.tokens) \in Nat
      /\ Collected(line, st.s, st.tokens)
  BY DEF Seen
<1>2. MaxTokens \in Nat
  BY TokenizeAssumption
<1>3. ASSUME NEW w \in WordsOf(line) PROVE w[1] \in Nat /\ w[1] < e + 1
  <2>1. w[1] \in 1 .. Len(line)
    BY WordsPairs
  <2>2. QED
    BY <2>1
<1>4. ~st.done => ~st.esc /\ Unbroken(line, st.s, e - 1)
  BY <1>0 DEF Seen
<1>5. st.done => Len(st.tokens) = MaxTokens - 1
  BY DEF Seen
<1> HIDE DEF e
<1>6. CASE st.done \/ Len(st.tokens) >= MaxTokens - 1
  <2>1. nx.tokens = st.tokens
    BY <1>1, <1>6 DEF Step
  <2>2. Len(st.tokens) = MaxTokens - 1
    BY <1>1, <1>2, <1>5, <1>6
  <2>3. ASSUME NEW w \in WordsOf(line), ~\E i \in DOMAIN st.tokens : st.tokens[i] = w,
               NEW i \in DOMAIN st.tokens
        PROVE  st.tokens[i][1] < w[1]
    <3>1. ~(w[1] < st.s)
      BY <2>3, <1>1 DEF Collected
    <3>2. st.tokens[i][1] < st.s /\ st.tokens[i] \in WordsOf(line)
      BY <1>1 DEF Collected
    <3>3. st.tokens[i][1] \in Nat /\ w[1] \in Nat /\ st.s \in Nat
      BY <3>2, <1>1, <1>3
    <3>4. QED
      BY <3>1, <3>2, <3>3
  <2>4. FirstWords(line, st.tokens)
    BY <2>2, <2>3, <1>1 DEF Collected, FirstWords
  <2>5. QED
    BY <2>1, <2>4 DEF e
<1>7. CASE ~st.done /\ ~(Len(st.tokens) >= MaxTokens - 1)
  <2>1. nx.tokens = Cut(st, e)
    <3>1. nx = [st EXCEPT !.tokens = Cut(st, e), !.done = TRUE]
      BY <1>4, <1>7 DEF Step, Nul
    <3>2. QED
      BY <3>1, <1>1
  <2>2. /\ Collected(line, e + 1, Cut(st, e))
        /\ Len(Cut(st, e)) <= Len(st.tokens) + 1
    BY <1>0, <1>1, <1>4, <1>7, CutCollects
  <2>3. Len(Cut(st, e)) \in Nat
    BY <2>2 DEF Collected
  <2>4. Len(Cut(st, e)) < MaxTokens
    BY <2>2, <2>3, <1>1, <1>2, <1>7
  <2>5. FirstWords(line, Cut(st, e))
    BY <2>2, <2>4, <1>3 DEF Collected, FirstWords
  <2>6. QED
    BY <2>1, <2>5 DEF e
<1>8. QED
  BY <1>6, <1>7

\* The loop over the first m characters of text, step by step.
Looping(text, m, h) ==
  h = [e \in 0 .. m |->
         IF e = 0 THEN [s |-> 1, esc |-> FALSE, tokens |-> <<>>, done |-> FALSE]
                  ELSE Step(h[e - 1], text[e], e)]

\* The steps, one by one.
LEMMA LoopingSteps ==
  ASSUME NEW text, NEW m \in Nat, NEW h, Looping(text, m, h)
  PROVE  /\ h[0] = [s |-> 1, esc |-> FALSE, tokens |-> <<>>, done |-> FALSE]
         /\ \A e \in 1 .. m : h[e] = Step(h[e - 1], text[e], e)
<1> DEFINE first == [s |-> 1, esc |-> FALSE, tokens |-> <<>>, done |-> FALSE]
           next(e) == Step(h[e - 1], text[e], e)
<1>1. h = [e \in 0 .. m |-> IF e = 0 THEN first ELSE next(e)]
  BY Zenon DEF Looping
<1> HIDE DEF first, next
<1>2. \A e \in 0 .. m : h[e] = IF e = 0 THEN first ELSE next(e)
  BY <1>1, Zenon
<1>3. 0 \in 0 .. m /\ \A e \in 1 .. m : e \in 0 .. m /\ e # 0
  OBVIOUS
<1>4. h[0] = first /\ \A e \in 1 .. m : h[e] = next(e)
  BY <1>2, <1>3, Zenon
<1>5. QED
  BY <1>4, Zenon DEF first, next

\* The loop goes on, one character further.
LEMMA LoopingGrows ==
  ASSUME NEW text, NEW m \in Nat, m # 0, NEW h, Looping(text, m - 1, h)
  PROVE  \E g : Looping(text, m, g)
<1> DEFINE first == [s |-> 1, esc |-> FALSE, tokens |-> <<>>, done |-> FALSE]
           next(e) == IF e = 0 THEN first ELSE Step(h[e - 1], text[e], e)
           g == [e \in 0 .. m |-> IF e < m THEN h[e] ELSE next(e)]
<1>1. m - 1 \in Nat
  OBVIOUS
<1>2. h[0] = first /\ \A e \in 1 .. m - 1 : h[e] = Step(h[e - 1], text[e], e)
  BY <1>1, LoopingSteps, Zenon
<1> HIDE DEF first
<1>3. ASSUME NEW e \in 0 .. m
      PROVE  g[e] = IF e = 0 THEN first ELSE Step(g[e - 1], text[e], e)
  <2>1. g[e] = next(e)
    <3>1. CASE e < m
      <4>1. e = 0 \/ (e # 0 /\ e \in 1 .. m - 1)
        BY <3>1
      <4>2. h[e] = next(e)
        BY <4>1, <1>2, Zenon
      <4>3. g[e] = h[e]
        BY <3>1, Zenon
      <4>4. QED
        BY <4>2, <4>3, Zenon
    <3>2. CASE ~(e < m)
      BY <3>2, Zenon
    <3>3. QED
      BY <3>1, <3>2
  <2>2. CASE e = 0
    BY <2>1, <2>2, Zenon
  <2>3. CASE e # 0
    <3>1. e - 1 \in 0 .. m /\ e - 1 < m
      BY <2>3
    <3>2. g[e - 1] = h[e - 1]
      BY <3>1, Zenon
    <3>3. QED
      BY <2>1, <2>3, <3>2, Zenon
  <2>4. QED
    BY <2>2, <2>3, Zenon
<1>4. g = [e \in 0 .. m |-> g[e]]
  BY Zenon
<1> HIDE DEF g
<1>5. g = [e \in 0 .. m |-> IF e = 0 THEN first ELSE Step(g[e - 1], text[e], e)]
  BY <1>3, <1>4, Zenon
<1>6. Looping(text, m, g)
  BY <1>5, Zenon DEF Looping, first
<1>7. QED
  BY <1>6, Zenon

\* There is such a loop over any number of characters.
LEMMA LoopingExists ==
  ASSUME NEW text, NEW n \in Nat
  PROVE  \E h : Looping(text, n, h)
<1> DEFINE Bad == {m \in 1 .. n : ~\E h : Looping(text, m, h)}
           m == Min(Bad)
<1>0. \E h : Looping(text, 0, h)
  <2> DEFINE first == [s |-> 1, esc |-> FALSE, tokens |-> <<>>, done |-> FALSE]
             h == [e \in 0 .. 0 |-> first]
  <2>1. \A e \in 0 .. 0 : e = 0
    OBVIOUS
  <2> HIDE DEF first
  <2>2. h = [e \in 0 .. 0 |-> IF e = 0 THEN first ELSE Step(h[e - 1], text[e], e)]
    BY <2>1, Zenon
  <2> HIDE DEF h
  <2>3. Looping(text, 0, h)
    BY <2>2, Zenon DEF Looping, first
  <2>4. QED
    BY <2>3, Zenon
<1>1. ASSUME Bad # {} PROVE FALSE
  <2>1. Bad \in SUBSET (1 .. n)
    OBVIOUS
  <2> HIDE DEF Bad
  <2>2. m \in Bad /\ \A x \in Bad : m <= x
    BY <1>1, <2>1, MinIn
  <2> USE DEF Bad
  <2> HIDE DEF m
  <2>3. m \in 1 .. n /\ ~\E h : Looping(text, m, h)
    BY <2>2
  <2>4. m \in Nat /\ m # 0
    BY <2>3
  <2>5. m - 1 = 0 \/ (m - 1 \in 1 .. n /\ m - 1 \notin Bad)
    BY <2>2, <2>3
  <2>6. \E h : Looping(text, m - 1, h)
    BY <2>5, <1>0
  <2>7. QED
    BY <2>3, <2>4, <2>6, LoopingGrows, Zenon
<1>2. n = 0 \/ n \in 1 .. n
  OBVIOUS
<1>3. QED
  BY <1>0, <1>1, <1>2

\* What each step of the loop has seen.
LEMMA LoopSees ==
  ASSUME NEW line \in Seq(Char), NEW h, Looping(Append(line, Nul), Len(line) + 1, h),
         NEW j \in 0 .. Len(line)
  PROVE  Seen(line, j, h[j])
<1> DEFINE text == Append(line, Nul)
           n == Len(line)
           Bad == {e \in 1 .. n : ~Seen(line, e, h[e])}
           m == Min(Bad)
<1>0. n \in Nat /\ n + 1 \in Nat /\ \A e \in 1 .. n : text[e] = line[e] /\ e \in 1 .. n + 1
  OBVIOUS
<1>1. Looping(text, n + 1, h)
  OBVIOUS
<1> HIDE DEF text
<1>2. /\ h[0] = [s |-> 1, esc |-> FALSE, tokens |-> <<>>, done |-> FALSE]
      /\ \A e \in 1 .. n + 1 : h[e] = Step(h[e - 1], text[e], e)
  BY <1>0, <1>1, LoopingSteps, Zenon
<1>3. \A e \in 1 .. n : h[e] = Step(h[e - 1], line[e], e)
  BY <1>0, <1>2, Zenon
<1>4. Seen(line, 0, h[0])
  BY <1>2, SeenNothing, Zenon
<1>5. ASSUME Bad # {} PROVE FALSE
  <2>1. Bad \in SUBSET (1 .. n)
    OBVIOUS
  <2> HIDE DEF Bad
  <2>2. m \in Bad /\ \A x \in Bad : m <= x
    BY <1>0, <1>5, <2>1, MinIn
  <2> USE DEF Bad
  <2> HIDE DEF m
  <2>3. m \in 1 .. n /\ ~Seen(line, m, h[m])
    BY <2>2
  <2>4. m - 1 = 0 \/ (m - 1 \in 1 .. n /\ m - 1 \notin Bad)
    BY <2>2, <2>3, <1>0
  <2>5. Seen(line, m - 1, h[m - 1])
    BY <2>4, <1>4
  <2>6. Seen(line, m, Step(h[m - 1], line[m], m))
    BY <2>3, <2>5, SeenStep
  <2>7. QED
    BY <2>3, <2>6, <1>3
<1>6. j = 0 \/ j \in 1 .. n
  BY <1>0
<1>7. QED
  BY <1>4, <1>5, <1>6

\* The NUL after a line does not change what is escaped in it.
LEMMA EscapedLine ==
  ASSUME NEW line \in Seq(Char)
  PROVE  Escaped(Append(line, Nul), Len(line) + 1) <=> Escaped(line, Len(line) + 1)
<1> DEFINE text == Append(line, Nul)
           p == Len(line) + 1
<1>1. \A q \in 1 .. Len(line) : text[q] = line[q]
  OBVIOUS
<1>2. Len(line) \in Nat
  OBVIOUS
<1> HIDE DEF text
<1>3. ASSUME NEW n \in 1 .. p - 1
      PROVE  /\ \A q \in p - n .. p - 1 : text[q] = line[q]
             /\ p - n > 1 => text[p - n - 1] = line[p - n - 1]
  <2>1. /\ \A q \in p - n .. p - 1 : q \in 1 .. Len(line)
        /\ p - n > 1 => p - n - 1 \in 1 .. Len(line)
    BY <1>2
  <2>2. QED
    BY <2>1, <1>1
<1> HIDE DEF p
<1>4. Escaped(text, p) <=> Escaped(line, p)
  BY <1>3, Zenon DEF Escaped
<1>5. QED
  BY <1>4 DEF text, p

\* The loop finds the words of a line.
LEMMA TokensFound ==
  ASSUME NEW line \in Lines
  PROVE  FirstWords(line, Tokens(line))
<1> DEFINE text == Append(line, Nul)
           n == Len(line)
           h == CHOOSE g : Looping(text, n + 1, g)
<1>1. line \in Seq(Char) /\ ~Escaped(line, n + 1)
  <2>1. line \in BoundedSeq(Char, LineBound) /\ ~Escaped(Append(line, Nul), Len(line) + 1)
    BY DEF Lines
  <2>2. line \in Seq(Char)
    BY <2>1, TokenizeAssumption DEF BoundedSeq, SeqOf
  <2>3. QED
    BY <2>1, <2>2, EscapedLine
<1>2. n \in Nat /\ n + 1 \in Nat /\ Len(text) = n + 1 /\ text[n + 1] = Nul
  BY <1>1
<1>3. Looping(text, n + 1, h)
  <2>1. \E g : Looping(text, n + 1, g)
    BY <1>2, LoopingExists
  <2>2. QED
    BY <2>1, Zenon
<1>4. Tokens(line) = h[n + 1].tokens
  BY <1>2 DEF Tokens, Looping
<1> HIDE DEF h
<1>5. h[n + 1] = Step(h[n], Nul, n + 1)
  <2>1. \A e \in 1 .. n + 1 : h[e] = Step(h[e - 1], text[e], e)
    BY <1>2, <1>3, LoopingSteps, Zenon
  <2> DEFINE k == n + 1
  <2>2. k \in 1 .. k /\ k - 1 = n /\ text[k] = Nul
    BY <1>2
  <2>3. \A e \in 1 .. k : h[e] = Step(h[e - 1], text[e], e)
    BY <2>1
  <2> HIDE DEF k, text, n
  <2>4. h[k] = Step(h[n], Nul, k)
    BY <2>2, <2>3
  <2>5. QED
    BY <2>4 DEF k
<1>6. Seen(line, n, h[n])
  <2>1. n \in 0 .. Len(line)
    BY <1>2
  <2>2. QED
    BY <2>1, <1>1, <1>3, LoopSees
<1>7. FirstWords(line, Step(h[n], Nul, n + 1).tokens)
  BY <1>1, <1>6, SeenAll
<1>8. QED
  BY <1>4, <1>5, <1>7

\* tokenize finds the words of every line whose NUL it can see: those between blanks
\* that no backslash escapes, in order, as many as there is room for.
THEOREM WordsFound == Spec => []TokenizeFindsWords
<1>1. TokenizeFindsWords
  BY TokensFound DEF TokenizeFindsWords
<1>2. QED
  BY <1>1, PTL

=================================================================================
