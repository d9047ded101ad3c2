----------------------------- MODULE DumpLoadProofs -----------------------------
(***************************************************************************)
(* Theorems about dump and load, for every segment, buffer and file: what  *)
(* the answer of load tells, what it writes, and in which order the items  *)
(* come back.                                                              *)
(***************************************************************************)
EXTENDS DumpLoad, ShmcCacheProofs

-------------------------------------------------------------------------------
(***************************************************************************)
(* The digits of a number. The recursive function of DumpLoad is the union *)
(* of its tables for 0 .. m.                                               *)
(***************************************************************************)
DigitTable(m, h) == h = [n \in 0 .. m |-> IF n < 10 THEN 1 ELSE 1 + h[n \div 10]]

\* The rows of a table.
LEMMA DigitRow ==
  ASSUME NEW m \in Nat, NEW h, DigitTable(m, h), NEW n \in 0 .. m
  PROVE  /\ n < 10 => h[n] = 1
         /\ ~(n < 10) => h[n] = 1 + h[n \div 10]
         /\ ~(n < 10) => n \div 10 \in 0 .. m /\ n \div 10 < n
<1>1. h[n] = IF n < 10 THEN 1 ELSE 1 + h[n \div 10]
  BY Zenon DEF DigitTable
<1>2. ~(n < 10) => n \div 10 \in 0 .. m /\ n \div 10 < n
  OBVIOUS
<1>3. QED
  BY <1>1, <1>2

\* Every row is a positive number, the same in every table.
LEMMA DigitRowsAgree ==
  ASSUME NEW m \in Nat, NEW h, DigitTable(m, h), NEW k \in Nat, NEW g, DigitTable(k, g),
         NEW n \in 0 .. m, n \in 0 .. k
  PROVE  h[n] = g[n] /\ h[n] \in Nat \ {0}
<1> DEFINE Bad == {x \in 0 .. m : x \in 0 .. k /\ ~(h[x] = g[x] /\ h[x] \in Nat \ {0})}
           b == Min(Bad)
<1>1. ASSUME Bad # {} PROVE FALSE
  <2>1. Bad \subseteq Nat
    OBVIOUS
  <2> HIDE DEF Bad
  <2>2. b \in Bad /\ \A x \in Bad : b <= x
    BY <1>1, <2>1, LeastNumber
  <2> USE DEF Bad
  <2> HIDE DEF b
  <2>3. b \in 0 .. m /\ b \in 0 .. k /\ ~(h[b] = g[b] /\ h[b] \in Nat \ {0})
    BY <2>2
  <2>4. /\ b < 10 => h[b] = 1 /\ g[b] = 1
        /\ ~(b < 10) => h[b] = 1 + h[b \div 10] /\ g[b] = 1 + g[b \div 10]
        /\ ~(b < 10) => b \div 10 \in 0 .. m /\ b \div 10 \in 0 .. k /\ b \div 10 < b
    BY <2>3, DigitRow
  <2>5. ~(b < 10)
    BY <2>3, <2>4
  <2>6. b \div 10 \notin Bad
    BY <2>2, <2>3, <2>4, <2>5
  <2> DEFINE c == b \div 10
  <2>7. c \in 0 .. m /\ c \in 0 .. k
    BY <2>4, <2>5
  <2> HIDE DEF c
  <2>8. h[c] = g[c] /\ h[c] \in Nat \ {0}
    BY <2>6, <2>7 DEF c
  <2>9. h[b] = 1 + h[c] /\ g[b] = 1 + g[c]
    BY <2>4, <2>5 DEF c
  <2>10. QED
    BY <2>3, <2>8, <2>9
<1>2. QED
  BY <1>1

\* There is a table up to every number.
LEMMA DigitTableExists ==
  ASSUME NEW n \in Nat
  PROVE  \E h : DigitTable(n, h)
<1> DEFINE Bad == {m \in Nat : ~\E h : DigitTable(m, h)}
           m == Min(Bad)
<1>1. ASSUME Bad # {} PROVE FALSE
  <2>1. Bad \subseteq Nat
    OBVIOUS
  <2> HIDE DEF Bad
  <2>2. m \in Bad /\ \A x \in Bad : m <= x
    BY <1>1, <2>1, LeastNumber
  <2> USE DEF Bad
  <2> HIDE DEF m
  <2>3. m \in Nat /\ ~\E h : DigitTable(m, h)
    BY <2>2
  <2>4. m # 0
    <3> DEFINE e == [n_1 \in 0 .. 0 |-> 1]
    <3>1. e = [x \in 0 .. 0 |-> IF x < 10 THEN 1 ELSE 1 + e[x \div 10]]
      OBVIOUS
    <3> HIDE DEF e
    <3>2. DigitTable(0, e)
      BY <3>1 DEF DigitTable
    <3>3. QED
      BY <3>2, <2>3
  <2>5. m - 1 \in Nat /\ m - 1 \notin Bad
    BY <2>2, <2>3, <2>4
  <2>6. PICK h : DigitTable(m - 1, h)
    BY <2>5
  <2> DEFINE e == [x \in 0 .. m |->
                     IF x < m THEN h[x] ELSE IF x < 10 THEN 1 ELSE 1 + h[x \div 10]]
  <2>7. ASSUME NEW x \in 0 .. m
        PROVE  e[x] = IF x < 10 THEN 1 ELSE 1 + e[x \div 10]
    <3>1. CASE x < 10
      <4>1. CASE x < m
        <5>1. x \in 0 .. m - 1
          BY <4>1, <2>3
        <5>2. h[x] = 1
          BY <5>1, <3>1, <2>5, <2>6, DigitRow
        <5>3. QED
          BY <5>2, <4>1, <3>1
      <4>2. QED
        BY <4>1, <3>1
    <3>2. CASE ~(x < 10)
      <4>1. x \div 10 \in 0 .. m /\ x \div 10 < m
        BY <3>2, <2>3
      <4>2. e[x \div 10] = h[x \div 10]
        BY <4>1
      <4>3. CASE x < m
        <5>1. x \in 0 .. m - 1
          BY <4>3, <2>3
        <5>2. h[x] = 1 + h[x \div 10]
          BY <5>1, <3>2, <2>5, <2>6, DigitRow
        <5>3. e[x] = h[x]
          BY <4>3
        <5>4. QED
          BY <5>2, <5>3, <3>2, <4>2, Zenon
      <4>4. CASE ~(x < m)
        <5>1. e[x] = 1 + h[x \div 10]
          BY <4>4, <3>2, Zenon
        <5>2. QED
          BY <4>2, <5>1, <3>2, Zenon
      <4>5. QED
        BY <4>3, <4>4
    <3>3. QED
      BY <3>1, <3>2
  <2>8. e = [x \in 0 .. m |-> e[x]]
    OBVIOUS
  <2> HIDE DEF e
  <2>9. DigitTable(m, e)
    BY <2>7, <2>8 DEF DigitTable
  <2>10. QED
    BY <2>9, <2>3
<1>2. QED
  BY <1>1

\* A number has at least one digit.
LEMMA SomeDigits == ASSUME NEW n \in Nat PROVE Digits[n] \in Nat \ {0}
<1> DEFINE T(m) == CHOOSE h : DigitTable(m, h)
           d == [m \in Nat |-> T(m)[m]]
           F(g) == [m \in Nat |-> IF m < 10 THEN 1 ELSE 1 + g[m \div 10]]
<1>1. ASSUME NEW m \in Nat PROVE DigitTable(m, T(m))
  <2>1. \E h : DigitTable(m, h)
    BY DigitTableExists
  <2>2. QED
    BY <2>1, Zenon
<1> HIDE DEF T
<1>2. ASSUME NEW m \in Nat
      PROVE  d[m] = (IF m < 10 THEN 1 ELSE 1 + d[m \div 10]) /\ d[m] \in Nat \ {0}
  <2>1. m \in 0 .. m /\ DigitTable(m, T(m)) /\ d[m] = T(m)[m]
    BY <1>1
  <2>2. /\ m < 10 => T(m)[m] = 1
        /\ ~(m < 10) => T(m)[m] = 1 + T(m)[m \div 10]
        /\ ~(m < 10) => m \div 10 \in 0 .. m /\ m \div 10 < m
    BY <2>1, DigitRow
  <2>3. T(m)[m] \in Nat \ {0}
    BY <2>1, DigitRowsAgree
  <2>4. CASE m < 10
    BY <2>1, <2>2, <2>3, <2>4
  <2>5. CASE ~(m < 10)
    <3> DEFINE c == m \div 10
    <3>1. c \in Nat /\ c \in 0 .. m
      BY <2>2, <2>5
    <3> HIDE DEF c
    <3>2. c \in 0 .. c /\ DigitTable(c, T(c)) /\ d[c] = T(c)[c]
      BY <3>1, <1>1
    <3>3. T(m)[c] = T(c)[c]
      BY <3>1, <3>2, <2>1, DigitRowsAgree
    <3>4. T(m)[m] = 1 + T(m)[c]
      BY <2>2, <2>5 DEF c
    <3> HIDE DEF d
    <3>5. d[m] = 1 + d[m \div 10]
      BY <2>1, <3>2, <3>3, <3>4 DEF c
    <3>6. QED
      BY <2>1, <2>3, <2>5, <3>5, Zenon
  <2>6. QED
    BY <2>4, <2>5
<1>3. d = [m \in Nat |-> d[m]]
  OBVIOUS
<1> HIDE DEF d
<1>4. d = F(d)
  BY <1>2, <1>3
<1>5. Digits = CHOOSE g : g = F(g)
  BY DEF Digits
<1>6. Digits = F(Digits)
  BY <1>4, <1>5, Zenon
<1> DEFINE Bad == {x \in Nat : Digits[x] \notin Nat \ {0}}
           b == Min(Bad)
<1>7. ASSUME NEW x \in Nat PROVE Digits[x] = IF x < 10 THEN 1 ELSE 1 + Digits[x \div 10]
  BY <1>6, Zenon
<1>8. ASSUME Bad # {} PROVE FALSE
  <2>1. Bad \subseteq Nat
    OBVIOUS
  <2> HIDE DEF Bad
  <2>2. b \in Bad /\ \A x \in Bad : b <= x
    BY <1>8, <2>1, LeastNumber
  <2> USE DEF Bad
  <2> HIDE DEF b
  <2>3. b \in Nat /\ Digits[b] \notin Nat \ {0}
    BY <2>2
  <2>4. Digits[b] = IF b < 10 THEN 1 ELSE 1 + Digits[b \div 10]
    BY <1>7, <2>3
  <2>5. ~(b < 10)
    BY <2>3, <2>4
  <2> DEFINE c == b \div 10
  <2>6. c \in Nat /\ c < b
    BY <2>3, <2>5
  <2>7. c \notin Bad
    BY <2>2, <2>3, <2>6
  <2> HIDE DEF c
  <2>8. Digits[c] \in Nat \ {0}
    BY <2>6, <2>7
  <2>9. Digits[b] = 1 + Digits[c]
    BY <2>4, <2>5 DEF c
  <2>10. QED
    BY <2>3, <2>8, <2>9
<1>9. QED
  BY <1>8

-------------------------------------------------------------------------------
(***************************************************************************)
(* The records of a dump.                                                  *)
(***************************************************************************)
RecordType ==
  [key : Key, nval : Nat, body : Seq(Part), need : Nat \ {0}, len : Nat \ {0}]

\* What is printed of a part has a length.
LEMMA PartLength == ASSUME NEW q \in Part PROVE PartLen(q) \in Nat
<1>1. CASE q.tag = "number"
  BY <1>1 DEF PartLen, CounterLen
<1>2. CASE q.tag # "number"
  <2>1. PICK v \in Text : q.tag \in {r.tag : r \in Range(v.body)}
    BY <1>2 DEF Part, Tag
  <2>2. v.body[1].tag = q.tag
    BY <2>1, DumpAssumption, ParamAssumption DEF Range
  <2> DEFINE w == CHOOSE u \in Text : u.body[1].tag = q.tag
  <2>3. w \in Text
    BY <2>2
  <2>4. w.nval \in Nat
    BY <2>3, ParamAssumption
  <2>5. PartLen(q) = w.nval
    BY <1>2 DEF PartLen
  <2>6. QED
    BY <2>4, <2>5
<1>3. QED
  BY <1>1, <1>2

\* Where the first counter of a body is.
LEMMA FirstNumber ==
  ASSUME NEW body \in Seq(Part), Numbers(body) # {}
  PROVE  /\ Min(Numbers(body)) \in 1 .. Len(body)
         /\ body[Min(Numbers(body))].num \in Nat
<1>1. Numbers(body) \subseteq Nat /\ Numbers(body) \subseteq 1 .. Len(body)
  BY DEF Numbers
<1>2. Min(Numbers(body)) \in Numbers(body)
  BY <1>1, LeastNumber
<1>3. Min(Numbers(body)) \in 1 .. Len(body)
  BY <1>1, <1>2
<1>4. body[Min(Numbers(body))] \in Part
  BY <1>3
<1>5. QED
  BY <1>3, <1>4, ParamAssumption DEF Part

\* No more of a value is printed than there is, and all of it when it holds no
\* counter.
LEMMA PrintedLength ==
  ASSUME NEW it, it.nval \in Nat, it.body \in Seq(Part)
  PROVE  /\ Printed(it) \in Nat /\ Printed(it) <= it.nval
         /\ Printed(it) # it.nval => Numbers(it.body) # {}
<1>1. CASE Numbers(it.body) = {}
  BY <1>1 DEF Printed
<1>2. CASE Numbers(it.body) # {}
  <2> DEFINE p == Min(Numbers(it.body))
             f == [q \in DOMAIN it.body |-> PartLen(it.body[q])]
             text == SumFunctionOnSet(f, 1 .. p - 1)
             n == text + Digits[it.body[p].num]
  <2>1. p \in 1 .. Len(it.body) /\ it.body[p].num \in Nat
    BY <1>2, FirstNumber
  <2>2. ASSUME NEW q \in 1 .. p - 1 PROVE f[q] \in Nat
    <3>1. q \in 1 .. Len(it.body)
      BY <2>1
    <3>2. it.body[q] \in Part
      BY <3>1
    <3>3. QED
      BY <3>1, <3>2, PartLength
  <2>3. Digits[it.body[p].num] \in Nat
    BY <2>1, SomeDigits
  <2>4. Printed(it) = Min({it.nval, n})
    BY <1>2 DEF Printed
  <2> HIDE DEF f, p
  <2>5. text \in Nat
    <3>1. IsFiniteSet(1 .. p - 1)
      BY <2>1, FS_Interval
    <3>2. QED
      BY <2>2, <3>1, SumNat
  <2>6. n \in Nat
    BY <2>3, <2>5
  <2> HIDE DEF n
  <2>7. Min({it.nval, n}) \in {it.nval, n} /\ \A x \in {it.nval, n} : Min({it.nval, n}) <= x
    BY <2>6, LeastNumber
  <2>8. QED
    BY <1>2, <2>4, <2>6, <2>7
<1>3. QED
  BY <1>1, <1>2

\* Of an item comes a record that is no longer than load expects, and shorter
\* only when it holds a counter.
LEMMA RecordOfItem ==
  ASSUME NEW it \in ItemType, it.key \in Key
  PROVE  /\ Record(it) \in RecordType
         /\ Record(it).len > 1 /\ Record(it).len <= Record(it).need
         /\ Record(it).len # Record(it).need => Numbers(Record(it).body) # {}
         /\ Record(it).key = it.key /\ Record(it).nval = it.nval
<1> DEFINE head == Digits[it.nkey] + 1 + Digits[it.nval] + 1 + it.nkey + 1
<1>1. it.nkey \in Nat /\ it.nval \in Nat /\ it.body \in Seq(Part)
  BY DEF ItemType
<1>2. Digits[it.nkey] \in Nat \ {0} /\ Digits[it.nval] \in Nat \ {0}
  BY <1>1, SomeDigits
<1>3. head \in Nat /\ head > 1
  <2> DEFINE d == Digits[it.nkey]
             e == Digits[it.nval]
             n == it.nkey
  <2>1. d \in Nat \ {0} /\ e \in Nat \ {0} /\ n \in Nat
    BY <1>1, <1>2
  <2> HIDE DEF d, e, n
  <2>2. d + 1 + e + 1 + n + 1 \in Nat /\ d + 1 + e + 1 + n + 1 > 1
    BY <2>1
  <2>3. QED
    BY <2>2 DEF d, e, n
<1> HIDE DEF head
<1>4. /\ Printed(it) \in Nat /\ Printed(it) <= it.nval
      /\ Printed(it) # it.nval => Numbers(it.body) # {}
  BY <1>1, PrintedLength
<1>5. Record(it) = [key |-> it.key, nval |-> it.nval, body |-> it.body,
                    need |-> head + it.nval + 1, len |-> head + Printed(it) + 1]
  BY DEF Record, head
<1>6. head + it.nval + 1 \in Nat \ {0} /\ head + Printed(it) + 1 \in Nat \ {0}
  BY <1>1, <1>3, <1>4
<1>7. QED
  BY <1>1, <1>3, <1>4, <1>5, <1>6 DEF RecordType

-------------------------------------------------------------------------------
(***************************************************************************)
(* Places in a file.                                                       *)
(***************************************************************************)
\* What a dump leaves: records, no two of a key; only the last can be cut, and
\* of the others only those that hold a counter are shorter than they say.
Legible(f) ==
  /\ f \in Seq(RecordType)
  /\ \A j \in 1 .. Len(f) :
       /\ f[j].len <= f[j].need
       /\ j < Len(f) /\ f[j].len # f[j].need => Numbers(f[j].body) # {}
  /\ \A i, j \in 1 .. Len(f) : f[i].key = f[j].key => i = j

Offset(f, j) == SumFunctionOnSet([p \in DOMAIN f |-> f[p].len], 1 .. j - 1)
Total(f) == Offset(f, Len(f) + 1)

\* Each record begins where the one before it ends.
LEMMA Offsets ==
  ASSUME NEW f, Legible(f)
  PROVE  /\ Len(f) \in Nat /\ DOMAIN f = 1 .. Len(f) /\ Total(f) \in Nat
         /\ Offset(f, 1) = 0
         /\ \A j \in 1 .. Len(f) + 1 : Offset(f, j) \in Nat /\ Offset(f, j) <= Total(f)
         /\ \A j \in 1 .. Len(f) :
              /\ f[j] \in RecordType /\ f[j].len \in Nat \ {0} /\ f[j].need \in Nat \ {0}
              /\ Offset(f, j + 1) = Offset(f, j) + f[j].len
<1> DEFINE g == [p \in DOMAIN f |-> f[p].len]
           n == Len(f)
           o == [j \in 1 .. n + 1 |-> SumFunctionOnSet(g, 1 .. j - 1)]
<1>1. n \in Nat /\ DOMAIN f = 1 .. n /\ \A j \in 1 .. n : f[j] \in RecordType
  BY DEF Legible
<1>2. \A j \in 1 .. n : f[j].len \in Nat \ {0} /\ f[j].need \in Nat \ {0}
  BY <1>1 DEF RecordType
<1>3. \A j \in 1 .. n : g[j] = f[j].len
  BY <1>1
<1>4. \A j \in 1 .. n + 1 : o[j] = Offset(f, j)
  BY DEF Offset
<1> HIDE DEF g
<1>5. \A j \in 1 .. n : g[j] \in Nat
  BY <1>2, <1>3
<1>6. Marks(g, n, o)
  BY <1>1, <1>5, SumsAreMarks
<1> HIDE DEF o
<1>7. /\ \A j \in 1 .. n + 1 : o[j] \in Nat
      /\ o[1] = 0 /\ \A j \in 1 .. n : o[j + 1] = o[j] + g[j]
  BY <1>6 DEF Marks
<1>8. \A j \in 1 .. n + 1 : o[j] <= o[n + 1]
  <2>1. n + 1 \in 1 .. n + 1 /\ \A j \in 1 .. n + 1 : j <= n + 1
    BY <1>1
  <2> HIDE DEF n
  <2>2. QED
    BY <1>1, <1>6, <2>1, MarksInOrder
<1>9. 1 \in 1 .. n + 1 /\ n + 1 \in 1 .. n + 1 /\ \A j \in 1 .. n : j \in 1 .. n + 1 /\ j + 1 \in 1 .. n + 1
  BY <1>1
<1>10. Total(f) = o[n + 1]
  BY <1>4, <1>9 DEF Total
<1>11. \A j \in 1 .. n : Offset(f, j + 1) = Offset(f, j) + f[j].len
  BY <1>3, <1>4, <1>7, <1>9
<1>12. QED
  BY <1>1, <1>2, <1>4, <1>7, <1>8, <1>9, <1>10, <1>11

\* A record ends before, or where, a later one begins.
LEMMA OffsetsGrow ==
  ASSUME NEW f, Legible(f), NEW i \in 1 .. Len(f), NEW j \in 1 .. Len(f) + 1, i < j
  PROVE  Offset(f, i) + f[i].len <= Offset(f, j)
<1> DEFINE g == [p \in DOMAIN f |-> f[p].len]
           n == Len(f)
           o == [k \in 1 .. n + 1 |-> SumFunctionOnSet(g, 1 .. k - 1)]
<1>1. n \in Nat /\ DOMAIN f = 1 .. n /\ \A k \in 1 .. n : f[k].len \in Nat
  BY Offsets
<1>2. \A k \in 1 .. n : g[k] = f[k].len
  BY <1>1
<1>3. \A k \in 1 .. n + 1 : o[k] = Offset(f, k)
  BY DEF Offset
<1>4. i \in 1 .. n /\ i \in 1 .. n + 1 /\ j \in 1 .. n + 1
  BY <1>1
<1> HIDE DEF g
<1>5. Marks(g, n, o)
  BY <1>1, <1>2, SumsAreMarks
<1> HIDE DEF o, n
<1>6. o[i] + g[i] <= o[j]
  BY <1>1, <1>4, <1>5, MarksGrow
<1>7. QED
  BY <1>2, <1>3, <1>4, <1>6

\* Two records do not begin at one place.
LEMMA OffsetsDiffer ==
  ASSUME NEW f, Legible(f), NEW i \in 1 .. Len(f) + 1, NEW j \in 1 .. Len(f) + 1,
         Offset(f, i) = Offset(f, j)
  PROVE  i = j
<1>1. /\ Len(f) \in Nat
      /\ \A k \in 1 .. Len(f) + 1 : Offset(f, k) \in Nat
      /\ \A k \in 1 .. Len(f) : f[k].len \in Nat \ {0}
  BY Offsets
<1>2. ASSUME i < j PROVE FALSE
  <2>1. i \in 1 .. Len(f)
    BY <1>1, <1>2
  <2>2. Offset(f, i) + f[i].len <= Offset(f, j)
    BY <2>1, <1>2, OffsetsGrow
  <2>3. QED
    BY <2>1, <2>2, <1>1
<1>3. ASSUME j < i PROVE FALSE
  <2>1. j \in 1 .. Len(f)
    BY <1>1, <1>3
  <2>2. Offset(f, j) + f[j].len <= Offset(f, i)
    BY <2>1, <1>3, OffsetsGrow
  <2>3. QED
    BY <2>1, <2>2, <1>1
<1>4. QED
  BY <1>1, <1>2, <1>3

\* The first m records, all whole, are what load has read.
Reached(f, l, m) ==
  /\ m \in 0 .. Len(f) /\ l.pos = Offset(f, m + 1)
  /\ \A j \in 1 .. m : f[j].len = f[j].need

\* The places in the buffer. At fread it is empty, or holds the beginning of a
\* record, or the file has been read to its end, or the buffer is full.
Buffered(f, l) ==
  /\ l \in [pc : {"idle", "fread", "parse"}, base : Nat, pos : Nat, read : Nat]
  /\ l.base <= l.pos /\ l.pos <= l.read /\ l.read <= Total(f) /\ l.read - l.base <= Buffer
  /\ l.pc = "parse" => l.base < l.read /\ (l.read - l.base = Buffer \/ l.read = Total(f))
  /\ l.pc = "fread" =>
       \/ l.base = l.pos /\ l.read = 0
       \/ /\ l.base = l.pos /\ l.pos < l.read /\ l.read - l.base < Buffer
          /\ \A j \in 1 .. Len(f) : Offset(f, j) = l.pos => f[j].need > l.read - l.pos
       \/ l.pos = l.read /\ (l.read - l.base = Buffer \/ l.read = Total(f))

\* Where the records that are read end, no record begins but the next one.
LEMMA NextRecord ==
  ASSUME NEW f, Legible(f), NEW l, NEW m, Reached(f, l, m), NEW j \in 1 .. Len(f)
  PROVE  /\ Offset(f, j) = l.pos <=> j = m + 1
         /\ Offset(f, j) + f[j].need <= l.pos <=> j \in 1 .. m
<1>1. /\ Len(f) \in Nat /\ m \in 0 .. Len(f) /\ m + 1 \in 1 .. Len(f) + 1 /\ l.pos = Offset(f, m + 1)
      /\ \A k \in 1 .. Len(f) + 1 : Offset(f, k) \in Nat
      /\ \A k \in 1 .. Len(f) : f[k].len \in Nat \ {0} /\ f[k].need \in Nat \ {0}
      /\ j \in 1 .. Len(f) + 1
  BY Offsets DEF Reached
<1>2. Offset(f, j) = l.pos <=> j = m + 1
  BY <1>1, OffsetsDiffer
<1>3. ASSUME j \in 1 .. m PROVE Offset(f, j) + f[j].need <= l.pos
  <2>1. f[j].len = f[j].need /\ j < m + 1
    BY <1>1, <1>3 DEF Reached
  <2>2. Offset(f, j) + f[j].len <= Offset(f, m + 1)
    BY <1>1, <2>1, OffsetsGrow
  <2>3. QED
    BY <1>1, <2>1, <2>2
<1>4. ASSUME j \notin 1 .. m PROVE ~(Offset(f, j) + f[j].need <= l.pos)
  <2>1. CASE j = m + 1
    BY <1>1, <2>1
  <2>2. CASE j > m + 1
    <3>1. m + 1 \in 1 .. Len(f)
      BY <1>1, <2>2
    <3>2. Offset(f, m + 1) + f[m + 1].len <= Offset(f, j)
      BY <3>1, <1>1, <2>2, OffsetsGrow
    <3> DEFINE x == Offset(f, j)
               y == Offset(f, m + 1)
               a == f[m + 1].len
               b == f[j].need
    <3>3. y + a <= x /\ y \in Nat /\ x \in Nat /\ a \in Nat \ {0} /\ b \in Nat \ {0} /\ l.pos = y
      BY <3>1, <3>2, <1>1
    <3> HIDE DEF x, y, a, b
    <3>4. ~(x + b <= y)
      BY <3>3
    <3>5. QED
      BY <3>3, <3>4 DEF x, b
  <2>3. QED
    BY <1>1, <1>4, <2>1, <2>2
<1>5. QED
  BY <1>2, <1>3, <1>4

\* All records but the last are whole.
Wholesome(f) == \A j \in 1 .. Len(f) : j < Len(f) => f[j].len = f[j].need

\* What the end of a load that has read m records tells.
EndTells(f, l, m) ==
  \/ m = Len(f)
  \/ m = Len(f) - 1 /\ f[Len(f)].len # f[Len(f)].need
  \/ l.pos = l.read /\ l.read - l.base = Buffer

SizeTells(f, m) ==
  LET next == f[m + 1]
  IN  \/ next.len # next.need \/ next.need > Buffer
      \/ ~ItemSizeOk(KeyLen[next.key], next.nval)

\* In the middle of a file that is read to its end there is at most a record
\* that is cut.
LEMMA LastIsCut ==
  ASSUME NEW f, Legible(f), Wholesome(f), NEW l, NEW m, Reached(f, l, m), m # Len(f),
         l.read \in Nat, l.read = Total(f), f[m + 1].need > l.read - l.pos
  PROVE  m = Len(f) - 1 /\ f[Len(f)].len # f[Len(f)].need
<1>1. /\ Len(f) \in Nat /\ m \in 0 .. Len(f) /\ m + 1 \in 1 .. Len(f) /\ m + 1 \in 1 .. Len(f) + 1
      /\ (m + 1) + 1 \in 1 .. Len(f) + 1 /\ l.pos = Offset(f, m + 1)
      /\ Offset(f, m + 1) \in Nat /\ f[m + 1].len \in Nat \ {0} /\ f[m + 1].need \in Nat \ {0}
  <2>1. Len(f) \in Nat /\ m \in 0 .. Len(f) /\ l.pos = Offset(f, m + 1)
    BY Offsets DEF Reached
  <2>2. m + 1 \in 1 .. Len(f) /\ m + 1 \in 1 .. Len(f) + 1 /\ (m + 1) + 1 \in 1 .. Len(f) + 1
    BY <2>1
  <2>3. QED
    BY <2>1, <2>2, Offsets
<1>2. Offset(f, (m + 1) + 1) = Offset(f, m + 1) + f[m + 1].len
  BY <1>1, Offsets
<1>3. Offset(f, (m + 1) + 1) \in Nat /\ Offset(f, (m + 1) + 1) <= Total(f)
  BY <1>1, Offsets
<1>4. f[m + 1].need # f[m + 1].len
  BY <1>1, <1>2, <1>3
<1>5. ~(m + 1 < Len(f))
  BY <1>1, <1>4 DEF Wholesome
<1>6. m + 1 = Len(f)
  BY <1>1, <1>5
<1>7. m = Len(f) - 1
  BY <1>1, <1>6
<1>8. QED
  BY <1>4, <1>6, <1>7

\* fread: the buffer gets more, and begins with what is parsed, or load ends.
LEMMA ReadOn ==
  ASSUME NEW f, Legible(f), NEW l, Buffered(f, l), l.pc = "fread",
         NEW n, n = Min({Buffer - (l.read - l.base), Total(f) - l.read})
  PROVE  /\ n \in Nat
         /\ n # 0 =>
              /\ l.pos = l.base
              /\ Buffered(f, [pc |-> "parse", base |-> l.base, pos |-> l.base, read |-> l.read + n])
         /\ n = 0 => \A m : Wholesome(f) /\ Reached(f, l, m) => EndTells(f, l, m)
<1>1. Buffer \in Nat /\ Total(f) \in Nat /\ Len(f) \in Nat
  BY DumpAssumption, Offsets
<1>2. /\ l.base \in Nat /\ l.pos \in Nat /\ l.read \in Nat
      /\ l.base <= l.pos /\ l.pos <= l.read /\ l.read <= Total(f) /\ l.read - l.base <= Buffer
  BY DEF Buffered
<1>3. \/ l.base = l.pos /\ l.read = 0
      \/ /\ l.base = l.pos /\ l.pos < l.read /\ l.read - l.base < Buffer
         /\ \A j \in 1 .. Len(f) : Offset(f, j) = l.pos => f[j].need > l.read - l.pos
      \/ l.pos = l.read /\ (l.read - l.base = Buffer \/ l.read = Total(f))
  BY DEF Buffered
<1>4. /\ n \in {Buffer - (l.read - l.base), Total(f) - l.read}
      /\ n <= Buffer - (l.read - l.base) /\ n <= Total(f) - l.read
  <2> DEFINE a == Buffer - (l.read - l.base)
             b == Total(f) - l.read
  <2>1. {a, b} \subseteq Nat
    BY <1>1, <1>2
  <2> HIDE DEF a, b
  <2>2. n \in {a, b} /\ \A x \in {a, b} : n <= x
    BY <2>1, LeastNumber DEF a, b
  <2>3. QED
    BY <2>2 DEF a, b
<1>5. n \in Nat
  BY <1>1, <1>2, <1>4
<1>6. ASSUME n # 0
      PROVE  /\ l.pos = l.base
             /\ Buffered(f, [pc |-> "parse", base |-> l.base, pos |-> l.base, read |-> l.read + n])
  <2>1. l.pos = l.base
    BY <1>1, <1>2, <1>3, <1>4, <1>5, <1>6
  <2>2. l.base < l.read + n /\ l.read + n <= Total(f) /\ (l.read + n) - l.base <= Buffer
    <3> DEFINE t == Total(f)
               r == l.read
               b == l.base
    <3>1. /\ t \in Nat /\ Buffer \in Nat /\ r \in Nat /\ b \in Nat /\ n \in Nat /\ n # 0
          /\ b <= r /\ n <= Buffer - (r - b) /\ n <= t - r
      BY <1>1, <1>2, <1>4, <1>5, <1>6
    <3> HIDE DEF t, r, b
    <3>2. b < r + n /\ r + n <= t /\ (r + n) - b <= Buffer
      BY <3>1
    <3>3. QED
      BY <3>2 DEF t, r, b
  <2>3. (l.read + n) - l.base = Buffer \/ l.read + n = Total(f)
    BY <1>1, <1>2, <1>4, <1>5
  <2>4. QED
    BY <1>2, <1>5, <2>1, <2>2, <2>3 DEF Buffered
<1>7. ASSUME n = 0, NEW m, Wholesome(f), Reached(f, l, m) PROVE EndTells(f, l, m)
  <2>1. /\ m \in 0 .. Len(f) /\ m + 1 \in 1 .. Len(f) + 1 /\ l.pos = Offset(f, m + 1)
        /\ Len(f) + 1 \in 1 .. Len(f) + 1
    BY <1>1, <1>7 DEF Reached
  <2>2. l.read - l.base = Buffer \/ l.read = Total(f)
    BY <1>1, <1>2, <1>4, <1>7
  <2>3. ASSUME l.pos = Total(f) PROVE m = Len(f)
    <3>1. Offset(f, m + 1) = Offset(f, Len(f) + 1)
      BY <2>1, <2>3 DEF Total
    <3>2. m + 1 = Len(f) + 1
      BY <2>1, <3>1, OffsetsDiffer
    <3>3. QED
      BY <1>1, <2>1, <3>2
  <2>4. CASE l.base = l.pos /\ l.read = 0
    BY <1>1, <1>2, <2>2, <2>3, <2>4 DEF EndTells
  <2>5. CASE /\ l.base = l.pos /\ l.pos < l.read /\ l.read - l.base < Buffer
             /\ \A j \in 1 .. Len(f) : Offset(f, j) = l.pos => f[j].need > l.read - l.pos
    <3>1. l.read = Total(f)
      BY <1>1, <1>2, <2>2, <2>5
    <3>2. CASE m = Len(f)
      BY <3>2 DEF EndTells
    <3>3. CASE m # Len(f)
      <4>1. m + 1 \in 1 .. Len(f)
        BY <1>1, <2>1, <3>3
      <4>2. f[m + 1].need > l.read - l.pos
        BY <2>1, <2>5, <4>1
      <4>3. QED
        BY <1>2, <1>7, <3>1, <3>3, <4>2, LastIsCut DEF EndTells
    <3>4. QED
      BY <3>2, <3>3
  <2>6. CASE l.pos = l.read /\ (l.read - l.base = Buffer \/ l.read = Total(f))
    BY <2>3, <2>6 DEF EndTells
  <2>7. QED
    BY <1>3, <2>4, <2>5, <2>6
<1>8. QED
  BY <1>5, <1>6, <1>7

\* The rest of the buffer is moved to its front, or load ends.
LEMMA ShiftOn ==
  ASSUME NEW f, Legible(f), NEW l, Buffered(f, l), l.pc = "parse",
         \A j \in 1 .. Len(f) : Offset(f, j) = l.pos => f[j].need > l.read - l.pos
  PROVE  /\ l.pos # l.base =>
              Buffered(f, [pc |-> "fread", base |-> IF l.pos # l.read THEN l.pos ELSE l.base,
                           pos |-> l.pos, read |-> l.read])
         /\ l.pos = l.base => \A m : Wholesome(f) /\ Reached(f, l, m) => SizeTells(f, m)
<1>1. Buffer \in Nat /\ Total(f) \in Nat /\ Len(f) \in Nat
  BY DumpAssumption, Offsets
<1>2. /\ l.base \in Nat /\ l.pos \in Nat /\ l.read \in Nat
      /\ l.base <= l.pos /\ l.pos <= l.read /\ l.read <= Total(f) /\ l.read - l.base <= Buffer
      /\ l.base < l.read /\ (l.read - l.base = Buffer \/ l.read = Total(f))
  BY DEF Buffered
<1>3. ASSUME l.pos # l.base
      PROVE  Buffered(f, [pc |-> "fread", base |-> IF l.pos # l.read THEN l.pos ELSE l.base,
                          pos |-> l.pos, read |-> l.read])
  <2>1. CASE l.pos = l.read
    BY <1>1, <1>2, <2>1 DEF Buffered
  <2>2. CASE l.pos # l.read
    <3>1. l.pos < l.read /\ l.read - l.pos < Buffer
      BY <1>1, <1>2, <1>3, <2>2
    <3>2. QED
      BY <1>1, <1>2, <2>2, <3>1 DEF Buffered
  <2>3. QED
    BY <2>1, <2>2
<1>4. ASSUME l.pos = l.base, NEW m, Wholesome(f), Reached(f, l, m) PROVE SizeTells(f, m)
  <2>1. /\ m \in 0 .. Len(f) /\ m + 1 \in 1 .. Len(f) + 1 /\ l.pos = Offset(f, m + 1)
    BY <1>1, <1>4 DEF Reached
  <2>2. m # Len(f)
    BY <1>2, <1>4, <2>1 DEF Total
  <2>3. m + 1 \in 1 .. Len(f)
    BY <1>1, <2>1, <2>2
  <2>4. f[m + 1].need > l.read - l.pos
    BY <2>1, <2>3
  <2>5. CASE l.read - l.base = Buffer
    BY <1>4, <2>4, <2>5 DEF SizeTells
  <2>6. CASE l.read = Total(f)
    <3>1. m = Len(f) - 1 /\ f[Len(f)].len # f[Len(f)].need
      BY <1>2, <1>4, <2>2, <2>4, <2>6, LastIsCut
    <3>2. m + 1 = Len(f)
      BY <1>1, <3>1
    <3>3. QED
      BY <3>1, <3>2 DEF SizeTells
  <2>7. QED
    BY <1>2, <2>5, <2>6
<1>5. QED
  BY <1>3, <1>4

\* A record of n bytes is taken out of the buffer.
LEMMA TakeOn ==
  ASSUME NEW f, Legible(f), NEW l, Buffered(f, l), l.pc = "parse",
         NEW n \in Nat, n <= l.read - l.pos
  PROVE  Buffered(f, [pc |-> "parse", base |-> l.base, pos |-> l.pos + n, read |-> l.read])
<1>1. Buffer \in Nat /\ Total(f) \in Nat
  BY DumpAssumption, Offsets
<1>2. /\ l.base \in Nat /\ l.pos \in Nat /\ l.read \in Nat
      /\ l.base <= l.pos /\ l.pos <= l.read /\ l.read <= Total(f) /\ l.read - l.base <= Buffer
      /\ l.base < l.read /\ (l.read - l.base = Buffer \/ l.read = Total(f))
  BY DEF Buffered
<1>3. l.base <= l.pos + n /\ l.pos + n <= l.read /\ l.pos + n \in Nat
  BY <1>2
<1>4. QED
  BY <1>2, <1>3 DEF Buffered

\* The next record has been read whole.
LEMMA ReachOn ==
  ASSUME NEW f, Legible(f), Wholesome(f), NEW l, Buffered(f, l), NEW m, Reached(f, l, m),
         NEW j \in 1 .. Len(f), Offset(f, j) = l.pos, f[j].need <= l.read - l.pos,
         NEW k, k.pos = l.pos + f[j].need
  PROVE  j = m + 1 /\ Reached(f, k, m + 1) /\ f[j].len = f[j].need
<1>1. j = m + 1
  BY NextRecord
<1>2. /\ Len(f) \in Nat /\ m \in 0 .. Len(f) /\ m + 1 \in 1 .. Len(f)
      /\ j + 1 \in 1 .. Len(f) + 1
      /\ \A i \in 1 .. m : f[i].len = f[i].need
  BY <1>1, Offsets DEF Reached
<1>3. /\ Offset(f, j + 1) = Offset(f, j) + f[j].len
      /\ f[j].len \in Nat \ {0} /\ f[j].need \in Nat \ {0}
      /\ Offset(f, j + 1) \in Nat /\ Offset(f, j + 1) <= Total(f)
  BY <1>2, Offsets
<1>4. l.pos \in Nat /\ l.read \in Nat /\ l.read <= Total(f) /\ Total(f) \in Nat
  BY Offsets DEF Buffered
<1>5. f[j].len = f[j].need
  <2>1. CASE j < Len(f)
    BY <2>1 DEF Wholesome
  <2>2. CASE ~(j < Len(f))
    <3>1. Total(f) = Offset(f, j + 1)
      <4>1. j = Len(f)
        BY <1>2, <2>2
      <4>2. QED
        BY <4>1 DEF Total
    <3>2. f[j].len <= f[j].need
      BY DEF Legible
    <3>3. QED
      BY <1>3, <1>4, <3>1, <3>2
  <2>3. QED
    BY <2>1, <2>2
<1>6. k.pos = Offset(f, (m + 1) + 1)
  BY <1>1, <1>3, <1>4, <1>5
<1>7. \A i \in 1 .. m + 1 : f[i].len = f[i].need
  <2>1. \A i \in 1 .. m + 1 : i \in 1 .. m \/ i = m + 1
    BY <1>2
  <2>2. QED
    BY <1>1, <1>2, <1>5, <2>1
<1>8. QED
  BY <1>1, <1>2, <1>5, <1>6, <1>7 DEF Reached

-------------------------------------------------------------------------------
(***************************************************************************)
(* Dumping.                                                                *)
(***************************************************************************)
\* The items of a segment in the order of a dump, list after list.
Lists(s) == [c \in 1 .. NSlabs |-> s.lru[c - 1]]
Items(s) == FlattenSeq(Lists(s))

\* Where the items of each class are in a dump.
LEMMA ItemsPlaced ==
  ASSUME NEW s, Good(s, {})
  PROVE  /\ Items(s) \in Seq(ItemName) /\ Len(Items(s)) \in Nat
         /\ \E o : Together(Lists(s), o, Items(s))
<1>1. s.lru \in [Slabs -> Seq(ItemName)] /\ NSlabs \in Nat
  BY ParamAssumption DEF Good, Segment
<1>2. \A c \in 1 .. NSlabs : c - 1 \in Slabs
  BY <1>1 DEF Slabs
<1>3. Lists(s) \in Seq(Seq(ItemName))
  <2>1. \A c \in 1 .. NSlabs : s.lru[c - 1] \in Seq(ItemName)
    BY <1>1, <1>2
  <2>2. Lists(s) \in [1 .. NSlabs -> Seq(ItemName)]
    BY <2>1 DEF Lists
  <2>3. QED
    BY <1>1, <2>2
<1>4. Items(s) \in Seq(ItemName) /\ \E o : Together(Lists(s), o, Items(s))
  BY <1>3, Flattened DEF Items
<1>5. QED
  BY <1>4

\* Every place of a dump is that of an item of a list, and no two are of one item.
LEMMA ItemsListed ==
  ASSUME NEW s, Good(s, {})
  PROVE  /\ \A x \in 1 .. Len(Items(s)) : Items(s)[x] \in Linked(s)
         /\ \A x, y \in 1 .. Len(Items(s)) : Items(s)[x] = Items(s)[y] => x = y
<1> DEFINE L == Lists(s)
           items == Items(s)
           n == Len(items)
           f == [i \in 1 .. Len(L) |-> Len(L[i])]
<1>1. items \in Seq(ItemName) /\ n \in Nat
  BY ItemsPlaced
<1>2. PICK o : Together(L, o, items)
  BY ItemsPlaced
<1>3. NSlabs \in Nat /\ Len(L) = NSlabs /\ s.lru \in [Slabs -> Seq(ItemName)]
  BY ParamAssumption DEF Lists, Good, Segment
<1>4. \A i \in 1 .. NSlabs : i - 1 \in Slabs /\ L[i] = s.lru[i - 1]
  BY <1>3 DEF Lists, Slabs
<1> HIDE DEF L, items
<1>5. ASSUME NEW x \in 1 .. n
      PROVE  \E i \in 1 .. NSlabs : \E q \in 1 .. Len(L[i]) : x = o[i] + q /\ items[x] = L[i][q]
  <2>1. Marks(f, NSlabs, o) /\ n = o[NSlabs + 1]
    BY <1>2, <1>3 DEF Together
  <2>2. \A i \in 1 .. NSlabs : f[i] = Len(L[i])
    BY <1>3
  <2> HIDE DEF f
  <2>3. x \in 1 .. o[NSlabs + 1]
    BY <2>1
  <2>4. PICK i \in 1 .. NSlabs : \E q \in 1 .. f[i] : x = o[i] + q
    BY <1>3, <2>1, <2>3, SomePlace
  <2>5. PICK q \in 1 .. f[i] : x = o[i] + q
    BY <2>4
  <2>6. q \in 1 .. Len(L[i])
    BY <2>2, <2>5
  <2>7. items[o[i] + q] = L[i][q]
    BY <1>2, <1>3, <2>6 DEF Together
  <2>8. QED
    BY <2>5, <2>6, <2>7
<1>6. ASSUME NEW i \in 1 .. NSlabs, NEW q \in 1 .. Len(L[i])
      PROVE  L[i][q] \in Linked(s) /\ L[i][q][1] = i - 1
  <2> DEFINE c == i - 1
  <2>1. c \in Slabs /\ L[i] = s.lru[c]
    BY <1>4
  <2> HIDE DEF c
  <2>2. L[i][q] \in Range(s.lru[c])
    BY <1>3, <2>1 DEF Range
  <2>3. Range(s.lru[c]) = {j \in Linked(s) : j[1] = c}
    BY <2>1, LinkedByClass DEF Good
  <2>4. QED
    BY <2>2, <2>3 DEF c
<1>7. ASSUME NEW x \in 1 .. n, NEW y \in 1 .. n, items[x] = items[y] PROVE x = y
  <2>1. PICK i \in 1 .. NSlabs : \E q \in 1 .. Len(L[i]) : x = o[i] + q /\ items[x] = L[i][q]
    BY <1>5
  <2>2. PICK j \in 1 .. NSlabs : \E p \in 1 .. Len(L[j]) : y = o[j] + p /\ items[y] = L[j][p]
    BY <1>5
  <2>3. PICK q \in 1 .. Len(L[i]) : x = o[i] + q /\ items[x] = L[i][q]
    BY <2>1
  <2>4. PICK p \in 1 .. Len(L[j]) : y = o[j] + p /\ items[y] = L[j][p]
    BY <2>2
  <2>5. L[i][q][1] = i - 1 /\ L[j][p][1] = j - 1
    BY <1>6
  <2>6. i = j
    BY <1>3, <1>7, <2>3, <2>4, <2>5
  <2>7. IsInjective(L[i])
    <3>1. i - 1 \in Slabs
      BY <1>4
    <3>2. IsInjective(s.lru[i - 1])
      BY <3>1 DEF Good, ChunksGood
    <3>3. QED
      BY <1>4, <3>2
  <2>8. L[i] \in Seq(ItemName)
    BY <1>3, <1>4
  <2>9. q = p
    <3>1. q \in DOMAIN L[i] /\ p \in DOMAIN L[i] /\ L[i][q] = L[i][p]
      BY <1>7, <2>3, <2>4, <2>6, <2>8
    <3>2. QED
      BY <2>7, <3>1, Zenon DEF IsInjective
  <2>10. QED
    BY <2>3, <2>4, <2>6, <2>9
<1>8. \A x \in 1 .. n : items[x] \in Linked(s)
  BY <1>5, <1>6
<1>9. QED
  BY <1>7, <1>8 DEF items

\* What the records of a dump say of the items.
LEMMA RecordsOf ==
  ASSUME NEW s, Good(s, {})
  PROVE  /\ Records(s) \in Seq(RecordType) /\ Len(Records(s)) = Len(Items(s))
         /\ \A x \in 1 .. Len(Items(s)) :
              LET r == Records(s)[x]
                  it == s.item[Items(s)[x]]
              IN  /\ r.key = it.key /\ r.nval = it.nval
                  /\ r.len > 1 /\ r.len <= r.need
                  /\ r.len # r.need => Numbers(r.body) # {}
<1> DEFINE items == Items(s)
           n == Len(items)
<1>1. items \in Seq(ItemName) /\ n \in Nat /\ DOMAIN items = 1 .. n
  BY ItemsPlaced
<1>2. Records(s) = [x \in DOMAIN items |-> Record(s.item[items[x]])]
  BY DEF Records, Items, Lists
<1>3. ASSUME NEW x \in 1 .. n
      PROVE  s.item[items[x]] \in ItemType /\ s.item[items[x]].key \in Key
  <2>1. items[x] \in Linked(s)
    BY ItemsListed
  <2>2. items[x] \in DOMAIN s.item
    BY <2>1, LinkedByClass DEF Good
  <2>3. s.item[items[x]] \in ItemType
    BY <2>2, ItemMapType DEF Good, Segment
  <2>4. s.item[items[x]].key \in Key
    BY <2>1 DEF Good, IndexGood
  <2>5. QED
    BY <2>3, <2>4
<1> HIDE DEF items
<1>4. Records(s) = [x \in 1 .. n |-> Record(s.item[items[x]])]
  BY <1>1, <1>2
<1>5. ASSUME NEW x \in 1 .. n
      PROVE  LET r == Record(s.item[items[x]])
                 it == s.item[items[x]]
             IN  /\ r \in RecordType /\ r.key = it.key /\ r.nval = it.nval
                 /\ r.len > 1 /\ r.len <= r.need
                 /\ r.len # r.need => Numbers(r.body) # {}
  <2>1. s.item[items[x]] \in ItemType /\ s.item[items[x]].key \in Key
    BY <1>3
  <2>2. QED
    BY <2>1, RecordOfItem
<1>6. \A x \in 1 .. n : Records(s)[x] = Record(s.item[items[x]])
  BY <1>4
<1>7. Records(s) \in [1 .. n -> RecordType]
  BY <1>4, <1>5
<1>8. Records(s) \in Seq(RecordType) /\ Len(Records(s)) = n
  BY <1>1, <1>4, <1>7
<1>9. QED
  BY <1>5, <1>6, <1>8 DEF items

\* shmc_dump writes records that can be read.
LEMMA RecordsLegible ==
  ASSUME NEW s, Good(s, {})
  PROVE  Legible(Records(s)) /\ \A j \in 1 .. Len(Records(s)) : Records(s)[j].len > 1
<1> DEFINE rs == Records(s)
           items == Items(s)
<1>1. /\ rs \in Seq(RecordType) /\ Len(rs) = Len(items)
      /\ \A x \in 1 .. Len(items) :
           /\ rs[x].key = s.item[items[x]].key
           /\ rs[x].len > 1 /\ rs[x].len <= rs[x].need
           /\ rs[x].len # rs[x].need => Numbers(rs[x].body) # {}
  BY RecordsOf
<1>2. ASSUME NEW x \in 1 .. Len(items), NEW y \in 1 .. Len(items), rs[x].key = rs[y].key
      PROVE  x = y
  <2>1. items[x] \in Linked(s) /\ items[y] \in Linked(s)
    BY ItemsListed
  <2>2. s.item[items[x]].key = s.item[items[y]].key
    BY <1>1, <1>2
  <2>3. items[x] = items[y]
    BY <2>1, <2>2 DEF Good, IndexGood
  <2>4. QED
    BY <2>3, ItemsListed
<1> HIDE DEF rs, items
<1>3. Legible(rs)
  BY <1>1, <1>2 DEF Legible
<1>4. QED
  BY <1>1, <1>3 DEF rs

\* A full disk cuts the file.
Cut(f, j, cut) == Append(SubSeq(f, 1, j - 1), [f[j] EXCEPT !.len = cut])

LEMMA CutIs ==
  ASSUME NEW f, Legible(f), NEW j \in 1 .. Len(f), NEW cut \in Nat \ {0}
  PROVE  /\ Cut(f, j, cut) \in Seq(RecordType) /\ Len(Cut(f, j, cut)) = j
         /\ \A i \in 1 .. j - 1 : Cut(f, j, cut)[i] = f[i]
         /\ Cut(f, j, cut)[j].key = f[j].key /\ Cut(f, j, cut)[j].nval = f[j].nval
         /\ Cut(f, j, cut)[j].need = f[j].need /\ Cut(f, j, cut)[j].len = cut
<1>1. f \in Seq(RecordType) /\ Len(f) \in Nat /\ f[j] \in RecordType
  BY Offsets DEF Legible
<1> DEFINE r == [f[j] EXCEPT !.len = cut]
           h == SubSeq(f, 1, j - 1)
<1>2. /\ r \in RecordType /\ r.key = f[j].key /\ r.nval = f[j].nval
      /\ r.need = f[j].need /\ r.len = cut
  BY <1>1 DEF RecordType
<1>3. h \in Seq(RecordType) /\ Len(h) = j - 1 /\ \A i \in 1 .. j - 1 : h[i] = f[i]
  BY <1>1
<1> HIDE DEF r, h
<1>4. /\ Append(h, r) \in Seq(RecordType) /\ Len(Append(h, r)) = j
      /\ \A i \in 1 .. j - 1 : Append(h, r)[i] = h[i]
      /\ Append(h, r)[j] = r
  BY <1>2, <1>3
<1>5. Cut(f, j, cut) = Append(h, r)
  BY DEF Cut, h, r
<1>6. QED
  BY <1>2, <1>3, <1>4, <1>5

\* What can be read of a file that is cut ends in a record that is not whole.
LEMMA CutLegible ==
  ASSUME NEW f, Legible(f), NEW j \in 1 .. Len(f), f[j].len > 1, NEW cut \in {1, f[j].len - 1}
  PROVE  Legible(Cut(f, j, cut)) /\ cut < f[j].need /\ cut \in Nat \ {0}
<1> DEFINE g == Cut(f, j, cut)
<1>1. /\ Len(f) \in Nat /\ f[j].len \in Nat /\ f[j].need \in Nat
      /\ f[j].len <= f[j].need
  BY Offsets DEF Legible
<1>2. cut \in Nat \ {0} /\ cut < f[j].need
  BY <1>1
<1>3. /\ g \in Seq(RecordType) /\ Len(g) = j
      /\ \A i \in 1 .. j - 1 : g[i] = f[i]
      /\ g[j].key = f[j].key /\ g[j].need = f[j].need /\ g[j].len = cut
  BY <1>2, CutIs
<1> HIDE DEF g
<1>4. \A i \in 1 .. j : (i \in 1 .. j - 1 \/ i = j) /\ i \in 1 .. Len(f)
  BY <1>1
<1>5. \A i \in 1 .. j : g[i].key = f[i].key
  BY <1>3, <1>4
<1>6. \A i, k \in 1 .. j : g[i].key = g[k].key => i = k
  BY <1>4, <1>5 DEF Legible
<1>7. ASSUME NEW i \in 1 .. j
      PROVE  /\ g[i].len <= g[i].need
             /\ i < j /\ g[i].len # g[i].need => Numbers(g[i].body) # {}
  <2>1. CASE i = j
    BY <1>1, <1>2, <1>3, <2>1
  <2>2. CASE i \in 1 .. j - 1
    <3>1. g[i] = f[i] /\ i \in 1 .. Len(f) /\ i < Len(f)
      BY <1>1, <1>3, <2>2
    <3>2. QED
      BY <3>1 DEF Legible
  <2>3. QED
    BY <1>4, <2>1, <2>2
<1>8. Legible(g)
  BY <1>3, <1>6, <1>7 DEF Legible
<1>9. QED
  BY <1>2, <1>8 DEF g

-------------------------------------------------------------------------------
(***************************************************************************)
(* The inductive invariant: the segment is good, the file can be read, and *)
(* load is at a place where a record ends.                                 *)
(***************************************************************************)
DInv ==
  /\ IInv
  /\ Legible(file)
  /\ Buffered(file, load)
  /\ Wholesome(file) => \E m : Reached(file, load, m)

LEMMA Places ==
  /\ Bytes = Total(file) /\ \A j : Start(j) = Offset(file, j)
  /\ Legible(file) => (Straight <=> Wholesome(file)) /\ DOMAIN file = 1 .. Len(file)
<1>1. \A j : Start(j) = Offset(file, j)
  BY DEF Start, Offset
<1>2. Bytes = Total(file)
  BY <1>1 DEF Bytes, Total
<1>3. Legible(file) => (Straight <=> Wholesome(file)) /\ DOMAIN file = 1 .. Len(file)
  BY Offsets DEF Straight, Wholesome, Whole
<1>4. QED
  BY <1>1, <1>2, <1>3

\* No load, or one that has not begun to read.
LEMMA AtStart ==
  ASSUME NEW f, Legible(f), NEW pc \in {"idle", "fread"}
  PROVE  LET l == [pc |-> pc, base |-> 0, pos |-> 0, read |-> 0]
         IN  Buffered(f, l) /\ Reached(f, l, 0)
<1>1. Total(f) \in Nat /\ Offset(f, 1) = 0 /\ Len(f) \in Nat /\ Buffer \in Nat
  BY Offsets, DumpAssumption
<1> DEFINE l == [pc |-> pc, base |-> 0, pos |-> 0, read |-> 0]
<1>2. Buffered(f, l)
  BY <1>1 DEF Buffered
<1>3. 0 + 1 = 1 /\ 0 \in 0 .. Len(f) /\ 1 .. 0 = {}
  BY <1>1
<1>4. Reached(f, l, 0)
  BY <1>1, <1>3 DEF Reached
<1>5. QED
  BY <1>2, <1>4

\* The load has come to an end with the places where they were.
LEMMA AtEnd ==
  ASSUME NEW f, NEW l, Buffered(f, l)
  PROVE  LET k == [l EXCEPT !.pc = "idle"]
         IN  /\ Buffered(f, k) /\ k.pc = "idle" /\ k.pos = l.pos /\ k.read = l.read /\ k.base = l.base
             /\ \A m : Reached(f, l, m) <=> Reached(f, k, m)
<1> DEFINE k == [l EXCEPT !.pc = "idle"]
<1>1. l \in [pc : {"idle", "fread", "parse"}, base : Nat, pos : Nat, read : Nat]
  BY DEF Buffered
<1>2. /\ k \in [pc : {"idle", "fread", "parse"}, base : Nat, pos : Nat, read : Nat]
      /\ k.pc = "idle" /\ k.pos = l.pos /\ k.read = l.read /\ k.base = l.base
  BY <1>1
<1> HIDE DEF k
<1>3. Buffered(f, k)
  BY <1>2 DEF Buffered
<1>4. \A m : Reached(f, l, m) <=> Reached(f, k, m)
  BY <1>2 DEF Reached
<1>5. QED
  BY <1>2, <1>3, <1>4 DEF k

\* Dump, a load that fails to open or begins, a segment created anew, a call.
LEMMA OutsideKeeps ==
  ASSUME DInv, fault = "none", Otherwise \/ Dump \/ Unopened \/ Load \/ Recreate
  PROVE  DInv'
<1>1. ASSUME NEW f, file' = f, Legible(f),
             NEW pc \in {"idle", "fread"},
             load' = [pc |-> pc, base |-> 0, pos |-> 0, read |-> 0]
      PROVE  (Legible(file) /\ Buffered(file, load)
                /\ (Wholesome(file) => \E m : Reached(file, load, m)))'
  <2>1. Buffered(f, load') /\ Reached(f, load', 0)
    BY <1>1, AtStart
  <2>2. QED
    BY <1>1, <2>1
<1>2. load' = Idle => load' = [pc |-> "idle", base |-> 0, pos |-> 0, read |-> 0]
  BY DEF Idle
<1>3. CASE Otherwise
  <2>1. IInv'
    <3>1. Next
      BY <1>3 DEF Otherwise, Next
    <3>2. QED
      BY <3>1, StepKeeps DEF DInv
  <2>2. file' = file /\ load' = Idle /\ Legible(file)
    BY <1>3 DEF Otherwise, DInv
  <2>3. QED
    BY <1>1, <1>2, <2>1, <2>2 DEF DInv
<1>4. CASE Dump
  <2>1. shm' = shm /\ fault' = fault /\ load' = Idle
    BY <1>4 DEF Dump
  <2>2. IInv'
    BY <2>1 DEF DInv, IInv
  <2>3. Good(shm, {})
    BY DEF DInv, IInv
  <2>4. Legible(Records(shm)) /\ \A j \in 1 .. Len(Records(shm)) : Records(shm)[j].len > 1
    BY <2>3, RecordsLegible
  <2>5. Legible(file')
    <3>1. CASE file' = Records(shm)
      BY <2>4, <3>1
    <3>2. CASE \E j \in DOMAIN Records(shm) : \E cut \in {1, Records(shm)[j].len - 1} :
                 file' = Cut(Records(shm), j, cut)
      <4>1. PICK j \in DOMAIN Records(shm) : \E cut \in {1, Records(shm)[j].len - 1} :
              file' = Cut(Records(shm), j, cut)
        BY <3>2
      <4>2. PICK cut \in {1, Records(shm)[j].len - 1} : file' = Cut(Records(shm), j, cut)
        BY <4>1
      <4>3. j \in 1 .. Len(Records(shm)) /\ Records(shm)[j].len > 1
        BY <2>4, Offsets
      <4>4. Legible(Cut(Records(shm), j, cut))
        BY <2>4, <4>3, CutLegible
      <4>5. QED
        BY <4>2, <4>4
    <3>3. QED
      BY <1>4, <3>1, <3>2 DEF Dump, Cut
  <2>6. QED
    BY <1>1, <1>2, <2>1, <2>2, <2>5 DEF DInv
<1>5. CASE Unopened
  <2>1. shm' = shm /\ fault' = fault /\ file' = file /\ load' = Idle /\ Legible(file)
    BY <1>5 DEF Unopened, DInv
  <2>2. IInv'
    BY <2>1 DEF DInv, IInv
  <2>3. QED
    BY <1>1, <1>2, <2>1, <2>2 DEF DInv
<1>6. CASE Load
  <2>1. /\ shm' = shm /\ fault' = fault /\ file' = file /\ Legible(file)
        /\ load' = [pc |-> "fread", base |-> 0, pos |-> 0, read |-> 0]
    BY <1>6 DEF Load, Idle, DInv
  <2>2. IInv'
    BY <2>1 DEF DInv, IInv
  <2>3. QED
    BY <1>1, <2>1, <2>2 DEF DInv
<1>7. CASE Recreate
  <2>1. shm' = Formatted /\ fault' = fault /\ file' = file /\ load' = Idle /\ Legible(file)
    BY <1>7 DEF Recreate, DInv
  <2>2. IInv'
    BY <2>1, FormattedGood DEF DInv, IInv
  <2>3. QED
    BY <1>1, <1>2, <2>1, <2>2 DEF DInv
<1>8. QED
  BY <1>3, <1>4, <1>5, <1>6, <1>7

\* fread, and what it answers.
LEMMA FreadKeeps ==
  ASSUME DInv, Fread
  PROVE  /\ DInv' /\ shm' = shm /\ fault' = fault /\ file' = file
         /\ Wholesome(file) => load'.pos = load.pos
         /\ load'.pc # "idle" => call' = call
         /\ load'.pc = "idle" =>
              /\ call'.rc = "OK"
              /\ \A m : Wholesome(file) /\ Reached(file, load', m) => EndTells(file, load', m)
<1> DEFINE n == Min({Buffer - (load.read - load.base), Total(file) - load.read})
<1>1. /\ Legible(file) /\ Buffered(file, load) /\ load.pc = "fread"
      /\ load \in [pc : {"idle", "fread", "parse"}, base : Nat, pos : Nat, read : Nat]
  BY DEF DInv, Fread, Buffered
<1>2. /\ n \in Nat
      /\ n # 0 =>
           /\ load.pos = load.base
           /\ Buffered(file, [pc |-> "parse", base |-> load.base, pos |-> load.base,
                              read |-> load.read + n])
      /\ n = 0 => \A m : Wholesome(file) /\ Reached(file, load, m) => EndTells(file, load, m)
  BY <1>1, ReadOn
<1>3. /\ shm' = shm /\ fault' = fault /\ file' = file
      /\ IF n = 0 THEN Ended("OK")
         ELSE /\ load' = [load EXCEPT !.pc = "parse", !.pos = load.base, !.read = @ + n]
              /\ call' = call
  BY Places DEF Fread
<1> HIDE DEF n
<1>4. IInv'
  BY <1>3 DEF DInv, IInv
<1>5. CASE n # 0
  <2>1. load' = [pc |-> "parse", base |-> load.base, pos |-> load.base, read |-> load.read + n]
    BY <1>1, <1>3, <1>5
  <2>2. load'.pos = load.pos /\ load'.pc # "idle" /\ call' = call
    BY <1>2, <1>3, <1>5, <2>1
  <2>3. \A m : Reached(file, load, m) => Reached(file', load', m)
    BY <1>3, <2>2 DEF Reached
  <2>4. Buffered(file', load') /\ Legible(file')
    BY <1>1, <1>2, <1>3, <1>5, <2>1
  <2>5. Wholesome(file') => \E m : Reached(file', load', m)
    BY <1>3, <2>3 DEF DInv
  <2>6. DInv'
    BY <1>4, <2>4, <2>5 DEF DInv
  <2>7. QED
    BY <1>3, <2>2, <2>6
<1>6. CASE n = 0
  <2>1. load' = [load EXCEPT !.pc = "idle"] /\ call'.rc = "OK"
    BY <1>3, <1>6 DEF Ended, Says
  <2>2. /\ Buffered(file, load') /\ load'.pc = "idle"
        /\ load'.pos = load.pos /\ load'.read = load.read /\ load'.base = load.base
        /\ \A m : Reached(file, load, m) <=> Reached(file, load', m)
    BY <1>1, <2>1, AtEnd
  <2>3. DInv'
    BY <1>1, <1>3, <1>4, <2>2 DEF DInv
  <2>4. \A m : EndTells(file, load, m) => EndTells(file, load', m)
    BY <2>2 DEF EndTells
  <2>5. QED
    BY <1>2, <1>3, <1>6, <2>1, <2>2, <2>3, <2>4
<1>7. QED
  BY <1>5, <1>6

\* What is left is moved to the front, or there is no room for a record.
LEMMA ShiftKeeps ==
  ASSUME DInv, Shift
  PROVE  /\ DInv' /\ shm' = shm /\ fault' = fault /\ file' = file
         /\ load'.pos = load.pos
         /\ load'.pc # "idle" => call' = call
         /\ load'.pc = "idle" =>
              /\ call'.rc = "ESIZE"
              /\ \A m : Wholesome(file) /\ Reached(file, load', m) => SizeTells(file, m)
<1>1. /\ Legible(file) /\ Buffered(file, load) /\ load.pc = "parse"
      /\ load \in [pc : {"idle", "fread", "parse"}, base : Nat, pos : Nat, read : Nat]
  BY DEF DInv, Shift, Buffered
<1>2. \A j \in 1 .. Len(file) : Offset(file, j) = load.pos => file[j].need > load.read - load.pos
  BY <1>1, Places DEF Shift, Here, Left
<1>3. /\ load.pos # load.base =>
           Buffered(file, [pc |-> "fread", base |-> IF load.pos # load.read THEN load.pos ELSE load.base,
                           pos |-> load.pos, read |-> load.read])
      /\ load.pos = load.base => \A m : Wholesome(file) /\ Reached(file, load, m) => SizeTells(file, m)
  BY <1>1, <1>2, ShiftOn
<1>4. /\ shm' = shm /\ fault' = fault /\ file' = file
      /\ IF load.pos = load.base THEN Ended("ESIZE")
         ELSE /\ load' = [load EXCEPT !.pc = "fread",
                                      !.base = IF load.pos # load.read THEN load.pos ELSE @]
              /\ call' = call
  BY DEF Shift
<1>5. IInv'
  BY <1>4 DEF DInv, IInv
<1>6. CASE load.pos # load.base
  <2>1. load' = [pc |-> "fread", base |-> IF load.pos # load.read THEN load.pos ELSE load.base,
                 pos |-> load.pos, read |-> load.read]
    BY <1>1, <1>4, <1>6
  <2>2. load'.pos = load.pos /\ load'.pc # "idle" /\ call' = call
    BY <1>4, <1>6, <2>1
  <2>3. \A m : Reached(file, load, m) => Reached(file', load', m)
    BY <1>4, <2>2 DEF Reached
  <2>4. Buffered(file', load') /\ Legible(file')
    BY <1>1, <1>3, <1>4, <1>6, <2>1
  <2>5. Wholesome(file') => \E m : Reached(file', load', m)
    BY <1>4, <2>3 DEF DInv
  <2>6. DInv'
    BY <1>5, <2>4, <2>5 DEF DInv
  <2>7. QED
    BY <1>4, <2>2, <2>6
<1>7. CASE load.pos = load.base
  <2>1. load' = [load EXCEPT !.pc = "idle"] /\ call'.rc = "ESIZE"
    BY <1>4, <1>7 DEF Ended, Says
  <2>2. /\ Buffered(file, load') /\ load'.pc = "idle" /\ load'.pos = load.pos
        /\ \A m : Reached(file, load, m) <=> Reached(file, load', m)
    BY <1>1, <2>1, AtEnd
  <2>3. DInv'
    BY <1>1, <1>4, <1>5, <2>2 DEF DInv
  <2>4. QED
    BY <1>3, <1>4, <1>7, <2>1, <2>2, <2>3
<1>8. QED
  BY <1>6, <1>7

\* What becomes of the segment and the load when a record of n bytes is set.
SetOutcome(k, v, n) ==
  LET r == SetNolock(shm, k, v, 0)
  IN  \/ fault' # "none" /\ load' = load
      \/ /\ fault' = fault /\ ~Lost(k, v.nval) /\ shm' = r.shm /\ r.rc = "OK" /\ call' = call
         /\ load' = [pc |-> "parse", base |-> load.base, pos |-> load.pos + n, read |-> load.read]
      \/ /\ fault' = fault /\ ~Lost(k, v.nval) /\ shm' = r.shm /\ r.rc # "OK"
         /\ call'.op = "load" /\ call'.rc = r.rc /\ load' = [load EXCEPT !.pc = "idle"]

\* The segment stays good, and the load in its buffer.
LEMMA RecordKeeps ==
  ASSUME DInv, load.pc = "parse", NEW k \in Key, NEW v, IsText(v), NEW n \in Nat,
         n <= load.read - load.pos, SetRecord(k, v, n)
  PROVE  IInv' /\ Buffered(file, load') /\ SetOutcome(k, v, n)
<1> DEFINE r == SetNolock(shm, k, v, 0)
<1>1. /\ Good(shm, {}) /\ fault \in {"none", "offtable", "assert"}
      /\ Legible(file) /\ Buffered(file, load)
      /\ load \in [pc : {"idle", "fread", "parse"}, base : Nat, pos : Nat, read : Nat]
  BY DEF DInv, IInv, Buffered
<1>2. CASE Lost(k, v.nval)
  <2>1. fault' = "offtable" /\ shm' = shm /\ load' = load
    BY <1>2 DEF SetRecord
  <2>2. QED
    BY <1>1, <2>1 DEF IInv, SetOutcome
<1>3. CASE ~Lost(k, v.nval)
  <2>1. /\ shm' = r.shm /\ fault' = fault
        /\ IF r.rc = "OK" THEN load' = [load EXCEPT !.pos = @ + n] /\ call' = call
                          ELSE Ended(r.rc)
    BY <1>3 DEF SetRecord
  <2>2. 0 \in Flags
    BY DEF Flags
  <2>3. Good(r.shm, {})
    BY <1>1, <1>3, <2>2, SetKeeps
  <2> HIDE DEF r
  <2>4. IInv'
    BY <1>1, <2>1, <2>3 DEF IInv
  <2>5. CASE r.rc = "OK"
    <3>1. load' = [pc |-> "parse", base |-> load.base, pos |-> load.pos + n, read |-> load.read]
      BY <1>1, <2>1, <2>5
    <3>2. Buffered(file, load')
      BY <1>1, <3>1, TakeOn
    <3>3. QED
      BY <1>3, <2>1, <2>4, <2>5, <3>1, <3>2 DEF SetOutcome, r
  <2>6. CASE r.rc # "OK"
    <3>1. load' = [load EXCEPT !.pc = "idle"] /\ call'.op = "load" /\ call'.rc = r.rc
      BY <2>1, <2>6 DEF Ended, Says
    <3>2. Buffered(file, load')
      BY <1>1, <3>1, AtEnd
    <3>3. QED
      BY <1>3, <2>1, <2>4, <2>6, <3>1, <3>2 DEF SetOutcome, r
  <2>7. QED
    BY <2>5, <2>6
<1>4. QED
  BY <1>2, <1>3

\* What load finds of a record is a value.
LEMMA FoundText ==
  ASSUME NEW f, Legible(f), NEW j \in 1 .. Len(f), j < Len(f) \/ f[j].len = f[j].need
  PROVE  IsText(Found(f[j])) /\ (f[j].len = f[j].need => Found(f[j]).body = f[j].body)
<1>1. /\ f[j] \in RecordType
      /\ j < Len(f) /\ f[j].len # f[j].need => Numbers(f[j].body) # {}
  BY Offsets DEF Legible
<1>2. f[j].nval \in Nat /\ f[j].body \in Seq(Part)
  BY <1>1 DEF RecordType
<1>3. CASE f[j].len = f[j].need
  BY <1>2, <1>3 DEF Found, IsText
<1>4. CASE f[j].len # f[j].need
  <2> DEFINE p == Min(Numbers(f[j].body))
             h == SubSeq(f[j].body, 1, p)
  <2>1. p \in 1 .. Len(f[j].body)
    BY <1>1, <1>2, <1>4, FirstNumber
  <2>2. h \in Seq(Part)
    BY <1>2, <2>1
  <2>3. Junk \in Part
    BY DumpAssumption
  <2>4. Found(f[j]) = [nval |-> f[j].nval, body |-> Append(h, Junk)]
    BY <1>4 DEF Found
  <2> HIDE DEF h
  <2>5. Append(h, Junk) \in Seq(Part)
    BY <2>2, <2>3
  <2>6. QED
    BY <1>2, <1>4, <2>4, <2>5 DEF IsText
<1>5. QED
  BY <1>3, <1>4

\* The next record of the file is set.
LEMMA TakeKeeps ==
  ASSUME DInv, Take
  PROVE  /\ DInv' /\ file' = file
         /\ \E j \in 1 .. Len(file) :
              /\ Offset(file, j) = load.pos /\ file[j].need <= load.read - load.pos
              /\ IsText(Found(file[j])) /\ SetOutcome(file[j].key, Found(file[j]), file[j].need)
<1>1. /\ Legible(file) /\ Buffered(file, load) /\ load.pc = "parse" /\ file' = file
      /\ load \in [pc : {"idle", "fread", "parse"}, base : Nat, pos : Nat, read : Nat]
      /\ load.pos <= load.read /\ load.read <= Total(file)
  BY DEF DInv, Take, Buffered
<1>2. PICK j \in 1 .. Len(file) :
        /\ Offset(file, j) = load.pos /\ file[j].need <= load.read - load.pos
        /\ SetRecord(file[j].key, Found(file[j]), file[j].need)
  BY <1>1, Places DEF Take, Here, Left
<1>3. /\ Len(file) \in Nat /\ Total(file) \in Nat /\ Offset(file, j) \in Nat
      /\ file[j] \in RecordType /\ file[j].len \in Nat \ {0} /\ file[j].need \in Nat \ {0}
      /\ file[j].key \in Key /\ file[j].len <= file[j].need
      /\ Offset(file, j + 1) = Offset(file, j) + file[j].len
  <2>1. j \in 1 .. Len(file) + 1
    BY <1>1, Offsets
  <2>2. file[j] \in RecordType
    BY <1>1, Offsets
  <2>3. QED
    BY <1>1, <2>1, <2>2, Offsets DEF Legible, RecordType
<1>4. j < Len(file) \/ file[j].len = file[j].need
  <2>1. CASE j = Len(file)
    <3>1. Total(file) = Offset(file, j) + file[j].len
      BY <1>3, <2>1 DEF Total
    <3>2. QED
      BY <1>1, <1>2, <1>3, <3>1
  <2>2. QED
    BY <1>3, <2>1
<1>5. IsText(Found(file[j]))
  BY <1>1, <1>4, FoundText
<1>6. /\ IInv' /\ Buffered(file, load')
      /\ SetOutcome(file[j].key, Found(file[j]), file[j].need)
  BY <1>1, <1>2, <1>3, <1>5, RecordKeeps
<1>7. Wholesome(file) => \E m : Reached(file, load', m)
  <2>1. SUFFICES ASSUME Wholesome(file) PROVE \E m : Reached(file, load', m)
    OBVIOUS
  <2>2. PICK m : Reached(file, load, m)
    BY <2>1 DEF DInv
  <2>3. load'.pos = load.pos \/ load'.pos = load.pos + file[j].need
    BY <1>1, <1>6 DEF SetOutcome
  <2>4. CASE load'.pos = load.pos
    BY <2>2, <2>4 DEF Reached
  <2>5. CASE load'.pos = load.pos + file[j].need
    <3>1. Reached(file, load', m + 1)
      BY <1>1, <1>2, <2>1, <2>2, <2>5, ReachOn
    <3>2. QED
      BY <3>1
  <2>6. QED
    BY <2>3, <2>4, <2>5
<1>8. DInv'
  BY <1>1, <1>6, <1>7 DEF DInv
<1>9. QED
  BY <1>1, <1>2, <1>5, <1>6, <1>8

\* Bytes that are no record are set, which cannot be while every record is whole.
LEMMA StrayKeeps ==
  ASSUME DInv, Stray
  PROVE  DInv' /\ file' = file /\ ~Wholesome(file)
<1>1. /\ Legible(file) /\ Buffered(file, load) /\ load.pc = "parse" /\ file' = file
      /\ load \in [pc : {"idle", "fread", "parse"}, base : Nat, pos : Nat, read : Nat]
      /\ load.pos <= load.read /\ load.read <= Total(file)
  BY DEF DInv, Stray, Buffered
<1>2. PICK k \in Key, v \in Text :
        \E n \in Least(k, v) .. load.read - load.pos : SetRecord(k, v, n)
  BY DEF Stray, Left
<1>3. PICK n \in Least(k, v) .. load.read - load.pos : SetRecord(k, v, n)
  BY <1>2
<1>4. Least(k, v) \in Nat \ {0}
  <2> DEFINE number(i) == IF i = 0 THEN 0 ELSE Digits[i]
  <2>1. KeyLen[k] \in Nat /\ v.nval \in Nat
    BY ParamAssumption
  <2>2. number(KeyLen[k]) \in Nat /\ number(v.nval) \in Nat
    BY <2>1, SomeDigits
  <2>3. Least(k, v) = number(KeyLen[k]) + number(v.nval) + KeyLen[k] + v.nval + 4
    BY DEF Least
  <2> HIDE DEF number
  <2>4. QED
    BY <2>1, <2>2, <2>3
<1>5. n \in Nat \ {0} /\ n <= load.read - load.pos
  BY <1>1, <1>4
<1>6. IsText(v)
  BY ParamAssumption DEF IsText
<1>7. IInv' /\ Buffered(file, load')
  BY <1>1, <1>3, <1>5, <1>6, RecordKeeps
<1>8. ASSUME Wholesome(file) PROVE FALSE
  <2>1. PICK m : Reached(file, load, m)
    BY <1>8 DEF DInv
  <2>2. Len(file) \in Nat /\ m \in 0 .. Len(file) /\ load.pos = Offset(file, m + 1)
    BY <1>1, <2>1, Offsets DEF Reached
  <2>3. m # Len(file)
    <3>1. ASSUME m = Len(file) PROVE FALSE
      <4>1. load.pos = Total(file)
        BY <2>2, <3>1 DEF Total
      <4>2. QED
        BY <1>1, <1>5, <4>1
    <3>2. QED
      BY <3>1
  <2>4. m + 1 \in 1 .. Len(file)
    BY <2>2, <2>3
  <2>5. Here = {}
    BY DEF Stray
  <2>6. QED
    BY <1>1, <2>2, <2>4, <2>5, Places DEF Here
<1>9. DInv'
  BY <1>1, <1>7, <1>8 DEF DInv
<1>10. QED
  BY <1>1, <1>8, <1>9

\* Every step keeps the invariant.
LEMMA DumpStepKeeps == DInv /\ [DNext]_dvars => DInv'
<1> SUFFICES ASSUME DInv, [DNext]_dvars PROVE DInv'
  OBVIOUS
<1>1. CASE UNCHANGED dvars
  BY <1>1 DEF dvars, DInv, IInv
<1>2. CASE DNext
  <2>1. CASE load.pc = "idle"
    BY <1>2, <2>1, OutsideKeeps DEF DNext
  <2>2. CASE load.pc # "idle"
    <3>1. Fread \/ Take \/ Stray \/ Shift
      BY <1>2, <2>2 DEF DNext
    <3>2. QED
      BY <3>1, FreadKeeps, TakeKeeps, StrayKeeps, ShiftKeeps
  <2>3. QED
    BY <2>1, <2>2
<1>3. QED
  BY <1>1, <1>2

\* The invariant holds when the segment has just been made.
LEMMA DumpStarts == DInit => DInv
<1> SUFFICES ASSUME DInit PROVE DInv
  OBVIOUS
<1>1. IInv
  BY FormattedGood DEF DInit, Init, IInv
<1>2. file = <<>> /\ load = [pc |-> "idle", base |-> 0, pos |-> 0, read |-> 0]
  BY DEF DInit, Idle
<1>3. Legible(file)
  BY <1>2, EmptySeq DEF Legible
<1>4. Buffered(file, load) /\ Reached(file, load, 0)
  BY <1>2, <1>3, AtStart
<1>5. QED
  BY <1>1, <1>3, <1>4 DEF DInv

\* In every state of the segment, the file and the load.
THEOREM DumpInvariance == DSpec => []DInv
<1>1. DInit => DInv
  BY DumpStarts
<1>2. DInv /\ [DNext]_dvars => DInv'
  BY DumpStepKeeps
<1>3. QED
  BY <1>1, <1>2, PTL DEF DSpec

-------------------------------------------------------------------------------
(***************************************************************************)
(* What the answer of load tells.                                          *)
(***************************************************************************)
\* The places of the first m records are the records taken.
LEMMA TakenIs ==
  ASSUME Legible(file), NEW m, Reached(file, load, m)
  PROVE  Taken = m
<1>1. \A j \in 1 .. Len(file) : Offset(file, j) + file[j].need <= load.pos <=> j \in 1 .. m
  BY NextRecord
<1>2. m \in Nat /\ 1 .. m \subseteq 1 .. Len(file) /\ DOMAIN file = 1 .. Len(file)
  BY Offsets DEF Reached
<1>3. {j \in DOMAIN file : Start(j) + file[j].need <= load.pos} = 1 .. m
  BY <1>1, <1>2, Places
<1>4. Cardinality(1 .. m) = m
  BY <1>2, FS_Interval
<1>5. QED
  BY <1>3, <1>4 DEF Taken

\* No other call is a load.
LEMMA OtherCalls ==
  ASSUME Otherwise
  PROVE  load' = Idle /\ (fault' # "none" \/ call'.op # "load")
<1>1. load' = Idle /\ \E k \in Key : Operation(k)
  BY DEF Otherwise
<1>2. PICK k \in Key : Operation(k)
  BY <1>1
<1>3. \/ Get(k) \/ Getf(k) \/ Del(k) \/ Set(k) \/ Add(k) \/ Replace(k)
      \/ Append_(k) \/ Prepend(k) \/ Incr(k) \/ Decr(k)
      \/ fault' # "none"
  BY <1>2 DEF Operation, Abort, RunOff
<1>4. Get(k) => call'.op = "get"
  BY DEF Get, Answer
<1>5. Getf(k) => call'.op = "getf"
  BY DEF Getf, Answer
<1>6. Del(k) => call'.op = "del"
  BY DEF Del, Answer
<1>7. Set(k) => call'.op = "set"
  BY DEF Set, Answer
<1>8. Add(k) => call'.op = "add"
  BY DEF Add, Answer
<1>9. Replace(k) => call'.op = "replace"
  BY DEF Replace, Answer
<1>10. Append_(k) => call'.op = "append"
  BY DEF Append_, Extend, Answer
<1>11. Prepend(k) => call'.op = "prepend"
  BY DEF Prepend, Extend, Answer
<1>12. Incr(k) => call'.op = "incr"
  BY DEF Incr, Calculate, Answer
<1>13. Decr(k) => call'.op = "decr"
  BY DEF Decr, Calculate, Answer
<1>14. QED
  BY <1>1, <1>3, <1>4, <1>5, <1>6, <1>7, <1>8, <1>9, <1>10, <1>11, <1>12, <1>13

\* Outside of a load the last call was none, or it did not open, or one begins.
LEMMA OutsideCalls ==
  ASSUME fault = "none", Otherwise \/ Dump \/ Unopened \/ Load \/ Recreate
  PROVE  \/ fault' # "none" /\ load' = Idle
         \/ call'.op # "load" /\ load' = Idle
         \/ Unopened /\ call'.rc = "SYSTEM" /\ load' = Idle
         \/ Load /\ load' = [pc |-> "fread", base |-> 0, pos |-> 0, read |-> 0]
<1>1. CASE Otherwise
  BY <1>1, OtherCalls
<1>2. CASE Dump
  BY <1>2 DEF Dump, Says
<1>3. CASE Unopened
  BY <1>3 DEF Unopened, Says
<1>4. CASE Load
  BY <1>4 DEF Load, Idle
<1>5. CASE Recreate
  BY <1>5 DEF Recreate
<1>6. QED
  BY <1>1, <1>2, <1>3, <1>4, <1>5

\* The answer of set: it tests the size first.
LEMMA SetAnswers ==
  ASSUME NEW s, NEW k, NEW v, NEW f
  PROVE  LET r == SetNolock(s, k, v, f)
         IN  /\ r.rc \in {"OK", "ESIZE", "NOMEMORY"}
             /\ r.rc = "ESIZE" <=> ~ItemSizeOk(KeyLen[k], v.nval)
<1>1. CASE ~ItemSizeOk(KeyLen[k], v.nval)
  BY <1>1 DEF SetNolock, Result
<1>2. CASE ItemSizeOk(KeyLen[k], v.nval)
  BY <1>2 DEF SetNolock, Result
<1>3. QED
  BY <1>1, <1>2

\* AnswerTells, of every number of records that load may have read.
Told_ ==
  Answered /\ Wholesome(file) =>
    \A m : Reached(file, load, m) =>
      /\ call.rc = "OK" => EndTells(file, load, m)
      /\ call.rc = "ESIZE" => SizeTells(file, m)

LEMMA TellsStarts == DInit => Told_
  BY DEF DInit, Init, Idle, Told_, Answered, Loading

LEMMA TellsKept == DInv /\ Told_ /\ [DNext]_dvars => Told_'
<1> SUFFICES ASSUME DInv, Told_, [DNext]_dvars PROVE Told_'
  OBVIOUS
<1>1. CASE UNCHANGED dvars
  <2>1. file' = file /\ load' = load /\ call' = call /\ fault' = fault
    BY <1>1 DEF dvars
  <2>2. QED
    BY <2>1 DEF Told_, Answered, Loading
<1>2. CASE DNext
  <2>1. CASE load.pc = "idle"
    <3>1. \/ fault' # "none"
          \/ call'.op # "load" /\ load'.pc = "idle"
          \/ call'.rc = "SYSTEM"
          \/ load'.pc = "fread"
      BY <1>2, <2>1, OutsideCalls DEF DNext, Idle
    <3>2. QED
      BY <3>1 DEF Told_, Answered, Loading
  <2>2. CASE Fread
    <3>1. /\ file' = file
          /\ load'.pc = "idle" =>
               /\ call'.rc = "OK"
               /\ \A m : Wholesome(file) /\ Reached(file, load', m) => EndTells(file, load', m)
      BY <2>2, FreadKeeps
    <3>2. QED
      BY <3>1 DEF Told_, Answered, Loading
  <2>3. CASE Shift
    <3>1. /\ file' = file
          /\ load'.pc = "idle" =>
               /\ call'.rc = "ESIZE"
               /\ \A m : Wholesome(file) /\ Reached(file, load', m) => SizeTells(file, m)
      BY <2>3, ShiftKeeps
    <3>2. QED
      BY <3>1 DEF Told_, Answered, Loading
  <2>4. CASE Stray
    <3>1. file' = file /\ ~Wholesome(file)
      BY <2>4, StrayKeeps
    <3>2. QED
      BY <3>1 DEF Told_
  <2>5. CASE Take
    <3>1. file' = file /\ load.pc = "parse" /\ Legible(file)
      BY <2>5 DEF Take, DInv
    <3>2. PICK j \in 1 .. Len(file) :
            /\ Offset(file, j) = load.pos
            /\ SetOutcome(file[j].key, Found(file[j]), file[j].need)
      BY <2>5, TakeKeeps
    <3> DEFINE r == SetNolock(shm, file[j].key, Found(file[j]), 0)
    <3>3. \/ fault' # "none"
          \/ load'.pc = "parse"
          \/ r.rc # "OK" /\ call'.rc = r.rc /\ load' = [load EXCEPT !.pc = "idle"]
      BY <3>1, <3>2 DEF SetOutcome
    <3>4. CASE fault' # "none" \/ load'.pc = "parse"
      BY <3>4 DEF Told_, Answered, Loading
    <3>5. CASE r.rc # "OK" /\ call'.rc = r.rc /\ load' = [load EXCEPT !.pc = "idle"]
      <4>1. r.rc = "ESIZE" <=> ~ItemSizeOk(KeyLen[file[j].key], Found(file[j]).nval)
        BY SetAnswers
      <4> HIDE DEF r
      <4>2. Found(file[j]).nval = file[j].nval
        BY DEF Found
      <4>3. ASSUME NEW m, Reached(file, load', m), call'.rc = "ESIZE" PROVE SizeTells(file, m)
        <5>1. Reached(file, load, m)
          BY <3>5, <4>3, AtEnd DEF DInv
        <5>2. j = m + 1
          BY <3>1, <3>2, <5>1, NextRecord
        <5>3. QED
          BY <3>5, <4>1, <4>2, <4>3, <5>2 DEF SizeTells
      <4>4. QED
        BY <3>1, <3>5, <4>3 DEF Told_
    <3>6. QED
      BY <3>3, <3>4, <3>5
  <2>6. QED
    BY <1>2, <2>1, <2>2, <2>3, <2>4, <2>5 DEF DNext
<1>3. QED
  BY <1>1, <1>2

LEMMA TellsTaken == DInv /\ Told_ => AnswerTells
<1> SUFFICES ASSUME DInv, Told_, Answered, Straight
             PROVE  /\ call.rc = "OK" =>
                         \/ Taken = Len(file)
                         \/ Taken = Len(file) - 1 /\ ~Whole(Len(file))
                         \/ load.pos = load.read /\ load.read - load.base = Buffer
                    /\ call.rc = "ESIZE" =>
                         LET next == file[Taken + 1]
                         IN  \/ ~Whole(Taken + 1) \/ next.need > Buffer
                             \/ ~ItemSizeOk(KeyLen[next.key], next.nval)
  BY Zenon DEF AnswerTells
<1>1. Legible(file) /\ Wholesome(file)
  BY Places DEF DInv
<1>2. PICK m : Reached(file, load, m)
  BY <1>1 DEF DInv
<1>3. Taken = m
  BY <1>1, <1>2, TakenIs
<1>4. /\ call.rc = "OK" => EndTells(file, load, m)
      /\ call.rc = "ESIZE" => SizeTells(file, m)
  BY <1>1, <1>2 DEF Told_
<1>5. QED
  BY <1>3, <1>4 DEF EndTells, SizeTells, Whole

\* The answer of load tells whether the file was read to its end, whatever the
\* buffer and the file, cut or not (shmc_load).
THEOREM AnswerIsTrue == DSpec => []AnswerTells
<1>1. DInit => DInv /\ Told_
  BY DumpStarts, TellsStarts
<1>2. DInv /\ Told_ /\ [DNext]_dvars => DInv' /\ Told_'
  BY DumpStepKeeps, TellsKept
<1>3. DInv /\ Told_ => AnswerTells
  BY TellsTaken
<1>4. QED
  BY <1>1, <1>2, <1>3, PTL DEF DSpec

-------------------------------------------------------------------------------
(***************************************************************************)
(* What load writes.                                                       *)
(***************************************************************************)
New(f, m) == {f[j].key : j \in 1 .. m}

ValueOf(f, k) ==
  LET r == CHOOSE r \in Range(f) : r.key = k
  IN  [nval |-> r.nval, body |-> r.body, flags |-> 0]

\* The content b overwritten with the first m records.
Merged(f, m, b) ==
  [k \in New(f, m) \cup DOMAIN b |-> IF k \in New(f, m) THEN ValueOf(f, k) ELSE b[k]]

\* A key has one record.
LEMMA ValueIs ==
  ASSUME NEW f, Legible(f), NEW j \in 1 .. Len(f)
  PROVE  ValueOf(f, f[j].key) = [nval |-> f[j].nval, body |-> f[j].body, flags |-> 0]
<1> DEFINE r == CHOOSE r \in Range(f) : r.key = f[j].key
<1>1. DOMAIN f = 1 .. Len(f)
  BY Offsets
<1>2. f[j] \in Range(f)
  BY <1>1 DEF Range
<1>3. r \in Range(f) /\ r.key = f[j].key
  BY <1>2
<1>4. PICK i \in 1 .. Len(f) : r = f[i]
  BY <1>1, <1>3 DEF Range
<1>5. i = j
  BY <1>3, <1>4 DEF Legible
<1>6. r = f[j]
  BY <1>4, <1>5
<1>7. ValueOf(f, f[j].key) = [nval |-> r.nval, body |-> r.body, flags |-> 0]
  BY DEF ValueOf
<1>8. QED
  BY <1>6, <1>7

\* The number of records read is known from the place.
LEMMA ReachedOnce ==
  ASSUME NEW f, Legible(f), NEW l, NEW m, Reached(f, l, m), NEW n, Reached(f, l, n)
  PROVE  m = n
<1>1. /\ Len(f) \in Nat /\ m \in 0 .. Len(f) /\ n \in 0 .. Len(f)
      /\ m + 1 \in 1 .. Len(f) + 1 /\ n + 1 \in 1 .. Len(f) + 1
      /\ Offset(f, m + 1) = Offset(f, n + 1)
  BY Offsets DEF Reached
<1>2. m + 1 = n + 1
  BY <1>1, OffsetsDiffer
<1>3. QED
  BY <1>1, <1>2

LEMMA MergedSteps ==
  ASSUME NEW f, Legible(f), NEW b, b = [k \in DOMAIN b |-> b[k]]
  PROVE  /\ Merged(f, 0, b) = b
         /\ \A m \in 0 .. Len(f) : m + 1 <= Len(f) =>
              Merged(f, m + 1, b) =
                Bound(Merged(f, m, b), f[m + 1].key,
                      [nval |-> f[m + 1].nval, body |-> f[m + 1].body, flags |-> 0])
<1>1. Merged(f, 0, b) = b
  <2>1. New(f, 0) = {}
    BY DEF New
  <2>2. Merged(f, 0, b) = [k \in DOMAIN b |-> b[k]]
    BY <2>1 DEF Merged
  <2>3. QED
    BY <2>2
<1>2. ASSUME NEW m \in 0 .. Len(f), m + 1 <= Len(f)
      PROVE  Merged(f, m + 1, b) =
               Bound(Merged(f, m, b), f[m + 1].key,
                     [nval |-> f[m + 1].nval, body |-> f[m + 1].body, flags |-> 0])
  <2> DEFINE k == f[m + 1].key
             e == [nval |-> f[m + 1].nval, body |-> f[m + 1].body, flags |-> 0]
             c == Merged(f, m, b)
             d == Merged(f, m + 1, b)
  <2>1. m \in Nat /\ m + 1 \in 1 .. Len(f) /\ Len(f) \in Nat
    BY <1>2, Offsets
  <2>2. ValueOf(f, k) = e
    BY <2>1, ValueIs
  <2>3. New(f, m + 1) = New(f, m) \cup {k}
    <3>1. \A j : j \in 1 .. m + 1 <=> (j \in 1 .. m \/ j = m + 1)
      BY <2>1
    <3>2. QED
      BY <3>1 DEF New
  <2> HIDE DEF k, e
  <2>4. DOMAIN c = New(f, m) \cup DOMAIN b
    BY DEF Merged
  <2>5. Bound(c, k, e) = [x \in New(f, m) \cup DOMAIN b \cup {k} |-> IF x = k THEN e ELSE c[x]]
    BY <2>4 DEF Bound
  <2>6. d = [x \in New(f, m) \cup {k} \cup DOMAIN b |->
               IF x \in New(f, m) \cup {k} THEN ValueOf(f, x) ELSE b[x]]
    BY <2>3 DEF Merged
  <2>7. \A x \in New(f, m) \cup DOMAIN b : c[x] = IF x \in New(f, m) THEN ValueOf(f, x) ELSE b[x]
    BY DEF Merged
  <2> HIDE DEF c, d
  <2>8. \A x \in New(f, m) \cup {k} \cup DOMAIN b :
          (IF x \in New(f, m) \cup {k} THEN ValueOf(f, x) ELSE b[x])
            = (IF x = k THEN e ELSE c[x])
    BY <2>2, <2>7
  <2>9. New(f, m) \cup {k} \cup DOMAIN b = New(f, m) \cup DOMAIN b \cup {k}
    OBVIOUS
  <2>10. d = Bound(c, k, e)
    BY <2>5, <2>6, <2>8, <2>9
  <2>11. QED
    BY <2>10 DEF c, d, e, k
<1>3. QED
  BY <1>1, <1>2

\* LoadWritesPrefix, of every number of records that load may have read.
Prefix_ ==
  Loading /\ Wholesome(file) /\ ~EvictToFree =>
    /\ before = [k \in DOMAIN before |-> before[k]]
    /\ \A m : Reached(file, load, m) =>
         View(shm) = IF load.pc = "idle" /\ call.rc = "NOMEMORY"
                     THEN Without(Merged(file, m, before), file[m + 1].key)
                     ELSE Merged(file, m, before)

\* What set does to the content when it evicts nothing.
LEMMA SetWrites ==
  ASSUME NEW s, Good(s, {}), NEW k \in Key, NEW v, IsText(v), ~Lost(k, v.nval), ~EvictToFree
  PROVE  LET r == SetNolock(s, k, v, 0)
         IN  /\ r.rc = "OK" => View(r.shm) = Bound(View(s), k, Value(v, 0))
             /\ r.rc = "NOMEMORY" => View(r.shm) = Without(View(s), k)
             /\ r.rc = "ESIZE" => View(r.shm) = View(s)
<1> DEFINE r == SetNolock(s, k, v, 0)
           c == View(s)
<1>1. 0 \in Flags
  BY DEF Flags
<1>2. SetResult(c, r, k, v, 0)
  BY <1>1, SetShows
<1>3. \A e : Stored(c, View(r.shm), k, e) => View(r.shm) = Bound(c, k, e)
  BY DEF Stored, Spared
<1>4. r.rc = "ESIZE" <=> ~ItemSizeOk(KeyLen[k], v.nval)
  BY SetAnswers
<1> HIDE DEF r, c
<1>5. CASE r.rc = "ESIZE"
  BY <1>2, <1>4, <1>5 DEF SetResult, Spurned, r, c
<1>6. CASE r.rc # "ESIZE"
  <2>1. PutResult(c, r, k, Value(v, 0))
    BY <1>2, <1>4, <1>6 DEF SetResult
  <2>2. QED
    BY <1>3, <1>6, <2>1 DEF PutResult, Entered_, Dropped, Bare, r, c
<1>7. QED
  BY <1>5, <1>6

LEMMA PrefixStarts == DInit => Prefix_
  BY DEF DInit, Init, Idle, Prefix_, Loading

\* Before a record is read the content is what it was when the load began.
LEMMA NothingRead ==
  ASSUME NEW f, Legible(f), NEW b, b = [k \in DOMAIN b |-> b[k]], NEW l, l.pos = 0,
         NEW m, Reached(f, l, m)
  PROVE  Merged(f, m, b) = b
<1>1. Offset(f, 1) = 0 /\ Len(f) \in Nat /\ 1 \in 1 .. Len(f) + 1
  BY Offsets
<1>2. m \in 0 .. Len(f) /\ m + 1 \in 1 .. Len(f) + 1 /\ Offset(f, m + 1) = 0
  BY <1>1 DEF Reached
<1>3. m + 1 = 1
  BY <1>1, <1>2, OffsetsDiffer
<1>4. m = 0
  BY <1>2, <1>3
<1>5. QED
  BY <1>4, MergedSteps

LEMMA PrefixKept == DInv /\ Prefix_ /\ [DNext]_dvars => Prefix_'
<1> SUFFICES ASSUME DInv, Prefix_, [DNext]_dvars PROVE Prefix_'
  OBVIOUS
<1>1. CASE UNCHANGED dvars
  <2>1. /\ file' = file /\ load' = load /\ call' = call /\ fault' = fault
        /\ shm' = shm /\ before' = before
    BY <1>1 DEF dvars
  <2>2. QED
    BY <2>1 DEF Prefix_, Loading
<1>2. CASE DNext
  <2>0. Legible(file) /\ Good(shm, {}) /\ Buffered(file, load)
    BY DEF DInv, IInv
  <2>1. CASE load.pc = "idle"
    <3>1. \/ fault' # "none"
          \/ call'.op # "load" /\ load'.pc = "idle"
          \/ /\ Unopened \/ Load
             /\ load'.pos = 0 /\ ~(load'.pc = "idle" /\ call'.rc = "NOMEMORY")
      BY <1>2, <2>1, OutsideCalls DEF DNext, Idle
    <3>2. CASE fault' # "none" \/ (call'.op # "load" /\ load'.pc = "idle")
      BY <3>2 DEF Prefix_, Loading
    <3>3. CASE /\ Unopened \/ Load
               /\ load'.pos = 0 /\ ~(load'.pc = "idle" /\ call'.rc = "NOMEMORY")
      <4>1. before' = Content /\ shm' = shm /\ file' = file
        BY <3>3 DEF Unopened, Load
      <4>2. before' = View(shm) /\ View(shm) = [k \in DOMAIN View(shm) |-> View(shm)[k]]
        BY <2>0, <4>1, MapsAgree, ViewOfItems
      <4>3. before' = [k \in DOMAIN before' |-> before'[k]]
        BY <4>2
      <4>4. ASSUME NEW m, Reached(file', load', m) PROVE Merged(file', m, before') = View(shm')
        BY <2>0, <3>3, <4>1, <4>2, <4>3, <4>4, NothingRead
      <4>5. QED
        BY <3>3, <4>3, <4>4 DEF Prefix_
    <3>4. QED
      BY <3>1, <3>2, <3>3
  <2>2. CASE Fread \/ Shift
    <3>1. /\ shm' = shm /\ file' = file
          /\ Wholesome(file) => load'.pos = load.pos
          /\ load'.pc = "idle" => call'.rc # "NOMEMORY"
      BY <2>2, FreadKeeps, ShiftKeeps
    <3>2. before' = before /\ load.pc # "idle" /\ fault = "none"
      BY <1>2, <2>2 DEF Fread, Shift, DNext
    <3>3. \A m : Wholesome(file) /\ Reached(file, load', m) => Reached(file, load, m)
      BY <3>1 DEF Reached
    <3>4. QED
      BY <3>1, <3>2, <3>3 DEF Prefix_, Loading
  <2>3. CASE Stray
    <3>1. file' = file /\ ~Wholesome(file)
      BY <2>3, StrayKeeps
    <3>2. QED
      BY <3>1 DEF Prefix_
  <2>4. CASE Take
    <3>1. SUFFICES ASSUME fault' = "none", Wholesome(file), ~EvictToFree
                   PROVE  Prefix_'
      <4>1. file' = file
        BY <2>4, TakeKeeps
      <4>2. QED
        BY <3>1, <4>1 DEF Prefix_, Loading
    <3>2. file' = file /\ load.pc = "parse" /\ before' = before /\ fault = "none"
      BY <1>2, <2>4 DEF Take, DNext
    <3>3. PICK j \in 1 .. Len(file) :
            /\ Offset(file, j) = load.pos /\ file[j].need <= load.read - load.pos
            /\ IsText(Found(file[j])) /\ SetOutcome(file[j].key, Found(file[j]), file[j].need)
      BY <2>4, TakeKeeps
    <3> DEFINE k == file[j].key
               v == Found(file[j])
               r == SetNolock(shm, k, v, 0)
    <3>4. PICK m : Reached(file, load, m)
      BY <3>1 DEF DInv
    <3>5. /\ before = [x \in DOMAIN before |-> before[x]]
          /\ View(shm) = Merged(file, m, before)
      BY <3>1, <3>2, <3>4 DEF Prefix_, Loading
    <3>6. j = m + 1 /\ Len(file) \in Nat /\ m \in 0 .. Len(file) /\ m + 1 <= Len(file) /\ k \in Key
      <4>1. j = m + 1
        BY <2>0, <3>3, <3>4, NextRecord
      <4>2. file[j] \in RecordType /\ Len(file) \in Nat
        BY <2>0, Offsets
      <4>3. QED
        BY <3>4, <4>1, <4>2 DEF Reached, RecordType
    <3>7. /\ ~Lost(k, v.nval) /\ shm' = r.shm
          /\ \/ r.rc = "OK" /\ load'.pc = "parse" /\ load'.pos = load.pos + file[j].need
             \/ r.rc # "OK" /\ call'.rc = r.rc /\ load' = [load EXCEPT !.pc = "idle"]
      BY <3>1, <3>3 DEF SetOutcome
    <3>8. /\ r.rc = "OK" => View(r.shm) = Bound(View(shm), k, Value(v, 0))
          /\ r.rc = "NOMEMORY" => View(r.shm) = Without(View(shm), k)
          /\ r.rc = "ESIZE" => View(r.shm) = View(shm)
      BY <2>0, <3>1, <3>3, <3>6, <3>7, SetWrites
    <3>9. r.rc \in {"OK", "ESIZE", "NOMEMORY"}
      BY SetAnswers
    <3> HIDE DEF r
    <3>10. CASE r.rc = "OK"
      <4>1. load'.pos = load.pos + file[j].need /\ load'.pc = "parse"
        BY <3>7, <3>10
      <4>2. Reached(file, load', m + 1) /\ file[j].len = file[j].need
        BY <2>0, <3>1, <3>3, <3>4, <4>1, ReachOn
      <4>3. Value(v, 0) = [nval |-> file[j].nval, body |-> file[j].body, flags |-> 0]
        BY <4>2 DEF Value, Found
      <4>4. View(shm') = Merged(file, m + 1, before)
        BY <2>0, <3>5, <3>6, <3>7, <3>8, <3>10, <4>3, MergedSteps
      <4>5. \A n : Reached(file, load', n) => n = m + 1
        BY <2>0, <4>2, ReachedOnce
      <4>6. QED
        BY <3>2, <3>5, <4>1, <4>4, <4>5 DEF Prefix_
    <3>11. CASE r.rc # "OK"
      <4>1. call'.rc = r.rc /\ load'.pc = "idle" /\ \A n : Reached(file, load', n) => n = m
        <5>1. load' = [load EXCEPT !.pc = "idle"] /\ call'.rc = r.rc
          BY <3>7, <3>11
        <5>2. load'.pc = "idle" /\ \A n : Reached(file, load, n) <=> Reached(file, load', n)
          BY <2>0, <5>1, AtEnd
        <5>3. \A n : Reached(file, load, n) => n = m
          BY <2>0, <3>4, ReachedOnce
        <5>4. QED
          BY <5>1, <5>2, <5>3
      <4>2. CASE r.rc = "NOMEMORY"
        <5>1. View(shm') = Without(Merged(file, m, before), file[m + 1].key)
          BY <3>5, <3>6, <3>7, <3>8, <4>2
        <5>2. QED
          BY <3>2, <3>5, <4>1, <4>2, <5>1 DEF Prefix_
      <4>3. CASE r.rc = "ESIZE"
        <5>1. View(shm') = Merged(file, m, before)
          BY <3>5, <3>7, <3>8, <4>3
        <5>2. QED
          BY <3>2, <3>5, <4>1, <4>3, <5>1 DEF Prefix_
      <4>4. QED
        BY <3>9, <3>11, <4>2, <4>3
    <3>12. QED
      BY <3>10, <3>11
  <2>5. QED
    BY <1>2, <2>1, <2>2, <2>3, <2>4 DEF DNext
<1>3. QED
  BY <1>1, <1>2

LEMMA PrefixTaken == DInv /\ Prefix_ => LoadWritesPrefix
<1> SUFFICES ASSUME DInv, Prefix_, Loading, Straight, ~EvictToFree
             PROVE  LET new   == {file[j].key : j \in 1 .. Taken}
                        read  == [k \in new |->
                                   LET r == CHOOSE r \in Range(file) : r.key = k
                                   IN  [nval |-> r.nval, body |-> r.body, flags |-> 0]]
                        full  == Answered /\ call.rc = "NOMEMORY"
                        lost  == IF full THEN {file[Taken + 1].key} ELSE {}
                    IN  Content = [k \in (new \cup DOMAIN before) \ lost |->
                                     IF k \in new THEN read[k] ELSE before[k]]
  BY Zenon DEF LoadWritesPrefix
<1>1. Legible(file) /\ Wholesome(file)
  BY Places DEF DInv
<1>2. PICK m : Reached(file, load, m)
  BY <1>1 DEF DInv
<1>3. Taken = m
  BY <1>1, <1>2, TakenIs
<1>4. Content = IF Answered /\ call.rc = "NOMEMORY"
                THEN Without(Merged(file, m, before), file[m + 1].key)
                ELSE Merged(file, m, before)
  BY <1>1, <1>2, MapsAgree DEF Prefix_, Answered
<1> DEFINE new == {file[j].key : j \in 1 .. m}
           read == [k \in new |->
                     LET r == CHOOSE r \in Range(file) : r.key = k
                     IN  [nval |-> r.nval, body |-> r.body, flags |-> 0]]
           lost == IF Answered /\ call.rc = "NOMEMORY" THEN {file[m + 1].key} ELSE {}
<1>5. new = New(file, m) /\ \A k \in new : read[k] = ValueOf(file, k)
  BY DEF New, ValueOf
<1> HIDE DEF new, read
<1>6. /\ DOMAIN Merged(file, m, before) = new \cup DOMAIN before
      /\ \A k \in new \cup DOMAIN before :
           Merged(file, m, before)[k] = IF k \in new THEN read[k] ELSE before[k]
      /\ Merged(file, m, before) = [k \in new \cup DOMAIN before |-> IF k \in new THEN read[k] ELSE before[k]]
  BY <1>5 DEF Merged
<1>7. Content = [k \in (new \cup DOMAIN before) \ lost |-> IF k \in new THEN read[k] ELSE before[k]]
  <2>1. CASE Answered /\ call.rc = "NOMEMORY"
    <3>1. Content = [k \in (new \cup DOMAIN before) \ {file[m + 1].key} |->
                       Merged(file, m, before)[k]]
      BY <1>4, <1>6, <2>1 DEF Without
    <3>2. QED
      BY <1>6, <2>1, <3>1
  <2>2. CASE ~(Answered /\ call.rc = "NOMEMORY")
    BY <1>4, <1>6, <2>2
  <2>3. QED
    BY <2>1, <2>2
<1>8. QED
  BY <1>3, <1>7 DEF new, read

\* While load runs, and whatever it answers, the content is the one it found,
\* overwritten with the records read so far (shmc_load).
THEOREM WritesPrefix == DSpec => []LoadWritesPrefix
<1>1. DInit => DInv /\ Prefix_
  BY DumpStarts, PrefixStarts
<1>2. DInv /\ Prefix_ /\ [DNext]_dvars => DInv' /\ Prefix_'
  BY DumpStepKeeps, PrefixKept
<1>3. DInv /\ Prefix_ => LoadWritesPrefix
  BY PrefixTaken
<1>4. QED
  BY <1>1, <1>2, <1>3, PTL DEF DSpec

-------------------------------------------------------------------------------
(***************************************************************************)
(* The order in which the items come back.                                 *)
(***************************************************************************)
\* The keys of a segment's items, list by list.
LEMMA KeysTyped ==
  ASSUME NEW s, NEW F, Good(s, F)
  PROVE  /\ Keys(s) \in [Slabs -> Seq(Key)]
         /\ \A c \in Slabs :
              /\ s.lru[c] \in Seq(ItemName) /\ Len(Keys(s)[c]) = Len(s.lru[c])
              /\ \A q \in 1 .. Len(s.lru[c]) :
                   s.lru[c][q] \in Linked(s) /\ Keys(s)[c][q] = s.item[s.lru[c][q]].key
<1>1. s.lru \in [Slabs -> Seq(ItemName)]
  BY DEF Good, Segment
<1>2. ASSUME NEW c \in Slabs
      PROVE  /\ s.lru[c] \in Seq(ItemName) /\ Keys(s)[c] \in Seq(Key)
             /\ Len(Keys(s)[c]) = Len(s.lru[c])
             /\ \A q \in 1 .. Len(s.lru[c]) :
                  s.lru[c][q] \in Linked(s) /\ Keys(s)[c][q] = s.item[s.lru[c][q]].key
  <2> DEFINE l == s.lru[c]
             f == [j \in DOMAIN l |-> s.item[l[j]].key]
  <2>1. l \in Seq(ItemName) /\ Len(l) \in Nat /\ DOMAIN l = 1 .. Len(l)
    BY <1>1
  <2>2. \A q \in 1 .. Len(l) : l[q] \in Linked(s)
    BY <2>1 DEF Linked, Range
  <2>3. \A q \in 1 .. Len(l) : s.item[l[q]].key \in Key
    BY <2>2 DEF Good, IndexGood
  <2>4. Keys(s)[c] = f
    BY DEF Keys
  <2> HIDE DEF l
  <2>5. f \in [1 .. Len(l) -> Key] /\ \A q \in 1 .. Len(l) : f[q] = s.item[l[q]].key
    BY <2>1, <2>3
  <2> HIDE DEF f
  <2>6. f \in Seq(Key) /\ Len(f) = Len(l)
    BY <2>1, <2>5
  <2>7. QED
    BY <2>1, <2>2, <2>4, <2>5, <2>6 DEF l
<1>3. Keys(s) \in [Slabs -> Seq(Key)]
  <2>1. DOMAIN Keys(s) = Slabs /\ Keys(s) = [c \in Slabs |-> Keys(s)[c]]
    BY DEF Keys
  <2>2. QED
    BY <1>2, <2>1
<1>4. QED
  BY <1>2, <1>3

\* An allocation that may not evict leaves the lists alone.
LEMMA AllocLists ==
  ASSUME NEW s, s \in Segment, ~EvictToFree, NEW nkey, NEW nval
  PROVE  ItemAlloc(s, nkey, nval).shm.lru = s.lru
<1> DEFINE id == ItemClsid(nkey, nval)
           r  == Refill(s, id)
           i  == Head(r.free[id])
<1>1. r.lru = s.lru /\ DOMAIN r = DOMAIN s
  <2>1. r = s \/ r = CarvePage(s, id)
    BY DEF Refill
  <2>2. CarvePage(s, id).lru = s.lru /\ DOMAIN CarvePage(s, id) = DOMAIN s
    BY DEF CarvePage, Segment
  <2>3. QED
    BY <2>1, <2>2
<1>2. \/ ItemAlloc(s, nkey, nval).shm = r
      \/ ItemAlloc(s, nkey, nval).shm =
           [r EXCEPT !.free[id] = Tail(@), !.item[i].clsid = id,
                     !.item[i].nkey = nkey, !.item[i].nval = nval]
  BY DEF ItemAlloc
<1> HIDE DEF r, i, id
<1>3. "lru" \in DOMAIN r
  BY <1>1 DEF Segment
<1>4. QED
  BY <1>1, <1>2, <1>3

\* A chunk in hand goes to the head of the list of its class.
LEMMA EnterLists ==
  ASSUME NEW s, NEW F, Good(s, F), NEW i \in F, NEW k \in Key, NEW body, NEW f
  PROVE  SetFlags(Enter(s, k, i, body), i, f).lru
           = [s.lru EXCEPT ![i[1]] = Cons(i, s.lru[i[1]])]
<1> DEFINE v == AssocInsert(s, k, i)
           u == ItemLink(v, i)
           t == Enter(s, k, i, body)
<1>1. v \in Segment /\ v.item = s.item /\ v.lru = s.lru
  BY Insert DEF SameChunks
<1>2. s.item[i].clsid = i[1]
  BY DEF Good, ChunksGood, Settled
<1> HIDE DEF v
<1>3. u = [v EXCEPT !.lru[i[1]] = Cons(i, @)]
  BY <1>1, <1>2 DEF ItemLink
<1>4. u.lru = [s.lru EXCEPT ![i[1]] = Cons(i, s.lru[i[1]])] /\ DOMAIN u = DOMAIN v
  BY <1>1, <1>3 DEF Segment
<1>5. t = [u EXCEPT !.item[i].key = k, !.item[i].body = body]
  BY DEF Enter, u, v
<1> HIDE DEF u, t
<1>6. t.lru = u.lru
  BY <1>1, <1>4, <1>5 DEF Segment
<1>7. SetFlags(t, i, f).lru = t.lru
  BY DEF SetFlags
<1>8. QED
  BY <1>4, <1>6, <1>7 DEF t

\* A key that has no item and is set comes first in the list of its class, and
\* the lists are otherwise what they were, if nothing is evicted.
LEMMA SetLists ==
  ASSUME NEW s, Good(s, {}), NEW k \in Key, ~Present(s, k), NEW v, IsText(v),
         ~Lost(k, v.nval), ~EvictToFree, SetNolock(s, k, v, 0).rc = "OK"
  PROVE  LET t == SetNolock(s, k, v, 0).shm
             c == ItemClsid(KeyLen[k], v.nval)
         IN  /\ c \in Slabs
             /\ \A d \in Slabs \ {c} : Keys(t)[d] = Keys(s)[d]
             /\ Len(Keys(t)[c]) = Len(Keys(s)[c]) + 1 /\ Keys(t)[c][1] = k
             /\ \A q \in 1 .. Len(Keys(s)[c]) : Keys(t)[c][q + 1] = Keys(s)[c][q]
<1> DEFINE d == Probe(s, k)
           c == ItemClsid(KeyLen[k], v.nval)
           a == ItemAlloc(d, KeyLen[k], v.nval)
           t == a.shm
           i == a.item
           u == Enter(t, k, i, v.body)
           e == SetFlags(u, i, 0)
<1>1. DelNolock(s, k).shm = d
  BY DEF DelNolock, Result
<1>2. Good(d, {}) /\ Missing(d, k) /\ d.lru = s.lru /\ d.item = s.item /\ Linked(d) = Linked(s)
  BY Probed, ProbeGood DEF SameChunks
<1> HIDE DEF d
<1>3. ItemSizeOk(KeyLen[k], v.nval)
  BY SetAnswers
<1>4. c \in Slabs
  BY <1>3 DEF Lost, Walks
<1>5. KeyLen[k] \in Nat /\ v.nval \in Nat /\ v.body \in Seq(Part) /\ 0 \in Flags
  BY ParamAssumption DEF IsText, Flags
<1>6. Handed(d, KeyLen[k], v.nval, t, i)
  BY <1>2, <1>4, <1>5, Allocated
<1>7. t.lru = s.lru
  BY <1>2, AllocLists DEF Good
<1>8. i # NoItem /\ SetNolock(s, k, v, 0).shm = e
  BY <1>1, <1>3 DEF SetNolock, Result
<1> HIDE DEF a, t, i
<1>9. /\ Missing(t, k) /\ Good(t, {i}) /\ t.item[i].nkey = KeyLen[k] /\ i[1] = c
      /\ Linked(t) = Linked(s) /\ \A j \in Linked(t) : t.item[j] = s.item[j]
  <2>1. Linked(t) = Linked(d)
    BY <1>6 DEF Handed, Evicted
  <2>2. /\ Good(t, {i}) /\ t.item[i].nkey = KeyLen[k] /\ i[1] = c
        /\ \A j \in Linked(t) : j \in Linked(d) /\ t.item[j] = d.item[j]
    BY <1>6, <1>8 DEF Handed
  <2>3. QED
    BY <1>2, <2>1, <2>2 DEF Missing
<1>10. e.lru = [s.lru EXCEPT ![c] = Cons(i, s.lru[c])]
  BY <1>7, <1>9, EnterLists
<1>11. Placed(t, {i}, k, i, v.body, u)
  BY <1>5, <1>9, Entered
<1>12. /\ Good(u, {i} \ {i}) /\ i \in DOMAIN u.item /\ u.item[i].key = k /\ i \notin Linked(t)
       /\ \A j \in DOMAIN t.item \ {i} : u.item[j] = t.item[j]
  BY <1>11 DEF Placed
<1> HIDE DEF u
<1>13. /\ Good(e, {i} \ {i}) /\ e.item[i].key = u.item[i].key
       /\ \A j \in DOMAIN u.item \ {i} : e.item[j] = u.item[j]
  BY <1>5, <1>12, Flagged
<1> HIDE DEF e
<1>14. \A j \in Linked(s) : e.item[j].key = s.item[j].key
  <2>1. Linked(t) \subseteq DOMAIN t.item
    BY <1>9, LinkedByClass DEF Good
  <2>2. Linked(t) \subseteq DOMAIN u.item
    BY <1>11, LinkedByClass DEF Placed, Good
  <2>3. QED
    BY <1>9, <1>12, <1>13, <2>1, <2>2
<1>15. /\ \A b \in Slabs : s.lru[b] \in Seq(ItemName) /\ Len(Keys(s)[b]) = Len(s.lru[b])
       /\ Keys(s) \in [Slabs -> Seq(Key)] /\ Keys(e) \in [Slabs -> Seq(Key)]
       /\ s.lru \in [Slabs -> Seq(ItemName)]
  BY <1>13, KeysTyped DEF Good, Segment
<1>16. ASSUME NEW b \in Slabs
       PROVE  /\ Len(Keys(e)[b]) = Len(e.lru[b])
              /\ \A q \in 1 .. Len(e.lru[b]) : Keys(e)[b][q] = e.item[e.lru[b][q]].key
              /\ \A q \in 1 .. Len(s.lru[b]) :
                   s.lru[b][q] \in Linked(s) /\ Keys(s)[b][q] = s.item[s.lru[b][q]].key
  BY <1>13, KeysTyped
<1>17. ASSUME NEW b \in Slabs \ {c} PROVE Keys(e)[b] = Keys(s)[b]
  <2>1. e.lru[b] = s.lru[b]
    BY <1>4, <1>10, <1>15
  <2>2. ASSUME NEW q \in 1 .. Len(s.lru[b]) PROVE Keys(e)[b][q] = Keys(s)[b][q]
    <3>1. /\ s.lru[b][q] \in Linked(s) /\ Keys(s)[b][q] = s.item[s.lru[b][q]].key
          /\ Keys(e)[b][q] = e.item[e.lru[b][q]].key
      BY <1>16, <2>1
    <3>2. e.item[s.lru[b][q]].key = s.item[s.lru[b][q]].key
      BY <1>14, <3>1
    <3>3. QED
      BY <2>1, <3>1, <3>2
  <2>3. Keys(e)[b] \in Seq(Key) /\ Keys(s)[b] \in Seq(Key) /\ Len(Keys(e)[b]) = Len(Keys(s)[b])
    BY <1>15, <1>16, <2>1
  <2>4. QED
    BY <1>15, <2>2, <2>3
<1>18. /\ Len(Keys(e)[c]) = Len(Keys(s)[c]) + 1 /\ Keys(e)[c][1] = k
       /\ \A q \in 1 .. Len(Keys(s)[c]) : Keys(e)[c][q + 1] = Keys(s)[c][q]
  <2> DEFINE l == s.lru[c]
  <2>1. e.lru[c] = Cons(i, l) /\ l \in Seq(ItemName)
    BY <1>4, <1>10, <1>15
  <2> HIDE DEF l
  <2>2. i \in ItemName
    BY <1>12, <1>11, ItemMapType DEF Placed, Good, Segment
  <2>3. /\ Len(Cons(i, l)) = Len(l) + 1 /\ Cons(i, l)[1] = i
        /\ \A q \in 1 .. Len(l) : Cons(i, l)[q + 1] = l[q]
    BY <2>1, <2>2 DEF Cons
  <2>4. Len(l) \in Nat /\ \A q \in 1 .. Len(l) : q + 1 \in 1 .. Len(l) + 1
    BY <2>1
  <2>5. Len(Keys(s)[c]) = Len(l) /\ Len(Keys(e)[c]) = Len(l) + 1
    BY <1>4, <1>15, <1>16, <2>1, <2>3 DEF l
  <2>6. Keys(e)[c][1] = k
    BY <1>4, <1>12, <1>13, <1>16, <2>1, <2>3, <2>4
  <2>7. ASSUME NEW q \in 1 .. Len(l) PROVE Keys(e)[c][q + 1] = Keys(s)[c][q]
    <3>1. Keys(e)[c][q + 1] = e.item[l[q]].key
      BY <1>4, <1>16, <2>1, <2>3, <2>4
    <3>2. l[q] \in Linked(s) /\ Keys(s)[c][q] = s.item[l[q]].key
      BY <1>4, <1>16 DEF l
    <3>3. QED
      BY <1>14, <3>1, <3>2
  <2>8. QED
    BY <2>5, <2>6, <2>7
<1>19. QED
  BY <1>4, <1>8, <1>17, <1>18 DEF c

\* Where the keys of list i begin in a dump of the lists sv.
Mark(sv, i) == SumFunctionOnSet([c \in 1 .. NSlabs |-> Len(sv[c - 1])], 1 .. i - 1)

\* What the file f has of the lists sv, which were dumped to it: a first part of
\* them, list by list, and each record of an item of the class of its list.
Recorded(f, sv) ==
  /\ sv \in [Slabs -> Seq(Key)]
  /\ Len(f) <= Mark(sv, NSlabs + 1)
  /\ \A i \in 1 .. NSlabs : \A q \in 1 .. Len(sv[i - 1]) :
       Mark(sv, i) + q <= Len(f) =>
         LET r == f[Mark(sv, i) + q]
         IN  r.key = sv[i - 1][q] /\ ItemClsid(KeyLen[r.key], r.nval) = i - 1

\* Of list i, how many keys are among the first m records.
Share(sv, i, m) ==
  IF m <= Mark(sv, i) THEN 0
  ELSE IF m >= Mark(sv, i) + Len(sv[i - 1]) THEN Len(sv[i - 1]) ELSE m - Mark(sv, i)

\* The lists K hold the keys of the first m records, the last of them first.
Listed(K, sv, m) ==
  \A i \in 1 .. NSlabs :
    /\ Len(K[i - 1]) = Share(sv, i, m)
    /\ \A q \in 1 .. Share(sv, i, m) : K[i - 1][q] = sv[i - 1][Share(sv, i, m) + 1 - q]

LEMMA SavedMarks ==
  ASSUME NEW sv, sv \in [Slabs -> Seq(Key)]
  PROVE  /\ NSlabs \in Nat
         /\ Marks([c \in 1 .. NSlabs |-> Len(sv[c - 1])], NSlabs,
                  [j \in 1 .. NSlabs + 1 |-> Mark(sv, j)])
         /\ \A i \in 1 .. NSlabs : i - 1 \in Slabs /\ Len(sv[i - 1]) \in Nat
<1>1. NSlabs \in Nat
  BY ParamAssumption
<1>2. \A i \in 1 .. NSlabs : i - 1 \in Slabs /\ Len(sv[i - 1]) \in Nat
  BY <1>1 DEF Slabs
<1> DEFINE f == [c \in 1 .. NSlabs |-> Len(sv[c - 1])]
<1>3. \A i \in 1 .. NSlabs : f[i] \in Nat
  BY <1>2
<1>4. \A j : Mark(sv, j) = SumFunctionOnSet(f, 1 .. j - 1)
  BY DEF Mark
<1> HIDE DEF f
<1>5. Marks(f, NSlabs, [j \in 1 .. NSlabs + 1 |-> SumFunctionOnSet(f, 1 .. j - 1)])
  BY <1>1, <1>3, SumsAreMarks
<1>6. Marks(f, NSlabs, [j \in 1 .. NSlabs + 1 |-> Mark(sv, j)])
  BY <1>4, <1>5
<1>7. QED
  BY <1>1, <1>2, <1>6 DEF f

\* The places in a dump, as numbers.
LEMMA SavedPlaces ==
  ASSUME NEW sv, sv \in [Slabs -> Seq(Key)]
  PROVE  /\ \A i \in 1 .. NSlabs + 1 : Mark(sv, i) \in Nat
         /\ \A i, j \in 1 .. NSlabs : i < j => Mark(sv, i) + Len(sv[i - 1]) <= Mark(sv, j)
         /\ \A i \in 1 .. NSlabs : Mark(sv, i) + Len(sv[i - 1]) <= Mark(sv, NSlabs + 1)
         /\ \A x \in 1 .. Mark(sv, NSlabs + 1) :
              \E i \in 1 .. NSlabs : \E q \in 1 .. Len(sv[i - 1]) : x = Mark(sv, i) + q
<1> DEFINE f == [c \in 1 .. NSlabs |-> Len(sv[c - 1])]
           o == [j \in 1 .. NSlabs + 1 |-> Mark(sv, j)]
<1>1. /\ NSlabs \in Nat /\ Marks(f, NSlabs, o)
      /\ \A i \in 1 .. NSlabs : f[i] = Len(sv[i - 1])
      /\ \A i \in 1 .. NSlabs + 1 : o[i] = Mark(sv, i)
      /\ \A i \in 1 .. NSlabs : i \in 1 .. NSlabs + 1
      /\ NSlabs + 1 \in 1 .. NSlabs + 1
  <2>1. /\ NSlabs \in Nat /\ Marks(f, NSlabs, o)
        /\ \A i \in 1 .. NSlabs : i - 1 \in Slabs /\ Len(sv[i - 1]) \in Nat
    BY SavedMarks
  <2>2. /\ \A i \in 1 .. NSlabs : i \in 1 .. NSlabs + 1
        /\ NSlabs + 1 \in 1 .. NSlabs + 1
    BY <2>1
  <2>3. /\ \A i \in 1 .. NSlabs : f[i] = Len(sv[i - 1])
        /\ \A i \in 1 .. NSlabs + 1 : o[i] = Mark(sv, i)
    OBVIOUS
  <2>4. QED
    BY <2>1, <2>2, <2>3
<1> HIDE DEF f, o
<1>2. \A i \in 1 .. NSlabs + 1 : Mark(sv, i) \in Nat
  BY <1>1 DEF Marks
<1>3. ASSUME NEW i \in 1 .. NSlabs, NEW j \in 1 .. NSlabs + 1, i < j
      PROVE  Mark(sv, i) + Len(sv[i - 1]) <= Mark(sv, j)
  <2>1. o[i] + f[i] <= o[j]
    BY <1>1, <1>3, MarksGrow
  <2>2. QED
    BY <1>1, <2>1
<1>4. ASSUME NEW x \in 1 .. Mark(sv, NSlabs + 1)
      PROVE  \E i \in 1 .. NSlabs : \E q \in 1 .. Len(sv[i - 1]) : x = Mark(sv, i) + q
  <2>1. x \in 1 .. o[NSlabs + 1]
    BY <1>1
  <2>2. \E i \in 1 .. NSlabs : \E q \in 1 .. f[i] : x = o[i] + q
    BY <1>1, <2>1, SomePlace
  <2>3. QED
    BY <1>1, <2>2
<1>5. \A i \in 1 .. NSlabs : i < NSlabs + 1
  BY <1>1
<1>6. QED
  BY <1>1, <1>2, <1>3, <1>4, <1>5

\* One list has key q more, and the others what they had.
OneMore(sv, m, i, q) ==
  /\ Share(sv, i, m) = q - 1 /\ Share(sv, i, m + 1) = q
  /\ \A j \in 1 .. NSlabs : j # i => Share(sv, j, m + 1) = Share(sv, j, m)

LEMMA SharesStep ==
  ASSUME NEW sv, sv \in [Slabs -> Seq(Key)], NEW m \in Nat, NEW i \in 1 .. NSlabs,
         NEW q \in 1 .. Len(sv[i - 1]), m + 1 = Mark(sv, i) + q
  PROVE  OneMore(sv, m, i, q)
<1>1. /\ NSlabs \in Nat /\ \A j \in 1 .. NSlabs : j \in 1 .. NSlabs + 1
      /\ \A j \in 1 .. NSlabs : Len(sv[j - 1]) \in Nat
  <2>1. NSlabs \in Nat
    BY ParamAssumption
  <2>2. \A j \in 1 .. NSlabs : j - 1 \in Slabs
    BY <2>1 DEF Slabs
  <2>3. QED
    BY <2>1, <2>2
<1>2. \A j \in 1 .. NSlabs : Mark(sv, j) \in Nat /\ Len(sv[j - 1]) \in Nat
  BY <1>1, SavedPlaces
<1>3. Share(sv, i, m) = q - 1 /\ Share(sv, i, m + 1) = q
  <2> DEFINE o == Mark(sv, i)
             n == Len(sv[i - 1])
  <2>1. o \in Nat /\ n \in Nat /\ q \in 1 .. n /\ m + 1 = o + q
    BY <1>2
  <2>2. \A x : Share(sv, i, x) = IF x <= o THEN 0 ELSE IF x >= o + n THEN n ELSE x - o
    BY DEF Share
  <2> HIDE DEF o, n
  <2>3. QED
    BY <2>1, <2>2
<1>4. ASSUME NEW j \in 1 .. NSlabs, j # i
      PROVE  Share(sv, j, m + 1) = Share(sv, j, m)
  <2> DEFINE o == Mark(sv, j)
             n == Len(sv[j - 1])
             u == Mark(sv, i)
             p == Len(sv[i - 1])
  <2>1. o \in Nat /\ n \in Nat /\ u \in Nat /\ p \in Nat /\ q \in 1 .. p /\ m + 1 = u + q
    BY <1>2
  <2>2. \A x : Share(sv, j, x) = IF x <= o THEN 0 ELSE IF x >= o + n THEN n ELSE x - o
    BY DEF Share
  <2>3. (j < i => o + n <= u) /\ (i < j => u + p <= o)
    BY SavedPlaces
  <2> HIDE DEF o, n, u, p
  <2>4. j < i \/ i < j
    BY <1>1, <1>4
  <2>5. QED
    BY <2>1, <2>2, <2>3, <2>4
<1>5. QED
  BY <1>3, <1>4 DEF OneMore

\* Record m + 1 is key q of list i, and the only news of the first m + 1.
Comes(f, sv, m, i, q) ==
  /\ f[m + 1].key = sv[i - 1][q]
  /\ ItemClsid(KeyLen[f[m + 1].key], f[m + 1].nval) = i - 1
  /\ OneMore(sv, m, i, q)

LEMMA NextPlace ==
  ASSUME NEW f, Len(f) \in Nat, NEW sv, Recorded(f, sv), NEW m \in Nat, m + 1 <= Len(f)
  PROVE  \E i \in 1 .. NSlabs : \E q \in 1 .. Len(sv[i - 1]) : Comes(f, sv, m, i, q)
<1>1. sv \in [Slabs -> Seq(Key)] /\ Len(f) <= Mark(sv, NSlabs + 1) /\ NSlabs \in Nat
  BY ParamAssumption DEF Recorded
<1>2. NSlabs + 1 \in 1 .. NSlabs + 1
  BY <1>1
<1>3. Mark(sv, NSlabs + 1) \in Nat
  BY <1>1, <1>2, SavedPlaces
<1>4. m + 1 \in 1 .. Mark(sv, NSlabs + 1)
  BY <1>1, <1>3
<1>5. PICK i \in 1 .. NSlabs : \E q \in 1 .. Len(sv[i - 1]) : m + 1 = Mark(sv, i) + q
  <2> HIDE DEF Recorded
  <2>1. \A x \in 1 .. Mark(sv, NSlabs + 1) :
          \E i \in 1 .. NSlabs : \E q \in 1 .. Len(sv[i - 1]) : x = Mark(sv, i) + q
    BY <1>1, SavedPlaces
  <2>2. QED
    BY <1>4, <2>1, Zenon
<1>6. PICK q \in 1 .. Len(sv[i - 1]) : m + 1 = Mark(sv, i) + q
  BY <1>5
<1>7. f[m + 1].key = sv[i - 1][q] /\ ItemClsid(KeyLen[f[m + 1].key], f[m + 1].nval) = i - 1
  BY <1>6 DEF Recorded
<1>8. OneMore(sv, m, i, q)
  BY <1>1, <1>6, SharesStep
<1>9. QED
  BY <1>7, <1>8 DEF Comes

\* In L the key k is the head of list c, and nothing else is new.
Headed(L, K, c, k) ==
  /\ \A d \in Slabs \ {c} : L[d] = K[d]
  /\ Len(L[c]) = Len(K[c]) + 1 /\ L[c][1] = k
  /\ \A q \in 1 .. Len(K[c]) : L[c][q + 1] = K[c][q]

\* The next record goes to the head of its list.
LEMMA ListedStep ==
  ASSUME NEW f, Len(f) \in Nat, NEW sv, Recorded(f, sv), NEW m \in Nat, m + 1 <= Len(f),
         NEW K, Listed(K, sv, m), NEW L, NEW c, c = ItemClsid(KeyLen[f[m + 1].key], f[m + 1].nval),
         Headed(L, K, c, f[m + 1].key)
  PROVE  Listed(L, sv, m + 1)
<1>0. /\ \A d \in Slabs \ {c} : L[d] = K[d]
      /\ Len(L[c]) = Len(K[c]) + 1 /\ L[c][1] = f[m + 1].key
      /\ \A q \in 1 .. Len(K[c]) : L[c][q + 1] = K[c][q]
  BY DEF Headed
<1>1. sv \in [Slabs -> Seq(Key)] /\ NSlabs \in Nat
  BY ParamAssumption DEF Recorded
<1>2. \A i \in 1 .. NSlabs : i - 1 \in Slabs /\ i - 1 \in Int
  BY <1>1 DEF Slabs
<1>3. PICK i \in 1 .. NSlabs : \E q \in 1 .. Len(sv[i - 1]) : Comes(f, sv, m, i, q)
  BY NextPlace
<1>4. PICK q \in 1 .. Len(sv[i - 1]) : Comes(f, sv, m, i, q)
  BY <1>3
<1>5. f[m + 1].key = sv[i - 1][q] /\ c = i - 1
  BY <1>4 DEF Comes
<1>6. /\ Share(sv, i, m) = q - 1 /\ Share(sv, i, m + 1) = q
      /\ \A j \in 1 .. NSlabs : j # i => Share(sv, j, m + 1) = Share(sv, j, m)
  BY <1>4 DEF Comes, OneMore
<1>7. ASSUME NEW j \in 1 .. NSlabs
      PROVE  /\ Len(L[j - 1]) = Share(sv, j, m + 1)
             /\ \A p \in 1 .. Share(sv, j, m + 1) :
                  L[j - 1][p] = sv[j - 1][Share(sv, j, m + 1) + 1 - p]
  <2>1. /\ Len(K[j - 1]) = Share(sv, j, m)
        /\ \A p \in 1 .. Share(sv, j, m) : K[j - 1][p] = sv[j - 1][Share(sv, j, m) + 1 - p]
    BY DEF Listed
  <2>2. CASE j # i
    <3>1. j - 1 \in Slabs \ {c}
      BY <1>2, <1>5, <2>2
    <3>2. L[j - 1] = K[j - 1] /\ Share(sv, j, m + 1) = Share(sv, j, m)
      BY <1>0, <1>6, <2>2, <3>1
    <3>3. QED
      BY <2>1, <3>2
  <2>3. CASE j = i
    <3>1. sv[i - 1] \in Seq(Key)
      BY <1>1, <1>2
    <3>2. q \in Nat \ {0} /\ Len(K[c]) = q - 1 /\ Len(L[c]) = q
      <4>1. q \in Nat \ {0}
        BY <3>1
      <4>2. Len(K[c]) = q - 1
        BY <1>5, <1>6, <2>1, <2>3
      <4>3. (q - 1) + 1 = q
        BY <4>1
      <4>4. QED
        BY <1>0, <4>1, <4>2, <4>3
    <3>3. ASSUME NEW p \in 1 .. q PROVE L[c][p] = sv[c][q + 1 - p]
      <4>1. CASE p = 1
        <5>1. q + 1 - p = q
          BY <3>2, <4>1
        <5>2. QED
          BY <1>0, <1>5, <4>1, <5>1
      <4>2. CASE p # 1
        <5>1. p - 1 \in 1 .. q - 1 /\ (p - 1) + 1 = p /\ (q - 1) + 1 - (p - 1) = q + 1 - p
          BY <3>2, <4>2
        <5>2. L[c][(p - 1) + 1] = K[c][p - 1]
          BY <1>0, <3>2, <5>1
        <5>3. K[c][p - 1] = sv[c][(q - 1) + 1 - (p - 1)]
          BY <1>5, <1>6, <2>1, <2>3, <5>1
        <5>4. QED
          BY <5>1, <5>2, <5>3
      <4>3. QED
        BY <4>1, <4>2
    <3>4. QED
      BY <1>5, <1>6, <2>3, <3>2, <3>3
  <2>4. QED
    BY <2>2, <2>3
<1>8. QED
  BY <1>7 DEF Listed

\* Before the first record is read the lists are empty.
LEMMA ListedStarts ==
  ASSUME NEW sv, sv \in [Slabs -> Seq(Key)], NEW K, \A c \in Slabs : Len(K[c]) = 0
  PROVE  Listed(K, sv, 0)
<1>1. ASSUME NEW i \in 1 .. NSlabs PROVE Share(sv, i, 0) = 0 /\ Len(K[i - 1]) = 0
  <2>1. NSlabs \in Nat
    BY ParamAssumption
  <2>2. i \in 1 .. NSlabs + 1 /\ i - 1 \in Slabs
    BY <2>1 DEF Slabs
  <2>3. Mark(sv, i) \in Nat
    BY <2>2, SavedPlaces
  <2>4. 0 <= Mark(sv, i)
    BY <2>3
  <2>5. QED
    BY <2>2, <2>4 DEF Share
<1>2. QED
  BY <1>1 DEF Listed

\* When the last one is read each list is the reverse of the list it was.
LEMMA ListedEnds ==
  ASSUME NEW sv, sv \in [Slabs -> Seq(Key)], NEW K, K \in [Slabs -> Seq(Key)],
         Listed(K, sv, Mark(sv, NSlabs + 1))
  PROVE  K = [c \in Slabs |-> Reverse(sv[c])]
<1> DEFINE m == Mark(sv, NSlabs + 1)
<1>1. ASSUME NEW c \in Slabs PROVE K[c] = Reverse(sv[c])
  <2> DEFINE i == c + 1
             n == Len(sv[c])
             o == Mark(sv, i)
  <2>1. NSlabs \in Nat /\ c \in 0 .. NSlabs - 1
    BY ParamAssumption DEF Slabs
  <2>2. i \in 1 .. NSlabs /\ i - 1 = c /\ i \in 1 .. NSlabs + 1 /\ NSlabs + 1 \in 1 .. NSlabs + 1
    BY <2>1
  <2>3. sv[c] \in Seq(Key) /\ K[c] \in Seq(Key) /\ n \in Nat
    OBVIOUS
  <2> HIDE DEF i
  <2>4. o \in Nat /\ m \in Nat
    BY <2>2, SavedPlaces
  <2>5. o + Len(sv[i - 1]) <= m
    BY <2>2, SavedPlaces
  <2>6. Share(sv, i, m) = IF m <= o THEN 0 ELSE IF m >= o + n THEN n ELSE m - o
    BY <2>2 DEF Share
  <2>7. o + n <= m
    BY <2>2, <2>5
  <2> HIDE DEF m, n, o
  <2>8. Share(sv, i, m) = n
    BY <2>3, <2>4, <2>6, <2>7
  <2>9. Len(K[c]) = n /\ \A q \in 1 .. n : K[c][q] = sv[c][n + 1 - q]
    BY <2>2, <2>8 DEF Listed, m
  <2>10. K[c] = [q \in 1 .. n |-> sv[c][n + 1 - q]]
    BY <2>3, <2>9
  <2>11. Reverse(sv[c]) = [q \in 1 .. n |-> sv[c][(n - q) + 1]]
    BY DEF Reverse, n
  <2>12. \A q \in 1 .. n : n + 1 - q = (n - q) + 1
    BY <2>3
  <2>13. QED
    BY <2>10, <2>11, <2>12
<1>2. QED
  BY <1>1

\* Lists and their keys have the same lengths, so their marks are the same.
LEMMA ListMarks ==
  ASSUME NEW s, Good(s, {}), NEW o, Together(Lists(s), o, Items(s)), NEW j \in 1 .. NSlabs + 1
  PROVE  o[j] = Mark(Keys(s), j)
<1> DEFINE sv == Keys(s)
           L == Lists(s)
           g == [c \in 1 .. NSlabs |-> Len(sv[c - 1])]
           h == [i \in 1 .. Len(L) |-> Len(L[i])]
           u == [i \in 1 .. NSlabs + 1 |-> Mark(sv, i)]
<1>1. NSlabs \in Nat /\ Len(L) = NSlabs
  BY ParamAssumption DEF Lists
<1>2. \A i \in 1 .. NSlabs : Len(L[i]) = Len(sv[i - 1])
  <2>1. \A i \in 1 .. NSlabs : i - 1 \in Slabs /\ L[i] = s.lru[i - 1]
    BY <1>1 DEF Lists, Slabs
  <2>2. \A c \in Slabs : Len(sv[c]) = Len(s.lru[c])
    BY KeysTyped
  <2>3. QED
    BY <2>1, <2>2
<1>3. sv \in [Slabs -> Seq(Key)]
  BY KeysTyped
<1> HIDE DEF sv, L
<1>4. Marks(h, NSlabs, o)
  BY <1>1 DEF Together, L
<1>5. Marks(g, NSlabs, u)
  BY <1>3, SavedMarks
<1>6. (\A i \in 1 .. NSlabs : h[i] = g[i]) /\ u[j] = Mark(sv, j)
  BY <1>1, <1>2
<1> HIDE DEF h, g, u
<1>7. o[j] = u[j]
  BY <1>1, <1>4, <1>5, <1>6, SameMarks
<1>8. QED
  BY <1>6, <1>7 DEF sv

\* A dump, or the part of it that a full disk has taken, has the keys of the lists.
LEMMA RecordedBy ==
  ASSUME NEW s, Good(s, {}), NEW f, Len(f) \in Nat, Len(f) <= Len(Records(s)),
         \A x \in 1 .. Len(f) : f[x].key = Records(s)[x].key /\ f[x].nval = Records(s)[x].nval
  PROVE  Recorded(f, Keys(s))
<1> DEFINE sv == Keys(s)
           items == Items(s)
           L == Lists(s)
<1>1. /\ sv \in [Slabs -> Seq(Key)]
      /\ \A c \in Slabs :
           /\ s.lru[c] \in Seq(ItemName) /\ Len(sv[c]) = Len(s.lru[c])
           /\ \A q \in 1 .. Len(s.lru[c]) :
                s.lru[c][q] \in Linked(s) /\ sv[c][q] = s.item[s.lru[c][q]].key
  BY KeysTyped
<1>2. NSlabs \in Nat /\ Len(L) = NSlabs /\ \A i \in 1 .. NSlabs : i - 1 \in Slabs /\ L[i] = s.lru[i - 1]
  <2>1. NSlabs \in Nat /\ Len(L) = NSlabs
    BY ParamAssumption DEF Lists
  <2>2. \A i \in 1 .. NSlabs : i - 1 \in Slabs /\ L[i] = s.lru[i - 1]
    BY <2>1 DEF Lists, Slabs
  <2>3. QED
    BY <2>1, <2>2
<1>3. PICK o : Together(L, o, items)
  BY ItemsPlaced
<1>4. \A j \in 1 .. NSlabs + 1 : o[j] = Mark(sv, j)
  BY <1>3, ListMarks
<1> HIDE DEF L, sv
<1>5. Len(items) = o[NSlabs + 1]
  BY <1>2, <1>3 DEF Together
<1>6. Len(Records(s)) = Len(items)
  BY RecordsOf
<1>7. NSlabs + 1 \in 1 .. NSlabs + 1 /\ \A i \in 1 .. NSlabs : i \in 1 .. NSlabs + 1
  BY <1>2
<1>8. Len(f) <= Mark(sv, NSlabs + 1)
  BY <1>5, <1>4, <1>6, <1>7
<1>9. ASSUME NEW i \in 1 .. NSlabs, NEW q \in 1 .. Len(sv[i - 1]), Mark(sv, i) + q <= Len(f)
       PROVE  LET r == f[Mark(sv, i) + q]
              IN  r.key = sv[i - 1][q] /\ ItemClsid(KeyLen[r.key], r.nval) = i - 1
  <2> DEFINE x == Mark(sv, i) + q
             c == i - 1
             j == s.lru[c][q]
  <2>1. c \in Slabs /\ L[i] = s.lru[c] /\ Len(sv[c]) = Len(L[i]) /\ q \in 1 .. Len(L[i])
    BY <1>1, <1>2
  <2>2. x = o[i] + q
    BY <1>4, <1>7
  <2>3. x \in 1 .. Len(items) /\ items[x] = L[i][q]
    BY <1>2, <1>3, <2>1, <2>2 DEF Together
  <2>4. x \in 1 .. Len(f)
    BY <1>9, <2>3
  <2> HIDE DEF x, c
  <2>5. items[x] = j /\ j \in Linked(s) /\ sv[c][q] = s.item[j].key
    BY <1>1, <2>1, <2>3
  <2> HIDE DEF j
  <2>6. /\ Records(s)[x].key = s.item[items[x]].key
        /\ Records(s)[x].nval = s.item[items[x]].nval
    BY <2>3, RecordsOf
  <2>7. f[x].key = s.item[j].key /\ f[x].nval = s.item[j].nval
    BY <2>4, <2>5, <2>6
  <2>8. s.item[j].nkey = KeyLen[s.item[j].key] /\ Settled(s, j)
    BY <2>5 DEF Good, IndexGood, ChunksGood
  <2>9. j[1] = c
    <3>1. j \in Range(s.lru[c])
      BY <1>1, <2>1 DEF Range, j
    <3>2. QED
      BY <2>1, <3>1 DEF Good, ChunksGood
  <2>10. ItemClsid(KeyLen[f[x].key], f[x].nval) = c
    BY <2>7, <2>8, <2>9 DEF Settled
  <2>11. QED
    BY <2>5, <2>7, <2>10 DEF x, c
<1>10. Recorded(f, sv)
  BY <1>1, <1>8, <1>9 DEF Recorded
<1>11. QED
  BY <1>10 DEF sv

\* A file that is cut has the keys and the sizes of the file.
LEMMA CutKeys ==
  ASSUME NEW f, Legible(f), NEW j \in 1 .. Len(f), NEW cut \in Nat \ {0}
  PROVE  /\ Len(Cut(f, j, cut)) = j
         /\ \A x \in 1 .. j :
              Cut(f, j, cut)[x].key = f[x].key /\ Cut(f, j, cut)[x].nval = f[x].nval
<1>1. /\ Cut(f, j, cut) \in Seq(RecordType) /\ Len(Cut(f, j, cut)) = j
      /\ \A i \in 1 .. j - 1 : Cut(f, j, cut)[i] = f[i]
      /\ Cut(f, j, cut)[j].key = f[j].key /\ Cut(f, j, cut)[j].nval = f[j].nval
      /\ Cut(f, j, cut)[j].need = f[j].need /\ Cut(f, j, cut)[j].len = cut
  BY CutIs
<1>2. \A x \in 1 .. j : x \in 1 .. j - 1 \/ x = j
  BY Offsets
<1>3. QED
  BY <1>1, <1>2

\* What a dump leaves in the file, cut or not, is recorded of the lists there are.
LEMMA DumpRecords ==
  ASSUME Good(shm, {}), Dump
  PROVE  Recorded(file', saved')
<1> DEFINE rs == Records(shm)
<1>1. Legible(rs) /\ \A j \in 1 .. Len(rs) : rs[j].len > 1
  BY RecordsLegible
<1>2. Len(rs) \in Nat /\ DOMAIN rs = 1 .. Len(rs)
  BY <1>1, Offsets
<1>3. saved' = Keys(shm)
  BY DEF Dump
<1>4. \/ file' = rs
      \/ \E j \in 1 .. Len(rs) : \E cut \in {1, rs[j].len - 1} : file' = Cut(rs, j, cut)
  BY <1>2 DEF Dump, Cut
<1>5. CASE file' = rs
  <2>1. Recorded(rs, Keys(shm))
    BY <1>2, RecordedBy
  <2>2. QED
    BY <1>3, <1>5, <2>1
<1>6. CASE \E j \in 1 .. Len(rs) : \E cut \in {1, rs[j].len - 1} : file' = Cut(rs, j, cut)
  <2>1. PICK j \in 1 .. Len(rs) : \E cut \in {1, rs[j].len - 1} : file' = Cut(rs, j, cut)
    BY <1>6
  <2>2. PICK cut \in {1, rs[j].len - 1} : file' = Cut(rs, j, cut)
    BY <2>1
  <2> HIDE DEF rs
  <2>3. cut \in Nat \ {0}
    BY <1>1, <2>1, CutLegible
  <2> DEFINE g == Cut(rs, j, cut)
  <2>4. Len(g) = j /\ \A x \in 1 .. j : g[x].key = rs[x].key /\ g[x].nval = rs[x].nval
    BY <1>1, <2>3, CutKeys
  <2>5. j \in Nat /\ j <= Len(rs)
    BY <1>2
  <2> HIDE DEF g
  <2>6. Recorded(g, Keys(shm))
    BY <2>4, <2>5, RecordedBy DEF rs
  <2>7. QED
    BY <1>3, <2>2, <2>6 DEF g
<1>7. QED
  BY <1>4, <1>5, <1>6

\* RecencyReversed, while load runs and when it has read the file: what the first
\* records have made of the lists of an empty segment.
Ordered_ ==
  /\ Recorded(file, saved)
  /\ Loading /\ Wholesome(file) /\ before = <<>> /\ ~EvictToFree
       /\ (load.pc # "idle" \/ call.rc = "OK") =>
       \A m : Reached(file, load, m) => Listed(Keys(shm), saved, m)

LEMMA OrderedStarts == DInit => Ordered_
<1> SUFFICES ASSUME DInit PROVE Ordered_
  OBVIOUS
<1>1. /\ file = <<>> /\ saved = [c \in Slabs |-> <<>>] /\ ~Loading
  BY DEF DInit, Init, Idle, Loading
<1>2. saved \in [Slabs -> Seq(Key)] /\ NSlabs + 1 \in 1 .. NSlabs + 1 /\ NSlabs \in Nat
  BY <1>1, EmptySeq, ParamAssumption
<1>3. \A i \in 1 .. NSlabs + 1 : Mark(saved, i) \in Nat
  BY <1>2, SavedPlaces
<1>4. Len(file) = 0 /\ \A i \in 1 .. NSlabs : saved[i - 1] = <<>> /\ Len(saved[i - 1]) = 0
  BY <1>1, <1>2, EmptySeq DEF Slabs
<1>5. Len(file) <= Mark(saved, NSlabs + 1) /\ \A i \in 1 .. NSlabs : 1 .. Len(saved[i - 1]) = {}
  BY <1>2, <1>3, <1>4
<1>6. Recorded(file, saved)
  BY <1>2, <1>5 DEF Recorded
<1>7. QED
  BY <1>1, <1>6 DEF Ordered_

\* A segment with no content has empty lists.
LEMMA EmptyLists ==
  ASSUME NEW s, Good(s, {}), DOMAIN View(s) = {}
  PROVE  \A c \in Slabs : Len(Keys(s)[c]) = 0
<1>1. \A i : i \notin Linked(s)
  BY ViewOfItems
<1>2. \A c \in Slabs :
        /\ s.lru[c] \in Seq(ItemName) /\ Len(Keys(s)[c]) = Len(s.lru[c])
        /\ \A q \in 1 .. Len(s.lru[c]) : s.lru[c][q] \in Linked(s)
  BY KeysTyped
<1>3. ASSUME NEW c \in Slabs PROVE Len(Keys(s)[c]) = 0
  <2>1. Len(s.lru[c]) \in Nat /\ 1 .. Len(s.lru[c]) = {}
    BY <1>1, <1>2
  <2>2. QED
    BY <1>2, <2>1
<1>4. QED
  BY <1>3

\* The first record is read into empty lists.
LEMMA OrderBegins ==
  ASSUME Good(shm, {}), Legible(file), View(shm) = <<>>, NEW sv, sv \in [Slabs -> Seq(Key)],
         NEW l, l.pos = 0, NEW m, Reached(file, l, m)
  PROVE  Listed(Keys(shm), sv, m)
<1>1. m = 0
  <2>1. Offset(file, 1) = 0 /\ Len(file) \in Nat /\ 1 \in 1 .. Len(file) + 1
    BY Offsets
  <2>2. m \in 0 .. Len(file) /\ m + 1 \in 1 .. Len(file) + 1 /\ Offset(file, m + 1) = 0
    BY <2>1 DEF Reached
  <2>3. m + 1 = 1
    BY <2>1, <2>2, OffsetsDiffer
  <2>4. QED
    BY <2>2, <2>3
<1>2. DOMAIN View(shm) = {}
  BY EmptySeq
<1>3. \A c \in Slabs : Len(Keys(shm)[c]) = 0
  BY <1>2, EmptyLists
<1>4. Listed(Keys(shm), sv, 0)
  BY <1>3, ListedStarts
<1>5. QED
  BY <1>1, <1>4

\* The next record goes to the head of its list.
LEMMA OrderTakes ==
  ASSUME Good(shm, {}), Legible(file), NEW m \in Nat, m + 1 <= Len(file),
         View(shm) = Merged(file, m, <<>>), NEW sv, Recorded(file, sv), Listed(Keys(shm), sv, m),
         NEW v, IsText(v), v.nval = file[m + 1].nval, ~Lost(file[m + 1].key, v.nval),
         ~EvictToFree, SetNolock(shm, file[m + 1].key, v, 0).rc = "OK"
  PROVE  Listed(Keys(SetNolock(shm, file[m + 1].key, v, 0).shm), sv, m + 1)
<1> DEFINE k == file[m + 1].key
           t == SetNolock(shm, k, v, 0).shm
           c == ItemClsid(KeyLen[k], v.nval)
<1>1. Len(file) \in Nat /\ m + 1 \in 1 .. Len(file) /\ file[m + 1] \in RecordType
  BY Offsets
<1>2. k \in Key
  BY <1>1 DEF RecordType
<1>3. ~Present(shm, k)
  <2>1. DOMAIN View(shm) = New(file, m)
    BY EmptySeq DEF Merged
  <2>2. ASSUME NEW j \in 1 .. m, file[j].key = k PROVE FALSE
    <3>1. j \in 1 .. Len(file) /\ j # m + 1
      BY <1>1
    <3>2. QED
      BY <1>1, <2>2, <3>1 DEF Legible
  <2>3. k \notin New(file, m)
    BY <2>2 DEF New
  <2>4. Present(shm, k) <=> k \in DOMAIN View(shm)
    BY <1>2, ViewOfItems
  <2>5. QED
    BY <2>1, <2>3, <2>4
<1>4. /\ c \in Slabs
      /\ \A d \in Slabs \ {c} : Keys(t)[d] = Keys(shm)[d]
      /\ Len(Keys(t)[c]) = Len(Keys(shm)[c]) + 1 /\ Keys(t)[c][1] = k
      /\ \A q \in 1 .. Len(Keys(shm)[c]) : Keys(t)[c][q + 1] = Keys(shm)[c][q]
  <2>1. /\ Good(shm, {}) /\ k \in Key /\ ~Present(shm, k) /\ IsText(v) /\ ~Lost(k, v.nval)
        /\ ~EvictToFree /\ SetNolock(shm, k, v, 0).rc = "OK"
    BY <1>2, <1>3
  <2> HIDE DEF k
  <2>2. QED
    BY <2>1, SetLists
<1>5. c = ItemClsid(KeyLen[file[m + 1].key], file[m + 1].nval)
  OBVIOUS
<1>6. Headed(Keys(t), Keys(shm), c, k)
  BY <1>4 DEF Headed
<1> HIDE DEF c, t
<1>7. Listed(Keys(t), sv, m + 1)
  BY <1>1, <1>5, <1>6, ListedStep
<1>8. QED
  BY <1>7 DEF t

LEMMA OrderedKept == DInv /\ Prefix_ /\ Ordered_ /\ [DNext]_dvars => Ordered_'
<1> SUFFICES ASSUME DInv, Prefix_, Ordered_, [DNext]_dvars PROVE Ordered_'
  OBVIOUS
<1>1. CASE UNCHANGED dvars
  <2>1. /\ file' = file /\ load' = load /\ call' = call /\ fault' = fault
        /\ shm' = shm /\ before' = before /\ saved' = saved
    BY <1>1 DEF dvars
  <2>2. QED
    BY <2>1 DEF Ordered_, Loading
<1>2. CASE DNext
  <2>0. Legible(file) /\ Good(shm, {}) /\ Buffered(file, load) /\ Recorded(file, saved)
    BY DEF DInv, IInv, Ordered_
  <2>1. CASE load.pc = "idle"
    <3>1. Recorded(file', saved')
      <4>1. CASE Dump
        BY <2>0, <4>1, DumpRecords
      <4>2. CASE ~Dump
        <5>1. file' = file /\ saved' = saved
          BY <1>2, <2>1, <4>2 DEF DNext, Otherwise, Unopened, Load, Recreate
        <5>2. QED
          BY <2>0, <5>1
      <4>3. QED
        BY <4>1, <4>2
    <3>2. \/ fault' # "none"
          \/ call'.op # "load" /\ load'.pc = "idle"
          \/ Unopened /\ load'.pc = "idle" /\ call'.rc # "OK"
          \/ Load /\ load'.pos = 0
      BY <1>2, <2>1, OutsideCalls DEF DNext, Idle
    <3>3. CASE \/ fault' # "none"
               \/ call'.op # "load" /\ load'.pc = "idle"
               \/ Unopened /\ load'.pc = "idle" /\ call'.rc # "OK"
      BY <3>1, <3>3 DEF Ordered_, Loading
    <3>4. CASE Load /\ load'.pos = 0
      <4>1. before' = Content /\ shm' = shm /\ file' = file /\ saved' = saved
        BY <3>4 DEF Load
      <4>2. before' = View(shm)
        BY <4>1, MapsAgree
      <4>3. saved \in [Slabs -> Seq(Key)]
        BY <2>0 DEF Recorded
      <4>4. ASSUME NEW m, before' = <<>>, Reached(file', load', m)
            PROVE  Listed(Keys(shm'), saved', m)
        BY <2>0, <3>4, <4>1, <4>2, <4>3, <4>4, OrderBegins
      <4>5. QED
        BY <3>1, <4>4 DEF Ordered_
    <3>5. QED
      BY <3>2, <3>3, <3>4
  <2>2. CASE Fread \/ Shift
    <3>1. /\ shm' = shm /\ file' = file
          /\ Wholesome(file) => load'.pos = load.pos
      BY <2>2, FreadKeeps, ShiftKeeps
    <3>2. /\ before' = before /\ saved' = saved /\ load.pc # "idle" /\ fault = "none"
      BY <1>2, <2>2 DEF Fread, Shift, DNext
    <3>3. \A m : Wholesome(file) /\ Reached(file, load', m) => Reached(file, load, m)
      BY <3>1 DEF Reached
    <3>4. QED
      BY <3>1, <3>2, <3>3 DEF Ordered_, Loading
  <2>3. CASE Stray
    <3>1. file' = file /\ saved' = saved /\ ~Wholesome(file)
      BY <2>3, StrayKeeps DEF Stray
    <3>2. QED
      BY <2>0, <3>1 DEF Ordered_
  <2>4. CASE Take
    <3>1. /\ file' = file /\ load.pc = "parse" /\ before' = before /\ saved' = saved
          /\ fault = "none"
      BY <1>2, <2>4 DEF Take, DNext
    <3>2. SUFFICES ASSUME fault' = "none", Wholesome(file), ~EvictToFree, before = <<>>,
                          load'.pc # "idle" \/ call'.rc = "OK",
                          NEW n, Reached(file, load', n)
                   PROVE  Listed(Keys(shm'), saved, n)
      BY <2>0, <3>1 DEF Ordered_, Loading
    <3>3. PICK j \in 1 .. Len(file) :
            /\ Offset(file, j) = load.pos /\ file[j].need <= load.read - load.pos
            /\ IsText(Found(file[j])) /\ SetOutcome(file[j].key, Found(file[j]), file[j].need)
      BY <2>4, TakeKeeps
    <3> DEFINE k == file[j].key
               v == Found(file[j])
               r == SetNolock(shm, k, v, 0)
    <3>4. PICK m : Reached(file, load, m)
      BY <3>2 DEF DInv
    <3>5. j = m + 1 /\ m \in Nat /\ m + 1 <= Len(file) /\ v.nval = file[m + 1].nval
      <4>1. j = m + 1
        BY <2>0, <3>3, <3>4, NextRecord
      <4>2. Len(file) \in Nat
        BY <2>0, Offsets
      <4>3. QED
        BY <3>4, <4>1, <4>2 DEF Reached, Found
    <3>6. View(shm) = Merged(file, m, <<>>) /\ Listed(Keys(shm), saved, m)
      BY <3>1, <3>2, <3>4 DEF Prefix_, Ordered_, Loading
    <3>7. /\ ~Lost(k, v.nval) /\ shm' = r.shm /\ r.rc = "OK"
          /\ load'.pos = load.pos + file[j].need
      <4>1. load'.pc = "idle" => call'.rc = "OK"
        BY <3>2
      <4>2. load' = [load EXCEPT !.pc = "idle"] => load'.pc = "idle"
        BY <2>0, AtEnd
      <4>3. QED
        BY <3>2, <3>3, <4>1, <4>2 DEF SetOutcome
    <3> HIDE DEF v
    <3>8. Listed(Keys(shm'), saved, m + 1)
      BY <2>0, <3>2, <3>3, <3>5, <3>6, <3>7, OrderTakes DEF v
    <3>9. Reached(file, load', m + 1)
      BY <2>0, <3>2, <3>3, <3>4, <3>7, ReachOn
    <3>10. n = m + 1
      BY <2>0, <3>2, <3>9, ReachedOnce
    <3>11. QED
      BY <3>8, <3>10
  <2>5. QED
    BY <1>2, <2>1, <2>2, <2>3, <2>4 DEF DNext
<1>3. QED
  BY <1>1, <1>2

\* The lists put together are as long as their last mark tells.
LEMMA SavedLength ==
  ASSUME NEW sv, sv \in [Slabs -> Seq(Key)]
  PROVE  Len(FlattenSeq([c \in 1 .. NSlabs |-> sv[c - 1]])) = Mark(sv, NSlabs + 1)
<1> DEFINE L == [c \in 1 .. NSlabs |-> sv[c - 1]]
           g == [c \in 1 .. NSlabs |-> Len(sv[c - 1])]
           h == [i \in 1 .. Len(L) |-> Len(L[i])]
           u == [i \in 1 .. NSlabs + 1 |-> Mark(sv, i)]
<1>1. NSlabs \in Nat /\ \A i \in 1 .. NSlabs : i - 1 \in Slabs
  BY ParamAssumption DEF Slabs
<1>2. L \in Seq(Seq(Key)) /\ Len(L) = NSlabs
  <2>1. \A i \in 1 .. NSlabs : sv[i - 1] \in Seq(Key)
    BY <1>1
  <2>2. QED
    BY <1>1, <2>1
<1>3. \A i \in 1 .. NSlabs : h[i] = g[i]
  BY <1>2
<1>4. Marks(g, NSlabs, u)
  BY SavedMarks
<1>5. u[NSlabs + 1] = Mark(sv, NSlabs + 1) /\ NSlabs + 1 \in 1 .. NSlabs + 1
  BY <1>1
<1> HIDE DEF L, g, u
<1>6. PICK o : Together(L, o, FlattenSeq(L))
  BY <1>2, Flattened
<1>7. Marks(h, NSlabs, o) /\ Len(FlattenSeq(L)) = o[NSlabs + 1]
  BY <1>2, <1>6 DEF Together
<1> HIDE DEF h
<1>8. o[NSlabs + 1] = u[NSlabs + 1]
  BY <1>1, <1>3, <1>4, <1>5, <1>7, SameMarks
<1>9. QED
  BY <1>5, <1>7, <1>8 DEF L

LEMMA OrderedTaken == DInv /\ Ordered_ => RecencyReversed
<1> SUFFICES ASSUME DInv, Ordered_, Answered, call.rc = "OK", before = <<>>, ~EvictToFree,
                    Straight, Taken = Len(file),
                    Len(file) = Len(FlattenSeq([c \in 1 .. NSlabs |-> saved[c - 1]]))
             PROVE  Keys(shm) = [c \in Slabs |-> Reverse(saved[c])]
  BY DEF RecencyReversed
<1>1. Legible(file) /\ Wholesome(file) /\ Good(shm, {})
  BY Places DEF DInv, IInv
<1>2. PICK m : Reached(file, load, m)
  BY <1>1 DEF DInv
<1>3. saved \in [Slabs -> Seq(Key)] /\ Listed(Keys(shm), saved, m)
  BY <1>1, <1>2 DEF Ordered_, Recorded, Answered
<1>4. m = Mark(saved, NSlabs + 1)
  <2>1. Taken = m
    BY <1>1, <1>2, TakenIs
  <2>2. Len(FlattenSeq([c \in 1 .. NSlabs |-> saved[c - 1]])) = Mark(saved, NSlabs + 1)
    BY <1>3, SavedLength
  <2>3. QED
    BY <2>1, <2>2
<1>5. Keys(shm) \in [Slabs -> Seq(Key)]
  BY <1>1, KeysTyped
<1>6. QED
  BY <1>3, <1>4, <1>5, ListedEnds

\* Dump writes the most recently used item of a class first and load sets it first:
\* loaded into an empty segment, each list comes back in reverse (shmc_dump, shmc_load).
THEOREM RecencyIsReversed == DSpec => []RecencyReversed
<1>1. DInit => DInv /\ Prefix_ /\ Ordered_
  BY DumpStarts, PrefixStarts, OrderedStarts
<1>2. DInv /\ Prefix_ /\ Ordered_ /\ [DNext]_dvars => DInv' /\ Prefix_' /\ Ordered_'
  BY DumpStepKeeps, PrefixKept, OrderedKept
<1>3. DInv /\ Ordered_ => RecencyReversed
  BY OrderedTaken
<1>4. QED
  BY <1>1, <1>2, <1>3, PTL DEF DSpec

================================================================================
