------------------------------- MODULE ListLemmas -------------------------------
(***************************************************************************)
(* What the operations on the linked lists of shmc do to the elements of a *)
(* list without repetitions: push and pop at the head, removal at a place, *)
(* the last element, two lists put together; the least of a set; and the   *)
(* sums of the community modules, place by place.                          *)
(***************************************************************************)
EXTENDS SequencesExt, SequenceTheorems, FiniteSetTheorems, WellFoundedInduction,
        Integers, TLAPS

\* The elements of a list are those at its places.
LEMMA ListRange ==
  ASSUME NEW S, NEW l \in Seq(S)
  PROVE  /\ Range(l) = {l[p] : p \in 1 .. Len(l)}
         /\ Range(l) \subseteq S
         /\ l # <<>> => Len(l) \in Nat \ {0}
  BY LenProperties, ElementOfSeq, EmptySeq DEF Range

\* The empty list has no elements and no repetitions.
LEMMA EmptyList ==
  ASSUME NEW S
  PROVE  <<>> \in Seq(S) /\ IsInjective(<<>>) /\ Range(<<>>) = {}
  BY EmptySeq, ListRange DEF IsInjective, Range

\* Two lists put together: assoc_insert, item_link, item_free and the carving
\* of a page all put new elements in front of a list.
LEMMA ConcatList ==
  ASSUME NEW S, NEW l \in Seq(S), NEW m \in Seq(S),
         IsInjective(l), IsInjective(m), Range(l) \cap Range(m) = {}
  PROVE  /\ l \o m \in Seq(S)
         /\ IsInjective(l \o m)
         /\ Range(l \o m) = Range(l) \cup Range(m)
<1> DEFINE c == l \o m
<1>1. /\ c \in Seq(S) /\ Len(c) = Len(l) + Len(m)
      /\ \A p \in 1 .. Len(l) + Len(m) : c[p] = IF p <= Len(l) THEN l[p] ELSE m[p - Len(l)]
  BY ConcatProperties
<1>2. Len(l) \in Nat /\ Len(m) \in Nat
  BY LenProperties
<1>3. /\ DOMAIN l = 1 .. Len(l) /\ DOMAIN m = 1 .. Len(m)
      /\ DOMAIN c = 1 .. Len(l) + Len(m)
  BY <1>1, LenProperties
<1>4. ASSUME NEW p \in DOMAIN l PROVE p \in DOMAIN c /\ c[p] = l[p]
  BY <1>1, <1>2, <1>3
<1>5. ASSUME NEW p \in DOMAIN m
      PROVE  p + Len(l) \in DOMAIN c /\ c[p + Len(l)] = m[p]
  BY <1>1, <1>2, <1>3
<1>6. ASSUME NEW p \in DOMAIN c
      PROVE  \/ p \in DOMAIN l /\ c[p] = l[p]
             \/ p \notin DOMAIN l /\ p - Len(l) \in DOMAIN m /\ c[p] = m[p - Len(l)]
  BY <1>1, <1>2, <1>3
<1>7. Range(c) = Range(l) \cup Range(m)
  <2>1. ASSUME NEW x \in Range(c) PROVE x \in Range(l) \cup Range(m)
    BY <1>6 DEF Range
  <2>2. ASSUME NEW x \in Range(l) PROVE x \in Range(c)
    BY <1>4 DEF Range
  <2>3. ASSUME NEW x \in Range(m) PROVE x \in Range(c)
    BY <1>5 DEF Range
  <2>4. QED
    BY <2>1, <2>2, <2>3
<1>8. IsInjective(c)
  <2> SUFFICES ASSUME NEW p \in DOMAIN c, NEW q \in DOMAIN c, c[p] = c[q] PROVE p = q
    BY DEF IsInjective
  <2>1. CASE p \in DOMAIN l /\ q \in DOMAIN l
    BY <2>1, <1>4 DEF IsInjective
  <2>2. CASE p \notin DOMAIN l /\ q \notin DOMAIN l
    <3>1. m[p - Len(l)] = m[q - Len(l)] /\ p - Len(l) \in DOMAIN m /\ q - Len(l) \in DOMAIN m
      BY <2>2, <1>6
    <3>2. p - Len(l) = q - Len(l)
      BY <3>1 DEF IsInjective
    <3>3. QED
      BY <3>2, <1>2, <1>3
  <2>3. ASSUME NEW x \in DOMAIN c, NEW y \in DOMAIN c,
               x \in DOMAIN l, y \notin DOMAIN l, c[x] = c[y]
        PROVE  FALSE
    <3>1. c[x] \in Range(l)
      BY <2>3, <1>4 DEF Range
    <3>2. c[y] \in Range(m)
      BY <2>3, <1>6 DEF Range
    <3>3. QED
      BY <3>1, <3>2, <2>3
  <2>4. QED
    BY <2>1, <2>2, <2>3
<1>9. QED
  BY <1>1, <1>7, <1>8

\* A new element is put in front of a list.
LEMMA ConsList ==
  ASSUME NEW S, NEW l \in Seq(S), NEW x \in S, IsInjective(l), x \notin Range(l)
  PROVE  /\ Cons(x, l) \in Seq(S)
         /\ IsInjective(Cons(x, l))
         /\ Range(Cons(x, l)) = {x} \cup Range(l)
<1> DEFINE h == <<x>>
<1>1. h \in Seq(S) /\ IsInjective(h) /\ Range(h) = {x}
  BY DEF IsInjective, Range
<1> HIDE DEF h
<1>2. h \o l \in Seq(S) /\ IsInjective(h \o l) /\ Range(h \o l) = Range(h) \cup Range(l)
  BY <1>1, ConcatList
<1>3. QED
  BY <1>1, <1>2 DEF Cons, h

\* The head is taken off a list.
LEMMA TailList ==
  ASSUME NEW S, NEW l \in Seq(S), IsInjective(l), l # <<>>
  PROVE  /\ Head(l) \in Range(l)
         /\ Tail(l) \in Seq(S)
         /\ IsInjective(Tail(l))
         /\ Range(Tail(l)) = Range(l) \ {Head(l)}
<1> DEFINE t == Tail(l)
<1>1. /\ t \in Seq(S) /\ Len(t) = Len(l) - 1
      /\ \A p \in 1 .. Len(t) : t[p] = l[p + 1]
  BY HeadTailProperties
<1>2. /\ Len(l) \in Nat \ {0}
      /\ DOMAIN l = 1 .. Len(l) /\ DOMAIN t = 1 .. Len(l) - 1
  BY <1>1, LenProperties, ListRange
<1>3. Head(l) = l[1]
  OBVIOUS
<1>4. \A p \in DOMAIN t : p + 1 \in DOMAIN l /\ t[p] = l[p + 1]
  BY <1>1, <1>2
<1>5. \A q \in DOMAIN l : q = 1 \/ (q - 1 \in DOMAIN t /\ t[q - 1] = l[q])
  BY <1>1, <1>2
<1>6. 1 \in DOMAIN l
  BY <1>2
<1>7. IsInjective(t)
  <2> SUFFICES ASSUME NEW p \in DOMAIN t, NEW q \in DOMAIN t, t[p] = t[q] PROVE p = q
    BY DEF IsInjective
  <2>1. p + 1 = q + 1
    BY <1>4 DEF IsInjective
  <2>2. QED
    BY <2>1, <1>2
<1>8. ASSUME NEW p \in DOMAIN t PROVE t[p] \in Range(l) \ {l[1]}
  <2>1. p + 1 # 1
    BY <1>2
  <2>2. l[p + 1] # l[1]
    BY <2>1, <1>4, <1>6 DEF IsInjective
  <2>3. QED
    BY <2>2, <1>4 DEF Range
<1>9. ASSUME NEW x \in Range(l) \ {l[1]} PROVE x \in Range(t)
  BY <1>5 DEF Range
<1>10. Range(t) = Range(l) \ {l[1]}
  BY <1>8, <1>9 DEF Range
<1>11. QED
  BY <1>1, <1>3, <1>6, <1>7, <1>10 DEF Range

\* The element at a place is taken out of a list.
LEMMA RemoveAtList ==
  ASSUME NEW S, NEW l \in Seq(S), IsInjective(l), NEW p \in DOMAIN l
  PROVE  /\ RemoveAt(l, p) \in Seq(S)
         /\ IsInjective(RemoveAt(l, p))
         /\ Range(RemoveAt(l, p)) = Range(l) \ {l[p]}
<1> DEFINE a == SubSeq(l, 1, p - 1)
           b == SubSeq(l, p + 1, Len(l))
<1>1. Len(l) \in Nat /\ DOMAIN l = 1 .. Len(l) /\ p \in 1 .. Len(l)
  BY LenProperties
<1>2. \A q \in 1 .. Len(l) : l[q] \in S
  BY ElementOfSeq
<1>3. /\ a \in Seq(S) /\ Len(a) = p - 1
      /\ \A q \in 1 .. p - 1 : a[q] = l[q]
  <2>1. /\ a \in Seq(S) /\ Len(a) = IF 1 <= p - 1 THEN (p - 1) - 1 + 1 ELSE 0
        /\ \A q \in 1 .. (p - 1) - 1 + 1 : a[q] = l[1 + q - 1]
    BY <1>1, <1>2, SubSeqProperties
  <2>2. QED
    BY <1>1, <2>1
<1>4. /\ b \in Seq(S) /\ Len(b) = Len(l) - p
      /\ \A q \in 1 .. Len(l) - p : b[q] = l[p + q]
  <2>1. /\ b \in Seq(S) /\ Len(b) = IF p + 1 <= Len(l) THEN Len(l) - (p + 1) + 1 ELSE 0
        /\ \A q \in 1 .. Len(l) - (p + 1) + 1 : b[q] = l[(p + 1) + q - 1]
    BY <1>1, <1>2, SubSeqProperties
  <2>2. QED
    BY <1>1, <2>1
<1> HIDE DEF a, b
<1>5. DOMAIN a = 1 .. p - 1 /\ DOMAIN b = 1 .. Len(l) - p
  <2>1. DOMAIN a = 1 .. Len(a)
    BY <1>3, LenProperties
  <2>2. DOMAIN b = 1 .. Len(b)
    BY <1>4, LenProperties
  <2>3. QED
    BY <2>1, <2>2, <1>3, <1>4
<1>6. IsInjective(a)
  <2> SUFFICES ASSUME NEW q \in DOMAIN a, NEW r \in DOMAIN a, a[q] = a[r] PROVE q = r
    BY DEF IsInjective
  <2>1. q \in 1 .. p - 1 /\ r \in 1 .. p - 1
    BY <1>5
  <2>2. l[q] = l[r]
    BY <2>1, <1>3
  <2>3. q \in DOMAIN l /\ r \in DOMAIN l
    BY <2>1, <1>1
  <2>4. QED
    BY <2>2, <2>3 DEF IsInjective
<1>7. IsInjective(b)
  <2> SUFFICES ASSUME NEW q \in DOMAIN b, NEW r \in DOMAIN b, b[q] = b[r] PROVE q = r
    BY DEF IsInjective
  <2>1. q \in 1 .. Len(l) - p /\ r \in 1 .. Len(l) - p
    BY <1>5
  <2>2. p + q \in DOMAIN l /\ p + r \in DOMAIN l
    BY <2>1, <1>1
  <2>3. l[p + q] = l[p + r]
    <3>1. b[q] = l[p + q]
      BY <2>1, <1>4
    <3>2. b[r] = l[p + r]
      BY <2>1, <1>4
    <3>3. QED
      BY <3>1, <3>2
  <2>4. p + q = p + r
    BY <2>2, <2>3 DEF IsInjective
  <2>5. QED
    BY <2>1, <2>4, <1>1
<1>8. Range(a) = {l[q] : q \in 1 .. p - 1}
  BY <1>3, <1>5 DEF Range
<1>9. Range(b) = {l[q] : q \in p + 1 .. Len(l)}
  <2>1. ASSUME NEW q \in 1 .. Len(l) - p PROVE b[q] \in {l[r] : r \in p + 1 .. Len(l)}
    <3>1. p + q \in p + 1 .. Len(l)
      BY <1>1
    <3>2. b[q] = l[p + q]
      BY <1>4
    <3>3. QED
      BY <3>1, <3>2
  <2>2. ASSUME NEW r \in p + 1 .. Len(l) PROVE r - p \in DOMAIN b /\ b[r - p] = l[r]
    <3>1. r - p \in 1 .. Len(l) - p /\ p + (r - p) = r
      BY <1>1
    <3>2. QED
      BY <3>1, <1>4, <1>5
  <2>3. QED
    BY <2>1, <2>2, <1>5 DEF Range
<1>10. Range(a) \cap Range(b) = {}
  <2> SUFFICES ASSUME NEW q \in 1 .. p - 1, NEW r \in p + 1 .. Len(l), l[q] = l[r]
               PROVE  FALSE
    BY <1>8, <1>9
  <2>1. q = r
    BY <1>1 DEF IsInjective
  <2>2. QED
    BY <2>1, <1>1
<1>11. Range(a) \cup Range(b) = Range(l) \ {l[p]}
  <2>1. ASSUME NEW q \in DOMAIN l, q # p PROVE q \in 1 .. p - 1 \/ q \in p + 1 .. Len(l)
    BY <2>1, <1>1
  <2>2. ASSUME NEW q \in DOMAIN l, q # p PROVE l[q] # l[p]
    BY <2>2 DEF IsInjective
  <2>3. \A q \in (1 .. p - 1) \cup (p + 1 .. Len(l)) : q \in DOMAIN l /\ q # p
    BY <1>1
  <2>4. ASSUME NEW x \in Range(l) \ {l[p]} PROVE x \in Range(a) \cup Range(b)
    <3>1. PICK q \in DOMAIN l : x = l[q]
      BY DEF Range
    <3>2. q \in 1 .. p - 1 \/ q \in p + 1 .. Len(l)
      BY <2>1, <3>1, <2>4
    <3>3. QED
      BY <3>1, <3>2, <1>8, <1>9
  <2>5. ASSUME NEW x \in Range(a) \cup Range(b) PROVE x \in Range(l) \ {l[p]}
    <3>1. PICK q \in (1 .. p - 1) \cup (p + 1 .. Len(l)) : x = l[q]
      BY <1>8, <1>9
    <3>2. QED
      BY <3>1, <2>2, <2>3 DEF Range
  <2>6. QED
    BY <2>4, <2>5
<1>12. /\ a \o b \in Seq(S) /\ IsInjective(a \o b)
       /\ Range(a \o b) = Range(a) \cup Range(b)
  <2>1. a \in Seq(S) /\ b \in Seq(S)
    BY <1>3, <1>4
  <2>2. QED
    BY <2>1, <1>6, <1>7, <1>10, ConcatList
<1>13. QED
  BY <1>11, <1>12 DEF RemoveAt, a, b

\* The last element is an element.
LEMMA LastList ==
  ASSUME NEW S, NEW l \in Seq(S), l # <<>>
  PROVE  Last(l) \in Range(l)
<1>1. Len(l) \in DOMAIN l
  BY LenProperties, ListRange
<1>2. QED
  BY <1>1 DEF Last, Range

\* Of a set with one element the least is that element.
LEMMA MinSingleton == \A n \in Int : Min({n}) = n
  BY DEF Min

\* A set of numbers that is not empty has a least one, and Min is it.
LEMMA LeastNumber ==
  ASSUME NEW S, S \subseteq Nat, S # {}
  PROVE  Min(S) \in S /\ \A x \in S : Min(S) <= x
<1> DEFINE R == {ss \in Nat \X Nat : ss[1] < ss[2]}
<1>1. IsWellFoundedOn(R, Nat)
  BY NatLessThanWellFounded, Zenon DEF OpToRel
<1> HIDE DEF R
<1>2. PICK m \in S : \A y \in S : ~(<<y, m>> \in R)
  BY <1>1, WFMin
<1>3. ASSUME NEW x \in S PROVE m <= x
  <2>1. x \in Nat /\ m \in Nat
    OBVIOUS
  <2>2. x < m => <<x, m>> \in R
    BY <2>1 DEF R
  <2>3. ~(x < m)
    BY <1>2, <2>2
  <2>4. QED
    BY <2>1, <2>3
<1>4. QED
  BY <1>3 DEF Min

\* Of some subsets of a finite set, one has no other below it.
LEMMA SmallestSet ==
  ASSUME NEW I, IsFiniteSet(I), NEW D, D \subseteq SUBSET I, D # {}
  PROVE  \E s \in D : \A t \in D : t \subseteq s => t = s
<1>1. PICK s \in D : \A t \in D : ~(<<t, s>> \in StrictSubsetOrdering(I))
  BY FS_StrictSubsetOrderingWellFounded, FS_FiniteSubsetsOfFinite, WFMin
<1>2. ASSUME NEW t \in D, t \subseteq s PROVE t = s
  BY <1>1, <1>2 DEF StrictSubsetOrdering
<1>3. QED
  BY <1>2

\* How the sums of the community modules are defined: a table of the sums over
\* all subsets, each from that of a set with one element less.
Drawn(s) == CHOOSE x \in s : TRUE

SumTable(f, I, h) ==
  h = [s \in SUBSET I |-> IF s = {} THEN 0 ELSE f[Drawn(s)] + h[s \ {Drawn(s)}]]

TheTable(f, I) == CHOOSE h : SumTable(f, I, h)

LEMMA SumDefined ==
  ASSUME NEW f, NEW I
  PROVE  SumFunctionOnSet(f, I) = TheTable(f, I)[I]
  BY DEF SumFunctionOnSet, FoldFunctionOnSet, MapThenFoldSet, TheTable, SumTable, Drawn

\* The element drawn is one of the set.
LEMMA DrawnIn ==
  ASSUME NEW s, s # {}
  PROVE  Drawn(s) \in s
  BY DEF Drawn

\* The rows of a table.
LEMMA TableRow ==
  ASSUME NEW f, NEW I, NEW h, SumTable(f, I, h), NEW s, s \subseteq I
  PROVE  /\ s = {} => h[s] = 0
         /\ s # {} => h[s] = f[Drawn(s)] + h[s \ {Drawn(s)}]
  BY DEF SumTable

\* Tables say the same of a set on which their functions agree.
LEMMA TablesAgree ==
  ASSUME NEW I, NEW J, IsFiniteSet(I), NEW f, NEW g, NEW h, NEW e,
         SumTable(f, I, h), SumTable(g, J, e),
         \A x \in I \cap J : f[x] = g[x]
  PROVE  \A s : s \subseteq I /\ s \subseteq J => h[s] = e[s]
<1> DEFINE D == {s \in SUBSET I : s \subseteq J /\ h[s] # e[s]}
<1>1. ASSUME D # {} PROVE FALSE
  <2>0. D \subseteq SUBSET I
    OBVIOUS
  <2> HIDE DEF D
  <2>1. PICK s \in D : \A t \in D : t \subseteq s => t = s
    BY <1>1, <2>0, SmallestSet
  <2> USE DEF D
  <2>1a. s \subseteq I /\ s \subseteq J /\ h[s] # e[s]
    OBVIOUS
  <2>2. s # {}
    <3>1. h[{}] = 0
      BY DEF SumTable
    <3>2. e[{}] = 0
      BY DEF SumTable
    <3>3. QED
      BY <3>1, <3>2, <2>1a
  <2> DEFINE t == s \ {Drawn(s)}
  <2>3. Drawn(s) \in s /\ f[Drawn(s)] = g[Drawn(s)]
    BY <2>1a, <2>2, DrawnIn
  <2>4. t \in SUBSET I /\ t \in SUBSET J /\ t # s
    BY <2>1a, <2>3
  <2>5. h[t] = e[t]
    BY <2>1, <2>4
  <2>6. h[s] = f[Drawn(s)] + h[t]
    BY <2>1a, <2>2, TableRow
  <2>7. e[s] = g[Drawn(s)] + e[t]
    BY <2>1a, <2>2, TableRow
  <2>8. QED
    BY <2>1a, <2>3, <2>5, <2>6, <2>7
<1>2. QED
  BY <1>1

\* There is a table for every finite set.
LEMMA TableExists ==
  ASSUME NEW I, IsFiniteSet(I), NEW f
  PROVE  \E h : SumTable(f, I, h)
<1> DEFINE D == {s \in SUBSET I : ~\E h : SumTable(f, s, h)}
<1>1. ASSUME D # {} PROVE FALSE
  <2>0. D \subseteq SUBSET I
    OBVIOUS
  <2> HIDE DEF D
  <2>1. PICK s \in D : \A t \in D : t \subseteq s => t = s
    BY <1>1, <2>0, SmallestSet
  <2> USE DEF D
  <2>2. IsFiniteSet(s)
    BY FS_Subset
  <2> DEFINE less(t) == t \ {Drawn(t)}
             h == [t \in SUBSET s |->
                     IF t = {} THEN 0 ELSE f[Drawn(t)] + TheTable(f, less(t))[less(t)]]
  <2>3. ASSUME NEW t \in SUBSET s, t # s
        PROVE  IsFiniteSet(t) /\ SumTable(f, t, TheTable(f, t))
    <3>1. \E e : SumTable(f, t, e)
      BY <2>1, <2>3
    <3>2. IsFiniteSet(t)
      BY <2>2, FS_Subset
    <3>3. QED
      BY <3>1, <3>2 DEF TheTable
  <2>4. ASSUME NEW t \in SUBSET s, t # {}
        PROVE  h[t] = f[Drawn(t)] + h[less(t)]
    <3> DEFINE u == less(t)
    <3>1. Drawn(t) \in t /\ u \in SUBSET s /\ u # s
      BY <2>4, DrawnIn
    <3>2. TheTable(f, u)[u] = h[u]
      <4>1. SumTable(f, u, TheTable(f, u))
        BY <2>3, <3>1
      <4>2. CASE u = {}
        <5>1. TheTable(f, u)[u] = 0
          BY <4>1, <4>2 DEF SumTable
        <5>2. QED
          BY <5>1, <4>2, <3>1
      <4>3. CASE u # {}
        <5> DEFINE w == less(u)
        <5>1. Drawn(u) \in u /\ w \in SUBSET u /\ w \in SUBSET s /\ w # s
          BY <4>3, DrawnIn, <3>1
        <5>2. TheTable(f, u)[u] = f[Drawn(u)] + TheTable(f, u)[w]
          BY <4>1, <4>3 DEF SumTable
        <5>3. SumTable(f, w, TheTable(f, w))
          BY <2>3, <5>1
        <5>4. IsFiniteSet(u)
          BY <2>3, <3>1
        <5>5. TheTable(f, u)[w] = TheTable(f, w)[w]
          <6> HIDE DEF u, w, TheTable
          <6>1. QED
            BY <4>1, <5>1, <5>3, <5>4, TablesAgree
        <5>6. h[u] = f[Drawn(u)] + TheTable(f, w)[w]
          BY <4>3, <3>1
        <5>7. QED
          BY <5>2, <5>5, <5>6
      <4>4. QED
        BY <4>2, <4>3
    <3>3. h[t] = f[Drawn(t)] + TheTable(f, u)[u]
      BY <2>4
    <3>4. QED
      BY <3>2, <3>3
  <2>5. h[{}] = 0
    OBVIOUS
  <2>6. SumTable(f, s, h)
    <3>1. \A t \in SUBSET s : h[t] = IF t = {} THEN 0 ELSE f[Drawn(t)] + h[t \ {Drawn(t)}]
      BY <2>4, <2>5
    <3>2. h = [t \in SUBSET s |-> h[t]]
      OBVIOUS
    <3> HIDE DEF h
    <3>3. h = [t \in SUBSET s |-> IF t = {} THEN 0 ELSE f[Drawn(t)] + h[t \ {Drawn(t)}]]
      BY <3>1, <3>2
    <3>4. QED
      BY <3>3 DEF SumTable
  <2>7. QED
    BY <2>6
<1>2. QED
  BY <1>1

\* The sum over no place, and the sum in terms of one over a place less.
LEMMA SumUnfolds ==
  ASSUME NEW I, IsFiniteSet(I), NEW f
  PROVE  /\ SumFunctionOnSet(f, {}) = 0
         /\ I # {} => SumFunctionOnSet(f, I) =
                        f[Drawn(I)] + SumFunctionOnSet(f, I \ {Drawn(I)})
<1>1. ASSUME NEW J, IsFiniteSet(J) PROVE SumTable(f, J, TheTable(f, J))
  BY <1>1, TableExists DEF TheTable
<1>2. SumFunctionOnSet(f, {}) = 0
  BY <1>1, SumDefined, FS_EmptySet DEF SumTable
<1>3. ASSUME I # {}
      PROVE  SumFunctionOnSet(f, I) = f[Drawn(I)] + SumFunctionOnSet(f, I \ {Drawn(I)})
  <2> DEFINE J == I \ {Drawn(I)}
  <2>1. J \in SUBSET I /\ IsFiniteSet(J)
    BY FS_Subset
  <2>2. SumTable(f, I, TheTable(f, I)) /\ SumTable(f, J, TheTable(f, J))
    BY <1>1, <2>1
  <2>3. TheTable(f, I)[I] = f[Drawn(I)] + TheTable(f, I)[J]
    BY <2>2, <1>3 DEF SumTable
  <2> HIDE DEF J
  <2>5. TheTable(f, I)[J] = TheTable(f, J)[J]
    <3>1. \A x \in I \cap J : f[x] = f[x]
      OBVIOUS
    <3>2. \A s : s \subseteq I /\ s \subseteq J => TheTable(f, I)[s] = TheTable(f, J)[s]
      BY <2>2, <3>1, TablesAgree
    <3>3. QED
      BY <2>1, <3>2
  <2>6. SumFunctionOnSet(f, I) = f[Drawn(I)] + SumFunctionOnSet(f, J)
    BY <2>3, <2>5, SumDefined
  <2>7. QED
    BY <2>6 DEF J
<1>4. QED
  BY <1>2, <1>3

\* The sum depends on the values at its places alone.
LEMMA SumSame ==
  ASSUME NEW I, IsFiniteSet(I), NEW f, NEW g, \A x \in I : f[x] = g[x]
  PROVE  SumFunctionOnSet(f, I) = SumFunctionOnSet(g, I)
<1>1. SumTable(f, I, TheTable(f, I)) /\ SumTable(g, I, TheTable(g, I))
  BY TableExists DEF TheTable
<1>2. TheTable(f, I)[I] = TheTable(g, I)[I]
  <2>1. \A x \in I \cap I : f[x] = g[x]
    OBVIOUS
  <2>2. \A s : s \subseteq I /\ s \subseteq I => TheTable(f, I)[s] = TheTable(g, I)[s]
    BY <1>1, <2>1, TablesAgree
  <2>3. QED
    BY <2>2
<1>3. QED
  BY <1>2, SumDefined

\* A sum of natural numbers is one.
LEMMA SumNat ==
  ASSUME NEW I, IsFiniteSet(I), NEW f, \A x \in I : f[x] \in Nat
  PROVE  SumFunctionOnSet(f, I) \in Nat
<1> DEFINE D == {s \in SUBSET I : SumFunctionOnSet(f, s) \notin Nat}
<1>1. ASSUME D # {} PROVE FALSE
  <2>0. D \subseteq SUBSET I
    OBVIOUS
  <2> HIDE DEF D
  <2>1. PICK s \in D : \A t \in D : t \subseteq s => t = s
    BY <1>1, <2>0, SmallestSet
  <2> USE DEF D
  <2>2. IsFiniteSet(s)
    BY FS_Subset
  <2>3. s # {}
    BY <2>2, SumUnfolds
  <2> DEFINE t == s \ {Drawn(s)}
  <2>4. Drawn(s) \in s /\ t # s /\ t \in SUBSET I
    BY <2>3, DrawnIn
  <2>5. SumFunctionOnSet(f, t) \in Nat
    BY <2>1, <2>4
  <2>6. SumFunctionOnSet(f, s) = f[Drawn(s)] + SumFunctionOnSet(f, t)
    BY <2>2, <2>3, SumUnfolds
  <2> HIDE DEF t
  <2>7. f[Drawn(s)] \in Nat
    BY <2>4
  <2>8. QED
    BY <2>5, <2>6, <2>7
<1>2. QED
  BY <1>1

\* Any place may be the first that is added.
LEMMA SumTakes ==
  ASSUME NEW I, IsFiniteSet(I), NEW f, \A x \in I : f[x] \in Nat, NEW p \in I
  PROVE  SumFunctionOnSet(f, I) = f[p] + SumFunctionOnSet(f, I \ {p})
<1> DEFINE Sum(s) == SumFunctionOnSet(f, s)
           D == {s \in SUBSET I : \E x \in s : Sum(s) # f[x] + Sum(s \ {x})}
<1>1. ASSUME D # {} PROVE FALSE
  <2>0. D \subseteq SUBSET I
    OBVIOUS
  <2> HIDE DEF D
  <2>1. PICK s \in D : \A t \in D : t \subseteq s => t = s
    BY <1>1, <2>0, SmallestSet
  <2> USE DEF D
  <2>2. PICK x \in s : Sum(s) # f[x] + Sum(s \ {x})
    OBVIOUS
  <2> DEFINE d == Drawn(s)
             sd == s \ {d}
             sx == s \ {x}
             sxd == s \ {d, x}
  <2>3. d \in s
    BY <2>2, DrawnIn
  <2>4. IsFiniteSet(s) /\ IsFiniteSet(sd) /\ IsFiniteSet(sx) /\ IsFiniteSet(sxd)
    BY FS_Subset
  <2>5. Sum(s) = f[d] + Sum(sd)
    BY <2>2, <2>4, SumUnfolds
  <2>6. d # x
    BY <2>2, <2>5
  <2>7. sd \notin D /\ sx \notin D
    BY <2>1, <2>3
  <2>8. x \in sd /\ sd \ {x} = sxd /\ d \in sx /\ sx \ {d} = sxd /\ sd \in SUBSET I /\ sx \in SUBSET I
    BY <2>3, <2>6
  <2>9. Sum(sd) = f[x] + Sum(sxd)
    BY <2>7, <2>8
  <2>10. Sum(sx) = f[d] + Sum(sxd)
    BY <2>7, <2>8
  <2>11. f[d] \in Nat /\ f[x] \in Nat
    BY <2>3
  <2>12. Sum(sxd) \in Nat
    <3>1. \A y \in sxd : f[y] \in Nat
      OBVIOUS
    <3> HIDE DEF sxd
    <3>2. QED
      BY <3>1, <2>4, SumNat
  <2>13. Sum(s) # f[x] + Sum(sx)
    BY <2>2
  <2> HIDE DEF Sum, d, sd, sx, sxd
  <2>14. QED
    BY <2>5, <2>9, <2>10, <2>11, <2>12, <2>13
<1>2. QED
  BY <1>1

\* A sum changes by what one of its places changes.
LEMMA SumChanges ==
  ASSUME NEW I, IsFiniteSet(I), NEW f, NEW g, NEW p \in I,
         \A x \in I : f[x] \in Nat /\ g[x] \in Nat,
         \A x \in I \ {p} : f[x] = g[x]
  PROVE  SumFunctionOnSet(g, I) = SumFunctionOnSet(f, I) + (g[p] - f[p])
<1> DEFINE J == I \ {p}
<1>1. IsFiniteSet(J) /\ \A x \in J : f[x] \in Nat /\ f[x] = g[x]
  BY FS_Subset
<1>2. SumFunctionOnSet(f, I) = f[p] + SumFunctionOnSet(f, J)
  BY SumTakes
<1>3. SumFunctionOnSet(g, I) = g[p] + SumFunctionOnSet(g, J)
  BY SumTakes
<1> HIDE DEF J
<1>4. SumFunctionOnSet(f, J) = SumFunctionOnSet(g, J) /\ SumFunctionOnSet(f, J) \in Nat
  BY <1>1, SumSame, SumNat
<1>5. QED
  BY <1>2, <1>3, <1>4

-------------------------------------------------------------------------------
(***************************************************************************)
(* Places one after the other: mark i is where the place of length f[i]    *)
(* begins, in a file of records or in lists put together.                  *)
(***************************************************************************)
Marks(f, n, o) ==
  /\ o \in [1 .. n + 1 -> Nat] /\ o[1] = 0
  /\ \A i \in 1 .. n : f[i] \in Nat /\ o[i + 1] = o[i] + f[i]

\* A later mark is past the place of an earlier one.
LEMMA MarksGrow ==
  ASSUME NEW f, NEW n \in Nat, NEW o, Marks(f, n, o), NEW i \in 1 .. n, NEW j \in 1 .. n + 1, i < j
  PROVE  o[i] + f[i] <= o[j] /\ o[i] + f[i] \in Nat
<1>1. /\ \A k \in 1 .. n + 1 : o[k] \in Nat
      /\ \A k \in 1 .. n : f[k] \in Nat /\ o[k + 1] = o[k] + f[k]
  BY DEF Marks
<1> DEFINE Bad == {k \in 1 .. n + 1 : i < k /\ ~(o[i + 1] <= o[k])}
<1>2. ASSUME Bad # {} PROVE FALSE
  <2>1. Bad \subseteq Nat
    OBVIOUS
  <2> DEFINE m == Min(Bad)
  <2>2. m \in Bad /\ \A x \in Bad : m <= x
    BY <1>2, <2>1, LeastNumber
  <2> HIDE DEF m
  <2>3. m \in 1 .. n + 1 /\ i < m /\ ~(o[i + 1] <= o[m])
    BY <2>2
  <2>4. m - 1 \notin Bad
    BY <2>2, <2>3
  <2>5. m # i + 1
    BY <2>3, <1>1
  <2>6. m - 1 \in 1 .. n /\ i < m - 1
    BY <2>3, <2>5
  <2>7. o[i + 1] <= o[m - 1]
    BY <2>4, <2>6
  <2>8. o[m] = o[m - 1] + f[m - 1] /\ f[m - 1] \in Nat /\ o[m - 1] \in Nat
    <3>1. m - 1 \in 1 .. n + 1 /\ (m - 1) + 1 = m
      BY <2>3, <2>6
    <3>2. o[(m - 1) + 1] = o[m - 1] + f[m - 1] /\ f[m - 1] \in Nat /\ o[m - 1] \in Nat
      BY <2>6, <3>1, <1>1
    <3>3. QED
      BY <3>1, <3>2
  <2>9. QED
    BY <2>3, <2>7, <2>8, <1>1
<1>3. o[i + 1] <= o[j]
  BY <1>2
<1>4. QED
  BY <1>1, <1>3

\* No mark is past a later one.
LEMMA MarksInOrder ==
  ASSUME NEW f, NEW n \in Nat, NEW o, Marks(f, n, o), NEW i \in 1 .. n + 1, NEW j \in 1 .. n + 1,
         i <= j
  PROVE  o[i] <= o[j] /\ o[i] \in Nat /\ o[j] \in Nat
<1>1. o[i] \in Nat /\ o[j] \in Nat
  BY DEF Marks
<1>2. CASE i = j
  BY <1>1, <1>2
<1>3. CASE i < j
  <2>1. i \in 1 .. n /\ f[i] \in Nat
    BY <1>3 DEF Marks
  <2>2. o[i] + f[i] <= o[j]
    BY <1>3, <2>1, MarksGrow
  <2>3. QED
    BY <1>1, <2>1, <2>2
<1>4. QED
  BY <1>2, <1>3

\* A number is in one place.
LEMMA OnePlace ==
  ASSUME NEW f, NEW n \in Nat, NEW o, Marks(f, n, o), NEW i \in 1 .. n, NEW j \in 1 .. n,
         NEW p \in 1 .. f[i], NEW q \in 1 .. f[j], o[i] + p = o[j] + q
  PROVE  i = j /\ p = q
<1>1. f[i] \in Nat /\ f[j] \in Nat /\ o[i] \in Nat /\ o[j] \in Nat
  BY DEF Marks
<1>2. ASSUME i < j PROVE FALSE
  BY <1>1, <1>2, MarksGrow
<1>3. ASSUME j < i PROVE FALSE
  BY <1>1, <1>3, MarksGrow
<1>4. i = j
  BY <1>2, <1>3
<1>5. QED
  BY <1>1, <1>4

\* Every number up to the last mark is in a place.
LEMMA SomePlace ==
  ASSUME NEW f, NEW n \in Nat, NEW o, Marks(f, n, o), NEW p \in 1 .. o[n + 1]
  PROVE  \E i \in 1 .. n : \E q \in 1 .. f[i] : p = o[i] + q
<1>1. /\ \A k \in 1 .. n + 1 : o[k] \in Nat
      /\ \A k \in 1 .. n : f[k] \in Nat /\ o[k + 1] = o[k] + f[k]
      /\ o[1] = 0
  BY DEF Marks
<1> DEFINE Past == {k \in 1 .. n + 1 : p <= o[k]}
           m == Min(Past)
<1>2. Past \subseteq Nat /\ Past # {}
  BY <1>1
<1>3. m \in Past /\ \A x \in Past : m <= x
  BY <1>2, LeastNumber
<1> HIDE DEF m
<1>4. m \in 1 .. n + 1 /\ p <= o[m] /\ m # 1
  BY <1>1, <1>3
<1>5. m - 1 \in 1 .. n /\ ~(p <= o[m - 1])
  BY <1>3, <1>4
<1>6. f[m - 1] \in Nat /\ o[m] = o[m - 1] + f[m - 1] /\ o[m - 1] \in Nat
  <2>1. m - 1 \in 1 .. n + 1 /\ (m - 1) + 1 = m
    BY <1>4, <1>5
  <2>2. o[(m - 1) + 1] = o[m - 1] + f[m - 1] /\ f[m - 1] \in Nat /\ o[m - 1] \in Nat
    BY <1>1, <1>5, <2>1
  <2>3. QED
    BY <2>1, <2>2
<1>7. p - o[m - 1] \in 1 .. f[m - 1] /\ p = o[m - 1] + (p - o[m - 1])
  BY <1>4, <1>5, <1>6
<1>8. QED
  BY <1>5, <1>7

\* The marks follow from the lengths.
LEMMA SameMarks ==
  ASSUME NEW f, NEW g, NEW n \in Nat, NEW o, NEW u, Marks(f, n, o), Marks(g, n, u),
         \A i \in 1 .. n : f[i] = g[i], NEW j \in 1 .. n + 1
  PROVE  o[j] = u[j]
<1> DEFINE Bad == {k \in 1 .. n + 1 : o[k] # u[k]}
           m == Min(Bad)
<1>1. ASSUME Bad # {} PROVE FALSE
  <2>1. Bad \subseteq Nat
    OBVIOUS
  <2>2. m \in Bad /\ \A x \in Bad : m <= x
    BY <1>1, <2>1, LeastNumber
  <2> HIDE DEF m
  <2>3. m \in 1 .. n + 1 /\ o[m] # u[m] /\ m # 1
    BY <2>2 DEF Marks
  <2>4. m - 1 \in 1 .. n /\ o[m - 1] = u[m - 1]
    BY <2>2, <2>3
  <2>5. o[(m - 1) + 1] = u[(m - 1) + 1]
    BY <2>4 DEF Marks
  <2>6. QED
    BY <2>3, <2>5
<1>2. QED
  BY <1>1

\* The sums of the lengths before each place are marks.
LEMMA SumsAreMarks ==
  ASSUME NEW n \in Nat, NEW f, \A i \in 1 .. n : f[i] \in Nat
  PROVE  Marks(f, n, [j \in 1 .. n + 1 |-> SumFunctionOnSet(f, 1 .. j - 1)])
<1> DEFINE S(j) == SumFunctionOnSet(f, 1 .. j - 1)
           o == [j \in 1 .. n + 1 |-> S(j)]
<1>1. ASSUME NEW j \in 1 .. n + 1 PROVE S(j) \in Nat
  <2>1. IsFiniteSet(1 .. j - 1)
    BY FS_Interval
  <2>2. \A x \in 1 .. j - 1 : f[x] \in Nat
    OBVIOUS
  <2>3. QED
    BY <2>1, <2>2, SumNat
<1>2. S(1) = 0
  <2>1. 1 .. 1 - 1 = {}
    OBVIOUS
  <2>2. SumFunctionOnSet(f, {}) = 0
    BY FS_EmptySet, SumUnfolds
  <2>3. QED
    BY <2>1, <2>2
<1>3. ASSUME NEW j \in 1 .. n PROVE S(j + 1) = S(j) + f[j]
  <2> DEFINE I == 1 .. j
             J == 1 .. j - 1
  <2>1. IsFiniteSet(I)
    BY FS_Interval
  <2>2. (\A x \in I : f[x] \in Nat) /\ j \in I /\ I \ {j} = J /\ (j + 1) - 1 = j
    OBVIOUS
  <2> HIDE DEF I, J
  <2>3. SumFunctionOnSet(f, I) = f[j] + SumFunctionOnSet(f, I \ {j})
    BY <2>1, <2>2, SumTakes
  <2>4. S(j + 1) = SumFunctionOnSet(f, I) /\ S(j) = SumFunctionOnSet(f, J)
    BY <2>2 DEF I, J
  <2>5. j \in 1 .. n + 1 /\ f[j] \in Nat
    OBVIOUS
  <2>6. S(j) \in Nat
    BY <1>1, <2>5
  <2>7. \A a, b \in Nat : a + b = b + a
    OBVIOUS
  <2> HIDE DEF S
  <2>8. S(j + 1) = f[j] + S(j)
    BY <2>2, <2>3, <2>4, Zenon
  <2>9. QED
    BY <2>5, <2>6, <2>7, <2>8, Zenon
<1> HIDE DEF S
<1>4. o \in [1 .. n + 1 -> Nat] /\ o[1] = 0
  BY <1>1, <1>2
<1>5. \A i \in 1 .. n : i \in 1 .. n + 1 /\ i + 1 \in 1 .. n + 1
  OBVIOUS
<1>6. \A i \in 1 .. n : f[i] \in Nat /\ o[i + 1] = o[i] + f[i]
  BY <1>3, <1>5
<1>7. Marks(f, n, o)
  BY <1>4, <1>6 DEF Marks
<1>8. QED
  BY <1>7 DEF S

-------------------------------------------------------------------------------
(***************************************************************************)
(* Lists put together, one after the other.                                *)
(***************************************************************************)
\* The first m of the lists L put together, step by step.
Joining(L, m, h) ==
  h = [i \in 1 .. m |-> IF i = 1 THEN L[i] ELSE h[i - 1] \o L[i]]

\* The steps, one by one.
LEMMA JoiningSteps ==
  ASSUME NEW L, NEW m \in Nat, NEW h, Joining(L, m, h), NEW i \in 1 .. m
  PROVE  /\ i = 1 => h[i] = L[i]
         /\ i > 1 => h[i] = h[i - 1] \o L[i]
<1>1. h[i] = IF i = 1 THEN L[i] ELSE h[i - 1] \o L[i]
  BY Zenon DEF Joining
<1>2. i > 1 => i # 1
  OBVIOUS
<1>3. QED
  BY <1>1, <1>2, Zenon

\* The steps go on, one list further.
LEMMA JoiningGrows ==
  ASSUME NEW L, NEW m \in Nat, m # 0, NEW h, Joining(L, m - 1, h)
  PROVE  \E g : Joining(L, m, g)
<1>1. m - 1 \in Nat
  OBVIOUS
<1>2. ASSUME NEW i \in 1 .. m - 1
      PROVE  /\ i = 1 => h[i] = L[i]
             /\ i > 1 => h[i] = h[i - 1] \o L[i]
  BY <1>1, JoiningSteps, Zenon
<1> DEFINE next(i) == IF i = 1 THEN L[i] ELSE h[i - 1] \o L[i]
           e == [i \in 1 .. m |-> IF i < m THEN h[i] ELSE next(i)]
<1>3. ASSUME NEW i \in 1 .. m
      PROVE  e[i] = IF i = 1 THEN L[i] ELSE e[i - 1] \o L[i]
  <2>1. e[i] = next(i)
    <3>1. CASE i < m
      <4>1. i \in 1 .. m - 1 /\ (i = 1 \/ i > 1) /\ (i > 1 => i # 1)
        BY <3>1
      <4>2. h[i] = next(i)
        BY <4>1, <1>2, Zenon
      <4>3. e[i] = h[i]
        BY <3>1, Zenon
      <4>4. QED
        BY <4>2, <4>3, Zenon
    <3>2. CASE ~(i < m)
      BY <3>2, Zenon
    <3>3. QED
      BY <3>1, <3>2
  <2>2. CASE i = 1
    BY <2>1, <2>2, Zenon
  <2>3. CASE i # 1
    <3>1. i - 1 \in 1 .. m /\ i - 1 < m
      BY <2>3
    <3>2. e[i - 1] = h[i - 1]
      BY <3>1, Zenon
    <3>3. QED
      BY <2>1, <2>3, <3>2, Zenon
  <2>4. QED
    BY <2>2, <2>3, Zenon
<1>4. e = [i \in 1 .. m |-> e[i]]
  BY Zenon
<1> HIDE DEF e
<1>5. Joining(L, m, e)
  BY <1>3, <1>4 DEF Joining
<1>6. QED
  BY <1>5, Zenon

\* There are such steps for any number of lists.
LEMMA JoiningExists ==
  ASSUME NEW L, NEW n \in Nat
  PROVE  \E h : Joining(L, n, h)
<1> DEFINE Bad == {m \in Nat : ~\E h : Joining(L, m, h)}
           m == Min(Bad)
<1>1. ASSUME Bad # {} PROVE FALSE
  <2>1. Bad \subseteq Nat
    OBVIOUS
  <2> HIDE DEF Bad
  <2>2. m \in Bad /\ \A x \in Bad : m <= x
    BY <1>1, <2>1, LeastNumber
  <2> USE DEF Bad
  <2> HIDE DEF m
  <2>3. m \in Nat /\ ~\E h : Joining(L, m, h)
    BY <2>2
  <2>4. m # 0
    <3>1. Joining(L, 0, [i \in 1 .. 0 |-> L[i]])
      BY DEF Joining
    <3>2. QED
      BY <3>1, <2>3
  <2>5. m - 1 \in Nat /\ m - 1 \notin Bad
    BY <2>2, <2>3, <2>4
  <2>6. PICK h : Joining(L, m - 1, h)
    BY <2>5
  <2>7. QED
    BY <2>3, <2>4, <2>6, JoiningGrows, Zenon
<1>2. QED
  BY <1>1

\* What is where in two lists put together.
LEMMA Concatenated ==
  ASSUME NEW S, NEW a \in Seq(S), NEW b \in Seq(S)
  PROVE  /\ \A p \in 1 .. Len(a) : p \in 1 .. Len(a \o b) /\ (a \o b)[p] = a[p]
         /\ \A p \in 1 .. Len(b) :
              Len(a) + p \in 1 .. Len(a \o b) /\ (a \o b)[Len(a) + p] = b[p]
OBVIOUS

\* Put together, the lists are at their marks.
Together(L, o, f) ==
  /\ Marks([i \in 1 .. Len(L) |-> Len(L[i])], Len(L), o)
  /\ Len(f) = o[Len(L) + 1]
  /\ \A i \in 1 .. Len(L) : \A q \in 1 .. Len(L[i]) :
       o[i] + q \in 1 .. Len(f) /\ f[o[i] + q] = L[i][q]

\* The steps put more and more of the lists together.
LEMMA JoinedSteps ==
  ASSUME NEW S, NEW L \in Seq(Seq(S)), NEW h, Joining(L, Len(L), h), NEW j \in 1 .. Len(L)
  PROVE  h[j] \in Seq(S)
<1> DEFINE Bad == {k \in 1 .. Len(L) : h[k] \notin Seq(S)}
           m == Min(Bad)
<1>1. ASSUME Bad # {} PROVE FALSE
  <2>1. Bad \subseteq Nat
    OBVIOUS
  <2> HIDE DEF Bad
  <2>2. m \in Bad /\ \A x \in Bad : m <= x
    BY <1>1, <2>1, LeastNumber
  <2> USE DEF Bad
  <2> HIDE DEF m
  <2>3. m \in 1 .. Len(L) /\ h[m] \notin Seq(S) /\ L[m] \in Seq(S) /\ Len(L) \in Nat
    BY <2>2
  <2>0. /\ m = 1 => h[m] = L[m]
        /\ m > 1 => h[m] = h[m - 1] \o L[m]
    BY <2>3, JoiningSteps, Zenon
  <2>4. m # 1
    BY <2>0, <2>3, Zenon
  <2>5. m - 1 \in 1 .. Len(L) /\ m - 1 \notin Bad
    BY <2>2, <2>3, <2>4
  <2>6. h[m] = h[m - 1] \o L[m]
    <3>1. m > 1
      BY <2>3, <2>4
    <3>2. QED
      BY <2>0, <3>1, Zenon
  <2>7. QED
    BY <2>3, <2>5, <2>6
<1>2. QED
  BY <1>1

\* FlattenSeq puts the lists together.
LEMMA Flattened ==
  ASSUME NEW S, NEW L \in Seq(Seq(S))
  PROVE  FlattenSeq(L) \in Seq(S) /\ \E o : Together(L, o, FlattenSeq(L))
<1> DEFINE n == Len(L)
           h == CHOOSE g : Joining(L, n, g)
           f == [i \in 1 .. n |-> Len(L[i])]
           o == [i \in 1 .. n + 1 |-> IF i = 1 THEN 0 ELSE Len(h[i - 1])]
<1>0. n \in Nat /\ \A i \in 1 .. n : L[i] \in Seq(S) /\ Len(L[i]) \in Nat
  OBVIOUS
<1>1. Joining(L, n, h)
  <2>1. \E g : Joining(L, n, g)
    BY <1>0, JoiningExists
  <2>2. QED
    BY <2>1, Zenon
<1>2. n # 0 => FlattenSeq(L) = h[n]
  BY DEF FlattenSeq, Joining
<1>3. n = 0 => FlattenSeq(L) = <<>>
  BY EmptySeq DEF FlattenSeq
<1> HIDE DEF h
<1>4. \A j \in 1 .. n : h[j] \in Seq(S)
  BY <1>1, JoinedSteps
<1>5. \A j \in 1 .. n : /\ j = 1 => h[j] = L[j]
                        /\ j > 1 => h[j] = h[j - 1] \o L[j]
  BY <1>0, <1>1, JoiningSteps
<1> HIDE DEF n
<1>6. Marks(f, n, o)
  <2>1. \A i \in 1 .. n + 1 : i # 1 => i - 1 \in 1 .. n
    BY <1>0
  <2>2. o \in [1 .. n + 1 -> Nat] /\ o[1] = 0
    BY <2>1, <1>0, <1>4
  <2>3. ASSUME NEW i \in 1 .. n PROVE o[i + 1] = o[i] + Len(L[i])
    <3>1. i + 1 \in 1 .. n + 1 /\ i \in 1 .. n + 1 /\ (i + 1) - 1 = i /\ i + 1 # 1
      BY <1>0
    <3>2. o[i + 1] = Len(h[i])
      BY <3>1
    <3>3. CASE i = 1
      <4>1. o[i] = 0 /\ h[i] = L[i] /\ Len(L[i]) \in Nat
        BY <3>1, <3>3, <1>0, <1>5
      <4>2. QED
        BY <3>2, <4>1
    <3>4. CASE i > 1
      <4>1. i - 1 \in 1 .. n
        BY <3>4, <1>0
      <4>2. o[i] = Len(h[i - 1])
        BY <3>1, <3>4
      <4>3. h[i] = h[i - 1] \o L[i] /\ h[i - 1] \in Seq(S) /\ L[i] \in Seq(S)
        BY <4>1, <3>4, <1>0, <1>4, <1>5
      <4>4. Len(h[i]) = Len(h[i - 1]) + Len(L[i])
        BY <4>3
      <4>5. QED
        BY <3>2, <4>2, <4>4
    <3>5. QED
      BY <3>3, <3>4
  <2> HIDE DEF o
  <2>4. QED
    BY <1>0, <2>2, <2>3 DEF Marks
<1>7. ASSUME NEW i \in 1 .. n, NEW q \in 1 .. Len(L[i]), NEW j \in 1 .. n, i <= j
      PROVE  o[i] + q \in 1 .. Len(h[j]) /\ h[j][o[i] + q] = L[i][q]
  <2> DEFINE Bad == {k \in 1 .. n : i <= k /\ ~(/\ o[i] + q \in 1 .. Len(h[k])
                                               /\ h[k][o[i] + q] = L[i][q])}
             m == Min(Bad)
  <2>1. ASSUME Bad # {} PROVE FALSE
    <3>1. Bad \subseteq Nat
      OBVIOUS
    <3> HIDE DEF Bad
    <3>2. m \in Bad /\ \A x \in Bad : m <= x
      BY <2>1, <3>1, LeastNumber
    <3> USE DEF Bad
    <3> HIDE DEF m
    <3>3. /\ m \in 1 .. n /\ i <= m
          /\ ~(o[i] + q \in 1 .. Len(h[m]) /\ h[m][o[i] + q] = L[i][q])
      BY <3>2
    <3>0. i \in 1 .. n + 1 /\ q \in 1 .. Len(L[i]) /\ n \in Nat
      BY <1>0
    <3>4. m # 1
      <4>1. ASSUME m = 1 PROVE FALSE
        <5>1. i = 1
          BY <3>0, <3>3, <4>1
        <5>2. o[i] = 0 /\ h[m] = L[i]
          BY <3>0, <4>1, <5>1, <1>5
        <5>3. o[i] + q = q
          <6>1. q \in Int
            BY <1>0, <3>0
          <6> HIDE DEF o
          <6>2. QED
            BY <5>2, <6>1
        <5> HIDE DEF o
        <5>4. QED
          BY <3>3, <5>2, <5>3, Zenon
      <4>2. QED
        BY <4>1
    <3>5. m - 1 \in 1 .. n /\ h[m] = h[m - 1] \o L[m]
      <4>1. m > 1 /\ m - 1 \in 1 .. n
        BY <3>0, <3>3, <3>4
      <4>2. QED
        BY <3>3, <4>1, <1>5, Zenon
    <3>6. /\ h[m - 1] \in Seq(S) /\ L[m] \in Seq(S) /\ L[i] \in Seq(S)
          /\ Len(h[m]) = Len(h[m - 1]) + Len(L[m])
      BY <3>3, <3>5, <1>0, <1>4
    <3>7. CASE i = m
      <4>1. o[i] = Len(h[m - 1])
        BY <3>7, <3>4, <3>0
      <4> HIDE DEF o
      <4>2. o[i] + q \in 1 .. Len(h[m]) /\ (h[m - 1] \o L[m])[o[i] + q] = L[m][q]
        <5>1. \A p \in 1 .. Len(L[m]) :
                /\ Len(h[m - 1]) + p \in 1 .. Len(h[m - 1] \o L[m])
                /\ (h[m - 1] \o L[m])[Len(h[m - 1]) + p] = L[m][p]
          <6> DEFINE a == h[m - 1]
                     b == L[m]
          <6>1. a \in Seq(S) /\ b \in Seq(S)
            BY <3>6
          <6> HIDE DEF a, b
          <6>2. /\ \A p \in 1 .. Len(a) : p \in 1 .. Len(a \o b) /\ (a \o b)[p] = a[p]
                /\ \A p \in 1 .. Len(b) :
                     Len(a) + p \in 1 .. Len(a \o b) /\ (a \o b)[Len(a) + p] = b[p]
            BY <6>1, Concatenated
          <6>3. QED
            BY <6>2 DEF a, b
        <5>2. q \in 1 .. Len(L[m])
          BY <3>0, <3>7
        <5>3. QED
          BY <3>5, <4>1, <5>1, <5>2, Zenon
      <4>3. QED
        BY <3>3, <3>5, <3>7, <4>2, Zenon
    <3>8. CASE i < m
      <4>1. m - 1 \notin Bad /\ i <= m - 1
        BY <3>0, <3>2, <3>3, <3>5, <3>8
      <4>2. o[i] + q \in 1 .. Len(h[m - 1]) /\ h[m - 1][o[i] + q] = L[i][q]
        BY <4>1, <3>5
      <4> HIDE DEF o
      <4>3. /\ o[i] + q \in 1 .. Len(h[m])
            /\ (h[m - 1] \o L[m])[o[i] + q] = h[m - 1][o[i] + q]
        <5>1. \A p \in 1 .. Len(h[m - 1]) :
                p \in 1 .. Len(h[m - 1] \o L[m]) /\ (h[m - 1] \o L[m])[p] = h[m - 1][p]
          <6> DEFINE a == h[m - 1]
                     b == L[m]
          <6>1. a \in Seq(S) /\ b \in Seq(S)
            BY <3>6
          <6> HIDE DEF a, b
          <6>2. /\ \A p \in 1 .. Len(a) : p \in 1 .. Len(a \o b) /\ (a \o b)[p] = a[p]
                /\ \A p \in 1 .. Len(b) :
                     Len(a) + p \in 1 .. Len(a \o b) /\ (a \o b)[Len(a) + p] = b[p]
            BY <6>1, Concatenated
          <6>3. QED
            BY <6>2 DEF a, b
        <5>2. QED
          BY <3>5, <4>2, <5>1, Zenon
      <4>4. QED
        BY <3>3, <3>5, <4>2, <4>3, Zenon
    <3>9. QED
      BY <3>0, <3>3, <3>7, <3>8
  <2> HIDE DEF m, o
  <2>2. j \in 1 .. n /\ i <= j /\ Bad = {}
    BY <1>7, <2>1
  <2>3. QED
    BY <2>2
<1>8. CASE n = 0
  <2>1. FlattenSeq(L) = <<>> /\ <<>> \in Seq(S) /\ Len(<<>>) = 0
    BY <1>3, <1>8, EmptySeq
  <2>2. o[n + 1] = 0
    BY <1>8
  <2> HIDE DEF o
  <2>3. Together(L, o, FlattenSeq(L))
    BY <1>6, <1>8, <2>1, <2>2 DEF Together, n
  <2>4. QED
    BY <2>1, <2>3
<1>9. CASE n # 0
  <2>1. n \in 1 .. n /\ n + 1 \in 1 .. n + 1 /\ (n + 1) - 1 = n /\ n + 1 # 1
    BY <1>0, <1>9
  <2>2. FlattenSeq(L) = h[n] /\ h[n] \in Seq(S) /\ o[n + 1] = Len(h[n])
    BY <1>2, <1>4, <1>9, <2>1
  <2> HIDE DEF o
  <2>3. \A i \in 1 .. n : \A q \in 1 .. Len(L[i]) :
          o[i] + q \in 1 .. Len(h[n]) /\ h[n][o[i] + q] = L[i][q]
    BY <1>7, <1>0, <2>1
  <2>4. Together(L, o, FlattenSeq(L))
    BY <1>6, <2>2, <2>3 DEF Together, n
  <2>5. QED
    BY <2>2, <2>4
<1>10. QED
  BY <1>8, <1>9

================================================================================
