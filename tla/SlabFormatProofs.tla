--------------------------- MODULE SlabFormatProofs ---------------------------
(***************************************************************************)
(* Proofs about SlabFormat, for all attributes. The loops of the code work *)
(* out the same sizes twice. The invariant FInv says that they follow one  *)
(* track: the loop of count_of_slabs is at the end of it, the loop of      *)
(* format_slabs somewhere on it, with what it has passed laid out. What is *)
(* left is arithmetic: how much a size grows by, and what rounding may add.*)
(* The table so laid out is one ShmcStore assumes: PagesInPool is what     *)
(* PageAssumption and FormatAssumption say there.                          *)
(***************************************************************************)
EXTENDS SlabFormat, ListLemmas

-------------------------------------------------------------------------------
(***************************************************************************)
(* Arithmetic.                                                             *)
(***************************************************************************)

\* What is divided is the quotient's worth and less than a divisor more.
LEMMA Division ==
  ASSUME NEW x \in Nat, NEW d \in Nat \ {0}
  PROVE  /\ x \div d \in Nat
         /\ d * (x \div d) <= x
         /\ x < d * (x \div d) + d
  OBVIOUS

\* The same of a quotient that has a name.
LEMMA Quotient ==
  ASSUME NEW x \in Nat, NEW d \in Nat \ {0}, NEW q \in Nat, q = x \div d
  PROVE  d * q <= x /\ x < d * q + d
  OBVIOUS

\* A quotient is no less than what fits the dividend.
LEMMA QuotientLeast ==
  ASSUME NEW x \in Nat, NEW d \in Nat \ {0}, NEW y \in Nat, d * y <= x
  PROVE  y <= x \div d
<1>1. /\ x \div d \in Nat
      /\ x < d * (x \div d) + d
  BY Division
<1>2. ASSUME NEW q \in Nat, q < y, x < d * q + d PROVE FALSE
  <2>1. q + 1 <= y
    BY <1>2
  <2>2. d * (q + 1) <= d * y
    BY <2>1
  <2>3. d * (q + 1) = d * q + d
    OBVIOUS
  <2>4. QED
    BY <1>2, <2>2, <2>3
<1>3. QED
  BY <1>1, <1>2

\* align_size rounds up to the next multiple of eight.
LEMMA Aligned ==
  ASSUME NEW n \in Nat
  PROVE  /\ AlignSize(n) \in Nat
         /\ n <= AlignSize(n) /\ AlignSize(n) < n + AlignBytes
         /\ AlignSize(n) % AlignBytes = 0
  BY DEF AlignSize, AlignBytes

\* The factor of a repaired attribute.
Repairs(factor) == 2 * factor.num >= 3 * factor.den

\* A size grows by half at least.
LEMMA Grows ==
  ASSUME NEW factor \in [num : Nat, den : Nat \ {0}], NEW n \in Nat
  PROVE  /\ Grow(factor, n) \in Nat
         /\ Grow(factor, n) * factor.den <= n * factor.num
         /\ Repairs(factor) => n + (n \div 2) <= Grow(factor, n)
<1> DEFINE p == factor.num
           d == factor.den
<1>1. p \in Nat /\ d \in Nat \ {0}
  OBVIOUS
<1>2. n * p \in Nat
  BY <1>1
<1>3. /\ Grow(factor, n) = (n * p) \div d
      /\ (n * p) \div d \in Nat /\ d * ((n * p) \div d) <= n * p
  BY <1>1, <1>2, Division DEF Grow
<1>4. ASSUME Repairs(factor) PROVE n + (n \div 2) <= (n * p) \div d
  <2> DEFINE h == n \div 2
  <2>1. h \in Nat /\ 2 * h <= n
    OBVIOUS
  <2>2. 3 * d <= 2 * p
    BY <1>4, <1>1 DEF Repairs
  <2> HIDE DEF h, p, d
  <2> DEFINE X == n * p
             Y == n + h
  <2>3. X \in Nat /\ Y \in Nat
    BY <1>2, <2>1
  <2>4. d * Y <= X
    <3>1. (3 * d) * n <= (2 * p) * n
      BY <2>2, <1>1
    <3>2. (3 * d) * n = d * (3 * n) /\ (2 * p) * n = 2 * X
      BY <1>1
    <3>3. 2 * Y <= 3 * n
      BY <2>1
    <3> HIDE DEF X, Y
    <3>4. d * (2 * Y) <= d * (3 * n)
      BY <1>1, <2>3, <3>3
    <3>5. d * (2 * Y) = 2 * (d * Y) /\ d * Y \in Nat
      BY <1>1, <2>3
    <3> DEFINE A == d * (2 * Y)
               B == d * (3 * n)
               C == (3 * d) * n
               D == (2 * p) * n
               Z == d * Y
    <3>6. A \in Nat /\ B \in Nat /\ C \in Nat /\ D \in Nat
      BY <1>1, <2>3
    <3>7. C <= D /\ C = B /\ D = 2 * X /\ A <= B /\ A = 2 * Z /\ Z \in Nat
      BY <3>1, <3>2, <3>4, <3>5
    <3> HIDE DEF A, B, C, D, Z
    <3>8. Z <= X
      BY <2>3, <3>6, <3>7
    <3>9. QED
      BY <3>8 DEF Z
  <2> HIDE DEF X, Y
  <2>5. Y <= X \div d
    BY <1>1, <2>3, <2>4, QuotientLeast
  <2>6. QED
    BY <2>5 DEF X, Y, h
<1>5. QED
  BY <1>1, <1>3, <1>4

-------------------------------------------------------------------------------
(***************************************************************************)
(* The invariant.                                                          *)
(***************************************************************************)
AttrType == [min : Nat, max : Nat, limit : Nat, factor : [num : Nat, den : Nat \ {0}]]

\* The sizes both loops go through, before they are aligned: all but the last are
\* less than item_size_max.
Track(a, T, n) ==
  /\ T \in [0 .. n -> Nat] /\ T[0] = ItemHdr + a.min
  /\ \A k \in 0 .. n : T[k] >= ItemHdr
  /\ \A k \in 0 .. n - 1 : T[k] < a.max /\ T[k + 1] = Grow(a.factor, AlignSize(T[k]))

\* The classes below m are those of the track.
Laid(a, T, m) ==
  \A c \in 0 .. m - 1 : sizes[c] = AlignSize(T[c]) /\ counts[c] = a.max \div sizes[c]

\* The bytes cut for the classes below m.
Cut(sz, ct, m) == SumFunction([c \in 0 .. m - 1 |-> sz[c] * ct[c]])

\* count_of_slabs is at the end of a track of its own length, and format_slabs
\* retraces that track. Nothing is cut before, and what is cut is accounted for.
FInv ==
  /\ TypeOK /\ attr \in AttrType
  /\ pc # "init" => Repairs(attr.factor)
  /\ pc \in {"init", "count"} => id = 0
  /\ pc = "init" => count = 0
  /\ pc = "count" => \E T : Track(attr, T, count) /\ T[count] = size
  /\ pc \notin {"init", "count"} =>
       \E T : /\ Track(attr, T, count) /\ T[count] >= attr.max
              /\ T[id] = size /\ Laid(attr, T, id)
  /\ pc = "ready" => id = count
  /\ mem_used = Cut(sizes, counts, id)
  /\ pc \notin {"assert", "overrun"} => mem_used <= attr.limit

\* Nothing is cut in no class.
LEMMA CutNothing == \A sz, ct : Cut(sz, ct, 0) = 0
<1>1. 0 .. 0 - 1 = {}
  OBVIOUS
<1>2. ASSUME NEW sz, NEW ct PROVE Cut(sz, ct, 0) = 0
  <2> DEFINE f == [c \in 0 .. 0 - 1 |-> sz[c] * ct[c]]
  <2>1. DOMAIN f = {}
    BY <1>1
  <2> HIDE DEF f
  <2>2. SumFunctionOnSet(f, {}) = 0
    BY FS_EmptySet, SumUnfolds
  <2>3. SumFunction(f) = 0
    BY <2>1, <2>2 DEF SumFunction
  <2>4. QED
    BY <2>3 DEF Cut, f
<1>3. QED
  BY <1>2

\* A class more adds its bytes.
LEMMA CutMore ==
  ASSUME NEW m \in Nat, NEW sz \in [0 .. m - 1 -> Nat], NEW ct \in [0 .. m - 1 -> Nat],
         NEW tz \in [0 .. m -> Nat], NEW dt \in [0 .. m -> Nat],
         \A c \in 0 .. m - 1 : tz[c] = sz[c] /\ dt[c] = ct[c]
  PROVE  Cut(tz, dt, m + 1) = Cut(sz, ct, m) + tz[m] * dt[m]
<1> DEFINE I == 0 .. m
           J == 0 .. m - 1
           f == [c \in J |-> sz[c] * ct[c]]
           g == [c \in I |-> tz[c] * dt[c]]
<1>1. IsFiniteSet(I) /\ IsFiniteSet(J) /\ m \in I /\ I \ {m} = J /\ J \subseteq I
  <2>1. IsFiniteSet(0 .. m) /\ IsFiniteSet(0 .. m - 1)
    BY FS_Interval
  <2>2. QED
    BY <2>1
<1>2. ASSUME NEW a \in Nat, NEW b \in Nat PROVE a * b \in Nat
  OBVIOUS
<1>3. \A c \in I : g[c] \in Nat
  BY <1>2
<1>4. \A c \in J : g[c] = f[c] /\ f[c] \in Nat
  BY <1>1, <1>2
<1>5. g[m] = tz[m] * dt[m]
  BY <1>1
<1>6. Cut(tz, dt, m + 1) = SumFunctionOnSet(g, I) /\ Cut(sz, ct, m) = SumFunctionOnSet(f, J)
  <2>1. m + 1 - 1 = m
    OBVIOUS
  <2>2. QED
    BY <2>1 DEF Cut, SumFunction
<1> HIDE DEF I, J, f, g
<1>7. SumFunctionOnSet(g, I) = g[m] + SumFunctionOnSet(g, J)
  BY <1>1, <1>3, SumTakes
<1>8. SumFunctionOnSet(g, J) = SumFunctionOnSet(f, J) /\ SumFunctionOnSet(f, J) \in Nat
  BY <1>1, <1>4, SumSame, SumNat
<1>9. g[m] \in Nat
  BY <1>1, <1>3
<1>10. QED
  BY <1>5, <1>6, <1>7, <1>8, <1>9

\* A track goes on by one size.
LEMMA TrackGrows ==
  ASSUME NEW a \in AttrType, NEW n \in Nat, NEW T, Track(a, T, n), T[n] < a.max,
         Repairs(a.factor)
  PROVE  \E U : Track(a, U, n + 1) /\ U[n + 1] = Grow(a.factor, AlignSize(T[n]))
<1> DEFINE x == Grow(a.factor, AlignSize(T[n]))
           U == [k \in 0 .. n + 1 |-> IF k = n + 1 THEN x ELSE T[k]]
<1>1. /\ T \in [0 .. n -> Nat] /\ T[0] = ItemHdr + a.min
      /\ \A k \in 0 .. n - 1 : T[k] < a.max /\ T[k + 1] = Grow(a.factor, AlignSize(T[k]))
      /\ \A k \in 0 .. n : T[k] >= ItemHdr
  BY DEF Track
<1>2. x \in Nat /\ x >= ItemHdr
  <2>1. T[n] \in Nat /\ T[n] >= ItemHdr
    <3>1. n \in 0 .. n
      OBVIOUS
    <3>2. QED
      BY <3>1, <1>1 DEF ItemHdr
  <2>2. AlignSize(T[n]) \in Nat /\ AlignSize(T[n]) >= T[n]
    BY <2>1, Aligned
  <2>3. a.factor \in [num : Nat, den : Nat \ {0}]
    BY DEF AttrType
  <2>4. /\ x \in Nat
        /\ AlignSize(T[n]) + (AlignSize(T[n]) \div 2) <= x
    BY <2>2, <2>3, Grows
  <2> HIDE DEF x
  <2>5. QED
    BY <2>1, <2>2, <2>4 DEF ItemHdr
<1> HIDE DEF x
<1>3. U \in [0 .. n + 1 -> Nat] /\ U[n + 1] = x /\ \A k \in 0 .. n : U[k] = T[k]
  BY <1>1, <1>2
<1> HIDE DEF U
<1>4. U[0] = ItemHdr + a.min
  BY <1>1, <1>3
<1>5. ASSUME NEW k \in 0 .. (n + 1) - 1
      PROVE  U[k] < a.max /\ U[k + 1] = Grow(a.factor, AlignSize(U[k]))
  <2>1. CASE k = n
    BY <2>1, <1>3 DEF x
  <2>2. CASE k # n
    <3>1. k \in 0 .. n - 1 /\ k + 1 \in 0 .. n /\ k \in 0 .. n
      BY <2>2
    <3>2. QED
      BY <3>1, <1>1, <1>3
  <2>3. QED
    BY <2>1, <2>2
<1>6. \A k \in 0 .. n + 1 : U[k] >= ItemHdr
  <2>1. ASSUME NEW k \in 0 .. n + 1 PROVE k = n + 1 \/ k \in 0 .. n
    OBVIOUS
  <2>2. QED
    BY <2>1, <1>1, <1>2, <1>3 DEF ItemHdr
<1>7. QED
  BY <1>3, <1>4, <1>5, <1>6 DEF Track, x

\* shmc_init has not begun.
LEMMA InitFInv == Init => FInv
<1> SUFFICES ASSUME Init PROVE FInv
  OBVIOUS
<1>1. attr \in AttrType
  BY AttrAssumption DEF Init, AttrType
<1>2. <<>> \in [0 .. 0 - 1 -> Nat]
  OBVIOUS
<1>3. TypeOK
  BY <1>2 DEF Init, TypeOK
<1>4. mem_used = Cut(sizes, counts, id) /\ mem_used <= attr.limit
  BY <1>1, CutNothing DEF Init, AttrType
<1>5. QED
  BY <1>1, <1>3, <1>4 DEF Init, FInv
\* shmc_init repairs the factor, and count_of_slabs starts.
LEMMA RepairKeeps == FInv /\ Repair => FInv'
<1> SUFFICES ASSUME FInv, Repair PROVE FInv'
  OBVIOUS
<1>1. attr \in AttrType /\ TypeOK /\ id = 0 /\ count = 0
  BY DEF FInv, Repair
<1>2. /\ pc' = "count" /\ size' = ItemHdr + attr.min
      /\ attr' = [attr EXCEPT !.factor = Repaired(attr.factor)]
      /\ count' = count /\ id' = id /\ sizes' = sizes /\ counts' = counts /\ mem_used' = mem_used
  BY DEF Repair, FirstSize
<1>3. Repaired(attr.factor) \in [num : Nat, den : Nat \ {0}] /\ Repairs(Repaired(attr.factor))
  BY <1>1 DEF AttrType, Repaired, Repairs, Small
<1>4. attr' \in AttrType /\ Repairs(attr'.factor) /\ attr'.min = attr.min
      /\ attr'.limit = attr.limit
  BY <1>1, <1>2, <1>3 DEF AttrType
<1>5. \E T : Track(attr', T, 0) /\ T[0] = size'
  <2> DEFINE T == [k \in 0 .. 0 |-> ItemHdr + attr.min]
  <2>1. /\ T \in [0 .. 0 -> Nat] /\ T[0] = ItemHdr + attr.min /\ 0 .. 0 - 1 = {}
        /\ \A k \in 0 .. 0 : T[k] >= ItemHdr
    BY <1>1 DEF ItemHdr, AttrType
  <2>2. Track(attr', T, 0)
    BY <2>1, <1>4 DEF Track
  <2>3. QED
    BY <2>1, <2>2, <1>2
<1>6. TypeOK'
  BY <1>1, <1>2 DEF TypeOK, ItemHdr, AttrType
<1>7. mem_used' = Cut(sizes', counts', id') /\ mem_used' <= attr'.limit
  BY <1>2, <1>4 DEF FInv, Repair
<1>8. QED
  BY <1>1, <1>2, <1>4, <1>5, <1>6, <1>7 DEF FInv

\* A turn of the loop of count_of_slabs.
LEMMA CountKeeps == FInv /\ Count => FInv'
<1> SUFFICES ASSUME FInv, Count PROVE FInv'
  OBVIOUS
<1>1. /\ attr \in AttrType /\ TypeOK /\ id = 0 /\ pc = "count" /\ Repairs(attr.factor)
      /\ size < attr.max
  BY DEF FInv, Count
<1>2. /\ pc' = pc /\ size' = Grow(attr.factor, AlignSize(size)) /\ count' = count + 1
      /\ attr' = attr /\ id' = id /\ sizes' = sizes /\ counts' = counts /\ mem_used' = mem_used
  BY DEF Count
<1>3. PICK T : Track(attr, T, count) /\ T[count] = size
  BY <1>1 DEF FInv
<1>4. count \in Nat /\ size \in Nat
  BY <1>1 DEF TypeOK
<1>5. \E U : Track(attr, U, count + 1) /\ U[count + 1] = Grow(attr.factor, AlignSize(T[count]))
  BY <1>1, <1>3, <1>4, TrackGrows
<1>6. \E U : Track(attr', U, count') /\ U[count'] = size'
  BY <1>2, <1>3, <1>5
<1>7. size' \in Nat
  BY <1>6, <1>4, <1>2 DEF Track
<1>8. TypeOK'
  BY <1>1, <1>2, <1>4, <1>7 DEF TypeOK
<1>9. mem_used' = Cut(sizes', counts', id') /\ mem_used' <= attr'.limit
  BY <1>1, <1>2 DEF FInv
<1>10. QED
  BY <1>1, <1>2, <1>6, <1>8, <1>9 DEF FInv

\* count_of_slabs has counted; format_slabs begins where it began.
LEMMA CountedKeeps == FInv /\ Counted => FInv'
<1> SUFFICES ASSUME FInv, Counted PROVE FInv'
  OBVIOUS
<1>1. /\ attr \in AttrType /\ TypeOK /\ id = 0 /\ pc = "count" /\ Repairs(attr.factor)
      /\ size >= attr.max
  BY DEF FInv, Counted
<1>2. /\ pc' = "format" /\ size' = ItemHdr + attr.min /\ count' = count
      /\ attr' = attr /\ id' = id /\ sizes' = sizes /\ counts' = counts /\ mem_used' = mem_used
  BY DEF Counted, FirstSize
<1>3. PICK T : Track(attr, T, count) /\ T[count] = size
  BY <1>1 DEF FInv
<1>4. T[0] = size' /\ T[count] >= attr.max /\ Laid(attr, T, 0)'
  <2>1. 0 .. 0 - 1 = {}
    OBVIOUS
  <2>2. QED
    BY <2>1, <1>1, <1>2, <1>3 DEF Track, Laid
<1>5. \E U : Track(attr', U, count') /\ U[count'] >= attr'.max /\ U[id'] = size'
             /\ Laid(attr, U, id)'
  BY <1>1, <1>2, <1>3, <1>4
<1>6. TypeOK'
  BY <1>1, <1>2 DEF TypeOK, ItemHdr, AttrType
<1>7. mem_used' = Cut(sizes', counts', id') /\ mem_used' <= attr'.limit
  BY <1>1, <1>2 DEF FInv
<1>8. QED
  BY <1>1, <1>2, <1>5, <1>6, <1>7 DEF FInv

\* A turn of the loop of format_slabs.
LEMMA FormatKeeps == FInv /\ Format => FInv'
<1> SUFFICES ASSUME FInv, Format PROVE FInv'
  OBVIOUS
<1> DEFINE sz  == AlignSize(size)
           n   == attr.max \div sz
           end == mem_used + sz * n
<1>1. /\ attr \in AttrType /\ TypeOK /\ pc = "format" /\ id < count /\ Repairs(attr.factor)
  BY DEF FInv, Format
<1>2. LayOut(sz, n)
  BY DEF Format
<1> HIDE DEF sz, n
<1>3. /\ sizes' = Put(sizes, sz) /\ counts' = Put(counts, n) /\ mem_used' = end
      /\ pc' = IF Fits(end) THEN pc ELSE IF DebugBuild THEN "assert" ELSE "overrun"
      /\ size' = Grow(attr.factor, sz) /\ id' = id + 1 /\ attr' = attr /\ count' = count
  BY <1>2 DEF LayOut
<1>4. PICK T : /\ Track(attr, T, count) /\ T[count] >= attr.max
               /\ T[id] = size /\ Laid(attr, T, id)
  BY <1>1 DEF FInv
<1>5. /\ count \in Nat /\ id \in Nat /\ size \in Nat /\ mem_used \in Nat
      /\ sizes \in [0 .. id - 1 -> Nat] /\ counts \in [0 .. id - 1 -> Nat]
  BY <1>1 DEF TypeOK
<1>6. sz \in Nat /\ sz > 0 /\ n \in Nat
  <2>1. size > 0
    <3>1. id \in 0 .. count
      BY <1>1, <1>5
    <3>2. size >= ItemHdr
      BY <3>1, <1>4 DEF Track
    <3>3. QED
      BY <3>2, <1>5 DEF ItemHdr
  <2>2. sz \in Nat /\ sz > 0
    BY <2>1, <1>5, Aligned DEF sz
  <2>3. attr.max \in Nat
    BY <1>1 DEF AttrType
  <2>4. QED
    BY <2>2, <2>3, Division DEF n
<1>7. /\ sizes' \in [0 .. id -> Nat] /\ sizes'[id] = sz /\ \A c \in 0 .. id - 1 : sizes'[c] = sizes[c]
      /\ counts' \in [0 .. id -> Nat] /\ counts'[id] = n
      /\ \A c \in 0 .. id - 1 : counts'[c] = counts[c]
  BY <1>3, <1>5, <1>6 DEF Put
<1>8. mem_used' = Cut(sizes', counts', id') /\ mem_used' \in Nat
  <2>1. Cut(sizes', counts', id + 1) = Cut(sizes, counts, id) + sizes'[id] * counts'[id]
    BY <1>5, <1>7, CutMore
  <2>2. mem_used = Cut(sizes, counts, id)
    BY DEF FInv
  <2>3. sz * n \in Nat
    BY <1>6
  <2>4. QED
    BY <1>3, <1>5, <1>7, <2>1, <2>2, <2>3
<1>9. mem_used' <= attr.limit \/ pc' \in {"assert", "overrun"}
  BY <1>1, <1>3, <1>8 DEF Fits, AttrType
<1>10. T[id'] = size'
  BY <1>1, <1>3, <1>4, <1>5 DEF Track, sz
<1>11. Laid(attr, T, id)'
  <2> SUFFICES ASSUME NEW c \in 0 .. (id + 1) - 1
               PROVE  sizes'[c] = AlignSize(T[c]) /\ counts'[c] = attr.max \div sizes'[c]
    BY <1>3, <1>5 DEF Laid
  <2>1. CASE c = id
    BY <2>1, <1>4, <1>7 DEF sz, n
  <2>2. CASE c # id
    <3>1. c \in 0 .. id - 1
      BY <2>2, <1>5
    <3>2. QED
      BY <3>1, <1>4, <1>7 DEF Laid
  <2>3. QED
    BY <2>1, <2>2
<1>12. TypeOK'
  <2>1. size' \in Nat
    BY <1>1, <1>3, <1>4, <1>5, <1>10 DEF Track
  <2>2. (id + 1) - 1 = id
    BY <1>5
  <2>3. id' \in 0 .. count' /\ id' - 1 = id /\ count' \in Nat
    BY <1>1, <1>3, <1>5
  <2>4. pc' \in {"init", "count", "format", "ready", "assert", "overrun"}
    BY <1>1, <1>3
  <2>5. QED
    BY <1>7, <1>8, <2>1, <2>3, <2>4 DEF TypeOK
<1>13. pc' \in {"format", "assert", "overrun"}
  BY <1>1, <1>3
<1>14. \E U : /\ Track(attr', U, count') /\ U[count'] >= attr'.max
              /\ U[id'] = size' /\ Laid(attr, U, id)'
  BY <1>3, <1>4, <1>10, <1>11
<1>15. QED
  BY <1>1, <1>3, <1>8, <1>9, <1>12, <1>13, <1>14 DEF FInv

\* format_slabs is done.
LEMMA FormattedKeeps == FInv /\ Formatted => FInv'
<1> SUFFICES ASSUME FInv, Formatted PROVE FInv'
  OBVIOUS
<1>1. /\ pc = "format" /\ id = count /\ pc' = "ready"
      /\ UNCHANGED <<attr, size, count, id, sizes, counts, mem_used>>
  BY DEF Formatted
<1>2. \E U : /\ Track(attr', U, count') /\ U[count'] >= attr'.max
             /\ U[id'] = size' /\ Laid(attr, U, id)'
  BY <1>1 DEF FInv, Laid
<1>3. TypeOK'
  BY <1>1 DEF FInv, TypeOK
<1>4. mem_used' = Cut(sizes', counts', id') /\ mem_used' <= attr'.limit
  BY <1>1 DEF FInv
<1>5. QED
  BY <1>1, <1>2, <1>3, <1>4 DEF FInv

\* The two loops keep to one track.
THEOREM FormatInvariance == Spec => []FInv
<1>1. FInv /\ UNCHANGED vars => FInv'
  BY DEF FInv, TypeOK, Laid, vars
<1>2. FInv /\ [Next]_vars => FInv'
  BY <1>1, RepairKeeps, CountKeeps, CountedKeeps, FormatKeeps, FormattedKeeps DEF Next
<1>3. QED
  BY <1>2, InitFInv, PTL DEF Spec

\* What is laid out is well typed.
THEOREM FormatTypes == Spec => []TypeOK
  BY FormatInvariance, PTL DEF FInv
-------------------------------------------------------------------------------
(***************************************************************************)
(* What the table is worth.                                                *)
(***************************************************************************)
\* From one class to the next: the size grows by more than the rounding, and by
\* no more than the factor.
LEMMA TrackSteps ==
  ASSUME NEW a \in AttrType, NEW n \in Nat, NEW T, Track(a, T, n), Repairs(a.factor),
         NEW k \in 0 .. n - 1
  PROVE  /\ T[k] \in Nat /\ T[k] < a.max /\ T[k + 1] \in Nat
         /\ AlignSize(T[k]) \in Nat /\ AlignSize(T[k]) < T[k + 1]
         /\ T[k + 1] * a.factor.den <= AlignSize(T[k]) * a.factor.num
<1> DEFINE z == AlignSize(T[k])
<1>1. /\ T[k] \in Nat /\ T[k] >= 64 /\ T[k] < a.max /\ T[k + 1] \in Nat
      /\ T[k + 1] = Grow(a.factor, z)
  <2>1. k \in 0 .. n /\ k + 1 \in 0 .. n
    OBVIOUS
  <2>2. QED
    BY <2>1 DEF Track, ItemHdr
<1>2. z \in Nat /\ z >= 64
  BY <1>1, Aligned
<1>3. a.factor \in [num : Nat, den : Nat \ {0}]
  BY DEF AttrType
<1> HIDE DEF z
<1>4. /\ Grow(a.factor, z) * a.factor.den <= z * a.factor.num
      /\ z + (z \div 2) <= Grow(a.factor, z)
  BY <1>2, <1>3, Grows
<1>5. z < T[k + 1]
  <2>1. z < z + (z \div 2)
    BY <1>2
  <2>2. QED
    BY <2>1, <1>1, <1>2, <1>4
<1>6. QED
  BY <1>1, <1>2, <1>4, <1>5 DEF z

\* The classes laid out, from the invariant.
LEMMA Classes ==
  ASSUME FInv, pc \notin {"init", "count"}
  PROVE  /\ attr \in AttrType /\ count \in Nat /\ id \in 0 .. count
         /\ attr.max \in Nat
         /\ pc = "ready" => id = count
         /\ \A c \in 0 .. id - 1 :
              /\ sizes[c] \in Nat /\ sizes[c] > 0 /\ sizes[c] % AlignBytes = 0
              /\ counts[c] = attr.max \div sizes[c]
              /\ sizes[c] < attr.max + AlignBytes
              /\ c < count - 1 => sizes[c] < attr.max
         /\ \A c \in 1 .. id - 1 :
              /\ sizes[c - 1] \in Nat
              /\ sizes[c - 1] < sizes[c]
              /\ sizes[c] * attr.factor.den <
                   sizes[c - 1] * attr.factor.num + AlignBytes * attr.factor.den
<1>1. /\ attr \in AttrType /\ count \in Nat /\ id \in 0 .. count /\ Repairs(attr.factor)
      /\ pc = "ready" => id = count
  BY DEF FInv, TypeOK
<1>2. attr.max \in Nat /\ attr.factor.den \in Nat \ {0} /\ attr.factor.num \in Nat
  BY <1>1 DEF AttrType
<1>3. PICK T : Track(attr, T, count) /\ Laid(attr, T, id)
  BY DEF FInv
<1>4. ASSUME NEW c \in 0 .. id - 1
      PROVE  /\ c \in 0 .. count - 1
             /\ T[c] \in Nat /\ T[c] < attr.max /\ T[c + 1] \in Nat /\ sizes[c] < T[c + 1]
             /\ T[c + 1] * attr.factor.den <= sizes[c] * attr.factor.num
             /\ sizes[c] = AlignSize(T[c]) /\ counts[c] = attr.max \div sizes[c]
             /\ sizes[c] \in Nat /\ T[c] <= sizes[c] /\ sizes[c] < T[c] + AlignBytes
             /\ sizes[c] % AlignBytes = 0 /\ sizes[c] > 0
  <2>1. c \in 0 .. count - 1
    BY <1>1
  <2>2. sizes[c] = AlignSize(T[c]) /\ counts[c] = attr.max \div sizes[c]
    BY <1>3 DEF Laid
  <2>3. /\ T[c] \in Nat /\ T[c] < attr.max /\ T[c + 1] \in Nat
        /\ AlignSize(T[c]) \in Nat /\ AlignSize(T[c]) < T[c + 1]
        /\ T[c + 1] * attr.factor.den <= AlignSize(T[c]) * attr.factor.num
    BY <1>1, <1>3, <2>1, TrackSteps
  <2>4. /\ T[c] <= AlignSize(T[c]) /\ AlignSize(T[c]) < T[c] + AlignBytes
        /\ AlignSize(T[c]) % AlignBytes = 0
    BY <2>3, Aligned
  <2>5. T[c] > 0
    <3>1. c \in 0 .. count
      BY <1>1, <2>1
    <3>2. QED
      BY <3>1, <1>1, <1>3, <2>3 DEF Track, ItemHdr
  <2>6. sizes[c] > 0
    BY <2>2, <2>3, <2>4, <2>5
  <2>7. QED
    BY <2>1, <2>2, <2>3, <2>4, <2>6
<1>5. ASSUME NEW c \in 0 .. id - 1
      PROVE  /\ sizes[c] < attr.max + AlignBytes
             /\ c < count - 1 => sizes[c] < attr.max
  <2>1. sizes[c] < attr.max + AlignBytes
    BY <1>2, <1>4 DEF AlignBytes
  <2>2. ASSUME c < count - 1 PROVE sizes[c] < attr.max
    <3>1. c + 1 \in 0 .. count - 1
      BY <2>2, <1>1
    <3>2. T[c + 1] < attr.max
      BY <3>1, <1>3 DEF Track
    <3>3. QED
      BY <3>2, <1>2, <1>4
  <2>3. QED
    BY <2>1, <2>2
<1>6. ASSUME NEW c \in 1 .. id - 1
      PROVE  /\ sizes[c - 1] \in Nat
             /\ sizes[c - 1] < sizes[c]
             /\ sizes[c] * attr.factor.den <
                  sizes[c - 1] * attr.factor.num + AlignBytes * attr.factor.den
  <2> DEFINE b == c - 1
             d == attr.factor.den
             p == attr.factor.num
  <2>1. b \in 0 .. id - 1 /\ c \in 0 .. id - 1 /\ b + 1 = c
    BY <1>1
  <2> HIDE DEF b
  <2>2. /\ sizes[b] \in Nat /\ sizes[b] < T[c] /\ T[c] \in Nat
        /\ T[c] * d <= sizes[b] * p
    BY <1>4, <2>1
  <2>3. sizes[c] \in Nat /\ T[c] <= sizes[c] /\ sizes[c] < T[c] + AlignBytes
    BY <1>4, <2>1
  <2>4. sizes[c] * d < (T[c] + AlignBytes) * d
    BY <1>2, <2>2, <2>3 DEF AlignBytes
  <2>5. (T[c] + AlignBytes) * d = T[c] * d + AlignBytes * d
    BY <1>2, <2>2 DEF AlignBytes
  <2>6. /\ sizes[c] * d \in Nat /\ T[c] * d \in Nat /\ sizes[b] * p \in Nat
        /\ AlignBytes * d \in Nat
    BY <1>2, <2>2, <2>3 DEF AlignBytes
  <2>7. sizes[c] * d < sizes[b] * p + AlignBytes * d
    BY <2>2, <2>4, <2>5, <2>6
  <2>8. QED
    BY <2>2, <2>3, <2>7 DEF b
<1>7. QED
  BY <1>1, <1>2, <1>4, <1>5, <1>6

\* Before format_slabs starts there is no class.
LEMMA NoClassYet ==
  ASSUME FInv, pc \in {"init", "count"}
  PROVE  id = 0
  BY DEF FInv

\* count_of_slabs ends: each turn of its loop leaves a larger size.
THEOREM CountingEnds == Spec => CountingAdvances
<1>1. ASSUME FInv, [Next]_vars, pc = "count", pc' = "count", ~(UNCHANGED vars)
      PROVE  size' > size
  <2>1. Count
    BY <1>1 DEF Next, Repair, Counted, Format, LayOut, Formatted
  <2>2. size' = Grow(attr.factor, AlignSize(size))
    BY <2>1 DEF Count
  <2>3. PICK T : Track(attr, T, count) /\ T[count] = size
    BY <1>1 DEF FInv
  <2>4. size \in Nat /\ count \in Nat /\ attr \in AttrType /\ Repairs(attr.factor)
    BY <1>1 DEF FInv, TypeOK
  <2>5. size >= 64
    <3>1. count \in 0 .. count
      BY <2>4
    <3>2. QED
      BY <3>1, <2>3, <2>4 DEF Track, ItemHdr
  <2>6. AlignSize(size) \in Nat /\ AlignSize(size) >= size
    BY <2>4, Aligned
  <2>7. attr.factor \in [num : Nat, den : Nat \ {0}]
    BY <2>4 DEF AttrType
  <2>8. /\ size' \in Nat /\ AlignSize(size) + (AlignSize(size) \div 2) <= size'
    BY <2>2, <2>4, <2>6, <2>7, Grows
  <2>9. QED
    BY <2>4, <2>5, <2>6, <2>8
<1>2. FInv /\ [Next]_vars => [pc = "count" /\ pc' = "count" => size' > size]_vars
  BY <1>1
<1>3. QED
  BY <1>2, FormatInvariance, PTL DEF Spec, CountingAdvances

\* The two loops agree on the classes, and the classes are in order.
THEOREM Ordered == Spec => []TableOrdered
<1>1. ASSUME FInv PROVE TableOrdered
  <2>1. CASE pc \in {"init", "count"}
    BY <1>1, <2>1, NoClassYet DEF TableOrdered
  <2>2. CASE pc \notin {"init", "count"}
    <3>1. /\ count \in Nat /\ id \in 0 .. count /\ attr.max \in Nat
          /\ pc = "ready" => id = count
          /\ \A c \in 0 .. id - 1 :
               /\ sizes[c] % AlignBytes = 0
               /\ sizes[c] < attr.max + AlignBytes
               /\ c < count - 1 => sizes[c] < attr.max
          /\ \A c \in 1 .. id - 1 : sizes[c - 1] < sizes[c]
      BY <1>1, <2>2, Classes
    <3>2. QED
      BY <3>1 DEF TableOrdered
  <2>3. QED
    BY <2>1, <2>2
<1>2. QED
  BY <1>1, FormatInvariance, PTL

\* Only the last class can be without chunks.
THEOREM EmptyLast == Spec => []OnlyLastEmpty
<1>1. ASSUME FInv PROVE OnlyLastEmpty
  <2>1. CASE pc \in {"init", "count"}
    BY <1>1, <2>1, NoClassYet DEF OnlyLastEmpty
  <2>2. CASE pc \notin {"init", "count"}
    <3> SUFFICES ASSUME NEW c \in 0 .. id - 1, counts[c] = 0
                 PROVE  c = count - 1 /\ sizes[c] > attr.max
      BY DEF OnlyLastEmpty
    <3>1. /\ count \in Nat /\ id \in 0 .. count /\ attr.max \in Nat
          /\ sizes[c] \in Nat /\ sizes[c] > 0 /\ counts[c] = attr.max \div sizes[c]
          /\ c < count - 1 => sizes[c] < attr.max
      BY <1>1, <2>2, Classes
    <3>2. attr.max < sizes[c] * counts[c] + sizes[c]
      <4>1. counts[c] \in Nat
        BY <3>1, Division
      <4>2. QED
        BY <3>1, <4>1, Quotient
    <3>3. sizes[c] > attr.max
      <4>1. sizes[c] * counts[c] = 0
        BY <3>1
      <4>2. QED
        BY <3>1, <3>2, <4>1
    <3>4. QED
      BY <3>1, <3>3
  <2>3. QED
    BY <2>1, <2>2
<1>2. QED
  BY <1>1, FormatInvariance, PTL

\* No class is larger than item_size_max, and together they fit the pool.
THEOREM PagesInPool == Spec => []PagesFit
<1>1. ASSUME FInv PROVE PagesFit
  <2>1. mem_used = SumFunction([c \in 0 .. id - 1 |-> sizes[c] * counts[c]])
    BY <1>1 DEF FInv, Cut
  <2>2. pc = "ready" => mem_used <= attr.limit
    BY <1>1 DEF FInv
  <2>3. CASE pc \in {"init", "count"}
    BY <1>1, <2>1, <2>2, <2>3, NoClassYet DEF PagesFit
  <2>4. CASE pc \notin {"init", "count"}
    <3>1. ASSUME NEW c \in 0 .. id - 1 PROVE sizes[c] * counts[c] <= attr.max
      <4>1. /\ attr.max \in Nat /\ sizes[c] \in Nat /\ sizes[c] > 0
            /\ counts[c] = attr.max \div sizes[c]
        BY <1>1, <2>4, Classes
      <4>2. counts[c] \in Nat
        BY <4>1, Division
      <4>3. QED
        BY <4>1, <4>2, Quotient
    <3>2. QED
      BY <2>1, <2>2, <3>1 DEF PagesFit
  <2>5. QED
    BY <2>3, <2>4
<1>2. QED
  BY <1>1, FormatInvariance, PTL

\* item_clsid finds the first class that is large enough: the one before is not.
LEMMA FirstClass ==
  ASSUME NEW m \in Nat, NEW f, NEW n \in Nat, NEW c \in 0 .. m - 1, c = ClassFor(f, m, n)
  PROVE  n <= f[c] /\ \A x \in 0 .. c - 1 : ~(n <= f[x])
<1> DEFINE H == Holding(f, m, n)
<1>1. H \subseteq Nat /\ \A x \in 0 .. m - 1 : x \in H <=> n <= f[x]
  BY DEF Holding
<1>2. H # {}
  BY DEF ClassFor
<1>3. c = Min(H)
  BY <1>2 DEF ClassFor
<1> HIDE DEF H
<1>4. Min(H) \in H /\ \A x \in H : Min(H) <= x
  BY <1>1, <1>2, LeastNumber
<1>5. QED
  BY <1>1, <1>3, <1>4

\* The chunk of an item is not much larger than the item, unless it is of the
\* smallest class.
THEOREM LittleWaste == Spec => []WasteBounded
<1>1. ASSUME FInv PROVE WasteBounded
  <2> SUFFICES ASSUME pc = "ready", NEW n \in FirstSize .. attr.max - 1,
                      ClassFor(sizes, count, n) \in 1 .. count - 1
               PROVE  sizes[ClassFor(sizes, count, n)] * attr.factor.den <
                        n * attr.factor.num + AlignBytes * attr.factor.den
    BY DEF WasteBounded
  <2> DEFINE c == ClassFor(sizes, count, n)
             d == attr.factor.den
             p == attr.factor.num
  <2>1. /\ attr \in AttrType /\ count \in Nat /\ id = count
        /\ c \in 0 .. count - 1 /\ c \in 1 .. id - 1
        /\ sizes[c - 1] \in Nat /\ sizes[c] \in Nat
        /\ sizes[c] * d < sizes[c - 1] * p + AlignBytes * d
    <3>1. /\ attr \in AttrType /\ count \in Nat /\ id = count
      BY <1>1, Classes
    <3>2. c \in 0 .. count - 1 /\ c \in 1 .. id - 1 /\ c \in 0 .. id - 1
      BY <3>1
    <3>2a. pc \notin {"init", "count"}
      OBVIOUS
    <3> HIDE DEF c
    <3>3. /\ sizes[c - 1] \in Nat /\ sizes[c] \in Nat
          /\ sizes[c] * d < sizes[c - 1] * p + AlignBytes * d
      BY <1>1, <3>2, <3>2a, Classes
    <3>4. QED
      BY <3>1, <3>2, <3>3
  <2>2. n \in Nat /\ d \in Nat /\ p \in Nat
    BY <2>1 DEF AttrType, FirstSize, ItemHdr
  <2>3. sizes[c - 1] < n
    <3>1. n <= sizes[c] /\ \A x \in 0 .. c - 1 : ~(n <= sizes[x])
      BY <2>1, <2>2, FirstClass
    <3>2. c - 1 \in 0 .. c - 1
      BY <2>1
    <3>3. QED
      BY <3>1, <3>2, <2>1, <2>2
  <2> HIDE DEF c, d, p
  <2>4. sizes[c - 1] * p <= n * p
    BY <2>1, <2>2, <2>3
  <2>5. /\ sizes[c] * d \in Nat /\ sizes[c - 1] * p \in Nat /\ n * p \in Nat
        /\ AlignBytes * d \in Nat
    BY <2>1, <2>2 DEF AlignBytes
  <2>6. sizes[c] * d < n * p + AlignBytes * d
    BY <2>1, <2>4, <2>5
  <2>7. QED
    BY <2>6 DEF c, d, p
<1>2. QED
  BY <1>1, FormatInvariance, PTL
================================================================================
