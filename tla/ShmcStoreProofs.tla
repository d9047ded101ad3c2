---------------------------- MODULE ShmcStoreProofs ----------------------------
(***************************************************************************)
(* Proofs about ShmcStore, for every number of keys, slabs, chunks and     *)
(* buckets. The invariant is Good(s, {}). In the middle of an operation    *)
(* some chunks are on no list, because they are in the hands of the        *)
(* operation: Good(s, F) is the invariant with F for these chunks, and a   *)
(* lemma for each helper of shmc.c says how the helper changes F.          *)
(***************************************************************************)
EXTENDS ShmcStore, ListLemmas

ItemMap == UNION {[S -> ItemType] : S \in SUBSET ItemName}

Segment ==
  [mem_used : Nat, carved : [Slabs -> Nat], free : [Slabs -> Seq(ItemName)],
   item : ItemMap, lru : [Slabs -> Seq(ItemName)],
   bucket : [Buckets -> Seq(ItemName)], nitems : Int, max_depth : Nat]

\* An item that is in use is of the class of its chunk and of its lengths.
Settled(s, i) ==
  /\ s.item[i].clsid = i[1]
  /\ ItemClsid(s.item[i].nkey, s.item[i].nval) = i[1]

ChunksGood(s, F) ==
  /\ DOMAIN s.item = Chunks(s.carved)
  /\ F \subseteq DOMAIN s.item
  /\ \A c \in Slabs :
       /\ IsInjective(s.free[c]) /\ IsInjective(s.lru[c])
       /\ Range(s.free[c]) \cap Range(s.lru[c]) = {}
       /\ Range(s.free[c]) \cap F = {} /\ Range(s.lru[c]) \cap F = {}
       /\ \A i \in Range(s.free[c]) \cup Range(s.lru[c]) : i \in DOMAIN s.item /\ i[1] = c
  /\ \A i \in DOMAIN s.item :
       i \in F \/ i \in Range(s.free[i[1]]) \/ i \in Range(s.lru[i[1]])
  /\ \A i \in Linked(s) \cup F : Settled(s, i)

IndexGood(s) ==
  /\ \A i \in Linked(s) :
       /\ s.item[i].key \in Key /\ s.item[i].nkey = KeyLen[s.item[i].key]
       /\ i \in Range(s.bucket[Slot[s.item[i].key]])
  /\ \A i, j \in Linked(s) : s.item[i].key = s.item[j].key => i = j
  /\ \A b \in Buckets :
       /\ IsInjective(s.bucket[b])
       /\ \A i \in Range(s.bucket[b]) : i \in Linked(s) /\ Slot[s.item[i].key] = b

\* The bytes of the chunks carved.
PoolBytes(carved) == SumFunction([c \in Slabs |-> SlabSize[c] * carved[c]])

CountsGood(s) ==
  /\ IsFiniteSet(Linked(s)) /\ s.nitems = Cardinality(Linked(s))
  /\ s.mem_used = PoolBytes(s.carved) /\ s.mem_used < MemLimit
  /\ \A c \in Slabs :
       SlabCount[c] <= s.carved[c] /\ (SlabCount[c] = 0 => s.carved[c] = 0)

Good(s, F) ==
  s \in Segment /\ ChunksGood(s, F) /\ IndexGood(s) /\ CountsGood(s)

-------------------------------------------------------------------------------
(***************************************************************************)
(* Facts about the parts of a segment.                                     *)
(***************************************************************************)
\* Writing one item of a segment leaves its other items and their names alone.
LEMMA ItemMapUpdate ==
  ASSUME NEW f \in ItemMap, NEW i \in DOMAIN f, NEW r \in ItemType
  PROVE  /\ [f EXCEPT ![i] = r] \in ItemMap
         /\ DOMAIN [f EXCEPT ![i] = r] = DOMAIN f
         /\ [f EXCEPT ![i] = r][i] = r
         /\ \A j \in DOMAIN f \ {i} : [f EXCEPT ![i] = r][j] = f[j]
  BY DEF ItemMap

\* What a segment's items are named and what they hold.
LEMMA ItemMapType ==
  ASSUME NEW f \in ItemMap
  PROVE  DOMAIN f \subseteq ItemName /\ \A i \in DOMAIN f : f[i] \in ItemType
  BY DEF ItemMap

\* An item's name says its class and its number in the class.
LEMMA ItemNamePair == \A i \in ItemName : i[1] \in Slabs /\ i[2] \in Nat \ {0} /\ i = <<i[1], i[2]>>
  BY DEF ItemName

\* A freed chunk (item_free) holds fields of the declared types.
LEMMA DeadType ==
  ASSUME NEW f \in Flags, Slabs # {} PROVE Dead(f) \in ItemType
<1>1. 0 \in Slabs
  BY ParamAssumption DEF Slabs
<1>2. <<>> \in Seq(Part)
  OBVIOUS
<1>3. QED
  BY <1>1, <1>2 DEF Dead, ItemType

\* The chunks carved for the classes are those whose number is not past what
\* has been carved of their class (format_slabs, item_alloc).
LEMMA ChunkNames ==
  ASSUME NEW n \in [Slabs -> Nat]
  PROVE  /\ Chunks(n) \subseteq ItemName
         /\ \A i \in ItemName : i \in Chunks(n) <=> i[2] <= n[i[1]]
<1>1. \A i : i \in Chunks(n) <=> \E c \in Slabs : i \in {c} \X (1 .. n[c])
  BY DEF Chunks
<1>2. ASSUME NEW c \in Slabs, NEW i \in {c} \X (1 .. n[c])
      PROVE  i \in ItemName /\ i[1] = c /\ i[2] <= n[c]
  BY <1>2 DEF ItemName
<1>3. ASSUME NEW i \in ItemName, i[2] <= n[i[1]]
      PROVE  i[1] \in Slabs /\ i \in {i[1]} \X (1 .. n[i[1]])
  BY <1>3, ItemNamePair
<1>4. QED
  BY <1>1, <1>2, <1>3

\* The LRU lists of a good segment, seen class by class and all together.
LEMMA LinkedByClass ==
  ASSUME NEW s, NEW F, s \in Segment, ChunksGood(s, F)
  PROVE  /\ Linked(s) \subseteq DOMAIN s.item
         /\ DOMAIN s.item \subseteq ItemName
         /\ Linked(s) \cap F = {}
         /\ \A i \in Linked(s) : i[1] \in Slabs /\ i \in Range(s.lru[i[1]])
         /\ \A c \in Slabs : Range(s.lru[c]) = {i \in Linked(s) : i[1] = c}
<1>1. DOMAIN s.item \subseteq ItemName
  BY ItemMapType DEF Segment
<1>2. \A i \in Linked(s) : \E c \in Slabs : i \in Range(s.lru[c])
  BY DEF Linked
<1>3. \A c \in Slabs : Range(s.lru[c]) \subseteq Linked(s)
  BY DEF Linked
<1>4. \A i \in Linked(s) : i \in DOMAIN s.item /\ i \notin F /\ i[1] \in Slabs /\ i \in Range(s.lru[i[1]])
  BY <1>2 DEF ChunksGood
<1>5. \A c \in Slabs : \A i \in Range(s.lru[c]) : i[1] = c
  BY DEF ChunksGood
<1>6. QED
  BY <1>1, <1>3, <1>4, <1>5

\* assoc_find finds a linked item by its key and finds nothing else.
LEMMA Find ==
  ASSUME NEW s, NEW F, Good(s, F), NEW k \in Key
  PROVE  /\ Present(s, k) =>
              LET p == Min(Hits(s, k))
              IN  /\ p \in DOMAIN Chain(s, k) /\ p \in Nat /\ Hits(s, k) = {p}
                  /\ Chain(s, k)[p] = AssocFind(s, k)
                  /\ AssocFind(s, k) \in Linked(s)
                  /\ s.item[AssocFind(s, k)].key = k
         /\ \A i \in Linked(s) :
              s.item[i].key = k => Present(s, k) /\ AssocFind(s, k) = i
<1>1. Slot[k] \in Buckets /\ Chain(s, k) = s.bucket[Slot[k]] /\ Chain(s, k) \in Seq(ItemName)
  BY ParamAssumption DEF Good, Segment, Chain
<1>2. IsInjective(Chain(s, k)) /\ DOMAIN Chain(s, k) \subseteq Nat
  <2>1. DOMAIN Chain(s, k) = 1 .. Len(Chain(s, k)) /\ Len(Chain(s, k)) \in Nat
    BY <1>1, LenProperties
  <2>2. QED
    BY <1>1, <2>1 DEF Good, IndexGood
<1>3. \A p \in Hits(s, k) :
        /\ p \in DOMAIN Chain(s, k) /\ Chain(s, k)[p] \in Linked(s)
        /\ s.item[Chain(s, k)[p]].key = k
  <2> SUFFICES ASSUME NEW p \in Hits(s, k)
               PROVE  /\ p \in DOMAIN Chain(s, k) /\ Chain(s, k)[p] \in Linked(s)
                      /\ s.item[Chain(s, k)[p]].key = k
    OBVIOUS
  <2>1. p \in DOMAIN Chain(s, k) /\ s.item[Chain(s, k)[p]].key = k
    BY DEF Hits
  <2>2. Chain(s, k)[p] \in Range(s.bucket[Slot[k]])
    BY <2>1, <1>1 DEF Range
  <2>3. \A i \in Range(s.bucket[Slot[k]]) : i \in Linked(s)
    BY <1>1 DEF Good, IndexGood
  <2>4. QED
    BY <2>1, <2>2, <2>3
<1>4. \A p, q \in Hits(s, k) : p = q
  <2> SUFFICES ASSUME NEW p \in Hits(s, k), NEW q \in Hits(s, k) PROVE p = q
    OBVIOUS
  <2>1. Chain(s, k)[p] = Chain(s, k)[q]
    BY <1>3 DEF Good, IndexGood
  <2>2. QED
    BY <2>1, <1>2, <1>3 DEF IsInjective
<1>5. ASSUME NEW p \in Hits(s, k) PROVE Hits(s, k) = {p} /\ Min(Hits(s, k)) = p
  <2>1. Hits(s, k) = {p}
    BY <1>4
  <2>2. p \in Int
    BY <1>2, <1>3
  <2>3. QED
    BY <2>1, <2>2, MinSingleton
<1>6. ASSUME Present(s, k)
      PROVE  LET p == Min(Hits(s, k))
             IN  /\ p \in DOMAIN Chain(s, k) /\ p \in Nat /\ Hits(s, k) = {p}
                 /\ Chain(s, k)[p] = AssocFind(s, k)
                 /\ AssocFind(s, k) \in Linked(s)
                 /\ s.item[AssocFind(s, k)].key = k
  <2>1. PICK p : p \in Hits(s, k)
    BY <1>6 DEF Present
  <2>2. Hits(s, k) = {p} /\ Min(Hits(s, k)) = p
    BY <2>1, <1>5
  <2>3. AssocFind(s, k) = Chain(s, k)[p]
    BY <2>1, <2>2 DEF AssocFind
  <2>4. QED
    BY <2>1, <2>2, <2>3, <1>2, <1>3
<1>7. ASSUME NEW i \in Linked(s), s.item[i].key = k
      PROVE  Present(s, k) /\ AssocFind(s, k) = i
  <2>1. i \in Range(Chain(s, k))
    BY <1>1, <1>7 DEF Good, IndexGood
  <2>2. PICK p \in DOMAIN Chain(s, k) : Chain(s, k)[p] = i
    BY <2>1 DEF Range
  <2>3. p \in Hits(s, k)
    BY <2>2, <1>7 DEF Hits
  <2>4. Present(s, k)
    BY <2>3 DEF Present
  <2>5. Min(Hits(s, k)) = p
    BY <2>3, <1>5
  <2>6. QED
    BY <2>2, <2>4, <2>5, <1>6
<1>8. QED
  BY <1>6, <1>7

-------------------------------------------------------------------------------
(***************************************************************************)
(* The helpers of shmc.c.                                                  *)
(***************************************************************************)
\* Nothing but the fields a helper writes changes; these are the others.
SameChunks(s, t) ==
  t.item = s.item /\ t.carved = s.carved /\ t.free = s.free /\ t.mem_used = s.mem_used

SameIndex(s, t) == t.bucket = s.bucket /\ t.nitems = s.nitems /\ t.max_depth = s.max_depth

\* assoc_find changes nothing of a segment but max_depth.
LEMMA ProbeGood ==
  ASSUME NEW s, NEW F, Good(s, F), NEW k \in Key
  PROVE  LET t == Probe(s, k)
         IN  /\ Good(t, F)
             /\ SameChunks(s, t) /\ t.lru = s.lru /\ t.bucket = s.bucket
             /\ Linked(t) = Linked(s)
             /\ Present(t, k) = Present(s, k) /\ AssocFind(t, k) = AssocFind(s, k)
<1> DEFINE t == Probe(s, k)
           d == IF Present(s, k) THEN Min(Hits(s, k)) ELSE Len(Chain(s, k))
           m == IF d > s.max_depth THEN d ELSE s.max_depth
<1>1. s \in Segment
  BY DEF Good
<1>2. Len(Chain(s, k)) \in Nat
  BY <1>1, ParamAssumption, LenProperties DEF Segment, Chain
<1>3. d \in Nat
  BY <1>2, Find
<1>4. m \in Nat
  BY <1>1, <1>3 DEF Segment
<1>5. t = [s EXCEPT !.max_depth = m]
  BY DEF Probe
<1> HIDE DEF m, t
<1>6. t \in Segment
  BY <1>1, <1>4, <1>5 DEF Segment
<1>7. /\ SameChunks(s, t) /\ t.lru = s.lru /\ t.bucket = s.bucket /\ t.nitems = s.nitems
  BY <1>1, <1>5 DEF Segment, SameChunks
<1>8. Linked(t) = Linked(s)
  BY <1>7 DEF Linked
<1>9. Chain(t, k) = Chain(s, k) /\ t.item = s.item
  BY <1>7 DEF Chain, SameChunks
<1>10. Hits(t, k) = Hits(s, k)
  BY <1>9 DEF Hits
<1>11. ChunksGood(t, F)
  BY <1>7, <1>8 DEF Good, ChunksGood, SameChunks, Settled
<1>12. IndexGood(t)
  BY <1>7, <1>8 DEF Good, IndexGood, SameChunks
<1>13. CountsGood(t)
  BY <1>7, <1>8 DEF Good, CountsGood, SameChunks
<1>14. QED
  BY <1>6, <1>7, <1>8, <1>9, <1>10, <1>11, <1>12, <1>13 DEF Good, Present, AssocFind, t

\* item_unlink takes an item off its LRU list.
LEMMA Unlink ==
  ASSUME NEW s, NEW F, s \in Segment, ChunksGood(s, F), NEW i \in Linked(s)
  PROVE  LET t == ItemUnlink(s, i)
         IN  /\ t \in Segment /\ SameChunks(s, t) /\ SameIndex(s, t)
             /\ Linked(t) = Linked(s) \ {i}
             /\ \A c \in Slabs :
                  IsInjective(t.lru[c]) /\ Range(t.lru[c]) = Range(s.lru[c]) \ {i}
<1> DEFINE c  == i[1]
           l  == s.lru[c]
           at == {p \in DOMAIN l : l[p] = i}
           t  == ItemUnlink(s, i)
<1>1. c \in Slabs /\ i \in Range(l) /\ i \in DOMAIN s.item
  BY LinkedByClass
<1>2. s.item[i].clsid = c
  BY DEF ChunksGood, Settled
<1>3. l \in Seq(ItemName) /\ IsInjective(l)
  BY <1>1 DEF Segment, ChunksGood
<1>4. PICK p \in DOMAIN l : l[p] = i
  BY <1>1 DEF Range
<1>5. p \in Int
  BY <1>3, <1>4, LenProperties
<1>6. at = {p}
  BY <1>3, <1>4 DEF IsInjective
<1>7. Min(at) = p /\ at # {}
  BY <1>5, <1>6, MinSingleton
<1> DEFINE r == RemoveAt(l, p)
<1>8. t = [s EXCEPT !.lru[c] = r]
  BY <1>2, <1>7 DEF ItemUnlink
<1>9. r \in Seq(ItemName) /\ IsInjective(r) /\ Range(r) = Range(l) \ {i}
  BY <1>3, <1>4, RemoveAtList
<1> HIDE DEF r, t
<1>10. t \in Segment
  BY <1>1, <1>8, <1>9 DEF Segment
<1>11. SameChunks(s, t) /\ SameIndex(s, t) /\ t.lru = [s.lru EXCEPT ![c] = r]
  BY <1>8 DEF Segment, SameChunks, SameIndex
<1>12. s.lru \in [Slabs -> Seq(ItemName)]
  BY DEF Segment
<1>13. ASSUME NEW d \in Slabs
       PROVE  IsInjective(t.lru[d]) /\ Range(t.lru[d]) = Range(s.lru[d]) \ {i}
  <2>1. CASE d = c
    BY <2>1, <1>9, <1>11, <1>12
  <2>2. CASE d # c
    <3>1. t.lru[d] = s.lru[d]
      BY <2>2, <1>11, <1>12
    <3>2. i \notin Range(s.lru[d])
      BY <2>2 DEF ChunksGood
    <3>3. QED
      BY <3>1, <3>2 DEF ChunksGood
  <2>3. QED
    BY <2>1, <2>2
<1>14. Linked(t) = Linked(s) \ {i}
  BY <1>13 DEF Linked
<1>15. QED
  BY <1>10, <1>11, <1>13, <1>14 DEF t

\* item_link puts an item at the head of the list of its class.
LEMMA Link ==
  ASSUME NEW s, s \in Segment, NEW i \in ItemName, i \notin Linked(s), s.item[i].clsid = i[1],
         \A c \in Slabs : IsInjective(s.lru[c])
  PROVE  LET t == ItemLink(s, i)
         IN  /\ t \in Segment /\ SameChunks(s, t) /\ SameIndex(s, t)
             /\ Linked(t) = Linked(s) \cup {i}
             /\ \A c \in Slabs :
                  /\ IsInjective(t.lru[c])
                  /\ Range(t.lru[c]) = IF c = i[1] THEN {i} \cup Range(s.lru[c])
                                                   ELSE Range(s.lru[c])
<1> DEFINE c == i[1]
           l == Cons(i, s.lru[c])
           t == ItemLink(s, i)
<1>1. c \in Slabs
  BY ItemNamePair
<1>2. s.lru \in [Slabs -> Seq(ItemName)]
  BY DEF Segment
<1>3. i \notin Range(s.lru[c])
  BY <1>1 DEF Linked
<1>4. l \in Seq(ItemName) /\ IsInjective(l) /\ Range(l) = {i} \cup Range(s.lru[c])
  BY <1>1, <1>2, <1>3, ConsList
<1>5. t = [s EXCEPT !.lru[c] = l]
  BY DEF ItemLink
<1> HIDE DEF l, t
<1>6. t \in Segment
  BY <1>1, <1>4, <1>5 DEF Segment
<1>7. SameChunks(s, t) /\ SameIndex(s, t) /\ t.lru = [s.lru EXCEPT ![c] = l]
  BY <1>5 DEF Segment, SameChunks, SameIndex
<1>8. ASSUME NEW d \in Slabs
      PROVE  /\ IsInjective(t.lru[d])
             /\ Range(t.lru[d]) = IF d = c THEN {i} \cup Range(s.lru[d]) ELSE Range(s.lru[d])
  BY <1>1, <1>2, <1>4, <1>7
<1>9. Linked(t) = Linked(s) \cup {i}
  BY <1>1, <1>8 DEF Linked
<1>10. QED
  BY <1>6, <1>7, <1>8, <1>9 DEF t

\* assoc_delete takes the item of a key out of its chain.
LEMMA Delete ==
  ASSUME NEW s, NEW F, Good(s, F), NEW i \in Linked(s)
  PROVE  LET k == s.item[i].key
             t == AssocDelete(s, k)
         IN  /\ t \in Segment /\ SameChunks(s, t) /\ t.lru = s.lru
             /\ t.nitems = s.nitems - 1
             /\ \A b \in Buckets :
                  IsInjective(t.bucket[b]) /\ Range(t.bucket[b]) = Range(s.bucket[b]) \ {i}
<1> DEFINE k == s.item[i].key
           b == Slot[k]
           l == Chain(s, k)
           p == Min(Hits(s, k))
           r == RemoveAt(l, p)
           t == AssocDelete(s, k)
<1>1. k \in Key /\ b \in Buckets
  BY ParamAssumption DEF Good, IndexGood
<1>2. Present(s, k) /\ AssocFind(s, k) = i /\ p \in DOMAIN l /\ l[p] = i
  BY <1>1, Find
<1>3. s \in Segment /\ s.bucket \in [Buckets -> Seq(ItemName)] /\ s.nitems \in Int
  BY DEF Good, Segment
<1>4. l = s.bucket[b] /\ l \in Seq(ItemName) /\ IsInjective(l)
  BY <1>1, <1>3 DEF Chain, Good, IndexGood
<1>5. r \in Seq(ItemName) /\ IsInjective(r) /\ Range(r) = Range(l) \ {i}
  <2> HIDE DEF k, b, l, p, t
  <2>1. /\ RemoveAt(l, p) \in Seq(ItemName) /\ IsInjective(RemoveAt(l, p))
        /\ Range(RemoveAt(l, p)) = Range(l) \ {l[p]}
    BY <1>2, <1>4, RemoveAtList
  <2>2. QED
    BY <2>1, <1>2
<1> DEFINE n == s.nitems - 1
<1>6. t = [s EXCEPT !.bucket[b] = r, !.nitems = n]
  BY <1>2, <1>4 DEF AssocDelete
<1>7. n \in Int
  BY <1>3
<1> HIDE DEF r, t, n
<1>8. t \in Segment
  BY <1>1, <1>3, <1>5, <1>6, <1>7 DEF Segment
<1>9. /\ SameChunks(s, t) /\ t.lru = s.lru
      /\ t.bucket = [s.bucket EXCEPT ![b] = r] /\ t.nitems = n
  BY <1>3, <1>6 DEF Segment, SameChunks
<1>10. ASSUME NEW d \in Buckets
       PROVE  IsInjective(t.bucket[d]) /\ Range(t.bucket[d]) = Range(s.bucket[d]) \ {i}
  <2>1. CASE d = b
    BY <2>1, <1>3, <1>4, <1>5, <1>9
  <2>2. CASE d # b
    <3>1. t.bucket[d] = s.bucket[d]
      BY <2>2, <1>3, <1>9
    <3>2. i \notin Range(s.bucket[d])
      BY <2>2 DEF Good, IndexGood
    <3>3. QED
      BY <3>1, <3>2 DEF Good, IndexGood
  <2>3. QED
    BY <2>1, <2>2
<1>11. QED
  BY <1>8, <1>9, <1>10 DEF t, n

\* Out of the table and off its list, an item is in the hands of the operation.
Unhooked(s, i) == ItemUnlink(AssocDelete(s, s.item[i].key), i)

\* Taking a listed item out of the table and off its LRU list (assoc_delete,
\* then item_unlink) leaves a good segment, the item in the operation's hands.
LEMMA Unhook ==
  ASSUME NEW s, NEW F, Good(s, F), NEW i \in Linked(s)
  PROVE  LET t == Unhooked(s, i)
         IN  /\ Good(t, F \cup {i}) /\ SameChunks(s, t)
             /\ Linked(t) = Linked(s) \ {i}
<1> DEFINE u == AssocDelete(s, s.item[i].key)
           t == Unhooked(s, i)
           G == F \cup {i}
<1>1. /\ u \in Segment /\ SameChunks(s, u) /\ u.lru = s.lru
      /\ u.nitems = s.nitems - 1
      /\ \A b \in Buckets :
           IsInjective(u.bucket[b]) /\ Range(u.bucket[b]) = Range(s.bucket[b]) \ {i}
  BY Delete
<1>2. Linked(u) = Linked(s)
  BY <1>1 DEF Linked
<1>3. ChunksGood(u, F)
  BY <1>1, <1>2 DEF Good, ChunksGood, SameChunks, Settled
<1> HIDE DEF u
<1>4. /\ t \in Segment /\ SameChunks(u, t) /\ SameIndex(u, t)
      /\ Linked(t) = Linked(s) \ {i}
      /\ \A c \in Slabs :
           IsInjective(t.lru[c]) /\ Range(t.lru[c]) = Range(s.lru[c]) \ {i}
  <2>1. t = ItemUnlink(u, i)
    BY DEF Unhooked, u
  <2>2. QED
    BY <1>1, <1>2, <1>3, <2>1, Unlink
<1> HIDE DEF t
<1>5. SameChunks(s, t) /\ t.nitems = s.nitems - 1 /\ t.bucket = u.bucket
  BY <1>1, <1>4 DEF SameChunks, SameIndex
<1>6. /\ Linked(s) \subseteq DOMAIN s.item /\ DOMAIN s.item \subseteq ItemName
      /\ i[1] \in Slabs /\ i \in Range(s.lru[i[1]]) /\ i \notin F
  BY LinkedByClass DEF Good
<1>7. ChunksGood(t, G)
  <2>1. t.item = s.item /\ t.free = s.free /\ t.carved = s.carved
    BY <1>5 DEF SameChunks
  <2>2. DOMAIN t.item = Chunks(t.carved) /\ G \subseteq DOMAIN t.item
    BY <1>6, <2>1 DEF Good, ChunksGood
  <2>3. ASSUME NEW c \in Slabs
        PROVE  /\ IsInjective(t.free[c]) /\ IsInjective(t.lru[c])
               /\ Range(t.free[c]) \cap Range(t.lru[c]) = {}
               /\ Range(t.free[c]) \cap G = {} /\ Range(t.lru[c]) \cap G = {}
               /\ \A j \in Range(t.free[c]) \cup Range(t.lru[c]) :
                    j \in DOMAIN t.item /\ j[1] = c
    <3>1. i \notin Range(s.free[c])
      BY <1>6 DEF Good, ChunksGood
    <3>2. QED
      BY <1>4, <2>1, <3>1 DEF Good, ChunksGood
  <2>4. \A j \in DOMAIN t.item :
          j \in G \/ j \in Range(t.free[j[1]]) \/ j \in Range(t.lru[j[1]])
    <3> SUFFICES ASSUME NEW j \in DOMAIN s.item, j # i, j \notin F
                 PROVE  j \in Range(t.free[j[1]]) \/ j \in Range(t.lru[j[1]])
      BY <2>1
    <3>1. j[1] \in Slabs
      BY <1>6, ItemNamePair
    <3>2. j \in Range(s.free[j[1]]) \/ j \in Range(s.lru[j[1]])
      BY DEF Good, ChunksGood
    <3>3. QED
      BY <1>4, <2>1, <3>1, <3>2
  <2>5. \A j \in Linked(t) \cup G : Settled(t, j)
    BY <1>4, <2>1 DEF Good, ChunksGood, Settled
  <2>6. QED
    BY <2>2, <2>3, <2>4, <2>5 DEF ChunksGood
<1>8. IndexGood(t)
  <2>1. t.item = s.item
    BY <1>5 DEF SameChunks
  <2>2. \A j \in Linked(t) :
          /\ t.item[j].key \in Key /\ t.item[j].nkey = KeyLen[t.item[j].key]
          /\ j \in Range(t.bucket[Slot[t.item[j].key]])
    <3> SUFFICES ASSUME NEW j \in Linked(s), j # i
                 PROVE  /\ s.item[j].key \in Key /\ s.item[j].nkey = KeyLen[s.item[j].key]
                        /\ j \in Range(t.bucket[Slot[s.item[j].key]])
      BY <1>4, <2>1
    <3>1. /\ s.item[j].key \in Key /\ s.item[j].nkey = KeyLen[s.item[j].key]
          /\ j \in Range(s.bucket[Slot[s.item[j].key]])
      BY DEF Good, IndexGood
    <3>2. Slot[s.item[j].key] \in Buckets
      BY <3>1, ParamAssumption
    <3>3. QED
      BY <1>1, <1>5, <3>1, <3>2
  <2>3. \A j, m \in Linked(t) : t.item[j].key = t.item[m].key => j = m
    BY <1>4, <2>1 DEF Good, IndexGood
  <2>4. \A b \in Buckets :
          /\ IsInjective(t.bucket[b])
          /\ \A j \in Range(t.bucket[b]) : j \in Linked(t) /\ Slot[t.item[j].key] = b
    BY <1>1, <1>4, <1>5, <2>1 DEF Good, IndexGood
  <2>5. QED
    BY <2>2, <2>3, <2>4 DEF IndexGood
<1>9. CountsGood(t)
  <2>1. IsFiniteSet(Linked(t)) /\ Cardinality(Linked(t)) = Cardinality(Linked(s)) - 1
    BY <1>4, FS_RemoveElement DEF Good, CountsGood
  <2>2. QED
    BY <1>5, <2>1 DEF Good, CountsGood, SameChunks
<1>10. QED
  BY <1>4, <1>5, <1>7, <1>8, <1>9 DEF Good, t

\* item_free gives a chunk back: its class, computed anew, is its own.
LEMMA Freed ==
  ASSUME NEW s, NEW F, Good(s, F), NEW i \in F
  PROVE  LET t == ItemFree(s, i)
         IN  /\ Good(t, F \ {i})
             /\ t.free = [s.free EXCEPT ![i[1]] = Cons(i, @)]
             /\ t.lru = s.lru /\ t.carved = s.carved /\ t.mem_used = s.mem_used
             /\ Linked(t) = Linked(s) /\ DOMAIN t.item = DOMAIN s.item
             /\ \A j \in DOMAIN s.item \ {i} : t.item[j] = s.item[j]
             /\ t.item[i] = Dead(s.item[i].flags)
<1> DEFINE c == i[1]
           l == Cons(i, s.free[c])
           d == Dead(s.item[i].flags)
           f == [s.item EXCEPT ![i] = d]
           t == ItemFree(s, i)
           G == F \ {i}
<1>1. s \in Segment /\ s.free \in [Slabs -> Seq(ItemName)] /\ s.item \in ItemMap
  BY DEF Good, Segment
<1>2. i \in DOMAIN s.item /\ i \in ItemName /\ c \in Slabs
  BY <1>1, ItemMapType, ItemNamePair DEF Good, ChunksGood
<1>3. ItemClsid(s.item[i].nkey, s.item[i].nval) = c
  BY DEF Good, ChunksGood, Settled
<1>4. i \notin Range(s.free[c]) /\ i \notin Linked(s)
  BY <1>2 DEF Good, ChunksGood, Linked
<1>5. l \in Seq(ItemName) /\ IsInjective(l) /\ Range(l) = {i} \cup Range(s.free[c])
  BY <1>1, <1>2, <1>4, ConsList DEF Good, ChunksGood
<1>6. d \in ItemType
  <2>1. s.item[i].flags \in Flags
    BY <1>1, <1>2, ItemMapType DEF ItemType
  <2>2. QED
    BY <2>1, <1>2, DeadType
<1>7. /\ f \in ItemMap /\ DOMAIN f = DOMAIN s.item /\ f[i] = d
      /\ \A j \in DOMAIN s.item \ {i} : f[j] = s.item[j]
  BY <1>1, <1>2, <1>6, ItemMapUpdate
<1>8. t = [s EXCEPT !.free[c] = l, !.item = f]
  BY <1>3 DEF ItemFree
<1> HIDE DEF l, d, f, t
<1>9. t \in Segment
  BY <1>1, <1>2, <1>5, <1>7, <1>8 DEF Segment
<1>10. /\ t.free = [s.free EXCEPT ![c] = l] /\ t.item = f
       /\ t.lru = s.lru /\ t.carved = s.carved /\ t.mem_used = s.mem_used
       /\ t.bucket = s.bucket /\ t.nitems = s.nitems
  BY <1>1, <1>8 DEF Segment
<1>11. Linked(t) = Linked(s)
  BY <1>10 DEF Linked
<1>12. Linked(s) \subseteq DOMAIN s.item
  BY LinkedByClass DEF Good
<1>13. ChunksGood(t, G)
  <2>1. DOMAIN t.item = Chunks(t.carved) /\ G \subseteq DOMAIN t.item
    BY <1>7, <1>10 DEF Good, ChunksGood
  <2>2. ASSUME NEW e \in Slabs
        PROVE  /\ IsInjective(t.free[e])
               /\ Range(t.free[e]) = IF e = c THEN {i} \cup Range(s.free[e])
                                              ELSE Range(s.free[e])
    <3>1. IsInjective(s.free[e]) /\ s.free \in [Slabs -> Seq(ItemName)]
      BY DEF Good, ChunksGood, Segment
    <3>2. t.free[e] = IF e = c THEN l ELSE s.free[e]
      BY <3>1, <1>10
    <3>3. QED
      BY <3>1, <3>2, <1>5
  <2>3. ASSUME NEW e \in Slabs
        PROVE  /\ IsInjective(t.free[e]) /\ IsInjective(t.lru[e])
               /\ Range(t.free[e]) \cap Range(t.lru[e]) = {}
               /\ Range(t.free[e]) \cap G = {} /\ Range(t.lru[e]) \cap G = {}
               /\ \A j \in Range(t.free[e]) \cup Range(t.lru[e]) :
                    j \in DOMAIN t.item /\ j[1] = e
    <3>1. i \notin Range(s.lru[e])
      BY <1>4 DEF Linked
    <3>2. /\ IsInjective(s.lru[e]) /\ Range(s.free[e]) \cap Range(s.lru[e]) = {}
          /\ Range(s.free[e]) \cap F = {} /\ Range(s.lru[e]) \cap F = {}
          /\ \A j \in Range(s.free[e]) \cup Range(s.lru[e]) : j \in DOMAIN s.item /\ j[1] = e
      BY DEF Good, ChunksGood
    <3>3. t.lru[e] = s.lru[e] /\ DOMAIN t.item = DOMAIN s.item
      BY <1>7, <1>10
    <3>4. QED
      BY <1>2, <2>2, <3>1, <3>2, <3>3
  <2>4. \A j \in DOMAIN t.item :
          j \in G \/ j \in Range(t.free[j[1]]) \/ j \in Range(t.lru[j[1]])
    <3>1. \A j \in DOMAIN s.item : j[1] \in Slabs
      BY <1>1, ItemMapType, ItemNamePair
    <3>2. \A j \in DOMAIN s.item :
            j \in F \/ j \in Range(s.free[j[1]]) \/ j \in Range(s.lru[j[1]])
      BY DEF Good, ChunksGood
    <3>3. t.lru = s.lru /\ DOMAIN t.item = DOMAIN s.item
      BY <1>7, <1>10
    <3>4. QED
      BY <2>2, <3>1, <3>2, <3>3
  <2>5. \A j \in Linked(t) \cup G : Settled(t, j)
    <3>1. \A j \in Linked(t) \cup G : j \in DOMAIN s.item \ {i} /\ Settled(s, j)
      BY <1>4, <1>11, <1>12 DEF Good, ChunksGood
    <3>2. QED
      BY <1>7, <1>10, <3>1 DEF Settled
  <2>6. QED
    BY <2>1, <2>3, <2>4, <2>5 DEF ChunksGood
<1>14. IndexGood(t)
  <2>1. \A j \in Linked(s) : t.item[j] = s.item[j]
    BY <1>4, <1>7, <1>10, <1>12
  <2>2. QED
    BY <1>10, <1>11, <2>1 DEF Good, IndexGood
<1>15. CountsGood(t)
  BY <1>10, <1>11 DEF Good, CountsGood
<1>16. QED
  BY <1>7, <1>9, <1>10, <1>11, <1>13, <1>14, <1>15 DEF Good, t, l, d, f

\* item_relink moves an item to the head of its list: nothing else changes.
LEMMA Relink ==
  ASSUME NEW s, NEW F, Good(s, F), NEW i \in Linked(s)
  PROVE  LET t == ItemRelink(s, i)
         IN  /\ Good(t, F) /\ SameChunks(s, t) /\ SameIndex(s, t)
             /\ Linked(t) = Linked(s)
<1> DEFINE u == ItemUnlink(s, i)
           t == ItemRelink(s, i)
<1>1. /\ i \in ItemName /\ i[1] \in Slabs /\ i \in Range(s.lru[i[1]])
      /\ \A c \in Slabs : \A j \in Range(s.lru[c]) : j[1] = c
  BY LinkedByClass DEF Good
<1>2. /\ u \in Segment /\ SameChunks(s, u) /\ SameIndex(s, u)
      /\ Linked(u) = Linked(s) \ {i}
      /\ \A c \in Slabs :
           IsInjective(u.lru[c]) /\ Range(u.lru[c]) = Range(s.lru[c]) \ {i}
  BY Unlink DEF Good
<1>3. u.item[i].clsid = i[1]
  BY <1>2 DEF Good, ChunksGood, Settled, SameChunks
<1> HIDE DEF u
<1>4. /\ t \in Segment /\ SameChunks(u, t) /\ SameIndex(u, t)
      /\ Linked(t) = Linked(u) \cup {i}
      /\ \A c \in Slabs :
           /\ IsInjective(t.lru[c])
           /\ Range(t.lru[c]) = IF c = i[1] THEN {i} \cup Range(u.lru[c]) ELSE Range(u.lru[c])
  <2>1. t = ItemLink(u, i)
    BY DEF ItemRelink, u
  <2>2. i \notin Linked(u) /\ \A c \in Slabs : IsInjective(u.lru[c])
    BY <1>2
  <2> HIDE DEF t
  <2>3. u \in Segment /\ i \in ItemName /\ u.item[i].clsid = i[1]
    BY <1>1, <1>2, <1>3
  <2>4. /\ ItemLink(u, i) \in Segment /\ SameChunks(u, ItemLink(u, i))
        /\ SameIndex(u, ItemLink(u, i)) /\ Linked(ItemLink(u, i)) = Linked(u) \cup {i}
        /\ \A c \in Slabs :
             /\ IsInjective(ItemLink(u, i).lru[c])
             /\ Range(ItemLink(u, i).lru[c]) =
                  IF c = i[1] THEN {i} \cup Range(u.lru[c]) ELSE Range(u.lru[c])
    BY <2>2, <2>3, Link
  <2>5. QED
    BY <2>1, <2>4
<1> HIDE DEF t
<1>5. /\ SameChunks(s, t) /\ SameIndex(s, t) /\ Linked(t) = Linked(s)
  BY <1>2, <1>4 DEF SameChunks, SameIndex
<1>6. ASSUME NEW c \in Slabs PROVE Range(t.lru[c]) = Range(s.lru[c])
  <2>1. Range(u.lru[c]) = Range(s.lru[c]) \ {i}
    BY <1>2
  <2>2. CASE c = i[1]
    BY <2>1, <2>2, <1>1, <1>4
  <2>3. CASE c # i[1]
    BY <2>1, <2>3, <1>1, <1>4, ZenonT(60)
  <2>4. QED
    BY <2>2, <2>3
<1>7. ChunksGood(t, F)
  <2>1. t.item = s.item /\ t.free = s.free /\ t.carved = s.carved
    BY <1>5 DEF SameChunks
  <2>2. \A j \in DOMAIN s.item : j[1] \in Slabs
    BY LinkedByClass, ItemNamePair DEF Good
  <2>3. \A j \in DOMAIN s.item :
          j \in F \/ j \in Range(s.free[j[1]]) \/ j \in Range(s.lru[j[1]])
    BY DEF Good, ChunksGood
  <2>4. \A j \in DOMAIN t.item :
          j \in F \/ j \in Range(t.free[j[1]]) \/ j \in Range(t.lru[j[1]])
    BY <1>6, <2>1, <2>2, <2>3
  <2>5. \A c \in Slabs :
          /\ IsInjective(t.free[c]) /\ IsInjective(t.lru[c])
          /\ Range(t.free[c]) \cap Range(t.lru[c]) = {}
          /\ Range(t.free[c]) \cap F = {} /\ Range(t.lru[c]) \cap F = {}
          /\ \A j \in Range(t.free[c]) \cup Range(t.lru[c]) : j \in DOMAIN t.item /\ j[1] = c
    BY <1>4, <1>6, <2>1 DEF Good, ChunksGood
  <2>6. QED
    BY <1>5, <2>1, <2>4, <2>5 DEF Good, ChunksGood, Settled
<1>8. IndexGood(t)
  BY <1>5 DEF Good, IndexGood, SameChunks, SameIndex
<1>9. CountsGood(t)
  BY <1>5 DEF Good, CountsGood, SameChunks, SameIndex
<1>10. QED
  BY <1>4, <1>5, <1>7, <1>8, <1>9 DEF Good, t

\* Del, replace, incr and the eviction give a linked item back.
LEMMA Released ==
  ASSUME NEW s, NEW F, Good(s, F), NEW i \in Linked(s)
  PROVE  LET t == Release(s, s.item[i].key, i)
         IN  /\ Good(t, F)
             /\ Linked(t) = Linked(s) \ {i} /\ DOMAIN t.item = DOMAIN s.item
             /\ \A j \in DOMAIN s.item \ {i} : t.item[j] = s.item[j]
             /\ t.free = [s.free EXCEPT ![i[1]] = Cons(i, @)]
             /\ t.carved = s.carved /\ t.mem_used = s.mem_used
<1> DEFINE u == Unhooked(s, i)
           t == Release(s, s.item[i].key, i)
<1>1. /\ Good(u, F \cup {i}) /\ SameChunks(s, u)
      /\ Linked(u) = Linked(s) \ {i}
  BY Unhook
<1>2. i \notin F
  BY LinkedByClass DEF Good
<1>3. t = ItemFree(u, i)
  BY DEF Release, Unhooked
<1> HIDE DEF u
<1>4. LET v == ItemFree(u, i)
      IN  /\ Good(v, (F \cup {i}) \ {i})
          /\ v.free = [u.free EXCEPT ![i[1]] = Cons(i, @)]
          /\ v.carved = u.carved /\ v.mem_used = u.mem_used
          /\ Linked(v) = Linked(u) /\ DOMAIN v.item = DOMAIN u.item
          /\ \A j \in DOMAIN u.item \ {i} : v.item[j] = u.item[j]
  BY <1>1, Freed
<1>5. (F \cup {i}) \ {i} = F
  BY <1>2
<1>6. QED
  BY <1>1, <1>3, <1>4, <1>5 DEF SameChunks

\* The bytes of no class but one change when a page is carved for that.
LEMMA PoolGrows ==
  ASSUME NEW carved \in [Slabs -> Nat], NEW grown \in [Slabs -> Nat], NEW id \in Slabs,
         grown[id] = carved[id] + SlabCount[id],
         \A c \in Slabs \ {id} : grown[c] = carved[c]
  PROVE  PoolBytes(grown) = PoolBytes(carved) + PageLen(id)
<1> DEFINE f == [c \in Slabs |-> SlabSize[c] * carved[c]]
           g == [c \in Slabs |-> SlabSize[c] * grown[c]]
<1>1. IsFiniteSet(Slabs)
  BY ParamAssumption, FS_Interval DEF Slabs
<1>2. \A c \in Slabs : SlabSize[c] \in Nat /\ SlabCount[c] \in Nat
  BY ParamAssumption
<1>3. ASSUME NEW a \in Nat, NEW b \in Nat PROVE a * b \in Nat
  OBVIOUS
<1>4. \A c \in Slabs : f[c] \in Nat /\ g[c] \in Nat
  BY <1>2, <1>3
<1>5. \A c \in Slabs \ {id} : f[c] = g[c]
  OBVIOUS
<1>6. g[id] - f[id] = PageLen(id)
  <2>1. ASSUME NEW a \in Nat, NEW b \in Nat, NEW n \in Nat PROVE a * (b + n) - a * b = a * n
    OBVIOUS
  <2>2. QED
    BY <1>2, <2>1 DEF PageLen
<1>7. PoolBytes(carved) = SumFunctionOnSet(f, Slabs) /\ PoolBytes(grown) = SumFunctionOnSet(g, Slabs)
  BY DEF PoolBytes, SumFunction
<1> HIDE DEF f, g
<1>8. SumFunctionOnSet(g, Slabs) = SumFunctionOnSet(f, Slabs) + (g[id] - f[id])
  BY <1>1, <1>4, <1>5, SumChanges
<1>9. QED
  BY <1>6, <1>7, <1>8

\* What format_slabs carves is a page for each class.
LEMMA PoolFormatted == MemFormatted \in Nat /\ MemFormatted = PoolBytes(SlabCount)
<1> DEFINE f == [c \in Slabs |-> PageLen(c)]
<1>1. IsFiniteSet(Slabs)
  BY ParamAssumption, FS_Interval DEF Slabs
<1>2. \A c \in Slabs : f[c] \in Nat /\ f[c] = SlabSize[c] * SlabCount[c]
  <2>1. \A c \in Slabs : SlabSize[c] \in Nat /\ SlabCount[c] \in Nat
    BY ParamAssumption
  <2>2. ASSUME NEW a \in Nat, NEW b \in Nat PROVE a * b \in Nat
    OBVIOUS
  <2>3. QED
    BY <2>1, <2>2 DEF PageLen
<1>3. f = [c \in Slabs |-> SlabSize[c] * SlabCount[c]]
  BY <1>2
<1>4. MemFormatted = SumFunctionOnSet(f, Slabs) /\ PoolBytes(SlabCount) = SumFunctionOnSet(f, Slabs)
  BY <1>3 DEF MemFormatted, PoolBytes, SumFunction
<1> HIDE DEF f
<1>5. QED
  BY <1>1, <1>2, <1>4, SumNat

\* A page adds its chunks to the free list of its class and to nothing else.
LEMMA Carved ==
  ASSUME NEW s, NEW F, Good(s, F), NEW id \in Slabs, s.mem_used + PageLen(id) < MemLimit
  PROVE  LET t == CarvePage(s, id)
         IN  /\ Good(t, F)
             /\ Linked(t) = Linked(s) /\ DOMAIN s.item \subseteq DOMAIN t.item
             /\ \A j \in DOMAIN s.item : t.item[j] = s.item[j]
             /\ SlabCount[id] > 0 => t.free[id] # <<>>
<1> DEFINE n      == SlabCount[id]
           old    == s.carved[id]
           carved == [s.carved EXCEPT ![id] = @ + n]
           new    == [j \in 1 .. n |-> <<id, old + n + 1 - j>>]
           l      == new \o s.free[id]
           f      == [i \in Chunks(carved) |->
                        IF i \in DOMAIN s.item THEN s.item[i] ELSE Dead(0)]
           m      == s.mem_used + PageLen(id)
           t      == CarvePage(s, id)
<1>1. /\ s \in Segment /\ s.carved \in [Slabs -> Nat] /\ s.free \in [Slabs -> Seq(ItemName)]
      /\ s.item \in ItemMap /\ s.mem_used \in Nat
  BY DEF Good, Segment
<1>2. n \in Nat /\ old \in Nat /\ PageLen(id) \in Nat
  BY <1>1, ParamAssumption DEF PageLen
<1>3. carved \in [Slabs -> Nat] /\ carved[id] = old + n
      /\ \A c \in Slabs \ {id} : carved[c] = s.carved[c]
  BY <1>1, <1>2
<1>4. DOMAIN s.item = Chunks(s.carved)
  BY DEF Good, ChunksGood
<1>5. Chunks(s.carved) \subseteq Chunks(carved)
  <2>1. \A i \in ItemName : i[2] <= s.carved[i[1]] => i[2] <= carved[i[1]]
    <3> SUFFICES ASSUME NEW i \in ItemName, i[2] <= s.carved[i[1]]
                 PROVE  i[2] <= carved[i[1]]
      OBVIOUS
    <3>1. CASE i[1] = id
      BY <3>1, <1>2, <1>3, ItemNamePair
    <3>2. CASE i[1] # id
      BY <3>2, <1>3, ItemNamePair
    <3>3. QED
      BY <3>1, <3>2
  <2>2. QED
    BY <2>1, <1>1, <1>3, ChunkNames
<1>6. /\ new \in Seq(ItemName) /\ IsInjective(new)
      /\ \A i \in Range(new) : i \in Chunks(carved) /\ i \notin Chunks(s.carved) /\ i[1] = id
      /\ \A i \in Chunks(carved) \ Chunks(s.carved) : i \in Range(new) /\ i[1] = id
  <2>1. ASSUME NEW j \in 1 .. n
        PROVE  /\ new[j] \in ItemName /\ new[j][1] = id
               /\ new[j][2] = old + n + 1 - j
               /\ new[j] \in Chunks(carved) /\ new[j] \notin Chunks(s.carved)
    <3>1. new[j] = <<id, old + n + 1 - j>>
      OBVIOUS
    <3>2. old + n + 1 - j \in Nat \ {0} /\ old + n + 1 - j <= old + n /\ old + n + 1 - j > old
      BY <1>2
    <3>3. new[j] \in ItemName
      BY <3>1, <3>2 DEF ItemName
    <3> DEFINE x == new[j]
    <3>4. x \in ItemName /\ x[1] = id /\ x[2] = old + n + 1 - j
      BY <3>1, <3>3
    <3> HIDE DEF x
    <3>5. x[2] <= carved[x[1]] /\ ~(x[2] <= s.carved[x[1]])
      BY <3>2, <3>4, <1>2, <1>3
    <3>6. x \in Chunks(carved) /\ x \notin Chunks(s.carved)
      BY <3>4, <3>5, <1>1, <1>3, ChunkNames
    <3>7. QED
      BY <3>4, <3>6 DEF x
  <2>2. new \in Seq(ItemName) /\ DOMAIN new = 1 .. n
    <3>1. \A j \in 1 .. n : new[j] \in ItemName
      BY <2>1
    <3>2. new \in [1 .. n -> ItemName]
      BY <3>1
    <3> HIDE DEF new
    <3>3. QED
      BY <3>2, <1>2, SeqDef
  <2>3. IsInjective(new)
    <3>1. ASSUME NEW a \in 1 .. n, NEW b \in 1 .. n, new[a] = new[b] PROVE a = b
      <4>1. new[a][2] = old + n + 1 - a /\ new[b][2] = old + n + 1 - b
        BY <2>1
      <4>2. old + n + 1 - a = old + n + 1 - b
        BY <4>1, <3>1
      <4> HIDE DEF new, old
      <4>3. QED
        BY <4>2, <1>2
    <3> HIDE DEF new
    <3>2. QED
      BY <2>2, <3>1 DEF IsInjective
  <2>4. ASSUME NEW i \in Chunks(carved), i \notin Chunks(s.carved)
        PROVE  i \in Range(new) /\ i[1] = id
    <3>1. i \in ItemName /\ i[2] <= carved[i[1]] /\ ~(i[2] <= s.carved[i[1]])
      BY <2>4, <1>1, <1>3, ChunkNames
    <3>2. i[1] = id
      BY <3>1, <1>3, ItemNamePair
    <3>3. i[2] \in old + 1 .. old + n /\ i = <<id, i[2]>>
      BY <3>1, <3>2, <1>2, <1>3, ItemNamePair
    <3> DEFINE a == old + n + 1 - i[2]
    <3>4. a \in 1 .. n /\ old + n + 1 - a = i[2]
      BY <3>3, <1>2
    <3>5. new[a] = i
      BY <3>3, <3>4
    <3>6. QED
      BY <3>2, <3>4, <3>5, <2>2 DEF Range
  <2>5. \A i \in Range(new) : i \in Chunks(carved) /\ i \notin Chunks(s.carved) /\ i[1] = id
    BY <2>1, <2>2 DEF Range
  <2>6. QED
    BY <2>2, <2>3, <2>4, <2>5
<1> HIDE DEF new, carved
<1>7. IsInjective(s.free[id]) /\ Range(s.free[id]) \subseteq DOMAIN s.item
  BY DEF Good, ChunksGood
<1>8. l \in Seq(ItemName) /\ IsInjective(l) /\ Range(l) = Range(new) \cup Range(s.free[id])
  <2>1. Range(new) \cap Range(s.free[id]) = {}
    BY <1>4, <1>6, <1>7
  <2>2. QED
    BY <2>1, <1>1, <1>6, <1>7, ConcatList
<1>9. /\ f \in ItemMap /\ DOMAIN f = Chunks(carved)
      /\ \A j \in DOMAIN s.item : j \in DOMAIN f /\ f[j] = s.item[j]
  <2>1. Chunks(carved) \subseteq ItemName
    BY <1>3, ChunkNames
  <2>2. \A i \in DOMAIN s.item : s.item[i] \in ItemType
    BY <1>1, ItemMapType
  <2>3. Dead(0) \in ItemType
    BY DeadType DEF Flags
  <2>4. f \in [Chunks(carved) -> ItemType]
    BY <2>2, <2>3
  <2>5. QED
    BY <2>1, <2>4, <1>4, <1>5 DEF ItemMap
<1>10. m \in Nat /\ m < MemLimit
  BY <1>1, <1>2
<1>11. t = [s EXCEPT !.mem_used = m, !.carved = carved, !.free[id] = l, !.item = f]
  BY <1>1 DEF CarvePage, carved, new
<1> HIDE DEF l, f, m, t
<1>12. t \in Segment
  BY <1>1, <1>3, <1>8, <1>9, <1>10, <1>11 DEF Segment
<1>13. /\ t.mem_used = m /\ t.carved = carved /\ t.item = f
       /\ t.free = [s.free EXCEPT ![id] = l]
       /\ t.lru = s.lru /\ t.bucket = s.bucket /\ t.nitems = s.nitems
  BY <1>1, <1>11 DEF Segment
<1>14. Linked(t) = Linked(s)
  BY <1>13 DEF Linked
<1>15. Linked(s) \subseteq DOMAIN s.item /\ F \subseteq DOMAIN s.item
  BY LinkedByClass DEF Good, ChunksGood
<1>16. ChunksGood(t, F)
  <2>1. DOMAIN t.item = Chunks(t.carved) /\ F \subseteq DOMAIN t.item
    BY <1>9, <1>13, <1>15
  <2>2. ASSUME NEW c \in Slabs
        PROVE  /\ IsInjective(t.free[c])
               /\ Range(t.free[c]) = IF c = id THEN Range(new) \cup Range(s.free[id])
                                               ELSE Range(s.free[c])
    <3>1. s.free \in [Slabs -> Seq(ItemName)] /\ IsInjective(s.free[c])
      BY <1>1 DEF Good, ChunksGood, Segment
    <3>2. t.free[c] = IF c = id THEN l ELSE s.free[c]
      BY <1>13, <3>1, Zenon
    <3>3. QED
      BY <1>8, <3>1, <3>2, Zenon
  <2>3. ASSUME NEW c \in Slabs
        PROVE  /\ IsInjective(t.free[c]) /\ IsInjective(t.lru[c])
               /\ Range(t.free[c]) \cap Range(t.lru[c]) = {}
               /\ Range(t.free[c]) \cap F = {} /\ Range(t.lru[c]) \cap F = {}
               /\ \A j \in Range(t.free[c]) \cup Range(t.lru[c]) :
                    j \in DOMAIN t.item /\ j[1] = c
    <3>1. /\ IsInjective(s.lru[c]) /\ Range(s.free[c]) \cap Range(s.lru[c]) = {}
          /\ Range(s.free[c]) \cap F = {} /\ Range(s.lru[c]) \cap F = {}
          /\ \A j \in Range(s.free[c]) \cup Range(s.lru[c]) : j \in DOMAIN s.item /\ j[1] = c
      BY DEF Good, ChunksGood
    <3>2. \A j \in Range(new) : j \notin DOMAIN s.item /\ j \in DOMAIN t.item /\ j[1] = id
      BY <1>4, <1>6, <1>9, <1>13
    <3>3. t.lru[c] = s.lru[c] /\ DOMAIN s.item \subseteq DOMAIN t.item
      BY <1>9, <1>13
    <3>4. QED
      BY <1>15, <2>2, <3>1, <3>2, <3>3
  <2>4. ASSUME NEW j \in DOMAIN t.item
        PROVE  j \in F \/ j \in Range(t.free[j[1]]) \/ j \in Range(t.lru[j[1]])
    <3>1. CASE j \in DOMAIN s.item
      <4>1. j[1] \in Slabs
        BY <3>1, <1>1, ItemMapType, ItemNamePair
      <4>2. j \in F \/ j \in Range(s.free[j[1]]) \/ j \in Range(s.lru[j[1]])
        BY <3>1 DEF Good, ChunksGood
      <4>3. QED
        BY <4>1, <4>2, <2>2, <1>13
    <3>2. CASE j \notin DOMAIN s.item
      BY <3>2, <1>4, <1>6, <1>9, <1>13, <2>2
    <3>3. QED
      BY <3>1, <3>2
  <2>5. \A j \in Linked(t) \cup F : Settled(t, j)
    <3>1. \A j \in Linked(t) \cup F : j \in DOMAIN s.item /\ Settled(s, j)
      BY <1>14, <1>15 DEF Good, ChunksGood
    <3>2. QED
      BY <3>1, <1>9, <1>13 DEF Settled
  <2>6. QED
    BY <2>1, <2>3, <2>4, <2>5 DEF ChunksGood
<1>17. IndexGood(t)
  <2>1. \A j \in Linked(s) : t.item[j] = s.item[j]
    BY <1>9, <1>13, <1>15
  <2>2. QED
    BY <1>13, <1>14, <2>1 DEF Good, IndexGood
<1>18. CountsGood(t)
  <2>1. \A c \in Slabs :
          SlabCount[c] <= s.carved[c] /\ (SlabCount[c] = 0 => s.carved[c] = 0)
    BY DEF Good, CountsGood
  <2>1a. PoolBytes(carved) = m
    <3>1. s.mem_used = PoolBytes(s.carved)
      BY DEF Good, CountsGood
    <3>2. PoolBytes(carved) = PoolBytes(s.carved) + PageLen(id)
      BY <1>1, <1>3, PoolGrows
    <3>3. QED
      BY <3>1, <3>2 DEF m
  <2>2. ASSUME NEW c \in Slabs
        PROVE  SlabCount[c] <= carved[c] /\ (SlabCount[c] = 0 => carved[c] = 0)
    <3>1. CASE c = id
      <4>1. n <= old + n /\ (n = 0 => old = 0 /\ old + n = 0)
        BY <1>2, <2>1
      <4>2. QED
        BY <3>1, <4>1, <1>3
    <3>2. CASE c # id
      BY <3>2, <2>1, <1>3
    <3>3. QED
      BY <3>1, <3>2
  <2>3. QED
    BY <2>1a, <2>2, <1>10, <1>13, <1>14 DEF Good, CountsGood
<1>19. SlabCount[id] > 0 => t.free[id] # <<>>
  <2> SUFFICES ASSUME SlabCount[id] > 0 PROVE l # <<>>
    BY <1>1, <1>13
  <2> DEFINE x == <<id, old + n>>
  <2>1. x \in ItemName /\ x[1] = id /\ x[2] = old + n
    BY <1>2 DEF ItemName
  <2> HIDE DEF x
  <2>2. x[2] <= carved[x[1]] /\ ~(x[2] <= s.carved[x[1]])
    BY <2>1, <1>2, <1>3
  <2>3. x \in Range(l)
    BY <2>1, <2>2, <1>1, <1>3, <1>6, <1>8, ChunkNames
  <2>4. QED
    BY <2>3, EmptyList
<1>20. QED
  BY <1>9, <1>12, <1>13, <1>14, <1>16, <1>17, <1>18, <1>19 DEF Good, t

\* Class id has neither a free chunk nor room for a page, and the last item of
\* its list has been evicted.
Evicted(s, id, t) ==
  /\ EvictToFree /\ s.free[id] = <<>> /\ ~(s.mem_used + PageLen(id) < MemLimit)
  /\ Last(s.lru[id]) \in Linked(s) /\ Last(s.lru[id])[1] = id
  /\ Linked(t) = Linked(s) \ {Last(s.lru[id])}

\* Before an allocation a free chunk is looked for: one may be there, a page may
\* be cut, or the last item of the class may be evicted, whose chunk is then the
\* one that is handed out. Where there are chunks eviction always finds one.
LEMMA Refilled ==
  ASSUME NEW s, Good(s, {}), NEW id \in Slabs
  PROVE  LET t == Refill(s, id)
         IN  /\ Good(t, {})
             /\ Linked(t) \subseteq Linked(s)
             /\ \A j \in Linked(t) : t.item[j] = s.item[j]
             /\ t.free[id] # <<>> =>
                  \A j \in Linked(s) : j \in Linked(t) \/ j = Head(t.free[id])
             /\ \/ Linked(t) = Linked(s)
                \/ /\ Evicted(s, id, t)
                   /\ t.free[id] # <<>> /\ Head(t.free[id]) = Last(s.lru[id])
             /\ EvictToFree /\ SlabCount[id] > 0 => t.free[id] # <<>>
<1> DEFINE t == Refill(s, id)
           i == Last(s.lru[id])
           e == Release(s, s.item[i].key, i)
<1>1. /\ s.lru[id] \in Seq(ItemName) /\ s.free \in [Slabs -> Seq(ItemName)]
      /\ s.carved \in [Slabs -> Nat]
  BY DEF Good, Segment
<1>2. CASE s.free[id] # <<>>
  BY <1>2 DEF Refill
<1>3. CASE s.free[id] = <<>> /\ s.mem_used + PageLen(id) < MemLimit
  <2>1. t = CarvePage(s, id)
    BY <1>3 DEF Refill
  <2>2. Linked(s) \subseteq DOMAIN s.item
    BY LinkedByClass DEF Good
  <2> HIDE DEF t
  <2>3. LET v == CarvePage(s, id)
        IN  /\ Good(v, {})
            /\ Linked(v) = Linked(s) /\ DOMAIN s.item \subseteq DOMAIN v.item
            /\ \A j \in DOMAIN s.item : v.item[j] = s.item[j]
            /\ SlabCount[id] > 0 => v.free[id] # <<>>
    BY <1>3, Carved
  <2>4. QED
    BY <2>1, <2>2, <2>3 DEF t
<1>4. CASE /\ s.free[id] = <<>> /\ s.lru[id] # <<>> /\ t = e
           /\ EvictToFree /\ ~(s.mem_used + PageLen(id) < MemLimit)
  <2>1. i \in Range(s.lru[id])
    BY <1>1, <1>4, LastList
  <2>2. i \in Linked(s) /\ i[1] = id
    BY <2>1, LinkedByClass DEF Good
  <2> HIDE DEF t, i
  <2>3. /\ Good(e, {})
        /\ Linked(e) = Linked(s) \ {i} /\ DOMAIN e.item = DOMAIN s.item
        /\ \A j \in DOMAIN s.item \ {i} : e.item[j] = s.item[j]
        /\ e.free = [s.free EXCEPT ![i[1]] = Cons(i, @)]
    BY <2>2, Released
  <2> HIDE DEF e
  <2>4. e.free[id] = Cons(i, <<>>)
    BY <2>2, <2>3, <1>1, <1>4
  <2>5. e.free[id] # <<>> /\ Head(e.free[id]) = i
    BY <2>4 DEF Cons
  <2>6. Linked(s) \subseteq DOMAIN s.item
    BY LinkedByClass DEF Good
  <2>7. Evicted(s, id, e)
    BY <1>4, <2>2, <2>3 DEF Evicted, i
  <2>8. QED
    BY <1>4, <2>2, <2>3, <2>5, <2>6, <2>7 DEF t, i
<1>5. CASE s.free[id] = <<>> /\ t = s /\ (EvictToFree => s.lru[id] = <<>>)
  <2>1. ASSUME EvictToFree, SlabCount[id] > 0 PROVE FALSE
    <3> DEFINE x == <<id, 1>>
    <3>1. SlabCount[id] \in Nat /\ SlabCount[id] <= s.carved[id]
      BY ParamAssumption DEF Good, CountsGood
    <3>2. x \in ItemName /\ x[1] = id /\ x[2] = 1
      BY DEF ItemName
    <3> HIDE DEF x
    <3>3. x[2] <= s.carved[x[1]]
      BY <2>1, <3>1, <3>2, <1>1
    <3>4. x \in DOMAIN s.item
      BY <3>2, <3>3, <1>1, ChunkNames DEF Good, ChunksGood
    <3>5. x \in Range(s.free[id]) \/ x \in Range(s.lru[id])
      BY <3>2, <3>4 DEF Good, ChunksGood
    <3>6. QED
      BY <3>5, <2>1, <1>5, EmptyList
  <2>2. QED
    BY <2>1, <1>5
<1>6. QED
  BY <1>2, <1>3, <1>4, <1>5 DEF Refill, EvictTail

\* What an allocation for lengths nkey and nval may leave of segment s: t, with
\* chunk i in hand unless i is null.
Handed(s, nkey, nval, t, i) ==
  /\ i = NoItem => Good(t, {})
  /\ i # NoItem =>
       /\ Good(t, {i}) /\ t.item[i].nkey = nkey /\ t.item[i].nval = nval
       /\ i[1] = ItemClsid(nkey, nval)
       /\ \A j \in Linked(s) : j \in Linked(t) \/ j = i
  /\ \A j \in Linked(t) : j \in Linked(s) /\ t.item[j] = s.item[j]
  /\ \/ Linked(t) = Linked(s)
     \/ Evicted(s, ItemClsid(nkey, nval), t) /\ i # NoItem /\ i = Last(s.lru[ItemClsid(nkey, nval)])
  /\ EvictToFree /\ SlabCount[ItemClsid(nkey, nval)] > 0 => i # NoItem

\* item_alloc hands out a chunk of the class of the lengths, which are written
\* in it. An item that was linked still is, unchanged, or is that chunk. Where no
\* class is without chunks and eviction is on, it never answers null.
LEMMA Allocated ==
  ASSUME NEW s, Good(s, {}), NEW nkey \in Nat, NEW nval \in Nat,
         ItemClsid(nkey, nval) \in Slabs
  PROVE  Handed(s, nkey, nval, ItemAlloc(s, nkey, nval).shm, ItemAlloc(s, nkey, nval).item)
<1> DEFINE id == ItemClsid(nkey, nval)
           r  == Refill(s, id)
           i  == Head(r.free[id])
           l  == Tail(r.free[id])
           x  == [r.item[i] EXCEPT !.clsid = id, !.nkey = nkey, !.nval = nval]
           f  == [r.item EXCEPT ![i] = x]
           t  == [r EXCEPT !.free[id] = l, !.item = f]
           a  == ItemAlloc(s, nkey, nval)
<1>1. /\ Good(r, {})
      /\ Linked(r) \subseteq Linked(s)
      /\ \A j \in Linked(r) : r.item[j] = s.item[j]
      /\ r.free[id] # <<>> => \A j \in Linked(s) : j \in Linked(r) \/ j = i
      /\ Linked(r) = Linked(s) \/ (Evicted(s, id, r) /\ r.free[id] # <<>> /\ i = Last(s.lru[id]))
      /\ EvictToFree /\ SlabCount[id] > 0 => r.free[id] # <<>>
  BY Refilled
<1>2. CASE r.free[id] = <<>>
  BY <1>1, <1>2 DEF ItemAlloc, Handed
<1>3. CASE r.free[id] # <<>>
  <2> HIDE DEF r
  <2>1. /\ r \in Segment /\ r.free \in [Slabs -> Seq(ItemName)] /\ r.item \in ItemMap
        /\ IsInjective(r.free[id])
    BY <1>1 DEF Good, Segment, ChunksGood
  <2>2. /\ i \in Range(r.free[id]) /\ l \in Seq(ItemName) /\ IsInjective(l)
        /\ Range(l) = Range(r.free[id]) \ {i}
    BY <1>3, <2>1, TailList
  <2>3. i \in DOMAIN r.item /\ i[1] = id
    BY <1>1, <2>2 DEF Good, ChunksGood
  <2>4. i \in ItemName /\ r.item[i] \in ItemType
    BY <2>1, <2>3, ItemMapType
  <2>5. i # NoItem
    BY <2>4, ItemNamePair, ParamAssumption DEF NoItem, Slabs
  <2>6. /\ x \in ItemType /\ x.clsid = id /\ x.nkey = nkey /\ x.nval = nval
    BY <2>4 DEF ItemType
  <2> HIDE DEF x, l
  <2>7. /\ f \in ItemMap /\ DOMAIN f = DOMAIN r.item /\ f[i] = x
        /\ \A j \in DOMAIN r.item \ {i} : f[j] = r.item[j]
    BY <2>1, <2>3, <2>6, ItemMapUpdate
  <2>8. a = [shm |-> t, item |-> i]
    <3>1. a = [shm  |-> [r EXCEPT !.free[id] = Tail(@),
                                  !.item[i].clsid = id,
                                  !.item[i].nkey  = nkey,
                                  !.item[i].nval  = nval],
               item |-> i]
      BY <1>3 DEF ItemAlloc, r
    <3>2. [r EXCEPT !.free[id] = Tail(@), !.item[i].clsid = id,
                    !.item[i].nkey  = nkey, !.item[i].nval  = nval] = t
      BY <2>1, <2>3, <2>4, ZenonT(60) DEF Segment, ItemType, l, x
    <3>3. QED
      BY <3>1, <3>2
  <2> HIDE DEF f, i, a
  <2>9. t \in Segment
    BY <2>1, <2>2, <2>7 DEF Segment
  <2>10. /\ t.free = [r.free EXCEPT ![id] = l] /\ t.item = f
         /\ t.lru = r.lru /\ t.carved = r.carved /\ t.mem_used = r.mem_used
         /\ t.bucket = r.bucket /\ t.nitems = r.nitems
    BY <2>1 DEF Segment
  <2> HIDE DEF t
  <2>11. Linked(t) = Linked(r)
    BY <2>10 DEF Linked
  <2>12. Linked(r) \subseteq DOMAIN r.item /\ i \notin Linked(r)
    <3>1. Linked(r) \subseteq DOMAIN r.item /\ \A j \in Linked(r) : j \in Range(r.lru[j[1]])
      BY <1>1, LinkedByClass DEF Good
    <3>2. i \notin Range(r.lru[i[1]])
      BY <1>1, <2>2, <2>3 DEF Good, ChunksGood
    <3>3. QED
      BY <3>1, <3>2
  <2>13. ChunksGood(t, {i})
    <3>1. DOMAIN t.item = Chunks(t.carved) /\ {i} \subseteq DOMAIN t.item
      BY <1>1, <2>3, <2>7, <2>10 DEF Good, ChunksGood
    <3>2. ASSUME NEW c \in Slabs
          PROVE  /\ IsInjective(t.free[c])
                 /\ Range(t.free[c]) = Range(r.free[c]) \ {i}
      <4>1. CASE c = id
        BY <4>1, <2>1, <2>2, <2>10
      <4>2. CASE c # id
        <5>1. t.free[c] = r.free[c]
          BY <4>2, <2>1, <2>10
        <5>2. i \notin Range(r.free[c]) /\ IsInjective(r.free[c])
          BY <4>2, <1>1, <2>3 DEF Good, ChunksGood
        <5>3. QED
          BY <5>1, <5>2
      <4>3. QED
        BY <4>1, <4>2
    <3>3. ASSUME NEW c \in Slabs
          PROVE  /\ IsInjective(t.free[c]) /\ IsInjective(t.lru[c])
                 /\ Range(t.free[c]) \cap Range(t.lru[c]) = {}
                 /\ Range(t.free[c]) \cap {i} = {} /\ Range(t.lru[c]) \cap {i} = {}
                 /\ \A j \in Range(t.free[c]) \cup Range(t.lru[c]) :
                      j \in DOMAIN t.item /\ j[1] = c
      <4>1. i \notin Range(r.lru[c])
        BY <2>12 DEF Linked
      <4>2. /\ IsInjective(r.lru[c]) /\ Range(r.free[c]) \cap Range(r.lru[c]) = {}
            /\ \A j \in Range(r.free[c]) \cup Range(r.lru[c]) : j \in DOMAIN r.item /\ j[1] = c
        BY <1>1 DEF Good, ChunksGood
      <4>3. t.lru[c] = r.lru[c] /\ DOMAIN t.item = DOMAIN r.item
        BY <2>7, <2>10
      <4>4. QED
        BY <3>2, <4>1, <4>2, <4>3
    <3>4. ASSUME NEW j \in DOMAIN t.item
          PROVE  j \in {i} \/ j \in Range(t.free[j[1]]) \/ j \in Range(t.lru[j[1]])
      <4>1. j \in DOMAIN r.item /\ j[1] \in Slabs
        BY <2>1, <2>7, <2>10, ItemMapType, ItemNamePair
      <4>2. j \in Range(r.free[j[1]]) \/ j \in Range(r.lru[j[1]])
        BY <1>1, <4>1 DEF Good, ChunksGood
      <4>3. QED
        BY <3>2, <4>1, <4>2, <2>10
    <3>5. \A j \in Linked(t) \cup {i} : Settled(t, j)
      <4>1. Settled(t, i)
        BY <2>3, <2>6, <2>7, <2>10 DEF Settled
      <4>2. \A j \in Linked(r) : Settled(r, j) /\ j \in DOMAIN r.item \ {i}
        BY <1>1, <2>12 DEF Good, ChunksGood
      <4>3. \A j \in Linked(r) : Settled(t, j)
        BY <4>2, <2>7, <2>10 DEF Settled
      <4>4. QED
        BY <4>1, <4>3, <2>11
    <3>6. QED
      BY <3>1, <3>3, <3>4, <3>5 DEF ChunksGood
  <2>14. \A j \in Linked(r) : t.item[j] = r.item[j]
    BY <2>7, <2>10, <2>12
  <2>15. IndexGood(t)
    BY <1>1, <2>10, <2>11, <2>14 DEF Good, IndexGood
  <2>16. CountsGood(t)
    BY <1>1, <2>10, <2>11 DEF Good, CountsGood
  <2>17. Good(t, {i})
    BY <2>9, <2>13, <2>15, <2>16 DEF Good
  <2>18. \A j \in Linked(s) : j \in Linked(r) \/ j = i
    BY <1>1, <1>3 DEF r, i
  <2>19. a.shm = t /\ a.item = i
    BY <2>8
  <2>20. /\ t.item[i].nkey = nkey /\ t.item[i].nval = nval
         /\ \A j \in Linked(t) : j \in Linked(s) /\ t.item[j] = s.item[j]
    BY <1>1, <2>6, <2>7, <2>10, <2>11, <2>14
  <2>21. Linked(t) = Linked(s) \/ (Evicted(s, id, t) /\ i = Last(s.lru[id]))
    BY <1>1, <2>11 DEF Evicted, i
  <2>22. QED
    BY <2>3, <2>5, <2>11, <2>17, <2>18, <2>19, <2>20, <2>21 DEF a, Handed
<1>4. QED
  BY <1>2, <1>3

\* The value and the flags of an item may be written as long as its lengths
\* still call for its class and its key stays.
LEMMA Rewritten ==
  ASSUME NEW s, NEW F, Good(s, F), NEW i \in DOMAIN s.item, NEW r \in ItemType,
         r.clsid = s.item[i].clsid, r.key = s.item[i].key, r.nkey = s.item[i].nkey,
         ItemClsid(r.nkey, r.nval) = ItemClsid(s.item[i].nkey, s.item[i].nval)
  PROVE  LET t == [s EXCEPT !.item[i] = r]
         IN  /\ Good(t, F) /\ Linked(t) = Linked(s) /\ t.item[i] = r
             /\ DOMAIN t.item = DOMAIN s.item
             /\ \A j \in DOMAIN s.item \ {i} : t.item[j] = s.item[j]
<1> DEFINE f == [s.item EXCEPT ![i] = r]
           t == [s EXCEPT !.item = f]
<1>1. s \in Segment /\ s.item \in ItemMap
  BY DEF Good, Segment
<1>2. /\ f \in ItemMap /\ DOMAIN f = DOMAIN s.item /\ f[i] = r
      /\ \A j \in DOMAIN s.item \ {i} : f[j] = s.item[j]
  BY <1>1, ItemMapUpdate
<1>3. [s EXCEPT !.item[i] = r] = t
  BY <1>1 DEF Segment
<1> HIDE DEF f
<1>4. t \in Segment
  BY <1>1, <1>2 DEF Segment
<1>5. /\ t.free = s.free /\ t.item = f /\ t.lru = s.lru /\ t.carved = s.carved
      /\ t.mem_used = s.mem_used /\ t.bucket = s.bucket /\ t.nitems = s.nitems
  BY <1>1 DEF Segment
<1> HIDE DEF t
<1>6. Linked(t) = Linked(s) /\ Linked(s) \subseteq DOMAIN s.item /\ F \subseteq DOMAIN s.item
  BY <1>5, LinkedByClass DEF Linked, Good, ChunksGood
<1>7. \A j \in DOMAIN s.item :
        /\ t.item[j].key = s.item[j].key /\ t.item[j].nkey = s.item[j].nkey
        /\ Settled(s, j) => Settled(t, j)
  BY <1>2, <1>5 DEF Settled
<1>8. ChunksGood(t, F)
  <2>1. \A j \in Linked(t) \cup F : Settled(t, j)
    BY <1>6, <1>7 DEF Good, ChunksGood
  <2>2. QED
    BY <2>1, <1>2, <1>5 DEF Good, ChunksGood
<1>9. IndexGood(t)
  BY <1>5, <1>6, <1>7 DEF Good, IndexGood
<1>10. CountsGood(t)
  BY <1>5, <1>6 DEF Good, CountsGood
<1>11. QED
  BY <1>2, <1>3, <1>4, <1>5, <1>6, <1>8, <1>9, <1>10 DEF Good

\* assoc_insert puts a chunk in the chain of the key it is to have.
LEMMA Insert ==
  ASSUME NEW s, NEW F, Good(s, F), NEW i \in F, NEW k \in Key
  PROVE  LET t == AssocInsert(s, k, i)
         IN  /\ t \in Segment /\ SameChunks(s, t) /\ t.lru = s.lru
             /\ t.nitems = s.nitems + 1
             /\ \A b \in Buckets :
                  /\ IsInjective(t.bucket[b])
                  /\ b = Slot[k] => Range(t.bucket[b]) = {i} \cup Range(s.bucket[b])
                  /\ b # Slot[k] => Range(t.bucket[b]) = Range(s.bucket[b])
<1> DEFINE b == Slot[k]
           l == Cons(i, s.bucket[b])
           n == s.nitems + 1
           t == AssocInsert(s, k, i)
<1>1. /\ s \in Segment /\ s.bucket \in [Buckets -> Seq(ItemName)] /\ s.nitems \in Int
      /\ b \in Buckets
  BY ParamAssumption DEF Good, Segment
<1>2. i \in ItemName /\ i \notin Linked(s)
  BY LinkedByClass DEF Good, ChunksGood
<1>3. i \notin Range(s.bucket[b]) /\ IsInjective(s.bucket[b])
  BY <1>1, <1>2 DEF Good, IndexGood
<1>4. l \in Seq(ItemName) /\ IsInjective(l) /\ Range(l) = {i} \cup Range(s.bucket[b])
  BY <1>1, <1>2, <1>3, ConsList
<1>5. t = [s EXCEPT !.bucket[b] = l, !.nitems = n]
  BY DEF AssocInsert
<1>6. n \in Int
  BY <1>1
<1> HIDE DEF l, n, t
<1>7. t \in Segment
  BY <1>1, <1>4, <1>5, <1>6 DEF Segment
<1>8. /\ SameChunks(s, t) /\ t.lru = s.lru
      /\ t.bucket = [s.bucket EXCEPT ![b] = l] /\ t.nitems = n
  BY <1>1, <1>5 DEF Segment, SameChunks
<1>9. ASSUME NEW d \in Buckets
      PROVE  /\ IsInjective(t.bucket[d])
             /\ d = b => Range(t.bucket[d]) = {i} \cup Range(s.bucket[d])
             /\ d # b => Range(t.bucket[d]) = Range(s.bucket[d])
  BY <1>1, <1>4, <1>8 DEF Good, IndexGood
<1>10. QED
  BY <1>7, <1>8, <1>9 DEF n, t

\* No linked item has key k.
Missing(s, k) == \A j \in Linked(s) : s.item[j].key # k

\* What t is of s once chunk i, which was in hand, is the item of key k.
Placed(s, F, k, i, body, t) ==
  /\ Good(t, F \ {i}) /\ i \in DOMAIN t.item
  /\ Linked(t) = Linked(s) \cup {i} /\ i \notin Linked(s)
  /\ t.item[i].key = k /\ t.item[i].body = body
  /\ t.item[i].nval = s.item[i].nval /\ t.item[i].flags = s.item[i].flags
  /\ \A j \in DOMAIN s.item \ {i} : t.item[j] = s.item[j]

\* A chunk in hand becomes the item of a key that has none.
LEMMA Entered ==
  ASSUME NEW s, NEW F, Good(s, F), NEW i \in F, NEW k \in Key, NEW body \in Seq(Part),
         s.item[i].nkey = KeyLen[k], Missing(s, k)
  PROVE  Placed(s, F, k, i, body, Enter(s, k, i, body))
<1> DEFINE v == AssocInsert(s, k, i)
           u == ItemLink(v, i)
           x == [s.item[i] EXCEPT !.key = k, !.body = body]
           f == [s.item EXCEPT ![i] = x]
           t == [u EXCEPT !.item = f]
           G == F \ {i}
<1>1. /\ v \in Segment /\ SameChunks(s, v) /\ v.lru = s.lru
      /\ v.nitems = s.nitems + 1
      /\ \A b \in Buckets :
           /\ IsInjective(v.bucket[b])
           /\ b = Slot[k] => Range(v.bucket[b]) = {i} \cup Range(s.bucket[b])
           /\ b # Slot[k] => Range(v.bucket[b]) = Range(s.bucket[b])
  BY Insert
<1>2. /\ i \in ItemName /\ i \notin Linked(s) /\ i \in DOMAIN s.item /\ i[1] \in Slabs
      /\ Settled(s, i) /\ Linked(s) \subseteq DOMAIN s.item /\ DOMAIN s.item \subseteq ItemName
      /\ F \subseteq DOMAIN s.item
  BY LinkedByClass, ItemNamePair DEF Good, ChunksGood
<1> HIDE DEF v
<1>3. Linked(v) = Linked(s)
  BY <1>1 DEF Linked
<1>4. /\ u \in Segment /\ SameChunks(v, u) /\ SameIndex(v, u)
      /\ Linked(u) = Linked(s) \cup {i}
      /\ \A c \in Slabs :
           /\ IsInjective(u.lru[c])
           /\ Range(u.lru[c]) = IF c = i[1] THEN {i} \cup Range(s.lru[c]) ELSE Range(s.lru[c])
  <2>1. v.item[i].clsid = i[1] /\ \A c \in Slabs : IsInjective(v.lru[c])
    BY <1>1, <1>2 DEF Good, ChunksGood, SameChunks, Settled
  <2>2. /\ ItemLink(v, i) \in Segment /\ SameChunks(v, ItemLink(v, i))
        /\ SameIndex(v, ItemLink(v, i)) /\ Linked(ItemLink(v, i)) = Linked(v) \cup {i}
        /\ \A c \in Slabs :
             /\ IsInjective(ItemLink(v, i).lru[c])
             /\ Range(ItemLink(v, i).lru[c]) =
                  IF c = i[1] THEN {i} \cup Range(v.lru[c]) ELSE Range(v.lru[c])
    BY <1>1, <1>2, <1>3, <2>1, Link
  <2>3. QED
    BY <1>1, <1>3, <2>2
<1> HIDE DEF u
<1>5. SameChunks(s, u) /\ u.bucket = v.bucket /\ u.nitems = s.nitems + 1
  BY <1>1, <1>4 DEF SameChunks, SameIndex
<1>6. s.item \in ItemMap /\ s.item[i] \in ItemType
  BY <1>2, ItemMapType DEF Good, Segment
<1>7. /\ x \in ItemType /\ x.key = k /\ x.nkey = KeyLen[k]
      /\ x.clsid = s.item[i].clsid /\ x.nval = s.item[i].nval
      /\ x.body = body /\ x.flags = s.item[i].flags
  BY <1>6 DEF ItemType
<1>8. Enter(s, k, i, body) = t
  <2>1. Enter(s, k, i, body) = [u EXCEPT !.item[i].key = k, !.item[i].body = body]
    BY DEF Enter, u, v
  <2>2. u.item = s.item
    BY <1>5 DEF SameChunks
  <2>3. QED
    BY <1>2, <1>4, <1>6, <2>1, <2>2 DEF Segment, ItemType
<1> HIDE DEF x
<1>9. /\ f \in ItemMap /\ DOMAIN f = DOMAIN s.item /\ f[i] = x
      /\ \A j \in DOMAIN s.item \ {i} : f[j] = s.item[j]
  BY <1>2, <1>6, <1>7, ItemMapUpdate
<1> HIDE DEF f
<1>10. t \in Segment
  BY <1>4, <1>9 DEF Segment
<1>11. /\ t.free = s.free /\ t.item = f /\ t.lru = u.lru /\ t.carved = s.carved
       /\ t.mem_used = s.mem_used /\ t.bucket = v.bucket /\ t.nitems = s.nitems + 1
  BY <1>4, <1>5 DEF Segment, SameChunks
<1> HIDE DEF t
<1>12. Linked(t) = Linked(s) \cup {i}
  BY <1>4, <1>11, ZenonT(60) DEF Linked
<1>13. \A j \in Linked(s) : t.item[j] = s.item[j]
  BY <1>2, <1>9, <1>11
<1>14. ChunksGood(t, G)
  <2>1. DOMAIN t.item = Chunks(t.carved) /\ G \subseteq DOMAIN t.item
    BY <1>2, <1>9, <1>11 DEF Good, ChunksGood
  <2>2. ASSUME NEW c \in Slabs
        PROVE  /\ IsInjective(t.free[c]) /\ IsInjective(t.lru[c])
               /\ Range(t.free[c]) \cap Range(t.lru[c]) = {}
               /\ Range(t.free[c]) \cap G = {} /\ Range(t.lru[c]) \cap G = {}
               /\ \A j \in Range(t.free[c]) \cup Range(t.lru[c]) :
                    j \in DOMAIN t.item /\ j[1] = c
    <3>1. /\ IsInjective(s.free[c]) /\ Range(s.free[c]) \cap Range(s.lru[c]) = {}
          /\ Range(s.free[c]) \cap F = {} /\ Range(s.lru[c]) \cap F = {}
          /\ \A j \in Range(s.free[c]) \cup Range(s.lru[c]) : j \in DOMAIN s.item /\ j[1] = c
      BY DEF Good, ChunksGood
    <3>2. /\ IsInjective(t.lru[c])
          /\ Range(t.lru[c]) = IF c = i[1] THEN {i} \cup Range(s.lru[c]) ELSE Range(s.lru[c])
      BY <1>4, <1>11
    <3>3. t.free[c] = s.free[c] /\ DOMAIN t.item = DOMAIN s.item
      BY <1>9, <1>11
    <3>4. QED
      BY <1>2, <3>1, <3>2, <3>3
  <2>3. ASSUME NEW j \in DOMAIN t.item
        PROVE  j \in G \/ j \in Range(t.free[j[1]]) \/ j \in Range(t.lru[j[1]])
    <3>1. j \in DOMAIN s.item /\ j[1] \in Slabs
      BY <1>2, <1>9, <1>11, ItemNamePair
    <3>2. j \in F \/ j \in Range(s.free[j[1]]) \/ j \in Range(s.lru[j[1]])
      BY <3>1 DEF Good, ChunksGood
    <3>3. QED
      BY <1>4, <1>11, <3>1, <3>2
  <2>4. \A j \in Linked(t) \cup G : Settled(t, j)
    <3>1. Settled(t, i)
      BY <1>2, <1>7, <1>9, <1>11, ItemNamePair DEF Settled, Good, ChunksGood
    <3>2. \A j \in (Linked(s) \cup F) \ {i} : Settled(s, j) /\ j \in DOMAIN s.item \ {i}
      BY <1>2 DEF Good, ChunksGood
    <3>3. \A j \in (Linked(s) \cup F) \ {i} : Settled(t, j)
      BY <3>2, <1>9, <1>11 DEF Settled
    <3>4. QED
      BY <3>1, <3>3, <1>12
  <2>5. QED
    BY <2>1, <2>2, <2>3, <2>4 DEF ChunksGood
<1>15. IndexGood(t)
  <2>1. ASSUME NEW j \in Linked(t)
        PROVE  /\ t.item[j].key \in Key /\ t.item[j].nkey = KeyLen[t.item[j].key]
               /\ j \in Range(t.bucket[Slot[t.item[j].key]])
    <3>1. CASE j = i
      BY <3>1, <1>1, <1>7, <1>9, <1>11, ParamAssumption
    <3>2. CASE j \in Linked(s)
      <4>1. /\ s.item[j].key \in Key /\ s.item[j].nkey = KeyLen[s.item[j].key]
            /\ j \in Range(s.bucket[Slot[s.item[j].key]])
        BY <3>2 DEF Good, IndexGood
      <4>2. Slot[s.item[j].key] \in Buckets
        BY <4>1, ParamAssumption
      <4>3. QED
        BY <3>2, <4>1, <4>2, <1>1, <1>11, <1>13
    <3>3. QED
      BY <3>1, <3>2, <1>12
  <2>2. \A j, m \in Linked(t) : t.item[j].key = t.item[m].key => j = m
    BY <1>7, <1>9, <1>11, <1>12, <1>13 DEF Good, IndexGood, Missing
  <2>3. ASSUME NEW b \in Buckets
        PROVE  /\ IsInjective(t.bucket[b])
               /\ \A j \in Range(t.bucket[b]) : j \in Linked(t) /\ Slot[t.item[j].key] = b
    <3>1. \A j \in Range(s.bucket[b]) : j \in Linked(s) /\ Slot[s.item[j].key] = b
      BY DEF Good, IndexGood
    <3>2. b = Slot[k] => Slot[t.item[i].key] = b
      BY <1>7, <1>9, <1>11
    <3>3. \A j \in Range(s.bucket[b]) : j \in Linked(t) /\ Slot[t.item[j].key] = b
      BY <3>1, <1>12, <1>13
    <3>4. /\ IsInjective(t.bucket[b])
          /\ b = Slot[k] => Range(t.bucket[b]) = {i} \cup Range(s.bucket[b])
          /\ b # Slot[k] => Range(t.bucket[b]) = Range(s.bucket[b])
      BY <1>1, <1>11
    <3>5. CASE b = Slot[k]
      BY <3>2, <3>3, <3>4, <3>5, <1>12
    <3>6. CASE b # Slot[k]
      BY <3>3, <3>4, <3>6
    <3>7. QED
      BY <3>5, <3>6
  <2>4. QED
    BY <2>1, <2>2, <2>3 DEF IndexGood
<1>16. CountsGood(t)
  <2>1. IsFiniteSet(Linked(t)) /\ Cardinality(Linked(t)) = Cardinality(Linked(s)) + 1
    BY <1>2, <1>12, FS_AddElement DEF Good, CountsGood
  <2>2. QED
    BY <1>11, <2>1 DEF Good, CountsGood
<1>17. Good(t, G) /\ i \in DOMAIN t.item
  BY <1>2, <1>9, <1>10, <1>11, <1>14, <1>15, <1>16 DEF Good
<1>18. /\ t.item[i].key = k /\ t.item[i].body = body
       /\ t.item[i].nval = s.item[i].nval /\ t.item[i].flags = s.item[i].flags
       /\ \A j \in DOMAIN s.item \ {i} : t.item[j] = s.item[j]
  BY <1>7, <1>9, <1>11
<1>19. QED
  BY <1>2, <1>8, <1>12, <1>17, <1>18 DEF Placed

-------------------------------------------------------------------------------
(***************************************************************************)
(* The operations.                                                         *)
(***************************************************************************)
\* Every class has chunks.
ChunksEverywhere == \A c \in Slabs : SlabCount[c] > 0

\* The flags of an item are written.
LEMMA Flagged ==
  ASSUME NEW s, NEW F, Good(s, F), NEW i \in DOMAIN s.item, NEW f \in Flags
  PROVE  LET t == SetFlags(s, i, f)
         IN  /\ Good(t, F) /\ Linked(t) = Linked(s) /\ DOMAIN t.item = DOMAIN s.item
             /\ t.item[i].key = s.item[i].key /\ t.item[i].body = s.item[i].body
             /\ t.item[i].nval = s.item[i].nval /\ t.item[i].flags = f
             /\ \A j \in DOMAIN s.item \ {i} : t.item[j] = s.item[j]
<1> DEFINE r == [s.item[i] EXCEPT !.flags = f]
<1>1. s.item[i] \in ItemType /\ s \in Segment
  BY ItemMapType DEF Good, Segment
<1>2. /\ r \in ItemType /\ r.clsid = s.item[i].clsid /\ r.key = s.item[i].key
      /\ r.nkey = s.item[i].nkey /\ r.nval = s.item[i].nval
      /\ r.body = s.item[i].body /\ r.flags = f
  BY <1>1 DEF ItemType
<1>3. SetFlags(s, i, f) = [s EXCEPT !.item[i] = r]
  BY DEF SetFlags
<1> HIDE DEF r
<1>4. ItemClsid(r.nkey, r.nval) = ItemClsid(s.item[i].nkey, s.item[i].nval)
  BY <1>2
<1>5. LET t == [s EXCEPT !.item[i] = r]
      IN  /\ Good(t, F) /\ Linked(t) = Linked(s) /\ t.item[i] = r
          /\ DOMAIN t.item = DOMAIN s.item
          /\ \A j \in DOMAIN s.item \ {i} : t.item[j] = s.item[j]
  BY <1>2, <1>4, Rewritten
<1>6. QED
  BY <1>2, <1>3, <1>5

\* The item of a key is given back: the key has none any more.
LEMMA TakenOut ==
  ASSUME NEW s, NEW F, Good(s, F), NEW k \in Key, NEW i \in Linked(s), s.item[i].key = k
  PROVE  LET t == Release(s, k, i)
         IN  /\ Good(t, F) /\ Missing(t, k) /\ DOMAIN t.item = DOMAIN s.item
             /\ Linked(t) = Linked(s) \ {i}
             /\ \A j \in F \cup Linked(t) : t.item[j] = s.item[j]
<1> DEFINE t == Release(s, s.item[i].key, i)
<1>1. /\ Good(t, F)
      /\ Linked(t) = Linked(s) \ {i} /\ DOMAIN t.item = DOMAIN s.item
      /\ \A j \in DOMAIN s.item \ {i} : t.item[j] = s.item[j]
  BY Released
<1> HIDE DEF t
<1>2. Linked(s) \subseteq DOMAIN s.item /\ i \notin F /\ F \subseteq DOMAIN s.item
  BY LinkedByClass DEF Good, ChunksGood
<1>3. \A j \in Linked(s) : s.item[j].key = k => j = i
  BY DEF Good, IndexGood
<1>4. Missing(t, k)
  BY <1>1, <1>2, <1>3 DEF Missing
<1>5. QED
  BY <1>1, <1>2, <1>4 DEF t

\* What assoc_find has not found, or what has been found, after the probe has
\* been counted.
LEMMA Probed ==
  ASSUME NEW s, Good(s, {}), NEW k \in Key
  PROVE  LET p == Probe(s, k)
             i == AssocFind(s, k)
         IN  /\ Good(p, {})
             /\ ~Present(s, k) => Missing(p, k) /\ ~Present(p, k)
             /\ Present(s, k) =>
                  /\ Present(p, k) /\ AssocFind(p, k) = i
                  /\ i \in Linked(p) /\ p.item[i].key = k /\ p.item[i] = s.item[i]
                  /\ i \in DOMAIN p.item /\ p.item[i].nkey = KeyLen[k]
                  /\ Settled(p, i) /\ p.item[i] \in ItemType
<1> DEFINE p == Probe(s, k)
           i == AssocFind(s, k)
<1>1. /\ Good(p, {}) /\ p.item = s.item /\ Linked(p) = Linked(s)
      /\ Present(p, k) = Present(s, k) /\ AssocFind(p, k) = i
  BY ProbeGood DEF SameChunks
<1> HIDE DEF p
<1>2. Present(s, k) => i \in Linked(s) /\ s.item[i].key = k
  BY Find
<1>3. \A j \in Linked(s) : s.item[j].key = k => Present(s, k)
  BY Find
<1>4. \A j \in Linked(p) :
        /\ j \in DOMAIN p.item /\ p.item[j] \in ItemType /\ Settled(p, j)
        /\ p.item[j].nkey = KeyLen[p.item[j].key]
  <2>1. p \in Segment /\ ChunksGood(p, {}) /\ IndexGood(p)
    BY <1>1 DEF Good
  <2>2. Linked(p) \subseteq DOMAIN p.item
    BY <2>1, LinkedByClass
  <2>3. \A j \in DOMAIN p.item : p.item[j] \in ItemType
    BY <2>1, ItemMapType DEF Segment
  <2>4. \A j \in Linked(p) : Settled(p, j)
    BY <2>1 DEF ChunksGood
  <2>5. \A j \in Linked(p) : p.item[j].nkey = KeyLen[p.item[j].key]
    BY <2>1 DEF IndexGood
  <2>6. QED
    BY <2>2, <2>3, <2>4, <2>5
<1>5. ~Present(s, k) => Missing(p, k)
  BY <1>1, <1>3 DEF Missing
<1>6. QED
  BY <1>1, <1>2, <1>4, <1>5 DEF p

\* shmc_get and shmc_getf move what they find to the head of its list.
LEMMA ReadKeeps ==
  ASSUME NEW s, Good(s, {}), NEW k \in Key, NEW m, NEW nval
  PROVE  /\ Good(GetNolock(s, k, m).shm, {}) /\ GetNolock(s, k, m).rc # "NOMEMORY"
         /\ Good(GetfNolock(s, k, nval).shm, {}) /\ GetfNolock(s, k, nval).rc # "NOMEMORY"
<1> DEFINE p == Probe(s, k)
           i == AssocFind(s, k)
           t == ItemRelink(p, i)
<1>1. Good(p, {}) /\ (Present(s, k) => i \in Linked(p))
  BY Probed
<1> HIDE DEF p, i
<1>2. Present(s, k) => Good(t, {})
  BY <1>1, Relink
<1> HIDE DEF t
<1>3. /\ GetNolock(s, k, m).shm \in {p, t} /\ GetfNolock(s, k, nval).shm \in {p, t}
      /\ ~Present(s, k) => GetNolock(s, k, m).shm = p /\ GetfNolock(s, k, nval).shm = p
      /\ GetNolock(s, k, m).rc # "NOMEMORY" /\ GetfNolock(s, k, nval).rc # "NOMEMORY"
  BY DEF GetNolock, GetfNolock, Result, p, i, t
<1>4. QED
  BY <1>1, <1>2, <1>3

\* shmc_del leaves the key without an item.
LEMMA DeleteKeeps ==
  ASSUME NEW s, Good(s, {}), NEW k \in Key
  PROVE  LET r == DelNolock(s, k)
         IN  Good(r.shm, {}) /\ Missing(r.shm, k) /\ r.rc # "NOMEMORY"
<1> DEFINE p == Probe(s, k)
           i == AssocFind(s, k)
<1>1. /\ Good(p, {}) /\ (~Present(s, k) => Missing(p, k))
      /\ Present(s, k) => i \in Linked(p) /\ p.item[i].key = k
  BY Probed
<1> HIDE DEF p, i
<1>2. Present(s, k) => Good(Release(p, k, i), {}) /\ Missing(Release(p, k, i), k)
  BY <1>1, TakenOut
<1>3. DelNolock(s, k) =
        IF ~Present(s, k) THEN Result(p, "NOTFOUND") ELSE Result(Release(p, k, i), "OK")
  BY DEF DelNolock, p, i
<1>4. QED
  BY <1>1, <1>2, <1>3 DEF Result

\* The value a caller stores: a length and parts.
IsText(v) == v.nval \in Nat /\ v.body \in Seq(Part)

\* An allocation for a key that has no item, entered with its flags.
LEMMA EnterKeeps ==
  ASSUME NEW s, NEW F, Good(s, F), NEW i \in F, NEW k \in Key, NEW body \in Seq(Part),
         NEW f \in Flags, s.item[i].nkey = KeyLen[k], Missing(s, k)
  PROVE  Good(SetFlags(Enter(s, k, i, body), i, f), F \ {i})
<1> DEFINE t == Enter(s, k, i, body)
<1>1. Placed(s, F, k, i, body, t)
  BY Entered
<1>2. Good(t, F \ {i}) /\ i \in DOMAIN t.item
  BY <1>1 DEF Placed
<1> HIDE DEF t
<1>3. Good(SetFlags(t, i, f), F \ {i})
  BY <1>2, Flagged
<1>4. QED
  BY <1>3 DEF t

\* shmc_set, and add and replace where they go on to it.
LEMMA SetKeeps ==
  ASSUME NEW s, Good(s, {}), NEW k \in Key, NEW v, IsText(v), NEW f \in Flags,
         ~Lost(k, v.nval)
  PROVE  LET r == SetNolock(s, k, v, f)
         IN  Good(r.shm, {}) /\ (EvictToFree /\ ChunksEverywhere => r.rc # "NOMEMORY")
<1> DEFINE d == DelNolock(s, k).shm
           a == ItemAlloc(d, KeyLen[k], v.nval)
           t == a.shm
           i == a.item
           id == ItemClsid(KeyLen[k], v.nval)
           e == SetFlags(Enter(t, k, i, v.body), i, f)
<1>1. Good(d, {}) /\ Missing(d, k)
  BY DeleteKeeps
<1>2. KeyLen[k] \in Nat /\ v.nval \in Nat /\ v.body \in Seq(Part)
  BY ParamAssumption DEF IsText
<1> HIDE DEF d
<1>3. CASE ~ItemSizeOk(KeyLen[k], v.nval)
  BY <1>3 DEF SetNolock, Result
<1>4. CASE ItemSizeOk(KeyLen[k], v.nval)
  <2>1. id \in Slabs
    BY <1>4 DEF Lost, Walks
  <2>2. Handed(d, KeyLen[k], v.nval, t, i)
    BY <1>1, <1>2, <2>1, Allocated
  <2>3. SetNolock(s, k, v, f) = IF i = NoItem THEN Result(t, "NOMEMORY") ELSE Result(e, "OK")
    BY <1>4 DEF SetNolock, d
  <2>4. i # NoItem => Good(e, {})
    <3> HIDE DEF i, t
    <3> SUFFICES ASSUME i # NoItem PROVE Good(e, {})
      OBVIOUS
    <3>1. Missing(t, k) /\ Good(t, {i}) /\ t.item[i].nkey = KeyLen[k]
      BY <1>1, <2>2 DEF Missing, Handed
    <3>2. Good(e, {i} \ {i})
      BY <1>2, <3>1, EnterKeeps
    <3>3. {i} \ {i} = {}
      OBVIOUS
    <3>4. QED
      BY <3>2, <3>3
  <2> HIDE DEF i, t, e, id
  <2>5. EvictToFree /\ ChunksEverywhere => i # NoItem
    BY <2>1, <2>2 DEF ChunksEverywhere, Handed, id
  <2>6. QED
    BY <2>2, <2>3, <2>4, <2>5 DEF Result, Handed
<1>5. QED
  BY <1>3, <1>4

\* shmc_add stores nothing over a key that is there.
LEMMA AddKeeps ==
  ASSUME NEW s, Good(s, {}), NEW k \in Key, NEW v, IsText(v), NEW f \in Flags,
         Present(s, k) \/ ~Lost(k, v.nval)
  PROVE  LET r == AddNolock(s, k, v, f)
         IN  Good(r.shm, {}) /\ (EvictToFree /\ ChunksEverywhere => r.rc # "NOMEMORY")
<1> DEFINE p == Probe(s, k)
<1>1. Good(p, {})
  BY Probed
<1> HIDE DEF p
<1>2. AddNolock(s, k, v, f) = IF Present(s, k) THEN Result(p, "EXIST") ELSE SetNolock(p, k, v, f)
  BY DEF AddNolock, p
<1>3. CASE Present(s, k)
  BY <1>1, <1>2, <1>3 DEF Result
<1>4. CASE ~Present(s, k)
  BY <1>1, <1>2, <1>4, SetKeeps
<1>5. QED
  BY <1>3, <1>4

\* What t is of s once the value of linked item i is v, with flags f.
Written(s, i, v, f, t) ==
  /\ Good(t, {}) /\ Linked(t) = Linked(s)
  /\ t.item[i].key = s.item[i].key /\ t.item[i].nval = v.nval
  /\ t.item[i].body = v.body /\ t.item[i].flags = f
  /\ \A j \in Linked(s) \ {i} : t.item[j] = s.item[j]

\* A value of the same class is written over the old one.
LEMMA OverwriteKeeps ==
  ASSUME NEW p, Good(p, {}), NEW i \in Linked(p), NEW v, IsText(v), NEW f \in Flags,
         p.item[i].clsid = ItemClsid(p.item[i].nkey, v.nval)
  PROVE  Written(p, i, v, f, Overwrite(p, i, v, f))
<1> DEFINE u == ItemRelink(p, i)
           r == [p.item[i] EXCEPT !.flags = f, !.nval = v.nval, !.body = v.body]
<1>1. Good(u, {}) /\ u.item = p.item /\ Linked(u) = Linked(p)
  BY Relink DEF SameChunks
<1> HIDE DEF u
<1>2. i \in DOMAIN p.item /\ p.item[i] \in ItemType /\ Settled(p, i)
  BY LinkedByClass, ItemMapType DEF Good, Segment, ChunksGood
<1>3. /\ r \in ItemType /\ r.clsid = p.item[i].clsid /\ r.key = p.item[i].key
      /\ r.nkey = p.item[i].nkey /\ r.nval = v.nval
      /\ r.body = v.body /\ r.flags = f
  BY <1>2 DEF ItemType, IsText
<1>4. Overwrite(p, i, v, f) = [u EXCEPT !.item[i] = r]
  <2>1. Overwrite(p, i, v, f) =
          [u EXCEPT !.item[i].flags = f, !.item[i].nval = v.nval, !.item[i].body = v.body]
    BY DEF Overwrite, u
  <2>2. u \in Segment
    BY <1>1 DEF Good
  <2>3. QED
    BY <1>1, <1>2, <2>1, <2>2, ZenonT(60) DEF Segment, ItemType
<1> HIDE DEF r
<1>5. ItemClsid(r.nkey, r.nval) = ItemClsid(u.item[i].nkey, u.item[i].nval)
  BY <1>1, <1>2, <1>3 DEF Settled
<1> DEFINE t == [u EXCEPT !.item[i] = r]
<1>6. /\ Good(t, {}) /\ Linked(t) = Linked(u) /\ t.item[i] = r
      /\ DOMAIN t.item = DOMAIN u.item
      /\ \A j \in DOMAIN u.item \ {i} : t.item[j] = u.item[j]
  BY <1>1, <1>2, <1>3, <1>5, Rewritten
<1> HIDE DEF t
<1>7. Linked(p) \subseteq DOMAIN u.item
  BY <1>1, LinkedByClass DEF Good
<1>8. Written(p, i, v, f, t)
  BY <1>1, <1>3, <1>6, <1>7 DEF Written
<1>9. QED
  BY <1>4, <1>8 DEF t

\* shmc_replace writes in place, or gives the item back and sets.
LEMMA ReplaceKeeps ==
  ASSUME NEW s, Good(s, {}), NEW k \in Key, NEW v, IsText(v), NEW f \in Flags,
         Present(s, k) => ~Lost(k, v.nval)
  PROVE  LET r == ReplaceNolock(s, k, v, f)
         IN  Good(r.shm, {}) /\ (EvictToFree /\ ChunksEverywhere => r.rc # "NOMEMORY")
<1> DEFINE p == Probe(s, k)
           i == AssocFind(s, k)
           c == s.item[i].clsid = ItemClsid(KeyLen[k], v.nval)
           o == Overwrite(p, i, v, f)
           l == Release(p, k, i)
<1>1. Good(p, {})
  BY Probed
<1>2. Present(s, k) =>
        /\ i \in Linked(p) /\ p.item[i].key = k /\ p.item[i] = s.item[i]
        /\ p.item[i].nkey = KeyLen[k]
  BY Probed
<1>3. ReplaceNolock(s, k, v, f) =
        IF ~Present(s, k) THEN Result(p, "NOTFOUND")
        ELSE IF c THEN Result(o, "OK") ELSE SetNolock(l, k, v, f)
  BY DEF ReplaceNolock
<1> HIDE DEF p, i
<1>4. CASE ~Present(s, k)
  BY <1>1, <1>3, <1>4 DEF Result
<1>5. CASE Present(s, k) /\ c
  <2>1. p.item[i].clsid = ItemClsid(p.item[i].nkey, v.nval)
    BY <1>2, <1>5
  <2>2. Good(o, {})
    BY <1>1, <1>2, <1>5, <2>1, OverwriteKeeps DEF Written
  <2>3. QED
    BY <1>3, <1>5, <2>2 DEF Result
<1>6. CASE Present(s, k) /\ ~c
  <2>1. Good(l, {})
    BY <1>1, <1>2, <1>6, TakenOut
  <2>2. QED
    BY <1>3, <1>6, <2>1, SetKeeps
<1>7. QED
  BY <1>4, <1>5, <1>6

\* shmc_prepend and shmc_append write in place, or move the item: the new chunk
\* is of another class, so the old item has not been evicted for it.
LEMMA ExtendKeeps ==
  ASSUME NEW s, Good(s, {}), NEW k \in Key, NEW v, IsText(v), NEW f \in Flags,
         Present(s, k) => ~Lost(k, v.nval)
  PROVE  LET r == ExtendNolock(s, k, v, f)
         IN  Good(r.shm, {}) /\ (EvictToFree /\ ChunksEverywhere => r.rc # "NOMEMORY")
<1> DEFINE p  == Probe(s, k)
           i  == AssocFind(s, k)
           id == ItemClsid(KeyLen[k], v.nval)
           o  == Overwrite(p, i, v, f)
           a  == ItemAlloc(p, KeyLen[k], v.nval)
           t  == a.shm
           n  == a.item
           u  == ItemUnlink(AssocDelete(t, k), i)
           e  == Enter(u, k, n, v.body)
           m  == ItemFree(SetFlags(e, i, f), i)
<1>1. Good(p, {})
  BY Probed
<1>2. Present(s, k) =>
        /\ i \in Linked(p) /\ p.item[i].key = k /\ p.item[i] = s.item[i]
        /\ p.item[i].nkey = KeyLen[k] /\ Settled(p, i)
  BY Probed
<1>3. ExtendNolock(s, k, v, f) =
        IF ~Present(s, k) THEN Result(p, "NOTFOUND")
        ELSE IF s.item[i].clsid = id THEN Result(o, "OK")
        ELSE IF ~ItemSizeOk(KeyLen[k], v.nval) THEN Result(p, "ESIZE")
        ELSE IF n = NoItem THEN Result(t, "NOMEMORY") ELSE Result(m, "OK")
  BY DEF ExtendNolock
<1>4. KeyLen[k] \in Nat /\ v.nval \in Nat /\ v.body \in Seq(Part)
  BY ParamAssumption DEF IsText
<1> HIDE DEF p, i, o
<1>5. CASE ~Present(s, k)
  BY <1>1, <1>3, <1>5 DEF Result
<1>6. CASE Present(s, k) /\ s.item[i].clsid = id
  <2>1. p.item[i].clsid = ItemClsid(p.item[i].nkey, v.nval)
    BY <1>2, <1>6
  <2>2. Good(o, {})
    BY <1>1, <1>2, <1>6, <2>1, OverwriteKeeps DEF o, Written
  <2>3. QED
    BY <1>3, <1>6, <2>2 DEF Result
<1>7. CASE Present(s, k) /\ s.item[i].clsid # id /\ ~ItemSizeOk(KeyLen[k], v.nval)
  BY <1>1, <1>3, <1>7 DEF Result
<1>8. CASE Present(s, k) /\ s.item[i].clsid # id /\ ItemSizeOk(KeyLen[k], v.nval)
  <2>1. id \in Slabs
    BY <1>8 DEF Lost, Walks
  <2>2. Handed(p, KeyLen[k], v.nval, t, n)
    BY <1>1, <1>4, <2>1, Allocated
  <2> HIDE DEF t, n, id
  <2>3. ASSUME n # NoItem PROVE Good(m, {})
    <3>1. /\ Good(t, {n}) /\ t.item[n].nkey = KeyLen[k] /\ n[1] = id
          /\ \A j \in Linked(p) : j \in Linked(t) \/ j = n
          /\ \A j \in Linked(t) : t.item[j] = p.item[j]
      BY <2>2, <2>3 DEF Handed, id
    <3>2. n # i
      BY <1>2, <1>8, <3>1 DEF Settled
    <3>3. i \in Linked(t) /\ t.item[i].key = k
      BY <1>2, <1>8, <3>1, <3>2
    <3>4. u = Unhooked(t, i)
      BY <3>3 DEF Unhooked
    <3> HIDE DEF u
    <3>5. Good(u, {n} \cup {i}) /\ u.item = t.item /\ Linked(u) = Linked(t) \ {i}
      <4>1. LET w == Unhooked(t, i)
            IN  /\ Good(w, {n} \cup {i}) /\ SameChunks(t, w)
                /\ Linked(w) = Linked(t) \ {i}
        BY <3>1, <3>3, Unhook
      <4>2. QED
        BY <3>4, <4>1 DEF SameChunks
    <3>6. Missing(u, k)
      BY <3>1, <3>3, <3>5 DEF Good, IndexGood, Missing
    <3> DEFINE F == {n} \cup {i}
    <3>7. Good(u, F) /\ n \in F /\ i \in F \ {n} /\ u.item[n].nkey = KeyLen[k]
      BY <3>1, <3>2, <3>5
    <3> HIDE DEF F
    <3>8. Good(e, F \ {n})
      BY <1>4, <3>6, <3>7, Entered DEF Placed
    <3> HIDE DEF e
    <3>9. i \in DOMAIN e.item
      BY <3>7, <3>8 DEF Good, ChunksGood
    <3>10. Good(SetFlags(e, i, f), F \ {n})
      BY <3>8, <3>9, Flagged
    <3>11. Good(m, (F \ {n}) \ {i})
      BY <3>7, <3>10, Freed
    <3>12. (F \ {n}) \ {i} = {}
      BY DEF F
    <3>13. QED
      BY <3>11, <3>12
  <2> HIDE DEF m
  <2>4. EvictToFree /\ ChunksEverywhere => n # NoItem
    BY <2>1, <2>2 DEF ChunksEverywhere, Handed, id
  <2>5. QED
    BY <1>3, <1>8, <2>2, <2>3, <2>4 DEF Result, Handed
<1>9. QED
  BY <1>5, <1>6, <1>7, <1>8

\* The number incr and decr leave fits a counter.
LEMMA NumberInRange ==
  ASSUME NEW body \in Seq(Part), NEW val \in Nat, NEW incr \in BOOLEAN
  PROVE  /\ Counter(NewNumber(Word, SafeStrtoull(body), val, incr)) \in Seq(Part)
         /\ Counter(NewNumber(Word, 0, val, incr)) \in Seq(Part)
<1> DEFINE o == SafeStrtoull(body)
<1>1. Word \in Nat \ {0}
  BY ParamAssumption
<1>2. o \in 0 .. Word - 1
  <2>1. CASE body = <<>>
    BY <1>1, <2>1 DEF SafeStrtoull
  <2>2. CASE body # <<>>
    <3>1. Head(body) \in Part
      BY <2>2
    <3>2. QED
      BY <2>2, <3>1 DEF SafeStrtoull, Part
  <2>3. QED
    BY <2>1, <2>2
<1> HIDE DEF o
<1>3. ASSUME NEW x \in 0 .. Word - 1 PROVE Counter(NewNumber(Word, x, val, incr)) \in Seq(Part)
  <2> DEFINE y == NewNumber(Word, x, val, incr)
  <2>1. x \in Nat /\ x + val \in Nat /\ (x + val) % Word \in 0 .. Word - 1
    BY <1>1
  <2>2. ~(x < val) => x - val \in 0 .. Word - 1
    BY <1>1
  <2>3. y \in 0 .. Word - 1
    BY <1>1, <2>1, <2>2 DEF NewNumber
  <2> HIDE DEF y
  <2>4. [tag |-> "number", num |-> y] \in Part
    BY <2>3 DEF Part, Tag
  <2> DEFINE z == [tag |-> "number", num |-> y]
  <2> HIDE DEF z
  <2>5. Counter(y) \in Seq(Part)
    <3>1. z \in Part
      BY <2>4 DEF z
    <3>2. <<z>> \in Seq(Part)
      BY <3>1
    <3>3. QED
      BY <3>2 DEF Counter, z
  <2>6. QED
    BY <2>5 DEF y
<1>4. QED
  BY <1>1, <1>2, <1>3 DEF o

\* A counter that is there is rewritten in place.
LEMMA RecountKeeps ==
  ASSUME NEW p, Good(p, {}), NEW i \in Linked(p), NEW n, Counter(n) \in Seq(Part), NEW f
  PROVE  /\ Written(p, i, [nval |-> p.item[i].nval, body |-> Counter(n)], p.item[i].flags,
                    Recount(p, i, n, f).shm)
         /\ Recount(p, i, n, f).rc = "OK"
<1> DEFINE b == Counter(n)
           r == [p.item[i] EXCEPT !.body = b]
<1>1. i \in DOMAIN p.item /\ p.item[i] \in ItemType
  BY LinkedByClass, ItemMapType DEF Good, Segment
<1>2. b \in Seq(Part)
  OBVIOUS
<1>3. Recount(p, i, n, f).shm = [p EXCEPT !.item[i].body = b] /\ Recount(p, i, n, f).rc = "OK"
  BY DEF Recount
<1> HIDE DEF b
<1>4. /\ r \in ItemType /\ r.clsid = p.item[i].clsid /\ r.key = p.item[i].key
      /\ r.nkey = p.item[i].nkey /\ r.nval = p.item[i].nval
      /\ r.body = b /\ r.flags = p.item[i].flags
  BY <1>1, <1>2 DEF ItemType
<1>5. [p EXCEPT !.item[i].body = b] = [p EXCEPT !.item[i] = r]
  OBVIOUS
<1> HIDE DEF r
<1>6. ItemClsid(r.nkey, r.nval) = ItemClsid(p.item[i].nkey, p.item[i].nval)
  BY <1>4
<1> DEFINE t == [p EXCEPT !.item[i] = r]
           v == [nval |-> p.item[i].nval, body |-> b]
<1>7. /\ Good(t, {}) /\ Linked(t) = Linked(p) /\ t.item[i] = r
      /\ DOMAIN t.item = DOMAIN p.item
      /\ \A j \in DOMAIN p.item \ {i} : t.item[j] = p.item[j]
  BY <1>1, <1>4, <1>6, Rewritten
<1> HIDE DEF t
<1>8. Linked(p) \subseteq DOMAIN p.item
  BY LinkedByClass DEF Good
<1>9. Written(p, i, v, p.item[i].flags, t)
  BY <1>4, <1>7, <1>8 DEF Written
<1>10. QED
  BY <1>3, <1>5, <1>9 DEF t, b

\* Giving back a chunk that has just been handed out: its old item is on no list
\* and its key has none, so only item_free has an effect.
LEMMA HandedBack ==
  ASSUME NEW s, NEW i \in ItemName, Good(s, {i}), NEW k \in Key, Missing(s, k)
  PROVE  LET t == Release(s, k, i)
         IN  /\ Good(t, {}) /\ Linked(t) = Linked(s)
             /\ \A j \in Linked(s) : t.item[j] = s.item[j]
<1>1. ~Present(s, k)
  BY Find DEF Missing
<1>2. AssocDelete(s, k) = s
  BY <1>1 DEF AssocDelete
<1>3. i \notin Linked(s) /\ s.item[i].clsid = i[1] /\ i[1] \in Slabs
  BY LinkedByClass, ItemNamePair DEF Good, ChunksGood, Settled
<1>4. i \notin Range(s.lru[s.item[i].clsid])
  BY <1>3 DEF Linked
<1>5. {q \in DOMAIN s.lru[s.item[i].clsid] : s.lru[s.item[i].clsid][q] = i} = {}
  BY <1>4 DEF Range
<1>6. ItemUnlink(s, i) = s
  BY <1>5 DEF ItemUnlink
<1> DEFINE F == {i}
<1>0. Good(s, F) /\ i \in F
  OBVIOUS
<1> HIDE DEF F
<1> DEFINE t == ItemFree(s, i)
<1>7. /\ Good(t, F \ {i})
      /\ t.free = [s.free EXCEPT ![i[1]] = Cons(i, @)]
      /\ t.lru = s.lru /\ t.carved = s.carved /\ t.mem_used = s.mem_used
      /\ Linked(t) = Linked(s) /\ DOMAIN t.item = DOMAIN s.item
      /\ \A j \in DOMAIN s.item \ {i} : t.item[j] = s.item[j]
      /\ t.item[i] = Dead(s.item[i].flags)
  BY <1>0, Freed
<1>8. F \ {i} = {} /\ \A j \in Linked(s) : j \in DOMAIN s.item \ {i}
  BY <1>3, LinkedByClass DEF Good, F
<1> HIDE DEF t
<1>9. Release(s, k, i) = t
  BY <1>2, <1>6 DEF Release, t
<1>10. QED
  BY <1>7, <1>8, <1>9

\* shmc_arithmetic where an item is allocated: the old item may have been evicted
\* for it, and then the new chunk goes straight back.
LEMMA NewCounterKeeps ==
  ASSUME NEW s, Good(s, {}), NEW k \in Key, NEW n, Counter(n) \in Seq(Part),
         NEW f \in Flags \cup {NoFlags}, ~Walks(k, CounterLen)
  PROVE  LET r == NewCounter(Probe(s, k), k, n, f)
         IN  Good(r.shm, {}) /\ (EvictToFree /\ ChunksEverywhere => r.rc # "NOMEMORY")
<1> DEFINE p   == Probe(s, k)
           i   == AssocFind(p, k)
           id  == ItemClsid(KeyLen[k], CounterLen)
           a   == ItemAlloc(p, KeyLen[k], CounterLen)
           t   == a.shm
           x   == a.item
           d   == IF Present(p, k) THEN Release(t, k, i) ELSE t
           old == IF ~Present(p, k) THEN 0 ELSE p.item[i].flags
           fl  == IF f = NoFlags THEN old ELSE f
           b   == Counter(n)
           e   == SetFlags(Enter(d, k, x, b), x, fl)
           r   == NewCounter(p, k, n, f)
<1>1. Good(p, {}) /\ Present(p, k) = Present(s, k) /\ (~Present(s, k) => Missing(p, k))
  BY ProbeGood, Probed
<1>2. Present(p, k) => i \in Linked(p) /\ p.item[i].key = k /\ p.item[i] \in ItemType
  BY ProbeGood, Probed
<1>3. fl \in Flags
  <2>1. old \in Flags
    BY <1>2 DEF ItemType, Flags
  <2>2. QED
    BY <2>1
<1>4. /\ r.shm = IF x = NoItem THEN t ELSE IF x = i THEN d ELSE e
      /\ x # NoItem => r.rc = "OK"
  BY DEF NewCounter, Result
<1>5. KeyLen[k] \in Nat /\ CounterLen \in Nat /\ id \in Slabs /\ b \in Seq(Part)
  BY ParamAssumption DEF CounterLen, Walks
<1> HIDE DEF p, r, b, fl, i
<1>0. r = NewCounter(Probe(s, k), k, n, f)
  BY DEF r, p
<1> SUFFICES Good(r.shm, {}) /\ (EvictToFree /\ ChunksEverywhere => r.rc # "NOMEMORY")
  BY <1>0
<1>6. Handed(p, KeyLen[k], CounterLen, t, x)
  BY <1>1, <1>5, Allocated
<1> HIDE DEF t, x
<1>7. CASE x = NoItem
  BY <1>4, <1>5, <1>6, <1>7 DEF Handed, ChunksEverywhere
<1>8. CASE x # NoItem
  <2>1. /\ Good(t, {x}) /\ t.item[x].nkey = KeyLen[k]
        /\ \A j \in Linked(p) : j \in Linked(t) \/ j = x
        /\ \A j \in Linked(t) : j \in Linked(p) /\ t.item[j] = p.item[j]
    BY <1>6, <1>8 DEF Handed
  <2>2. x \in ItemName /\ x \notin Linked(t)
    <3>1. Linked(t) \cap {x} = {} /\ DOMAIN t.item \subseteq ItemName
      BY <2>1, LinkedByClass DEF Good
    <3>2. {x} \subseteq DOMAIN t.item
      BY <2>1 DEF Good, ChunksGood
    <3>3. QED
      BY <3>1, <3>2
  <2>3. CASE Present(p, k) /\ x = i
    <3>1. Missing(t, k)
      <4>1. i \in Linked(p) /\ p.item[i].key = k /\ i \notin Linked(t)
        BY <1>2, <2>2, <2>3, Zenon
      <4>2. \A j, m \in Linked(p) : p.item[j].key = p.item[m].key => j = m
        BY <1>1, Zenon DEF Good, IndexGood
      <4>3. \A j \in Linked(t) : j \in Linked(p) /\ t.item[j] = p.item[j]
        BY <2>1, Zenon
      <4>4. QED
        BY <4>1, <4>2, <4>3, Zenon DEF Missing
    <3>2. Good(Release(t, k, i), {})
      BY <2>1, <2>2, <2>3, <3>1, HandedBack
    <3>3. QED
      BY <1>4, <1>8, <2>3, <3>2
  <2>4. CASE Present(p, k) /\ x # i
    <3>1. i \in Linked(t) /\ t.item[i].key = k
      BY <1>2, <2>1, <2>4
    <3>2. d = Release(t, k, i)
      BY <2>4
    <3> HIDE DEF d
    <3>3. Good(d, {x}) /\ Missing(d, k) /\ d.item[x] = t.item[x]
      BY <2>1, <3>1, <3>2, TakenOut
    <3>4. Good(e, {x} \ {x})
      BY <1>3, <1>5, <2>1, <3>3, EnterKeeps
    <3>5. {x} \ {x} = {}
      OBVIOUS
    <3>6. QED
      BY <1>4, <1>8, <2>4, <3>4, <3>5
  <2>5. CASE ~Present(p, k)
    <3>1. Missing(t, k) /\ d = t
      BY <1>1, <2>1, <2>5 DEF Missing
    <3> HIDE DEF d
    <3>2. Good(e, {x} \ {x})
      BY <1>3, <1>5, <2>1, <3>1, EnterKeeps
    <3>3. {x} \ {x} = {}
      OBVIOUS
    <3>4. x # i
      BY <1>8, <2>5 DEF i, AssocFind, Present
    <3>5. QED
      BY <1>4, <1>8, <3>2, <3>3, <3>4
  <2>6. QED
    BY <2>3, <2>4, <2>5
<1>9. QED
  BY <1>7, <1>8

\* shmc_incr and shmc_decr.
LEMMA ArithmeticKeeps ==
  ASSUME NEW s, Good(s, {}), NEW k \in Key, NEW val \in Nat, NEW incr \in BOOLEAN,
         NEW f \in Flags \cup {NoFlags},
         (IF Present(s, k) THEN s.item[AssocFind(s, k)].nval # CounterLen ELSE DefaultCounter)
           => ~Walks(k, CounterLen)
  PROVE  LET r == Arithmetic(s, k, val, incr, f)
         IN  Good(r.shm, {}) /\ (EvictToFree /\ ChunksEverywhere => r.rc # "NOMEMORY")
<1> DEFINE i   == AssocFind(s, k)
           old == IF Present(s, k) THEN SafeStrtoull(s.item[i].body) ELSE 0
           n   == NewNumber(Word, old, val, incr)
           p   == Probe(s, k)
           r   == Arithmetic(s, k, val, incr, f)
<1>1. Good(p, {}) /\ (Present(s, k) => i \in Linked(p) /\ s.item[i] \in ItemType)
  BY Probed
<1>2. Counter(n) \in Seq(Part)
  <2>1. CASE Present(s, k)
    <3>1. s.item[i].body \in Seq(Part)
      BY <1>1, <2>1 DEF ItemType
    <3>2. QED
      BY <2>1, <3>1, NumberInRange
  <2>2. CASE ~Present(s, k)
    <3>1. <<>> \in Seq(Part)
      OBVIOUS
    <3>2. QED
      BY <2>2, <3>1, NumberInRange
  <2>3. QED
    BY <2>1, <2>2
<1>3. r = IF ~Present(s, k) /\ ~DefaultCounter THEN Result(p, "NOTFOUND")
          ELSE IF Present(s, k) /\ s.item[i].nval = CounterLen THEN Recount(p, i, n, f)
          ELSE NewCounter(p, k, n, f)
  BY DEF Arithmetic
<1> HIDE DEF n, r
<1> SUFFICES Good(r.shm, {}) /\ (EvictToFree /\ ChunksEverywhere => r.rc # "NOMEMORY")
  BY DEF r
<1>4. CASE ~Present(s, k) /\ ~DefaultCounter
  BY <1>1, <1>3, <1>4 DEF Result
<1>5. CASE Present(s, k) /\ s.item[i].nval = CounterLen
  <2>1. Good(Recount(p, i, n, f).shm, {}) /\ Recount(p, i, n, f).rc = "OK"
    BY <1>1, <1>2, <1>5, RecountKeeps DEF Written
  <2>2. QED
    BY <1>3, <1>5, <2>1
<1>6. CASE ~(~Present(s, k) /\ ~DefaultCounter)
           /\ ~(Present(s, k) /\ s.item[i].nval = CounterLen)
  <2>1. ~Walks(k, CounterLen)
    BY <1>6
  <2>2. r = NewCounter(Probe(s, k), k, n, f)
    BY <1>3, <1>6
  <2>3. QED
    BY <1>2, <2>1, <2>2, NewCounterKeeps
<1>7. QED
  BY <1>4, <1>5, <1>6

\* What append and prepend leave over a text is a text.
LEMMA JoinsAreTexts ==
  ASSUME Good(shm, {}), NEW k \in Key, NEW front \in BOOLEAN, NEW w \in Joins(k, front)
  PROVE  IsText(w)
<1> DEFINE it == shm.item[AssocFind(shm, k)]
<1>1. \A v \in Text : IsText(v)
  BY ParamAssumption DEF IsText
<1>2. CASE ~Present(shm, k)
  BY <1>1, <1>2 DEF Joins
<1>3. CASE Present(shm, k)
  <2>1. PICK v \in Text : w = Joined(it, v, front)
    BY <1>3 DEF Joins
  <2>2. it \in ItemType
    BY <1>3, Probed
  <2> HIDE DEF it
  <2>3. /\ it.nval \in Nat /\ it.body \in Seq(Part)
        /\ v.nval \in Nat /\ v.body \in Seq(Part)
    BY <1>1, <2>2 DEF ItemType, IsText
  <2>4. v.nval + it.nval \in Nat /\ v.body \o it.body \in Seq(Part) /\ it.body \o v.body \in Seq(Part)
    BY <2>3
  <2>5. QED
    BY <2>1, <2>4 DEF Joined, IsText
<1>4. QED
  BY <1>2, <1>3

-------------------------------------------------------------------------------
(***************************************************************************)
(* The invariant.                                                          *)
(***************************************************************************)
\* A new segment is good: its chunks are all free, those of a class in the order
\* in which format_slabs has pushed them.
LEMMA FormattedGood == Good(Formatted, {})
<1> DEFINE s == Formatted
<1>1. /\ s.mem_used = MemFormatted /\ s.carved = SlabCount
      /\ s.free = [c \in Slabs |-> [j \in 1 .. SlabCount[c] |-> <<c, SlabCount[c] + 1 - j>>]]
      /\ s.item = [i \in Chunks(SlabCount) |-> Dead(0)]
      /\ s.lru = [c \in Slabs |-> <<>>] /\ s.bucket = [b \in Buckets |-> <<>>]
      /\ s.nitems = 0 /\ s.max_depth = 0
  BY DEF Formatted
<1>2. SlabCount \in [Slabs -> Nat]
  BY ParamAssumption
<1>3. Chunks(SlabCount) \subseteq ItemName
  BY <1>2, ChunkNames
<1>4. ASSUME NEW c \in Slabs
      PROVE  /\ s.free[c] \in Seq(ItemName) /\ IsInjective(s.free[c])
             /\ Range(s.free[c]) = {i \in Chunks(SlabCount) : i[1] = c}
  <2> DEFINE n == SlabCount[c]
             l == [j \in 1 .. n |-> <<c, n + 1 - j>>]
  <2>1. n \in Nat /\ s.free[c] = l
    BY <1>1, <1>2
  <2>2. \A j \in 1 .. n : l[j] = <<c, n + 1 - j>> /\ n + 1 - j \in Nat \ {0} /\ n + 1 - j <= n
    BY <2>1
  <2>3. \A j \in 1 .. n : l[j] \in ItemName /\ l[j][1] = c /\ l[j][2] = n + 1 - j
    BY <2>2 DEF ItemName
  <2>4. l \in [1 .. n -> ItemName] /\ DOMAIN l = 1 .. n
    BY <2>3
  <2> HIDE DEF l
  <2>5. l \in Seq(ItemName)
    BY <2>1, <2>4, SeqDef
  <2>6. ASSUME NEW a \in 1 .. n, NEW b \in 1 .. n, l[a] = l[b] PROVE a = b
    <3>1. n + 1 - a = n + 1 - b
      BY <2>3, <2>6
    <3> HIDE DEF n
    <3>2. QED
      BY <3>1, <2>1
  <2>7. IsInjective(l)
    BY <2>4, <2>6 DEF IsInjective
  <2>8. ASSUME NEW j \in 1 .. n PROVE l[j] \in Chunks(SlabCount) /\ l[j][1] = c
    <3> DEFINE x == l[j]
    <3>1. x \in ItemName /\ x[1] = c /\ x[2] <= SlabCount[x[1]]
      BY <2>2, <2>3
    <3> HIDE DEF x
    <3>2. x \in Chunks(SlabCount)
      BY <3>1, <1>2, ChunkNames
    <3>3. QED
      BY <3>1, <3>2 DEF x
  <2>9. ASSUME NEW i \in Chunks(SlabCount), i[1] = c PROVE i \in Range(l)
    <3>1. i \in ItemName /\ i[2] <= n
      BY <2>9, <1>2, <1>3, ChunkNames
    <3>2. i[2] \in Nat \ {0} /\ i = <<c, i[2]>>
      BY <3>1, <2>9, ItemNamePair
    <3> DEFINE j == n + 1 - i[2]
    <3>3. j \in 1 .. n /\ n + 1 - j = i[2]
      BY <2>1, <3>1, <3>2
    <3> HIDE DEF j
    <3>4. l[j] = i
      BY <2>2, <3>2, <3>3
    <3>5. QED
      BY <2>4, <3>3, <3>4 DEF Range
  <2>10. Range(l) = {i \in Chunks(SlabCount) : i[1] = c}
    BY <2>4, <2>8, <2>9 DEF Range
  <2>11. QED
    BY <2>1, <2>5, <2>7, <2>10
<1>5. s.item \in ItemMap
  <2>1. ASSUME NEW i \in Chunks(SlabCount) PROVE Dead(0) \in ItemType
    BY <1>3, ItemNamePair, DeadType DEF Flags
  <2>2. s.item \in [Chunks(SlabCount) -> ItemType]
    BY <1>1, <2>1
  <2>3. QED
    BY <1>3, <2>2 DEF ItemMap
<1>6. /\ \A c \in Slabs : s.lru[c] = <<>>
      /\ \A b \in Buckets : s.bucket[b] = <<>>
      /\ s.lru \in [Slabs -> Seq(ItemName)] /\ s.bucket \in [Buckets -> Seq(ItemName)]
  BY <1>1
<1>7. IsInjective(<<>>) /\ Range(<<>>) = {}
  BY EmptyList
<1>8. s.free \in [Slabs -> Seq(ItemName)]
  BY <1>1, <1>4
<1>9. Linked(s) = {}
  BY <1>6, <1>7 DEF Linked
<1>10. s \in Segment
  <2>1. s = [mem_used |-> s.mem_used, carved |-> s.carved, free |-> s.free,
             item |-> s.item, lru |-> s.lru, bucket |-> s.bucket,
             nitems |-> s.nitems, max_depth |-> s.max_depth]
    BY <1>1 DEF Formatted
  <2>2. s.mem_used \in Nat /\ s.carved \in [Slabs -> Nat] /\ s.nitems \in Int /\ s.max_depth \in Nat
    BY <1>1, <1>2, FormatAssumption, PoolFormatted
  <2> HIDE DEF s
  <2>3. QED
    BY <1>5, <1>6, <1>8, <2>1, <2>2 DEF Segment
<1>11. ChunksGood(s, {})
  <2>1. DOMAIN s.item = Chunks(s.carved)
    BY <1>1
  <2>2. \A i \in DOMAIN s.item : i[1] \in Slabs /\ i \in Range(s.free[i[1]])
    BY <1>1, <1>3, <1>4, ItemNamePair
  <2> HIDE DEF s
  <2>3. ASSUME NEW c \in Slabs
        PROVE  /\ IsInjective(s.free[c]) /\ IsInjective(s.lru[c])
               /\ Range(s.free[c]) \cap Range(s.lru[c]) = {}
               /\ \A i \in Range(s.free[c]) \cup Range(s.lru[c]) : i \in DOMAIN s.item /\ i[1] = c
    <3>1. IsInjective(s.free[c]) /\ Range(s.free[c]) = {i \in Chunks(SlabCount) : i[1] = c}
      BY <1>4
    <3>2. IsInjective(s.lru[c]) /\ Range(s.lru[c]) = {}
      BY <1>6, <1>7
    <3>3. DOMAIN s.item = Chunks(SlabCount)
      BY <1>1
    <3>4. QED
      BY <3>1, <3>2, <3>3
  <2>4. QED
    BY <1>9, <2>1, <2>2, <2>3 DEF ChunksGood
<1>12. IndexGood(s)
  <2> HIDE DEF s
  <2>1. QED
    BY <1>6, <1>7, <1>9 DEF IndexGood
<1>13. CountsGood(s)
  <2>1. /\ s.mem_used < MemLimit /\ s.mem_used = PoolBytes(s.carved)
        /\ \A c \in Slabs : SlabCount[c] <= s.carved[c] /\ (SlabCount[c] = 0 => s.carved[c] = 0)
    BY <1>1, <1>2, FormatAssumption, PoolFormatted
  <2>2. s.nitems = 0
    BY <1>1
  <2> HIDE DEF s
  <2>3. QED
    BY <1>9, <2>1, <2>2, FS_EmptySet DEF CountsGood
<1>14. QED
  BY <1>10, <1>11, <1>12, <1>13 DEF Good

\* The invariant of the steps.
IInv == Good(shm, {}) /\ fault \in {"none", "offtable", "assert"}

\* Every call leaves a good segment, and where every class has chunks and
\* eviction is on, no call is refused memory.
LEMMA StepKeeps ==
  ASSUME IInv, [Next]_vars
  PROVE  IInv' /\ (ChunksEverywhere => (EvictModeNeverRefuses => EvictModeNeverRefuses'))
<1> DEFINE Sound(r) ==
      Good(r.shm, {}) /\ (EvictToFree /\ ChunksEverywhere => r.rc # "NOMEMORY")
<1> USE DEF IInv
<1>1. ASSUME NEW op, NEW k, NEW flags, NEW r, Answer(op, k, flags, r), Sound(r)
      PROVE  IInv' /\ (ChunksEverywhere => (EvictModeNeverRefuses => EvictModeNeverRefuses'))
  <2>1. shm' = r.shm /\ call'.rc = r.rc /\ fault' = fault
    BY <1>1 DEF Answer
  <2>2. IInv'
    BY <1>1, <2>1
  <2>3. EvictToFree /\ ChunksEverywhere => call'.rc # "NOMEMORY"
    BY <1>1, <2>1
  <2>4. QED
    BY <2>2, <2>3 DEF EvictModeNeverRefuses
<1>2. CASE UNCHANGED vars
  BY <1>2 DEF vars, EvictModeNeverRefuses
<1>3. ASSUME NEW k \in Key, Operation(k)
      PROVE  IInv' /\ (ChunksEverywhere => (EvictModeNeverRefuses => EvictModeNeverRefuses'))
  <2> HIDE DEF Sound
  <2>1. CASE Get(k)
    <3>1. PICK memory \in BOOLEAN :
            Answer("get", k, GetNolock(shm, k, memory).flags, GetNolock(shm, k, memory))
      BY <2>1 DEF Get
    <3>2. Sound(GetNolock(shm, k, memory))
      BY ReadKeeps DEF Sound
    <3>3. QED
      BY <1>1, <3>1, <3>2
  <2>2. CASE Getf(k)
    <3>1. PICK nval \in Capacity :
            Answer("getf", k, GetfNolock(shm, k, nval).flags, GetfNolock(shm, k, nval))
      BY <2>2 DEF Getf
    <3>2. Sound(GetfNolock(shm, k, nval))
      BY ReadKeeps DEF Sound
    <3>3. QED
      BY <1>1, <3>1, <3>2
  <2>3. CASE Del(k)
    <3>1. Sound(DelNolock(shm, k))
      BY DeleteKeeps DEF Sound
    <3>2. QED
      BY <1>1, <2>3, <3>1 DEF Del
  <2>4. CASE Set(k)
    <3>1. PICK v \in Text, f \in FlagSet :
            ~Lost(k, v.nval) /\ Answer("set", k, f, SetNolock(shm, k, v, f))
      BY <2>4 DEF Set
    <3>2. f \in Flags /\ IsText(v)
      BY ParamAssumption DEF IsText, Flags
    <3>3. Sound(SetNolock(shm, k, v, f))
      BY <3>1, <3>2, SetKeeps DEF Sound
    <3>4. QED
      BY <1>1, <3>1, <3>3
  <2>5. CASE Add(k)
    <3>1. PICK v \in Text, f \in FlagSet :
            /\ Present(shm, k) \/ ~Lost(k, v.nval)
            /\ Answer("add", k, f, AddNolock(shm, k, v, f))
      BY <2>5 DEF Add
    <3>2. f \in Flags /\ IsText(v)
      BY ParamAssumption DEF IsText, Flags
    <3>3. Sound(AddNolock(shm, k, v, f))
      BY <3>1, <3>2, AddKeeps DEF Sound
    <3>4. QED
      BY <1>1, <3>1, <3>3
  <2>6. CASE Replace(k)
    <3>1. PICK v \in Text, f \in FlagSet :
            /\ Present(shm, k) => ~Lost(k, v.nval)
            /\ Answer("replace", k, f, ReplaceNolock(shm, k, v, f))
      BY <2>6 DEF Replace
    <3>2. f \in Flags /\ IsText(v)
      BY ParamAssumption DEF IsText, Flags
    <3>3. Sound(ReplaceNolock(shm, k, v, f))
      BY <3>1, <3>2, ReplaceKeeps DEF Sound
    <3>4. QED
      BY <1>1, <3>1, <3>3
  <2>7. ASSUME NEW op, NEW front \in BOOLEAN, Extend(op, k, front)
        PROVE  IInv' /\ (ChunksEverywhere => (EvictModeNeverRefuses => EvictModeNeverRefuses'))
    <3>1. PICK w \in Joins(k, front), f \in FlagSet :
            /\ Present(shm, k) => ~Lost(k, w.nval)
            /\ Answer(op, k, f, ExtendNolock(shm, k, w, f))
      BY <2>7 DEF Extend
    <3>2. f \in Flags /\ IsText(w)
      BY ParamAssumption, JoinsAreTexts DEF Flags
    <3>3. Sound(ExtendNolock(shm, k, w, f))
      BY <3>1, <3>2, ExtendKeeps DEF Sound
    <3>4. QED
      BY <1>1, <3>1, <3>3
  <2>8. ASSUME NEW op, NEW incr \in BOOLEAN, Calculate(op, k, incr)
        PROVE  IInv' /\ (ChunksEverywhere => (EvictModeNeverRefuses => EvictModeNeverRefuses'))
    <3>1. PICK val \in Delta, f \in FlagSet \cup {NoFlags} :
            /\ AllocatesCounter(k) => ~Walks(k, CounterLen)
            /\ Answer(op, k, Arithmetic(shm, k, val, incr, f).flags,
                      Arithmetic(shm, k, val, incr, f))
      BY <2>8 DEF Calculate
    <3>2. val \in Nat /\ f \in Flags \cup {NoFlags}
      BY ParamAssumption DEF Flags
    <3>3. Sound(Arithmetic(shm, k, val, incr, f))
      BY <3>1, <3>2, ArithmeticKeeps DEF Sound, AllocatesCounter
    <3>4. QED
      BY <1>1, <3>1, <3>3
  <2>9. CASE Append_(k)
    BY <2>7, <2>9 DEF Append_
  <2>10. CASE Prepend(k)
    BY <2>7, <2>10 DEF Prepend
  <2>11. CASE Incr(k)
    BY <2>8, <2>11 DEF Incr
  <2>12. CASE Decr(k)
    BY <2>8, <2>12 DEF Decr
  <2>13. CASE Abort(k) \/ RunOff(k)
    BY <2>13 DEF Abort, RunOff, EvictModeNeverRefuses
  <2>14. QED
    BY <1>3, <2>1, <2>2, <2>3, <2>4, <2>5, <2>6, <2>9, <2>10, <2>11, <2>12, <2>13
       DEF Operation
<1>4. QED
  BY <1>2, <1>3 DEF Next

-------------------------------------------------------------------------------
(***************************************************************************)
(* The theorems.                                                           *)
(***************************************************************************)
\* The invariant holds in every state, whatever the keys, the classes and the
\* lengths, and however many chunks there are.
THEOREM Invariance == Spec => []IInv
<1>1. Init => IInv
  BY FormattedGood DEF Init, IInv
<1>2. IInv /\ [Next]_vars => IInv'
  BY StepKeeps
<1>3. QED
  BY <1>1, <1>2, PTL DEF Spec

\* The classes, the lists and the records keep the types shmc.c declares.
THEOREM TypeInvariance == Spec => []TypeOK
<1>1. IInv => TypeOK
  <2> SUFFICES ASSUME IInv PROVE TypeOK
    OBVIOUS
  <2>1. Good(shm, {}) /\ shm \in Segment
    BY DEF IInv, Good
  <2>2. shm.nitems \in Nat
    BY <2>1, FS_CardinalityType DEF Good, CountsGood
  <2>3. \A i \in DOMAIN shm.item : shm.item[i] \in ItemType
    BY <2>1, ItemMapType DEF Segment
  <2>4. DOMAIN shm.item = Chunks(shm.carved)
    BY <2>1 DEF Good, ChunksGood
  <2>5. QED
    BY <2>1, <2>2, <2>3, <2>4 DEF TypeOK, Segment, IInv
<1>2. QED
  BY <1>1, Invariance, PTL

\* In a good segment the free list and the LRU list of a class share its chunks.
LEMMA ListsShareChunks ==
  ASSUME NEW s, Good(s, {}), NEW c \in Slabs
  PROVE  /\ IsInjective(s.free[c]) /\ IsInjective(s.lru[c])
         /\ Range(s.free[c]) \cap Range(s.lru[c]) = {}
         /\ Range(s.free[c]) \cup Range(s.lru[c]) = {c} \X (1 .. s.carved[c])
<1>1. /\ IsInjective(s.free[c]) /\ IsInjective(s.lru[c])
      /\ Range(s.free[c]) \cap Range(s.lru[c]) = {}
      /\ \A i \in Range(s.free[c]) \cup Range(s.lru[c]) : i \in DOMAIN s.item /\ i[1] = c
      /\ \A i \in DOMAIN s.item :
           i \in Range(s.free[i[1]]) \/ i \in Range(s.lru[i[1]])
      /\ DOMAIN s.item = Chunks(s.carved)
  BY DEF Good, ChunksGood
<1>2. s.carved \in [Slabs -> Nat]
  BY DEF Good, Segment
<1>3. ASSUME NEW i \in {c} \X (1 .. s.carved[c])
      PROVE  i \in Range(s.free[c]) \/ i \in Range(s.lru[c])
  <2>1. i \in Chunks(s.carved) /\ i[1] = c
    BY DEF Chunks
  <2>2. QED
    BY <1>1, <2>1
<1>4. ASSUME NEW i \in DOMAIN s.item, i[1] = c PROVE i \in {c} \X (1 .. s.carved[c])
  <2>1. i \in ItemName /\ i[2] <= s.carved[c]
    BY <1>1, <1>2, <1>4, ChunkNames
  <2>2. i[2] \in 1 .. s.carved[c] /\ i = <<c, i[2]>>
    BY <1>2, <1>4, <2>1, ItemNamePair
  <2>3. QED
    BY <2>2
<1>5. QED
  BY <1>1, <1>3, <1>4

\* No operation, on any sequence of calls, leaks a chunk, puts it on two lists
\* or hands it to another class.
THEOREM Partition == Spec => []SlabPartition
<1>1. IInv => SlabPartition
  BY ListsShareChunks DEF IInv, SlabPartition
<1>2. QED
  BY <1>1, Invariance, PTL

\* Hash table and LRU lists hold the same items, one for a key.
THEOREM IndexAgrees == Spec => []IndexMatchesLru
<1>1. IInv => IndexMatchesLru
  BY DEF IInv, Good, IndexGood, IndexMatchesLru, Chain
<1>2. QED
  BY <1>1, Invariance, PTL

\* An item stays in the class of its lengths while it is in use.
THEOREM ClassesStable == Spec => []ClassStable
<1>1. IInv => ClassStable
  BY DEF IInv, Good, ChunksGood, IndexGood, Settled, ClassStable
<1>2. QED
  BY <1>1, Invariance, PTL

\* nitems is the number of the items.
THEOREM CountsExact == Spec => []CountExact
<1>1. IInv => CountExact
  BY DEF IInv, Good, CountsGood, CountExact
<1>2. QED
  BY <1>1, Invariance, PTL

\* mem_used is what the chunks that have been carved take, and stays in the pool.
THEOREM PoolStaysAccounted == Spec => []PoolAccounted
<1>1. IInv => PoolAccounted
  BY DEF IInv, Good, CountsGood, PoolBytes, PoolAccounted
<1>2. QED
  BY <1>1, Invariance, PTL

\* Where format_slabs has left no class without chunks, eviction always finds a
\* chunk: a cache that may evict never answers that it is out of memory.
THEOREM EvictionSuffices ==
  ASSUME ChunksEverywhere
  PROVE  Spec => []EvictModeNeverRefuses
<1>1. Init => IInv /\ EvictModeNeverRefuses
  BY FormattedGood DEF Init, IInv, EvictModeNeverRefuses
<1>2. (IInv /\ EvictModeNeverRefuses) /\ [Next]_vars => (IInv /\ EvictModeNeverRefuses)'
  BY StepKeeps
<1>3. QED
  BY <1>1, <1>2, PTL DEF Spec

================================================================================
