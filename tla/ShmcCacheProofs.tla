---------------------------- MODULE ShmcCacheProofs ----------------------------
(***************************************************************************)
(* ShmcStore implements Cache, for every number of keys, slabs, chunks and *)
(* buckets: each step of the segment is a step of the map it shows to its  *)
(* callers, or changes nothing they can see. And a step takes no key but   *)
(* the caller's from the map, unless the eviction had to.                  *)
(*                                                                         *)
(* View(s) is the map a good segment shows. The lemmas go from the parts   *)
(* of a segment (which items are linked, what they hold) to its view, from *)
(* there to what each helper and each operation does to the view, and then *)
(* to the actions of Cache.                                                *)
(***************************************************************************)
EXTENDS ShmcStoreProofs

\* What a caller can learn of an item, and of a segment.
Seen(s, i) ==
  [nval |-> s.item[i].nval, body |-> s.item[i].body, flags |-> s.item[i].flags]

View(s) == [k \in {x \in Key : Present(s, x)} |-> Seen(s, AssocFind(s, k))]

\* Maps with a key taken out and with a key put in.
Without(c, k) == [x \in DOMAIN c \ {k} |-> c[x]]
Bound(c, k, e) == [x \in DOMAIN c \cup {k} |-> IF x = k THEN e ELSE c[x]]

\* What making room may leave of a map, and what storing e under k may.
Spared(c) == {c} \cup (IF EvictToFree THEN {Without(c, x) : x \in DOMAIN c} ELSE {})
Stored(c, d, k, e) == \E b \in Spared(c) : d = Bound(b, k, e)

-------------------------------------------------------------------------------
(***************************************************************************)
(* The view and the items.                                                 *)
(***************************************************************************)
\* The keys of the view are those of the linked items, and each shows its item:
\* what assoc_find finds is what is linked.
LEMMA ViewOfItems ==
  ASSUME NEW s, NEW F, Good(s, F)
  PROVE  /\ View(s) = [k \in DOMAIN View(s) |-> View(s)[k]]
         /\ DOMAIN View(s) \subseteq Key
         /\ \A k \in DOMAIN View(s) : \E i \in Linked(s) : s.item[i].key = k
         /\ \A i \in Linked(s) :
              s.item[i].key \in DOMAIN View(s) /\ View(s)[s.item[i].key] = Seen(s, i)
         /\ \A k \in Key : Present(s, k) <=> k \in DOMAIN View(s)
         /\ \A k \in DOMAIN View(s) : View(s)[k] = Seen(s, AssocFind(s, k))
<1>1. /\ View(s) = [k \in DOMAIN View(s) |-> View(s)[k]]
      /\ DOMAIN View(s) = {x \in Key : Present(s, x)}
      /\ \A k \in DOMAIN View(s) : View(s)[k] = Seen(s, AssocFind(s, k))
  BY DEF View
<1>2. ASSUME NEW k \in Key, Present(s, k)
      PROVE  AssocFind(s, k) \in Linked(s) /\ s.item[AssocFind(s, k)].key = k
  BY <1>2, Find
<1>3. ASSUME NEW i \in Linked(s)
      PROVE  /\ s.item[i].key \in DOMAIN View(s)
             /\ View(s)[s.item[i].key] = Seen(s, i)
  <2>1. s.item[i].key \in Key
    BY DEF Good, IndexGood
  <2>2. Present(s, s.item[i].key) /\ AssocFind(s, s.item[i].key) = i
    BY <2>1, Find
  <2>3. QED
    BY <2>1, <2>2, <1>1
<1>4. QED
  BY <1>1, <1>2, <1>3

\* Segments with the same items linked have the same view.
LEMMA SameView ==
  ASSUME NEW s, NEW F, Good(s, F), NEW t, NEW G, Good(t, G),
         Linked(t) = Linked(s), \A j \in Linked(s) : t.item[j] = s.item[j]
  PROVE  View(t) = View(s)
<1>1. \A j \in Linked(s) : Seen(t, j) = Seen(s, j)
  BY DEF Seen
<1>2. DOMAIN View(t) = DOMAIN View(s)
  BY ViewOfItems
<1>3. \A k \in DOMAIN View(s) : View(t)[k] = View(s)[k]
  BY <1>1, ViewOfItems
<1>4. QED
  BY <1>2, <1>3, ViewOfItems

\* An item that is not linked any more takes its key from the view.
LEMMA LostView ==
  ASSUME NEW s, NEW F, Good(s, F), NEW t, NEW G, Good(t, G), NEW i \in Linked(s),
         Linked(t) = Linked(s) \ {i}, \A j \in Linked(t) : t.item[j] = s.item[j]
  PROVE  View(t) = Without(View(s), s.item[i].key)
<1> DEFINE k == s.item[i].key
           d == Without(View(s), k)
<1>1. \A j \in Linked(t) : Seen(t, j) = Seen(s, j)
  BY DEF Seen
<1>2. \A j \in Linked(s) : s.item[j].key = k => j = i
  BY DEF Good, IndexGood
<1>3. d = [x \in DOMAIN d |-> d[x]] /\ DOMAIN d = DOMAIN View(s) \ {k}
      /\ \A x \in DOMAIN d : d[x] = View(s)[x]
  BY DEF Without
<1> HIDE DEF d, k
<1>4. DOMAIN View(t) = DOMAIN d
  <2>1. ASSUME NEW x \in DOMAIN View(t) PROVE x \in DOMAIN d
    <3>1. PICK j \in Linked(t) : t.item[j].key = x
      BY ViewOfItems
    <3>2. j \in Linked(s) /\ j # i /\ s.item[j].key = x
      BY <3>1
    <3>3. x # k
      BY <3>2, <1>2
    <3>4. x \in DOMAIN View(s)
      BY <3>2, ViewOfItems
    <3>5. QED
      BY <3>3, <3>4, <1>3
  <2>2. ASSUME NEW x \in DOMAIN d PROVE x \in DOMAIN View(t)
    <3>1. PICK j \in Linked(s) : s.item[j].key = x
      BY <1>3, ViewOfItems
    <3>2. j \in Linked(t)
      BY <3>1, <1>3 DEF k
    <3>3. QED
      BY <3>1, <3>2, ViewOfItems
  <2>3. QED
    BY <2>1, <2>2
<1>5. \A x \in DOMAIN d : View(t)[x] = d[x]
  <2> SUFFICES ASSUME NEW x \in DOMAIN d PROVE View(t)[x] = d[x]
    OBVIOUS
  <2>1. PICK j \in Linked(t) : t.item[j].key = x
    BY <1>4, ViewOfItems
  <2>2. j \in Linked(s) /\ s.item[j].key = x
    BY <2>1
  <2>3. View(t)[x] = Seen(t, j) /\ View(s)[x] = Seen(s, j)
    BY <2>1, <2>2, ViewOfItems
  <2>4. QED
    BY <2>3, <1>1, <1>3
<1>6. QED
  BY <1>3, <1>4, <1>5, ViewOfItems DEF d, k

\* An item that is new, or has been rewritten under the same key, is what the
\* view then shows for its key.
LEMMA BoundView ==
  ASSUME NEW s, NEW F, Good(s, F), NEW t, NEW G, Good(t, G), NEW i,
         Linked(t) = Linked(s) \cup {i},
         i \in Linked(s) => t.item[i].key = s.item[i].key,
         \A j \in Linked(s) \ {i} : t.item[j] = s.item[j]
  PROVE  View(t) = Bound(View(s), t.item[i].key, Seen(t, i))
<1> DEFINE k == t.item[i].key
           d == Bound(View(s), k, Seen(t, i))
<1>1. \A j \in Linked(s) \ {i} : Seen(t, j) = Seen(s, j)
  BY DEF Seen
<1>2. \A j \in Linked(t) : t.item[j].key = k => j = i
  BY DEF Good, IndexGood
<1>3. /\ d = [x \in DOMAIN d |-> d[x]] /\ DOMAIN d = DOMAIN View(s) \cup {k}
      /\ d[k] = Seen(t, i)
      /\ \A x \in DOMAIN View(s) \ {k} : d[x] = View(s)[x]
  BY DEF Bound
<1>4. k \in DOMAIN View(t) /\ View(t)[k] = Seen(t, i)
  BY ViewOfItems
<1> HIDE DEF d
<1>5. ASSUME NEW x \in DOMAIN View(t), x # k
      PROVE  x \in DOMAIN View(s) /\ View(t)[x] = View(s)[x]
  <2>1. PICK j \in Linked(t) : t.item[j].key = x
    BY ViewOfItems
  <2>2. j \in Linked(s) \ {i} /\ s.item[j].key = x
    BY <2>1, <1>5
  <2>3. View(t)[x] = Seen(t, j)
    BY <2>1, ViewOfItems
  <2>4. x \in DOMAIN View(s) /\ View(s)[x] = Seen(s, j)
    BY <2>2, ViewOfItems
  <2>5. QED
    BY <2>2, <2>3, <2>4, <1>1
<1>6. ASSUME NEW x \in DOMAIN View(s) PROVE x \in DOMAIN View(t)
  <2>1. PICK j \in Linked(s) : s.item[j].key = x
    BY ViewOfItems
  <2>2. t.item[j].key = x /\ j \in Linked(t)
    BY <2>1
  <2>3. QED
    BY <2>2, ViewOfItems
<1> HIDE DEF k
<1>7. DOMAIN View(t) = DOMAIN d
  BY <1>3, <1>4, <1>5, <1>6
<1>8. \A x \in DOMAIN d : View(t)[x] = d[x]
  BY <1>3, <1>4, <1>5, <1>7
<1>9. QED
  BY <1>3, <1>7, <1>8, ViewOfItems DEF d, k

-------------------------------------------------------------------------------
(***************************************************************************)
(* Maps.                                                                   *)
(***************************************************************************)
\* Storing under a key covers what was there, and does not mind whether the old
\* value has been dropped before.
LEMMA BoundTwice ==
  ASSUME NEW c, NEW k, NEW d, NEW e
  PROVE  /\ Bound(Without(c, k), k, e) = Bound(c, k, e)
         /\ Bound(Bound(c, k, d), k, e) = Bound(c, k, e)
<1>1. /\ DOMAIN Bound(Without(c, k), k, e) = DOMAIN Bound(c, k, e)
      /\ DOMAIN Bound(Bound(c, k, d), k, e) = DOMAIN Bound(c, k, e)
  BY DEF Bound, Without
<1>2. \A x \in DOMAIN Bound(c, k, e) :
        /\ Bound(Without(c, k), k, e)[x] = Bound(c, k, e)[x]
        /\ Bound(Bound(c, k, d), k, e)[x] = Bound(c, k, e)[x]
  BY DEF Bound, Without
<1>3. QED
  BY <1>1, <1>2 DEF Bound

\* Storing in what room has been made in, whether the old value was dropped
\* before (set), or is dropped after (append, incr).
LEMMA StoredAfterDrop ==
  ASSUME NEW c, NEW k, NEW e, NEW b
  PROVE  /\ b \in Spared(Without(c, k)) => Stored(c, Bound(b, k, e), k, e)
         /\ b \in Spared(c) => Stored(c, Bound(b, k, e), k, e)
         /\ b \in Spared(c) => Stored(c, Bound(Without(b, k), k, e), k, e)
<1>1. ASSUME b \in Spared(c) PROVE Stored(c, Bound(b, k, e), k, e)
  BY <1>1 DEF Stored
<1>2. b \in Spared(c) => Stored(c, Bound(Without(b, k), k, e), k, e)
  BY <1>1, BoundTwice
<1>3. ASSUME b \in Spared(Without(c, k)) PROVE Stored(c, Bound(b, k, e), k, e)
  <2>1. CASE b = Without(c, k)
    <3>1. Bound(b, k, e) = Bound(c, k, e) /\ c \in Spared(c)
      BY <2>1, BoundTwice DEF Spared
    <3>2. QED
      BY <3>1 DEF Stored
  <2>2. CASE b # Without(c, k)
    <3>1. PICK x \in DOMAIN Without(c, k) : b = Without(Without(c, k), x) /\ EvictToFree
      BY <1>3, <2>2 DEF Spared
    <3>2. x \in DOMAIN c
      BY DEF Without
    <3>3. Without(Without(c, k), x) = Without(Without(c, x), k)
      <4>1. DOMAIN Without(Without(c, k), x) = DOMAIN Without(Without(c, x), k)
        BY DEF Without
      <4>2. \A y \in DOMAIN Without(Without(c, k), x) :
              Without(Without(c, k), x)[y] = Without(Without(c, x), k)[y]
        BY DEF Without
      <4>3. QED
        BY <4>1, <4>2 DEF Without
    <3>4. Without(c, x) \in Spared(c)
      BY <3>1, <3>2 DEF Spared
    <3>5. Bound(b, k, e) = Bound(Without(c, x), k, e)
      BY <3>1, <3>3, BoundTwice
    <3>6. QED
      BY <3>4, <3>5 DEF Stored
  <2>3. QED
    BY <2>1, <2>2
<1>4. QED
  BY <1>1, <1>2, <1>3

-------------------------------------------------------------------------------
(***************************************************************************)
(* What the helpers do to the view.                                        *)
(***************************************************************************)
\* assoc_find and item_relink: nothing.
LEMMA LookShows ==
  ASSUME NEW s, Good(s, {}), NEW k \in Key
  PROVE  /\ View(Probe(s, k)) = View(s)
         /\ Present(s, k) => View(ItemRelink(Probe(s, k), AssocFind(s, k))) = View(s)
<1> DEFINE p == Probe(s, k)
           i == AssocFind(s, k)
           t == ItemRelink(p, i)
<1>1. /\ Good(p, {}) /\ p.item = s.item /\ Linked(p) = Linked(s)
      /\ Present(s, k) => i \in Linked(p)
  BY ProbeGood, Probed DEF SameChunks
<1> HIDE DEF p, i
<1>2. View(p) = View(s)
  BY <1>1, SameView
<1>3. ASSUME Present(s, k) PROVE View(t) = View(s)
  <2>1. Good(t, {}) /\ SameChunks(p, t) /\ Linked(t) = Linked(p)
    BY <1>1, <1>3, Relink
  <2> HIDE DEF t
  <2>2. t.item = p.item
    BY <2>1 DEF SameChunks
  <2>3. View(t) = View(p)
    BY <1>1, <2>1, <2>2, SameView
  <2>4. QED
    BY <1>2, <2>3
<1>4. QED
  BY <1>2, <1>3 DEF p, i, t

\* The item of a key is given back: the key is gone from the view.
LEMMA ReleaseShows ==
  ASSUME NEW s, NEW F, Good(s, F), NEW k \in Key, NEW i \in Linked(s), s.item[i].key = k
  PROVE  View(Release(s, k, i)) = Without(View(s), k)
<1> DEFINE t == Release(s, k, i)
<1>1. /\ Good(t, F) /\ Missing(t, k) /\ DOMAIN t.item = DOMAIN s.item
      /\ Linked(t) = Linked(s) \ {i}
      /\ \A j \in F \cup Linked(t) : t.item[j] = s.item[j]
  BY TakenOut
<1> HIDE DEF t
<1>2. \A j \in Linked(t) : t.item[j] = s.item[j]
  BY <1>1
<1>3. View(t) = Without(View(s), s.item[i].key)
  BY <1>1, <1>2, LostView
<1>4. QED
  BY <1>3 DEF t

\* item_alloc: nothing, or a key has been evicted. The chunk is then the one of
\* its item. When the answer is null nothing has been evicted.
LEMMA AllocShows ==
  ASSUME NEW s, Good(s, {}), NEW nkey, NEW nval, NEW t, NEW i, Handed(s, nkey, nval, t, i)
  PROVE  /\ View(t) \in Spared(View(s))
         /\ i = NoItem => View(t) = View(s)
         /\ i \in Linked(s) => View(t) = Without(View(s), s.item[i].key)
<1>1. PICK G : Good(t, G) /\ (i # NoItem => G = {i})
  BY DEF Handed
<1>2. \A j \in Linked(t) : t.item[j] = s.item[j]
  BY DEF Handed
<1>3. CASE Linked(t) = Linked(s)
  <2>1. View(t) = View(s)
    BY <1>1, <1>2, <1>3, SameView
  <2>2. i \notin Linked(s)
    <3>1. CASE i = NoItem
      <4>1. i \notin ItemName
        BY <3>1, ItemNamePair, ParamAssumption DEF NoItem, Slabs
      <4>2. Linked(s) \subseteq ItemName
        BY LinkedByClass DEF Good
      <4>3. QED
        BY <4>1, <4>2
    <3>2. CASE i # NoItem
      <4>1. Linked(t) \cap {i} = {}
        BY <1>1, <3>2, LinkedByClass DEF Good
      <4>2. QED
        BY <4>1, <1>3
    <3>3. QED
      BY <3>1, <3>2
  <2>3. QED
    BY <2>1, <2>2 DEF Spared
<1>4. CASE Linked(t) # Linked(s)
  <2>1. /\ EvictToFree /\ i # NoItem /\ i \in Linked(s)
        /\ Linked(t) = Linked(s) \ {i}
    BY <1>4 DEF Handed, Evicted
  <2>2. View(t) = Without(View(s), s.item[i].key)
    BY <1>1, <1>2, <2>1, LostView
  <2>3. s.item[i].key \in DOMAIN View(s)
    BY <2>1, ViewOfItems
  <2>4. QED
    BY <2>1, <2>2, <2>3 DEF Spared
<1>5. QED
  BY <1>3, <1>4

\* item_free: nothing, for the chunk is not linked.
LEMMA FreeShows ==
  ASSUME NEW s, NEW F, Good(s, F), NEW i \in F
  PROVE  View(ItemFree(s, i)) = View(s)
<1> DEFINE t == ItemFree(s, i)
<1>1. /\ Good(t, F \ {i})
      /\ t.free = [s.free EXCEPT ![i[1]] = Cons(i, @)]
      /\ t.lru = s.lru /\ t.carved = s.carved /\ t.mem_used = s.mem_used
      /\ Linked(t) = Linked(s) /\ DOMAIN t.item = DOMAIN s.item
      /\ \A j \in DOMAIN s.item \ {i} : t.item[j] = s.item[j]
      /\ t.item[i] = Dead(s.item[i].flags)
  BY Freed
<1> HIDE DEF t
<1>2. \A j \in Linked(s) : j \in DOMAIN s.item \ {i}
  BY LinkedByClass DEF Good
<1>3. \A j \in Linked(s) : t.item[j] = s.item[j]
  BY <1>1, <1>2
<1>4. View(t) = View(s)
  BY <1>1, <1>3, SameView
<1>5. QED
  BY <1>4 DEF t

\* A chunk in hand is entered for a key that has no item.
LEMMA EnterShows ==
  ASSUME NEW s, NEW F, Good(s, F), NEW i \in F, NEW k \in Key, NEW body \in Seq(Part),
         s.item[i].nkey = KeyLen[k], Missing(s, k)
  PROVE  View(Enter(s, k, i, body)) =
           Bound(View(s), k,
                 [nval |-> s.item[i].nval, body |-> body, flags |-> s.item[i].flags])
<1> DEFINE t == Enter(s, k, i, body)
<1>1. Placed(s, F, k, i, body, t)
  BY Entered
<1> HIDE DEF t
<1>2. /\ Good(t, F \ {i}) /\ i \in DOMAIN t.item
      /\ Linked(t) = Linked(s) \cup {i} /\ i \notin Linked(s)
      /\ t.item[i].key = k /\ t.item[i].body = body
      /\ t.item[i].nval = s.item[i].nval /\ t.item[i].flags = s.item[i].flags
      /\ \A j \in DOMAIN s.item \ {i} : t.item[j] = s.item[j]
  BY <1>1 DEF Placed
<1>3. \A j \in Linked(s) \ {i} : t.item[j] = s.item[j]
  BY <1>2, LinkedByClass DEF Good
<1>4. View(t) = Bound(View(s), t.item[i].key, Seen(t, i))
  BY <1>2, <1>3, BoundView
<1>5. QED
  BY <1>2, <1>4 DEF Seen, t

\* The flags of an item are written: the view shows them if it is linked.
LEMMA FlagShows ==
  ASSUME NEW s, NEW F, Good(s, F), NEW i \in DOMAIN s.item, NEW f \in Flags
  PROVE  /\ i \notin Linked(s) => View(SetFlags(s, i, f)) = View(s)
         /\ i \in Linked(s) =>
              View(SetFlags(s, i, f)) =
                Bound(View(s), s.item[i].key,
                      [nval |-> s.item[i].nval, body |-> s.item[i].body, flags |-> f])
<1> DEFINE t == SetFlags(s, i, f)
<1>1. /\ Good(t, F) /\ Linked(t) = Linked(s) /\ DOMAIN t.item = DOMAIN s.item
      /\ t.item[i].key = s.item[i].key /\ t.item[i].body = s.item[i].body
      /\ t.item[i].nval = s.item[i].nval /\ t.item[i].flags = f
      /\ \A j \in DOMAIN s.item \ {i} : t.item[j] = s.item[j]
  BY Flagged
<1> HIDE DEF t
<1>2. \A j \in Linked(s) \ {i} : t.item[j] = s.item[j]
  BY <1>1, LinkedByClass DEF Good
<1>3. ASSUME i \notin Linked(s) PROVE View(t) = View(s)
  BY <1>1, <1>2, <1>3, SameView
<1>4. ASSUME i \in Linked(s)
      PROVE  View(t) = Bound(View(s), s.item[i].key,
                             [nval |-> s.item[i].nval, body |-> s.item[i].body, flags |-> f])
  <2>1. Linked(t) = Linked(s) \cup {i} /\ t.item[i].key = s.item[i].key
    BY <1>1, <1>4
  <2>2. View(t) = Bound(View(s), t.item[i].key, Seen(t, i))
    BY <1>1, <1>2, <2>1, BoundView
  <2>3. QED
    BY <1>1, <2>2 DEF Seen
<1>5. QED
  BY <1>3, <1>4 DEF t

\* A chunk in hand is entered with its value and its flags.
LEMMA StoreShows ==
  ASSUME NEW s, NEW F, Good(s, F), NEW i \in F, NEW k \in Key, NEW body \in Seq(Part),
         NEW f \in Flags, s.item[i].nkey = KeyLen[k], Missing(s, k)
  PROVE  View(SetFlags(Enter(s, k, i, body), i, f)) =
           Bound(View(s), k, [nval |-> s.item[i].nval, body |-> body, flags |-> f])
<1> DEFINE t == Enter(s, k, i, body)
<1>1. View(t) = Bound(View(s), k, [nval |-> s.item[i].nval, body |-> body,
                                   flags |-> s.item[i].flags])
  BY EnterShows
<1>2. Placed(s, F, k, i, body, t)
  BY Entered
<1> HIDE DEF t
<1>3. /\ Good(t, F \ {i}) /\ i \in DOMAIN t.item /\ i \in Linked(t)
      /\ t.item[i].key = k /\ t.item[i].body = body
      /\ t.item[i].nval = s.item[i].nval
  BY <1>2 DEF Placed
<1>4. View(SetFlags(t, i, f)) =
        Bound(View(t), t.item[i].key,
              [nval |-> t.item[i].nval, body |-> t.item[i].body, flags |-> f])
  BY <1>3, FlagShows
<1>5. View(SetFlags(t, i, f)) =
        Bound(Bound(View(s), k, [nval |-> s.item[i].nval, body |-> body,
                                 flags |-> s.item[i].flags]),
              k, [nval |-> s.item[i].nval, body |-> body, flags |-> f])
  BY <1>1, <1>3, <1>4
<1>6. QED
  BY <1>5, BoundTwice DEF t

-------------------------------------------------------------------------------
(***************************************************************************)
(* What the operations do to the view and answer: r is the result of one   *)
(* on a segment of view c.                                                 *)
(***************************************************************************)
Bare(r, rc) == r.rc = rc /\ r.out = <<>> /\ r.flags = NoFlags

Value(v, f) == [nval |-> v.nval, body |-> v.body, flags |-> f]

\* The three ways an operation on key k ends: nothing changes, the key is gone,
\* the key has value e.
Spurned(c, r, rc) == Bare(r, rc) /\ View(r.shm) = c
Dropped(c, r, k, rc) == Bare(r, rc) /\ View(r.shm) = Without(c, k)
Entered_(c, r, k, e) == Bare(r, "OK") /\ Stored(c, View(r.shm), k, e)

\* A fourth one: the value of k is handed out.
Shown(c, r, k) ==
  r.rc = "OK" /\ r.out = c[k].body /\ r.flags = c[k].flags /\ View(r.shm) = c

\* The value is stored, or the old one is lost for want of memory.
PutResult(c, r, k, e) ==
  Entered_(c, r, k, e) \/ (Dropped(c, r, k, "NOMEMORY") /\ ~EvictToFree)

SetResult(c, r, k, v, f) ==
  IF ItemSizeOk(KeyLen[k], v.nval) THEN PutResult(c, r, k, Value(v, f))
                                   ELSE Spurned(c, r, "ESIZE")

\* To drop a key that is not there, or again, is to do nothing.
LEMMA DropTwice ==
  ASSUME NEW c, c = [x \in DOMAIN c |-> c[x]], NEW k
  PROVE  /\ k \notin DOMAIN c => Without(c, k) = c
         /\ Without(Without(c, k), k) = Without(c, k)
<1>1. ASSUME k \notin DOMAIN c PROVE Without(c, k) = c
  BY <1>1 DEF Without
<1>2. k \notin DOMAIN Without(c, k)
  BY DEF Without
<1>3. Without(Without(c, k), k) = Without(c, k)
  BY <1>2 DEF Without
<1>4. QED
  BY <1>1, <1>3

\* What shmc_set does after the old value has been dropped is what it does.
LEMMA SetAfterDrop ==
  ASSUME NEW c, c = [x \in DOMAIN c |-> c[x]], NEW r, NEW k, NEW e,
         PutResult(Without(c, k), r, k, e)
  PROVE  PutResult(c, r, k, e)
<1>1. ASSUME Entered_(Without(c, k), r, k, e) PROVE Entered_(c, r, k, e)
  <2>1. PICK b \in Spared(Without(c, k)) : View(r.shm) = Bound(b, k, e)
    BY <1>1 DEF Entered_, Stored
  <2>2. Stored(c, Bound(b, k, e), k, e)
    BY <2>1, StoredAfterDrop
  <2>3. QED
    BY <1>1, <2>1, <2>2 DEF Entered_
<1>2. ASSUME Dropped(Without(c, k), r, k, "NOMEMORY") PROVE Dropped(c, r, k, "NOMEMORY")
  BY <1>2, DropTwice DEF Dropped
<1>3. QED
  BY <1>1, <1>2 DEF PutResult

\* shmc_del: the key is gone, or was not there.
LEMMA DelShows ==
  ASSUME NEW s, Good(s, {}), NEW k \in Key
  PROVE  LET r == DelNolock(s, k)
         IN  /\ Present(s, k) => Dropped(View(s), r, k, "OK")
             /\ ~Present(s, k) => Spurned(View(s), r, "NOTFOUND")
             /\ View(r.shm) = Without(View(s), k)
<1> DEFINE p == Probe(s, k)
           i == AssocFind(s, k)
           r == DelNolock(s, k)
<1>1. /\ Good(p, {}) /\ View(p) = View(s)
      /\ Present(s, k) => i \in Linked(p) /\ p.item[i].key = k
  BY Probed, LookShows
<1>2. r = IF ~Present(s, k) THEN Result(p, "NOTFOUND") ELSE Result(Release(p, k, i), "OK")
  BY DEF DelNolock
<1> HIDE DEF p, i, r
<1>3. CASE Present(s, k)
  <2>1. View(Release(p, k, i)) = Without(View(p), k)
    BY <1>1, <1>3, ReleaseShows
  <2>2. Dropped(View(s), r, k, "OK")
    BY <1>1, <1>2, <1>3, <2>1 DEF Dropped, Bare, Result
  <2>3. QED
    BY <1>3, <2>2 DEF Dropped, r
<1>4. CASE ~Present(s, k)
  <2>1. Spurned(View(s), r, "NOTFOUND")
    BY <1>1, <1>2, <1>4 DEF Spurned, Bare, Result
  <2>2. Without(View(s), k) = View(s)
    BY <1>4, ViewOfItems, DropTwice
  <2>3. QED
    BY <1>4, <2>1, <2>2 DEF Spurned, r
<1>5. QED
  BY <1>3, <1>4

\* An allocation for a key without an item, entered: what shmc_set does once the
\* old item is deleted.
LEMMA PutShows ==
  ASSUME NEW s, Good(s, {}), NEW k \in Key, NEW v, IsText(v), NEW f \in Flags,
         ItemClsid(KeyLen[k], v.nval) \in Slabs, Missing(s, k),
         EvictToFree => ChunksEverywhere
  PROVE  LET a == ItemAlloc(s, KeyLen[k], v.nval)
         IN  PutResult(View(s),
               IF a.item = NoItem THEN Result(a.shm, "NOMEMORY")
               ELSE Result(SetFlags(Enter(a.shm, k, a.item, v.body), a.item, f), "OK"),
               k, Value(v, f))
<1> DEFINE a == ItemAlloc(s, KeyLen[k], v.nval)
           t == a.shm
           i == a.item
           e == SetFlags(Enter(t, k, i, v.body), i, f)
<1>1. KeyLen[k] \in Nat /\ v.nval \in Nat /\ v.body \in Seq(Part)
  BY ParamAssumption DEF IsText
<1>2. Handed(s, KeyLen[k], v.nval, t, i)
  BY <1>1, Allocated
<1> HIDE DEF a, t, i
<1>3. /\ View(t) \in Spared(View(s))
      /\ i = NoItem => View(t) = View(s)
  BY <1>2, AllocShows
<1>4. CASE i = NoItem
  <2>1. ~EvictToFree
    BY <1>2, <1>4 DEF Handed, ChunksEverywhere
  <2>2. Missing(s, k) => k \notin DOMAIN View(s)
    BY ViewOfItems DEF Missing
  <2>3. Without(View(s), k) = View(s)
    BY <2>2, ViewOfItems, DropTwice
  <2>4. Dropped(View(s), Result(t, "NOMEMORY"), k, "NOMEMORY")
    BY <1>3, <1>4, <2>3 DEF Dropped, Bare, Result
  <2>5. QED
    BY <1>4, <2>1, <2>4 DEF PutResult, t, i, a
<1>5. CASE i # NoItem
  <2>1. /\ Missing(t, k) /\ Good(t, {i})
        /\ t.item[i].nkey = KeyLen[k] /\ t.item[i].nval = v.nval
    BY <1>2, <1>5 DEF Missing, Handed
  <2>2. View(e) = Bound(View(t), k, [nval |-> t.item[i].nval, body |-> v.body, flags |-> f])
    BY <1>1, <2>1, StoreShows
  <2> HIDE DEF e
  <2>3. View(e) = Bound(View(t), k, Value(v, f))
    BY <2>1, <2>2 DEF Value
  <2>4. Stored(View(s), View(e), k, Value(v, f))
    BY <1>3, <2>3 DEF Stored
  <2>5. Entered_(View(s), Result(e, "OK"), k, Value(v, f))
    BY <2>4 DEF Entered_, Bare, Result
  <2>6. QED
    BY <1>5, <2>5 DEF PutResult, e, t, i, a
<1>6. QED
  BY <1>4, <1>5

\* shmc_set.
LEMMA SetShows ==
  ASSUME NEW s, Good(s, {}), NEW k \in Key, NEW v, IsText(v), NEW f \in Flags,
         ~Lost(k, v.nval), EvictToFree => ChunksEverywhere
  PROVE  SetResult(View(s), SetNolock(s, k, v, f), k, v, f)
<1> DEFINE d == DelNolock(s, k).shm
           a == ItemAlloc(d, KeyLen[k], v.nval)
           r == IF a.item = NoItem THEN Result(a.shm, "NOMEMORY")
                ELSE Result(SetFlags(Enter(a.shm, k, a.item, v.body), a.item, f), "OK")
<1>1. Good(d, {}) /\ Missing(d, k) /\ View(d) = Without(View(s), k)
  BY DeleteKeeps, DelShows
<1>2. SetNolock(s, k, v, f) =
        IF ~ItemSizeOk(KeyLen[k], v.nval) THEN Result(s, "ESIZE") ELSE r
  BY DEF SetNolock
<1> HIDE DEF d
<1>3. CASE ~ItemSizeOk(KeyLen[k], v.nval)
  BY <1>2, <1>3 DEF SetResult, Spurned, Bare, Result
<1>4. CASE ItemSizeOk(KeyLen[k], v.nval)
  <2>1. ItemClsid(KeyLen[k], v.nval) \in Slabs
    BY <1>4 DEF Lost, Walks
  <2>2. PutResult(View(d), r, k, Value(v, f))
    BY <1>1, <2>1, PutShows
  <2> HIDE DEF r
  <2>3. PutResult(View(s), r, k, Value(v, f))
    BY <1>1, <2>2, SetAfterDrop, ViewOfItems
  <2>4. QED
    BY <1>2, <1>4, <2>3 DEF SetResult
<1>5. QED
  BY <1>3, <1>4

\* shmc_get and shmc_getf: what is answered is what the view has.
LEMMA ReadShows ==
  ASSUME NEW s, Good(s, {}), NEW k \in Key, NEW m, NEW nval
  PROVE  LET r == GetNolock(s, k, m)
             q == GetfNolock(s, k, nval)
         IN  /\ ~Present(s, k) => Spurned(View(s), r, "NOTFOUND") /\ Spurned(View(s), q, "NOTFOUND")
             /\ Present(s, k) => IF m THEN Shown(View(s), r, k) ELSE Spurned(View(s), r, "SYSTEM")
             /\ Present(s, k) => IF nval < View(s)[k].nval THEN Spurned(View(s), q, "ESPACE")
                                                          ELSE Shown(View(s), q, k)
<1> DEFINE p == Probe(s, k)
           i == AssocFind(s, k)
           t == ItemRelink(p, i)
           r == GetNolock(s, k, m)
           q == GetfNolock(s, k, nval)
<1>1. View(p) = View(s) /\ (Present(s, k) => View(t) = View(s))
  BY LookShows
<1>2. Good(p, {}) /\ (Present(s, k) => i \in Linked(p) /\ p.item[i] = s.item[i])
  BY Probed
<1>3. /\ r = IF ~Present(s, k) THEN Result(p, "NOTFOUND")
             ELSE IF ~m THEN Result(t, "SYSTEM")
             ELSE [shm |-> t, rc |-> "OK", out |-> t.item[i].body, flags |-> t.item[i].flags]
      /\ q = IF ~Present(s, k) THEN Result(p, "NOTFOUND")
             ELSE IF nval < t.item[i].nval THEN Result(t, "ESPACE")
             ELSE [shm |-> t, rc |-> "OK", out |-> t.item[i].body, flags |-> t.item[i].flags]
  BY DEF GetNolock, GetfNolock
<1>4. Present(s, k) => View(s)[k] = Seen(s, i)
  BY ViewOfItems
<1> HIDE DEF p, i, r, q
<1>5. Present(s, k) => t.item = p.item
  BY <1>2, Relink DEF SameChunks
<1> HIDE DEF t
<1>6. CASE ~Present(s, k)
  BY <1>1, <1>3, <1>6 DEF Spurned, Bare, Result, r, q
<1>7. CASE Present(s, k)
  <2>1. /\ t.item[i].nval = View(s)[k].nval /\ t.item[i].body = View(s)[k].body
        /\ t.item[i].flags = View(s)[k].flags
    BY <1>2, <1>4, <1>5, <1>7 DEF Seen
  <2>2. IF m THEN Shown(View(s), r, k) ELSE Spurned(View(s), r, "SYSTEM")
    BY <1>1, <1>3, <1>7, <2>1 DEF Spurned, Shown, Bare, Result
  <2>3. IF nval < View(s)[k].nval THEN Spurned(View(s), q, "ESPACE") ELSE Shown(View(s), q, k)
    BY <1>1, <1>3, <1>7, <2>1 DEF Spurned, Shown, Bare, Result
  <2>4. QED
    BY <1>7, <2>2, <2>3 DEF r, q
<1>8. QED
  BY <1>6, <1>7

\* shmc_add.
LEMMA AddShows ==
  ASSUME NEW s, Good(s, {}), NEW k \in Key, NEW v, IsText(v), NEW f \in Flags,
         Present(s, k) \/ ~Lost(k, v.nval), EvictToFree => ChunksEverywhere
  PROVE  LET r == AddNolock(s, k, v, f)
         IN  IF Present(s, k) THEN Spurned(View(s), r, "EXIST")
                              ELSE SetResult(View(s), r, k, v, f)
<1> DEFINE p == Probe(s, k)
<1>1. Good(p, {}) /\ View(p) = View(s)
  BY Probed, LookShows
<1> HIDE DEF p
<1>2. AddNolock(s, k, v, f) = IF Present(s, k) THEN Result(p, "EXIST") ELSE SetNolock(p, k, v, f)
  BY DEF AddNolock, p
<1>3. CASE Present(s, k)
  BY <1>1, <1>2, <1>3 DEF Spurned, Bare, Result
<1>4. CASE ~Present(s, k)
  <2>1. SetResult(View(p), SetNolock(p, k, v, f), k, v, f)
    BY <1>1, <1>4, SetShows
  <2>2. QED
    BY <1>1, <1>2, <1>4, <2>1
<1>5. QED
  BY <1>3, <1>4

\* A chunk is as large as its class, and a page of them no larger than
\* item_size_max: a value of the class of an item that is linked is.
LEMMA ValueFitsPage ==
  ASSUME NEW s, NEW F, Good(s, F), NEW i \in Linked(s), NEW k \in Key, NEW nval \in Nat,
         ItemClsid(KeyLen[k], nval) = i[1]
  PROVE  ItemSize(KeyLen[k], nval) \in Nat /\ ItemSize(KeyLen[k], nval) <= ItemSizeMax
<1> DEFINE c == i[1]
           H == Holding(SlabSize, NSlabs, ItemSize(KeyLen[k], nval))
<1>1. /\ i \in DOMAIN s.item /\ i \in ItemName /\ c \in Slabs
      /\ s.carved \in [Slabs -> Nat]
  BY LinkedByClass, ItemNamePair DEF Good, Segment
<1>2. i[2] \in Nat \ {0} /\ i[2] <= s.carved[c]
  BY <1>1, ChunkNames, ItemNamePair DEF Good, ChunksGood
<1>3. SlabCount[c] \in Nat \ {0} /\ SlabSize[c] \in Nat /\ ItemSizeMax \in Nat
  BY <1>1, <1>2, ParamAssumption DEF Good, CountsGood
<1>4. KeyLen[k] \in Nat /\ NSlabs \in Nat
  BY ParamAssumption
<1>5. ItemSize(KeyLen[k], nval) \in Nat
  BY <1>4 DEF ItemSize, ItemHdr
<1>6. H # {} /\ c = Min(H)
  <2>1. H = {} => ClassFor(SlabSize, NSlabs, ItemSize(KeyLen[k], nval)) = NSlabs
    BY DEF ClassFor
  <2>2. NSlabs \notin Slabs
    BY <1>4 DEF Slabs
  <2>3. ClassFor(SlabSize, NSlabs, ItemSize(KeyLen[k], nval)) = c
    BY DEF ItemClsid
  <2>4. QED
    BY <1>1, <2>1, <2>2, <2>3 DEF ClassFor
<1>7. H \subseteq Nat
  BY <1>4 DEF Holding
<1>8. c \in H
  BY <1>6, <1>7, LeastNumber
<1>9. ItemSize(KeyLen[k], nval) <= SlabSize[c]
  BY <1>8 DEF Holding
<1>10. SlabSize[c] * SlabCount[c] <= ItemSizeMax
  BY <1>1, PageAssumption DEF PageLen
<1> HIDE DEF c, H
<1>11. SlabSize[c] <= SlabSize[c] * SlabCount[c]
  <2>1. \A x \in Nat, y \in Nat \ {0} : x <= x * y
    OBVIOUS
  <2>2. QED
    BY <1>3, <2>1
<1>12. SlabSize[c] * SlabCount[c] \in Nat
  BY <1>3
<1>13. QED
  BY <1>3, <1>5, <1>9, <1>10, <1>11, <1>12

\* Written over the old value: it has the class of an item, so it is not larger
\* than item_size_max, but it may be as large.
Overwritten(c, r, k, v, f) ==
  /\ Bare(r, "OK") /\ View(r.shm) = Bound(c, k, Value(v, f))
  /\ ItemSize(KeyLen[k], v.nval) \in Nat /\ ItemSize(KeyLen[k], v.nval) <= ItemSizeMax

\* What the view shows of a linked item whose value has been written.
LEMMA WriteShows ==
  ASSUME NEW s, Good(s, {}), NEW i \in Linked(s), NEW v, NEW f, NEW t, Written(s, i, v, f, t)
  PROVE  View(t) = Bound(View(s), s.item[i].key, Value(v, f))
<1>1. /\ Good(t, {}) /\ Linked(t) = Linked(s) \cup {i}
      /\ t.item[i].key = s.item[i].key
      /\ \A j \in Linked(s) \ {i} : t.item[j] = s.item[j]
  BY DEF Written
<1>2. Seen(t, i) = Value(v, f)
  BY DEF Written, Seen, Value
<1>3. View(t) = Bound(View(s), t.item[i].key, Seen(t, i))
  BY <1>1, BoundView
<1>4. QED
  BY <1>1, <1>2, <1>3

\* A value of the same class is written over the one of key k.
LEMMA OverwriteShows ==
  ASSUME NEW s, Good(s, {}), NEW k \in Key, NEW v, IsText(v), NEW f \in Flags,
         Present(s, k), s.item[AssocFind(s, k)].clsid = ItemClsid(KeyLen[k], v.nval)
  PROVE  LET r == Result(Overwrite(Probe(s, k), AssocFind(s, k), v, f), "OK")
         IN  Overwritten(View(s), r, k, v, f)
<1> DEFINE p == Probe(s, k)
           i == AssocFind(s, k)
           t == Overwrite(p, i, v, f)
<1>1. /\ Good(p, {}) /\ View(p) = View(s)
      /\ i \in Linked(p) /\ p.item[i].key = k /\ p.item[i].nkey = KeyLen[k]
      /\ p.item[i].clsid = s.item[i].clsid /\ p.item[i].clsid = i[1]
  BY Probed, LookShows DEF Settled
<1> HIDE DEF p, t
<1>2. p.item[i].clsid = ItemClsid(p.item[i].nkey, v.nval)
  BY <1>1
<1> HIDE DEF i
<1>3. Written(p, i, v, f, t)
  BY <1>1, <1>2, OverwriteKeeps DEF t
<1>4. View(t) = Bound(View(s), k, Value(v, f))
  BY <1>1, <1>3, WriteShows
<1>5. v.nval \in Nat /\ ItemClsid(KeyLen[k], v.nval) = i[1]
  BY <1>1, <1>2 DEF IsText
<1>6. ItemSize(KeyLen[k], v.nval) \in Nat /\ ItemSize(KeyLen[k], v.nval) <= ItemSizeMax
  BY <1>1, <1>5, ValueFitsPage
<1>7. QED
  BY <1>4, <1>6 DEF Overwritten, Bare, Result, t, p, i

\* shmc_replace: over the old value, or the item goes and the value is set.
LEMMA ReplaceShows ==
  ASSUME NEW s, Good(s, {}), NEW k \in Key, NEW v, IsText(v), NEW f \in Flags,
         Present(s, k) => ~Lost(k, v.nval), EvictToFree => ChunksEverywhere
  PROVE  LET r == ReplaceNolock(s, k, v, f)
         IN  IF ~Present(s, k) THEN Spurned(View(s), r, "NOTFOUND")
             ELSE \/ Overwritten(View(s), r, k, v, f)
                  \/ SetResult(Without(View(s), k), r, k, v, f)
<1> DEFINE p == Probe(s, k)
           i == AssocFind(s, k)
           c == s.item[i].clsid = ItemClsid(KeyLen[k], v.nval)
           o == Result(Overwrite(p, i, v, f), "OK")
           l == Release(p, k, i)
<1>1. Good(p, {}) /\ View(p) = View(s) /\ (Present(s, k) => i \in Linked(p) /\ p.item[i].key = k)
  BY Probed, LookShows
<1>2. ReplaceNolock(s, k, v, f) =
        IF ~Present(s, k) THEN Result(p, "NOTFOUND")
        ELSE IF c THEN o ELSE SetNolock(l, k, v, f)
  BY DEF ReplaceNolock
<1>3. CASE ~Present(s, k)
  BY <1>1, <1>2, <1>3 DEF Spurned, Bare, Result
<1>4. CASE Present(s, k) /\ c
  <2>1. Overwritten(View(s), o, k, v, f)
    BY <1>4, OverwriteShows
  <2>2. QED
    BY <1>2, <1>4, <2>1
<1> HIDE DEF p, i, o
<1>5. CASE Present(s, k) /\ ~c
  <2>1. Good(l, {})
    BY <1>1, <1>5, TakenOut
  <2>2. View(l) = Without(View(s), k)
    BY <1>1, <1>5, ReleaseShows
  <2> HIDE DEF l
  <2>3. SetResult(View(l), SetNolock(l, k, v, f), k, v, f)
    BY <1>5, <2>1, SetShows
  <2>4. QED
    BY <1>2, <1>5, <2>2, <2>3
<1>6. QED
  BY <1>3, <1>4, <1>5

\* Where append and prepend move the item i of key k to chunk n.
Moved(t, k, i, n, body, f) ==
  LET u == ItemUnlink(AssocDelete(t, k), i)
  IN  ItemFree(SetFlags(Enter(u, k, n, body), i, f), i)

\* Segment m shows what t does but for k, which has the value of chunk n.
Rehoused(t, k, n, body, m) ==
  \E g \in Flags :
    View(m) = Bound(Without(View(t), k), k,
                    [nval |-> t.item[n].nval, body |-> body, flags |-> g])

\* The old item goes, and takes the flags with it.
LEMMA MoveShows ==
  ASSUME NEW t, NEW n, Good(t, {n}), NEW k \in Key, NEW i \in Linked(t), t.item[i].key = k,
         t.item[n].nkey = KeyLen[k], NEW body \in Seq(Part), NEW f \in Flags
  PROVE  Rehoused(t, k, n, body, Moved(t, k, i, n, body, f))
<1> DEFINE u == ItemUnlink(AssocDelete(t, k), i)
           e == Enter(u, k, n, body)
           x == SetFlags(e, i, f)
           m == ItemFree(x, i)
           F == {n} \cup {i}
           g == t.item[n].flags
           d == [nval |-> t.item[n].nval, body |-> body, flags |-> g]
<1>1. u = Unhooked(t, i)
  BY DEF Unhooked
<1>2. g \in Flags /\ n # i
  <2>1. n \in DOMAIN t.item /\ Linked(t) \cap {n} = {}
    BY LinkedByClass DEF Good, ChunksGood
  <2>2. t.item[n] \in ItemType
    BY <2>1, ItemMapType DEF Good, Segment
  <2>3. QED
    BY <2>1, <2>2 DEF ItemType
<1> HIDE DEF u
<1>3. Good(u, F) /\ u.item = t.item /\ Linked(u) = Linked(t) \ {i}
  <2>1. LET w == Unhooked(t, i)
        IN  /\ Good(w, {n} \cup {i}) /\ SameChunks(t, w)
            /\ Linked(w) = Linked(t) \ {i}
    BY Unhook
  <2>2. QED
    BY <1>1, <2>1 DEF SameChunks
<1>4. Missing(u, k)
  BY <1>3 DEF Good, IndexGood, Missing
<1>5. View(u) = Without(View(t), k)
  BY <1>3, LostView
<1>6. n \in F /\ i \in F \ {n} /\ u.item[n].nkey = KeyLen[k] /\ (F \ {n}) \ {i} = {}
  BY <1>2, <1>3
<1> HIDE DEF F
<1>7. View(e) = Bound(View(u), k, [nval |-> u.item[n].nval, body |-> body,
                                   flags |-> u.item[n].flags])
  BY <1>3, <1>4, <1>6, EnterShows
<1>8. Placed(u, F, k, n, body, e)
  BY <1>3, <1>4, <1>6, Entered
<1> HIDE DEF e
<1>9. Good(e, F \ {n}) /\ i \notin Linked(e) /\ i \in DOMAIN e.item
  <2>1. Good(e, F \ {n}) /\ Linked(e) = Linked(u) \cup {n}
    BY <1>8 DEF Placed
  <2>2. i \in DOMAIN e.item
    BY <1>6, <2>1 DEF Good, ChunksGood
  <2>3. QED
    BY <1>2, <1>3, <2>1, <2>2
<1>10. View(x) = View(e)
  BY <1>9, FlagShows
<1>11. Good(x, F \ {n}) /\ Linked(x) = Linked(e)
  BY <1>9, Flagged
<1> HIDE DEF x
<1>12. View(m) = View(x)
  BY <1>6, <1>11, FreeShows
<1> HIDE DEF m
<1>13. View(m) = Bound(Without(View(t), k), k, d)
  BY <1>3, <1>5, <1>7, <1>10, <1>12
<1>14. QED
  BY <1>2, <1>13 DEF Rehoused, Moved, m, x, e, u

\* What append and prepend may answer for a key that is there.
ExtendResult(c, r, k, v, f) ==
  \/ Overwritten(c, r, k, v, f)
  \/ Spurned(c, r, "ESIZE") /\ ~ItemSizeOk(KeyLen[k], v.nval)
  \/ Spurned(c, r, "NOMEMORY") /\ ~EvictToFree
  \/ /\ ItemSizeOk(KeyLen[k], v.nval)
     /\ \E g \in Flags : Entered_(c, r, k, Value(v, g))

\* shmc_append and shmc_prepend: over the old value, or the item moves.
LEMMA ExtendShows ==
  ASSUME NEW s, Good(s, {}), NEW k \in Key, NEW v, IsText(v), NEW f \in Flags,
         Present(s, k) => ~Lost(k, v.nval), EvictToFree => ChunksEverywhere
  PROVE  LET r == ExtendNolock(s, k, v, f)
         IN  IF ~Present(s, k) THEN Spurned(View(s), r, "NOTFOUND")
                               ELSE ExtendResult(View(s), r, k, v, f)
<1> DEFINE p  == Probe(s, k)
           i  == AssocFind(s, k)
           id == ItemClsid(KeyLen[k], v.nval)
           o  == Result(Overwrite(p, i, v, f), "OK")
           a  == ItemAlloc(p, KeyLen[k], v.nval)
           t  == a.shm
           n  == a.item
           m  == Moved(t, k, i, n, v.body, f)
           r  == ExtendNolock(s, k, v, f)
<1>1. Good(p, {}) /\ View(p) = View(s)
  BY Probed, LookShows
<1>2. Present(s, k) =>
        /\ i \in Linked(p) /\ p.item[i].key = k /\ p.item[i] = s.item[i] /\ Settled(p, i)
  BY Probed
<1>3. r = IF ~Present(s, k) THEN Result(p, "NOTFOUND")
          ELSE IF s.item[i].clsid = id THEN o
          ELSE IF ~ItemSizeOk(KeyLen[k], v.nval) THEN Result(p, "ESIZE")
          ELSE IF n = NoItem THEN Result(t, "NOMEMORY") ELSE Result(m, "OK")
  BY DEF ExtendNolock, Moved
<1>4. KeyLen[k] \in Nat /\ v.nval \in Nat /\ v.body \in Seq(Part)
  BY ParamAssumption DEF IsText
<1>5. Present(s, k) /\ s.item[i].clsid = id => Overwritten(View(s), o, k, v, f)
  BY OverwriteShows
<1> HIDE DEF p, i, o, r
<1>6. CASE ~Present(s, k)
  BY <1>1, <1>3, <1>6 DEF Spurned, Bare, Result, r
<1>7. CASE Present(s, k) /\ s.item[i].clsid = id
  BY <1>3, <1>5, <1>7 DEF ExtendResult, r
<1>8. CASE Present(s, k) /\ s.item[i].clsid # id /\ ~ItemSizeOk(KeyLen[k], v.nval)
  BY <1>1, <1>3, <1>8 DEF ExtendResult, Spurned, Bare, Result, r
<1>9. CASE Present(s, k) /\ s.item[i].clsid # id /\ ItemSizeOk(KeyLen[k], v.nval)
  <2>1. id \in Slabs
    BY <1>9 DEF Lost, Walks
  <2>2. Handed(p, KeyLen[k], v.nval, t, n)
    BY <1>1, <1>4, <2>1, Allocated
  <2> HIDE DEF t, n, id
  <2>3. /\ View(t) \in Spared(View(p))
        /\ n = NoItem => View(t) = View(p)
    BY <1>1, <2>2, AllocShows
  <2>4. CASE n = NoItem
    <3>1. ~EvictToFree
      BY <2>1, <2>2, <2>4 DEF Handed, ChunksEverywhere, id
    <3>2. Spurned(View(s), r, "NOMEMORY")
      BY <1>1, <1>3, <1>9, <2>3, <2>4 DEF Spurned, Bare, Result
    <3>3. QED
      BY <1>9, <3>1, <3>2 DEF ExtendResult, r
  <2>5. CASE n # NoItem
    <3>1. /\ Good(t, {n}) /\ t.item[n].nkey = KeyLen[k] /\ n[1] = id
          /\ t.item[n].nval = v.nval
          /\ \A j \in Linked(p) : j \in Linked(t) \/ j = n
          /\ \A j \in Linked(t) : t.item[j] = p.item[j]
      BY <2>2, <2>5 DEF Handed, id
    <3>2. i \in Linked(t) /\ t.item[i].key = k
      BY <1>2, <1>9, <3>1 DEF Settled
    <3>3. Rehoused(t, k, n, v.body, m)
      BY <1>4, <3>1, <3>2, MoveShows
    <3> HIDE DEF m
    <3>4. PICK g \in Flags : View(m) = Bound(Without(View(t), k), k, Value(v, g))
      BY <3>1, <3>3 DEF Rehoused, Value
    <3>5. Stored(View(s), View(m), k, Value(v, g))
      BY <1>1, <2>3, <3>4, StoredAfterDrop
    <3>6. Entered_(View(s), r, k, Value(v, g))
      BY <1>3, <1>9, <2>5, <3>5 DEF Entered_, Bare, Result
    <3>7. QED
      BY <1>9, <3>6 DEF ExtendResult, r
  <2>6. QED
    BY <2>4, <2>5
<1>10. QED
  BY <1>6, <1>7, <1>8, <1>9

\* What incr and decr answer with number n, and what they leave: a number that is
\* written over the old one, or one that is stored, or one that nobody finds, for
\* its key is gone.
Count(n, f) == [nval |-> CounterLen, body |-> Counter(n), flags |-> f]
OldFlags(c, k) == IF k \in DOMAIN c THEN c[k].flags ELSE 0
NewFlags(c, k, f) == IF f = NoFlags THEN OldFlags(c, k) ELSE f
Told(r, n, f) == r.rc = "OK" /\ r.out = Counter(n) /\ r.flags = f

Recounted(c, r, k, n, f) ==
  /\ Told(r, n, IF f = NoFlags THEN f ELSE c[k].flags)
  /\ View(r.shm) = Bound(c, k, Count(n, c[k].flags))

Begun(c, r, k, n, f) ==
  /\ Told(r, n, IF f = NoFlags THEN f ELSE NewFlags(c, k, f))
  /\ Stored(c, View(r.shm), k, Count(n, NewFlags(c, k, f)))

Vanished(c, r, k, n) ==
  /\ Told(r, n, NoFlags) \/ Told(r, n, OldFlags(c, k))
  /\ EvictToFree /\ k \in DOMAIN c /\ View(r.shm) = Without(c, k)

CounterResult(c, r, k, n, f) ==
  \/ Spurned(c, r, "NOMEMORY") /\ ~EvictToFree
  \/ Begun(c, r, k, n, f)
  \/ Vanished(c, r, k, n)

\* A counter is rewritten in place.
LEMMA RecountShows ==
  ASSUME NEW s, Good(s, {}), NEW k \in Key, NEW n, Counter(n) \in Seq(Part), NEW f,
         Present(s, k), s.item[AssocFind(s, k)].nval = CounterLen
  PROVE  LET r == Recount(Probe(s, k), AssocFind(s, k), n, f)
         IN  Recounted(View(s), r, k, n, f)
<1> DEFINE p == Probe(s, k)
           i == AssocFind(s, k)
           r == Recount(p, i, n, f)
           v == [nval |-> p.item[i].nval, body |-> Counter(n)]
           g == p.item[i].flags
<1>1. /\ Good(p, {}) /\ View(p) = View(s)
      /\ i \in Linked(p) /\ p.item[i].key = k /\ p.item[i] = s.item[i]
  BY Probed, LookShows
<1>2. g = View(s)[k].flags
  BY <1>1, ViewOfItems DEF Seen
<1>3. r.rc = "OK" /\ r.out = Counter(n) /\ r.flags = IF f = NoFlags THEN NoFlags ELSE g
  BY DEF Recount
<1> HIDE DEF p, i
<1>4. Written(p, i, v, g, r.shm)
  BY <1>1, RecountKeeps
<1> HIDE DEF r
<1>5. View(r.shm) = Bound(View(p), p.item[i].key, Value(v, g))
  BY <1>1, <1>4, WriteShows
<1>6. Value(v, g) = Count(n, g)
  BY <1>1 DEF Value, Count, i
<1>7. QED
  BY <1>1, <1>2, <1>3, <1>5, <1>6 DEF Recounted, Told, r, p, i

\* An item is allocated for a counter: it is stored, or the old item was evicted
\* to make room and the chunk that was its own is given back.
LEMMA NewCounterShows ==
  ASSUME NEW s, Good(s, {}), NEW k \in Key, NEW n, Counter(n) \in Seq(Part),
         NEW f \in Flags \cup {NoFlags}, ~Walks(k, CounterLen),
         EvictToFree => ChunksEverywhere
  PROVE  CounterResult(View(s), NewCounter(Probe(s, k), k, n, f), k, n, f)
<1> DEFINE p   == Probe(s, k)
           i   == AssocFind(p, k)
           id  == ItemClsid(KeyLen[k], CounterLen)
           a   == ItemAlloc(p, KeyLen[k], CounterLen)
           t   == a.shm
           x   == a.item
           d   == IF Present(p, k) THEN Release(t, k, i) ELSE t
           old == IF ~Present(p, k) THEN 0 ELSE p.item[i].flags
           fl  == IF f = NoFlags THEN old ELSE f
           b   == Counter(n)
           e   == SetFlags(Enter(d, k, x, b), x, fl)
           out == IF f = NoFlags THEN NoFlags ELSE IF x = i THEN old ELSE fl
           r   == NewCounter(p, k, n, f)
           c   == View(s)
<1>1. /\ Good(p, {}) /\ View(p) = c /\ Present(p, k) = Present(s, k)
      /\ ~Present(s, k) => Missing(p, k)
  BY ProbeGood, Probed, LookShows
<1>2. Present(p, k) => i \in Linked(p) /\ p.item[i].key = k /\ p.item[i] \in ItemType
  BY ProbeGood, Probed
<1>3. old \in Flags /\ old = OldFlags(c, k)
  <2>1. CASE Present(p, k)
    <3>1. k \in DOMAIN c /\ c[k].flags = p.item[i].flags
      BY <1>1, <1>2, <2>1, ViewOfItems DEF Seen
    <3>2. QED
      BY <1>2, <2>1, <3>1 DEF ItemType, OldFlags
  <2>2. CASE ~Present(p, k)
    BY <1>1, <2>2, ViewOfItems DEF OldFlags, Flags
  <2>3. QED
    BY <2>1, <2>2
<1>4. fl \in Flags /\ fl = NewFlags(c, k, f)
  BY <1>3 DEF NewFlags
<1>5. r = IF x = NoItem THEN Result(t, "NOMEMORY")
          ELSE [shm |-> IF x = i THEN d ELSE e, rc |-> "OK", out |-> b, flags |-> out]
  BY DEF NewCounter
<1>6. KeyLen[k] \in Nat /\ CounterLen \in Nat /\ id \in Slabs /\ b \in Seq(Part)
  BY ParamAssumption DEF CounterLen, Walks
<1>7. x # i => out = IF f = NoFlags THEN f ELSE NewFlags(c, k, f)
  BY <1>4
<1>8. x = i => out = NoFlags \/ out = OldFlags(c, k)
  BY <1>3
<1> HIDE DEF p, r, b, fl, i, old, out, c
<1> SUFFICES CounterResult(c, r, k, n, f)
  BY DEF r, c, p
<1>9. Handed(p, KeyLen[k], CounterLen, t, x)
  BY <1>1, <1>6, Allocated
<1> HIDE DEF t, x
<1>10. View(t) \in Spared(c) /\ (x = NoItem => View(t) = c)
  BY <1>1, <1>9, AllocShows
<1>11. CASE x = NoItem
  <2>1. ~EvictToFree
    BY <1>6, <1>9, <1>11 DEF Handed, ChunksEverywhere
  <2>2. Spurned(c, r, "NOMEMORY")
    BY <1>5, <1>10, <1>11 DEF Spurned, Bare, Result
  <2>3. QED
    BY <2>1, <2>2 DEF CounterResult
<1>12. CASE x # NoItem
  <2>1. /\ Good(t, {x}) /\ t.item[x].nkey = KeyLen[k] /\ t.item[x].nval = CounterLen
        /\ \A j \in Linked(p) : j \in Linked(t) \/ j = x
        /\ \A j \in Linked(t) : j \in Linked(p) /\ t.item[j] = p.item[j]
    BY <1>9, <1>12 DEF Handed
  <2>2. x \in ItemName /\ x \notin Linked(t)
    <3>1. Linked(t) \cap {x} = {} /\ DOMAIN t.item \subseteq ItemName
      BY <2>1, LinkedByClass DEF Good
    <3>2. {x} \subseteq DOMAIN t.item
      BY <2>1 DEF Good, ChunksGood
    <3>3. QED
      BY <3>1, <3>2
  <2>3. CASE Present(p, k) /\ x = i
    <3>1. Missing(t, k)
      BY <1>1, <1>2, <2>1, <2>2, <2>3, SMTT(40) DEF Missing, Good, IndexGood
    <3>2. d = Release(t, k, i)
      BY <2>3
    <3>3. View(t) = Without(c, k) /\ EvictToFree
      <4>1. View(t) = Without(View(p), p.item[i].key)
        BY <1>1, <1>2, <1>9, <2>3, AllocShows
      <4>2. Linked(t) # Linked(p)
        BY <1>2, <2>2, <2>3
      <4>3. QED
        BY <1>1, <1>2, <1>9, <2>3, <4>1, <4>2 DEF Handed, Evicted
    <3> HIDE DEF d
    <3>4. View(d) = View(t)
      <4>1. LET w == Release(t, k, x)
            IN  /\ Good(w, {}) /\ Linked(w) = Linked(t)
                /\ \A j \in Linked(t) : w.item[j] = t.item[j]
        BY <2>1, <2>2, <3>1, HandedBack
      <4>2. Good(d, {}) /\ Linked(d) = Linked(t) /\ \A j \in Linked(t) : d.item[j] = t.item[j]
        BY <2>3, <3>2, <4>1
      <4>3. QED
        BY <2>1, <4>2, SameView
    <3>5. k \in DOMAIN c
      BY <1>1, <1>2, <2>3, ViewOfItems
    <3>6. Told(r, n, NoFlags) \/ Told(r, n, OldFlags(c, k))
      BY <1>5, <1>8, <1>12, <2>3 DEF Told, b
    <3>7. r.shm = d
      BY <1>5, <1>12, <2>3
    <3>8. Vanished(c, r, k, n)
      BY <3>3, <3>4, <3>5, <3>6, <3>7 DEF Vanished
    <3>9. QED
      BY <3>8 DEF CounterResult
  <2>4. CASE ~(Present(p, k) /\ x = i)
    <3>1. x # i
      BY <1>12, <2>4 DEF i, AssocFind, Present
    <3>2. /\ Good(d, {x}) /\ Missing(d, k)
          /\ d.item[x].nkey = KeyLen[k] /\ d.item[x].nval = CounterLen
          /\ View(d) = View(t) \/ View(d) = Without(View(t), k)
      <4>1. CASE Present(p, k)
        <5>1. i \in Linked(t) /\ t.item[i].key = k
          BY <1>2, <2>1, <3>1, <4>1
        <5>2. d = Release(t, k, i)
          BY <4>1
        <5> HIDE DEF d
        <5>3. Good(d, {x}) /\ Missing(d, k) /\ d.item[x] = t.item[x]
          BY <2>1, <5>1, <5>2, TakenOut
        <5>4. View(d) = Without(View(t), k)
          BY <2>1, <5>1, <5>2, ReleaseShows
        <5>5. QED
          BY <2>1, <5>3, <5>4
      <4>2. CASE ~Present(p, k)
        BY <1>1, <2>1, <4>2 DEF Missing
      <4>3. QED
        BY <4>1, <4>2
    <3> HIDE DEF d
    <3>3. View(e) = Bound(View(d), k, [nval |-> d.item[x].nval, body |-> b, flags |-> fl])
      BY <1>4, <1>6, <3>2, StoreShows
    <3> HIDE DEF e
    <3>4. View(e) = Bound(View(d), k, Count(n, NewFlags(c, k, f)))
      BY <1>4, <3>2, <3>3 DEF Count, b
    <3>5. Stored(c, View(e), k, Count(n, NewFlags(c, k, f)))
      BY <1>10, <3>2, <3>4, StoredAfterDrop
    <3>6. r.shm = e /\ Told(r, n, IF f = NoFlags THEN f ELSE NewFlags(c, k, f))
      BY <1>5, <1>7, <1>12, <3>1 DEF Told, b
    <3>7. Begun(c, r, k, n, f)
      BY <3>5, <3>6 DEF Begun
    <3>8. QED
      BY <3>7 DEF CounterResult
  <2>5. QED
    BY <2>3, <2>4
<1>13. QED
  BY <1>11, <1>12

\* shmc_incr and shmc_decr: the number comes from the value of the key, if any.
LEMMA ArithmeticShows ==
  ASSUME NEW s, Good(s, {}), NEW k \in Key, NEW val \in Nat, NEW incr \in BOOLEAN,
         NEW f \in Flags \cup {NoFlags},
         (IF Present(s, k) THEN s.item[AssocFind(s, k)].nval # CounterLen ELSE DefaultCounter)
           => ~Walks(k, CounterLen),
         EvictToFree => ChunksEverywhere
  PROVE  LET r == Arithmetic(s, k, val, incr, f)
             c == View(s)
             n == NewNumber(Word, IF k \in DOMAIN c THEN SafeStrtoull(c[k].body) ELSE 0, val, incr)
         IN  IF k \notin DOMAIN c /\ ~DefaultCounter THEN Spurned(c, r, "NOTFOUND")
             ELSE IF k \in DOMAIN c /\ c[k].nval = CounterLen THEN Recounted(c, r, k, n, f)
             ELSE CounterResult(c, r, k, n, f)
<1> DEFINE i   == AssocFind(s, k)
           old == IF Present(s, k) THEN SafeStrtoull(s.item[i].body) ELSE 0
           n   == NewNumber(Word, old, val, incr)
           p   == Probe(s, k)
           r   == Arithmetic(s, k, val, incr, f)
           c   == View(s)
           new == IF k \in DOMAIN c THEN SafeStrtoull(c[k].body) ELSE 0
<1>1. Good(p, {}) /\ View(p) = c /\ (Present(s, k) => i \in Linked(p) /\ s.item[i] \in ItemType)
  BY Probed, LookShows
<1>2. Counter(n) \in Seq(Part)
  <2>1. CASE Present(s, k)
    <3>1. s.item[i].body \in Seq(Part)
      BY <1>1, <2>1 DEF ItemType
    <3>2. QED
      BY <2>1, <3>1, NumberInRange
  <2>2. CASE ~Present(s, k)
    <3>1. <<>> \in Seq(Part)
      OBVIOUS
    <3>2. QED
      BY <2>2, <3>1, NumberInRange
  <2>3. QED
    BY <2>1, <2>2
<1>3. r = IF ~Present(s, k) /\ ~DefaultCounter THEN Result(p, "NOTFOUND")
          ELSE IF Present(s, k) /\ s.item[i].nval = CounterLen THEN Recount(p, i, n, f)
          ELSE NewCounter(p, k, n, f)
  BY DEF Arithmetic
<1>4. /\ Present(s, k) <=> k \in DOMAIN c
      /\ Present(s, k) => c[k].nval = s.item[i].nval /\ c[k].body = s.item[i].body
  BY ViewOfItems DEF Seen
<1>5. new = old
  BY <1>4
<1> HIDE DEF i, old, new, r, p, c
<1>6. n = NewNumber(Word, new, val, incr)
  BY <1>5
<1> HIDE DEF n
<1>7. CASE k \notin DOMAIN c /\ ~DefaultCounter
  BY <1>1, <1>3, <1>4, <1>7 DEF Spurned, Bare, Result, r, c
<1>8. CASE k \in DOMAIN c /\ c[k].nval = CounterLen
  <2>1. r = Recount(p, i, n, f)
    BY <1>3, <1>4, <1>8
  <2>2. Present(s, k) /\ s.item[i].nval = CounterLen
    BY <1>4, <1>8
  <2>3. Recounted(c, r, k, n, f)
    BY <1>2, <2>1, <2>2, RecountShows DEF c, p, i
  <2>4. QED
    BY <1>6, <1>8, <2>3 DEF r, c, new
<1>9. CASE ~(k \notin DOMAIN c /\ ~DefaultCounter) /\ ~(k \in DOMAIN c /\ c[k].nval = CounterLen)
  <2>1. r = NewCounter(p, k, n, f)
    BY <1>3, <1>4, <1>9
  <2>2. ~Walks(k, CounterLen)
    BY <1>4, <1>9 DEF i
  <2>3. CounterResult(c, r, k, n, f)
    BY <1>2, <2>1, <2>2, NewCounterShows DEF c, p
  <2>4. QED
    BY <1>6, <1>9, <2>3 DEF r, c, new
<1>10. QED
  BY <1>7, <1>8, <1>9

-------------------------------------------------------------------------------
(***************************************************************************)
(* The steps of the segment are steps of the map. Content of ShmcStore is  *)
(* the view of shm, and Promise!X is X of Cache on it.                     *)
(***************************************************************************)
\* The map of Cache and the view, operator by operator.
LEMMA MapsAgree ==
  /\ Content = View(shm) /\ Content' = View(shm')
  /\ Promise!Held = DOMAIN Content
  /\ Promise!Room = Spared(Content)
  /\ \A c, k, e : Promise!Bind(c, k, e) = Bound(c, k, e)
  /\ \A v, f : Promise!Entry(v, f) = Value(v, f)
  /\ \A k, n : Promise!TooLarge(k, n) <=> ~ItemSizeOk(KeyLen[k], n)
  /\ Promise!NoFlags = NoFlags
<1>1. Content = View(shm) /\ Content' = View(shm')
  BY DEF Content, View, Seen
<1>2. Promise!Held = DOMAIN Content
  BY DEF Promise!Held
<1>3. Promise!Room = Spared(Content)
  BY <1>2 DEF Promise!Room, Promise!Restrict, Spared, Without
<1>4. \A c, k, e : Promise!Bind(c, k, e) = Bound(c, k, e)
  BY DEF Promise!Bind, Bound
<1>5. \A v, f : Promise!Entry(v, f) = Value(v, f)
  BY DEF Promise!Entry, Value
<1>6. \A k, n : Promise!TooLarge(k, n) <=> ~ItemSizeOk(KeyLen[k], n)
  BY DEF Promise!TooLarge, Promise!SizeAccepted, Promise!ItemSize, Promise!ItemHdr,
         ItemSizeOk, SizeAccepted, ItemSize, ItemHdr
<1>7. Promise!NoFlags = NoFlags
  BY DEF Promise!NoFlags, NoFlags
<1>8. QED
  BY <1>1, <1>2, <1>3, <1>4, <1>5, <1>6, <1>7

\* To store under k, and to drop k.
LEMMA KeepsAndDrops ==
  ASSUME NEW k, NEW e
  PROVE  /\ Promise!Keep(k, e) <=> Stored(Content, Content', k, e)
         /\ Promise!Drop(k) <=> Content' = Without(Content, k)
<1>1. Promise!Keep(k, e) <=> Stored(Content, Content', k, e)
  <2>1. Promise!Keep(k, e) <=> \E c \in Promise!Room : Content' = Promise!Bind(c, k, e)
    BY DEF Promise!Keep
  <2>2. QED
    BY <2>1, MapsAgree DEF Stored
<1>2. Promise!Drop(k) <=> Content' = Without(Content, k)
  BY MapsAgree DEF Promise!Drop, Promise!Restrict, Without
<1>3. QED
  BY <1>1, <1>2

\* The answer of an operation is the answer of the map.
LEMMA Answers ==
  ASSUME NEW op, NEW k, NEW f, NEW r, Answer(op, k, f, r)
  PROVE  Content' = View(r.shm) /\ Promise!Answered(op, k, r.rc, r.out, f)
<1>1. shm' = r.shm
  BY DEF Answer
<1>2. Promise!Answered(op, k, r.rc, r.out, f)
  BY DEF Answer, Promise!Answered
<1>3. Content' = View(shm')
  BY MapsAgree
<1>4. QED
  BY <1>1, <1>2, <1>3

\* The ways an operation ends are those of Cache.
LEMMA Endings ==
  ASSUME NEW op, NEW k, NEW f, NEW r, Answer(op, k, f, r), NEW rc, NEW v
  PROVE  /\ Spurned(Content, r, rc) => Promise!Refuse(op, k, rc, f)
         /\ Dropped(Content, r, k, rc) => Promise!Lose(op, k, rc, f)
         /\ PutResult(Content, r, k, Value(v, f)) => Promise!Put(op, k, v, f)
<1>1. Content' = View(r.shm) /\ Promise!Answered(op, k, r.rc, r.out, f)
  BY Answers
<1>2. ASSUME Spurned(Content, r, rc) PROVE Promise!Refuse(op, k, rc, f)
  BY <1>1, <1>2 DEF Spurned, Bare, Promise!Refuse
<1>3. ASSUME NEW x, Dropped(Content, r, k, x) PROVE Promise!Lose(op, k, x, f)
  BY <1>1, <1>3, KeepsAndDrops DEF Dropped, Bare, Promise!Lose
<1>4. ASSUME PutResult(Content, r, k, Value(v, f)) PROVE Promise!Put(op, k, v, f)
  <2>1. CASE Entered_(Content, r, k, Value(v, f))
    <3>1. Promise!Keep(k, Promise!Entry(v, f))
      BY <1>1, <2>1, KeepsAndDrops, MapsAgree DEF Entered_
    <3>2. Promise!Answered(op, k, "OK", <<>>, f)
      BY <1>1, <2>1 DEF Entered_, Bare
    <3>3. QED
      BY <3>1, <3>2 DEF Promise!Put
  <2>2. CASE Dropped(Content, r, k, "NOMEMORY") /\ ~EvictToFree
    BY <1>3, <2>2 DEF Promise!Put
  <2>3. QED
    BY <1>4, <2>1, <2>2 DEF PutResult
<1>5. QED
  BY <1>2, <1>3, <1>4

\* A value written over the old one is a value stored, unless it is as large as
\* item_size_max.
LEMMA Brims ==
  ASSUME NEW op, NEW k, NEW f, NEW r, Answer(op, k, f, r), NEW v, k \in DOMAIN Content,
         Content = [x \in DOMAIN Content |-> Content[x]],
         Overwritten(Content, r, k, v, f)
  PROVE  \/ /\ Promise!Answered(op, k, "OK", <<>>, f)
            /\ ~Promise!TooLarge(k, v.nval) /\ Promise!Keep(k, Promise!Entry(v, f))
         \/ Promise!Brim(op, k, v, f)
<1>1. Content' = Bound(Content, k, Value(v, f)) /\ Promise!Answered(op, k, "OK", <<>>, f)
  BY Answers DEF Overwritten, Bare
<1>2. CASE ItemSizeOk(KeyLen[k], v.nval)
  <2>1. Stored(Content, Content', k, Value(v, f))
    BY <1>1 DEF Stored, Spared
  <2>2. QED
    BY <1>1, <1>2, <2>1, KeepsAndDrops, MapsAgree
<1>3. CASE ~ItemSizeOk(KeyLen[k], v.nval)
  <2>1. ItemSize(KeyLen[k], v.nval) = ItemSizeMax
    BY <1>3, ParamAssumption DEF Overwritten, ItemSizeOk, SizeAccepted
  <2>2. Promise!ItemSize(KeyLen[k], v.nval) = ItemSizeMax
    BY <2>1 DEF Promise!ItemSize, Promise!ItemHdr, ItemSize, ItemHdr
  <2>3. Content' = [Content EXCEPT ![k] = Promise!Entry(v, f)]
    BY <1>1, MapsAgree DEF Bound
  <2>4. QED
    BY <1>1, <2>2, <2>3, MapsAgree DEF Promise!Brim
<1>4. QED
  BY <1>2, <1>3

\* What the steps start from.
LEMMA ContentOf ==
  ASSUME Good(shm, {}), NEW k \in Key
  PROVE  /\ Content = [x \in DOMAIN Content |-> Content[x]]
         /\ Present(shm, k) <=> k \in DOMAIN Content
         /\ Present(shm, k) => Content[k] = Seen(shm, AssocFind(shm, k))
  BY ViewOfItems, MapsAgree

\* shmc_get, shmc_getf.
LEMMA ReadRefines ==
  ASSUME Good(shm, {}), NEW k \in Key
  PROVE  /\ Get(k) => Promise!Get(k)
         /\ Getf(k) => Promise!Getf(k)
<1>1. ASSUME NEW op, NEW r, Answer(op, k, r.flags, r)
      PROVE  /\ \A rc : Spurned(Content, r, rc) => Promise!Refuse(op, k, rc, Promise!NoFlags)
             /\ Present(shm, k) /\ Shown(Content, r, k) => Promise!Hand(op, k)
  <2>1. ASSUME NEW rc, Spurned(Content, r, rc)
        PROVE  Promise!Refuse(op, k, rc, Promise!NoFlags)
    <3>1. r.flags = Promise!NoFlags
      BY <2>1, MapsAgree DEF Spurned, Bare
    <3>2. Promise!Refuse(op, k, rc, r.flags)
      BY <1>1, <2>1, Endings
    <3>3. QED
      BY <3>1, <3>2
  <2>2. ASSUME Present(shm, k), Shown(Content, r, k) PROVE Promise!Hand(op, k)
    <3>1. Content' = Content /\ Promise!Answered(op, k, "OK", Content[k].body, Content[k].flags)
      BY <1>1, <2>2, Answers DEF Shown
    <3>2. k \in Promise!Held
      BY <2>2, ContentOf, MapsAgree
    <3>3. Content[k] \in {Content[x] : x \in Promise!Held \cap {k}}
      BY <3>2
    <3>4. QED
      BY <3>1, <3>3 DEF Promise!Hand
  <2>3. QED
    BY <2>1, <2>2
<1>2. Present(shm, k) <=> k \in Promise!Held
  BY ContentOf, MapsAgree
<1>3. ASSUME Get(k) PROVE Promise!Get(k)
  <2>1. PICK m \in BOOLEAN :
          Answer("get", k, GetNolock(shm, k, m).flags, GetNolock(shm, k, m))
    BY <1>3 DEF Get
  <2> DEFINE r == GetNolock(shm, k, m)
  <2>2. /\ ~Present(shm, k) => Spurned(Content, r, "NOTFOUND")
        /\ Present(shm, k) => IF m THEN Shown(Content, r, k) ELSE Spurned(Content, r, "SYSTEM")
    BY ReadShows, MapsAgree
  <2> HIDE DEF r
  <2>3. Answer("get", k, r.flags, r)
    BY <2>1 DEF r
  <2>4. QED
    BY <1>1, <1>2, <2>2, <2>3 DEF Promise!Get
<1>4. ASSUME Getf(k) PROVE Promise!Getf(k)
  <2>1. PICK n \in Capacity :
          Answer("getf", k, GetfNolock(shm, k, n).flags, GetfNolock(shm, k, n))
    BY <1>4 DEF Getf
  <2> DEFINE q == GetfNolock(shm, k, n)
  <2>2. /\ ~Present(shm, k) => Spurned(Content, q, "NOTFOUND")
        /\ Present(shm, k) => IF n < Content[k].nval THEN Spurned(Content, q, "ESPACE")
                                                    ELSE Shown(Content, q, k)
    BY ReadShows, MapsAgree
  <2> HIDE DEF q
  <2>3. Answer("getf", k, q.flags, q)
    BY <2>1 DEF q
  <2>4. CASE ~Present(shm, k)
    BY <1>1, <1>2, <2>2, <2>3, <2>4 DEF Promise!Getf
  <2>5. CASE Present(shm, k) /\ n < Content[k].nval
    BY <1>1, <1>2, <2>2, <2>3, <2>5 DEF Promise!Getf
  <2>6. CASE Present(shm, k) /\ ~(n < Content[k].nval)
    <3>0. Content[k].nval \in Nat
      <4>1. shm.item[AssocFind(shm, k)] \in ItemType
        BY <2>6, Probed
      <4>2. Content[k] = Seen(shm, AssocFind(shm, k))
        BY <2>6, ContentOf
      <4>3. Seen(shm, AssocFind(shm, k)).nval = shm.item[AssocFind(shm, k)].nval
        BY DEF Seen
      <4>4. QED
        BY <4>1, <4>2, <4>3 DEF ItemType
    <3>1. n >= Content[k].nval
      BY <2>6, <3>0, ParamAssumption
    <3>2. Promise!Hand("getf", k)
      BY <1>1, <2>2, <2>3, <2>6
    <3>3. QED
      BY <3>1, <3>2 DEF Promise!Getf
  <2>7. QED
    BY <2>4, <2>5, <2>6
<1>5. QED
  BY <1>3, <1>4

\* shmc_del.
LEMMA DelRefines ==
  ASSUME Good(shm, {}), NEW k \in Key, Del(k)
  PROVE  Promise!Del(k)
<1> DEFINE r == DelNolock(shm, k)
<1>1. Answer("del", k, NoFlags, r)
  BY DEF Del
<1>2. /\ Present(shm, k) => Dropped(Content, r, k, "OK")
      /\ ~Present(shm, k) => Spurned(Content, r, "NOTFOUND")
  BY DelShows, MapsAgree
<1> HIDE DEF r
<1>3. /\ Present(shm, k) => Promise!Lose("del", k, "OK", NoFlags)
      /\ ~Present(shm, k) => Promise!Refuse("del", k, "NOTFOUND", NoFlags)
  BY <1>1, <1>2, Endings
<1>4. QED
  BY <1>3, ContentOf, MapsAgree DEF Promise!Del

\* What shmc_set ends in, for the calls that go through it.
LEMMA SetEnds ==
  ASSUME NEW op, NEW k, NEW f, NEW r, Answer(op, k, f, r), NEW v,
         SetResult(Content, r, k, v, f)
  PROVE  \/ Promise!Refuse(op, k, "ESIZE", f) /\ Promise!TooLarge(k, v.nval)
         \/ Promise!Put(op, k, v, f) /\ ~Promise!TooLarge(k, v.nval)
  BY Endings, MapsAgree DEF SetResult

\* shmc_set.
LEMMA SetRefines ==
  ASSUME Good(shm, {}), NEW k \in Key, Set(k), EvictToFree => ChunksEverywhere
  PROVE  Promise!Set(k)
<1>1. PICK v \in Text, f \in FlagSet :
        ~Lost(k, v.nval) /\ Answer("set", k, f, SetNolock(shm, k, v, f))
  BY DEF Set
<1>2. f \in Flags /\ IsText(v)
  BY ParamAssumption DEF IsText, Flags
<1>3. SetResult(Content, SetNolock(shm, k, v, f), k, v, f)
  BY <1>1, <1>2, SetShows, MapsAgree
<1>4. \/ Promise!Refuse("set", k, "ESIZE", f) /\ Promise!TooLarge(k, v.nval)
      \/ Promise!Put("set", k, v, f) /\ ~Promise!TooLarge(k, v.nval)
  BY <1>1, <1>3, SetEnds
<1>5. QED
  BY <1>4 DEF Promise!Set

\* shmc_add.
LEMMA AddRefines ==
  ASSUME Good(shm, {}), NEW k \in Key, Add(k), EvictToFree => ChunksEverywhere
  PROVE  Promise!Add(k)
<1>1. PICK v \in Text, f \in FlagSet :
        /\ Present(shm, k) \/ ~Lost(k, v.nval)
        /\ Answer("add", k, f, AddNolock(shm, k, v, f))
  BY DEF Add
<1>2. f \in Flags /\ IsText(v)
  BY ParamAssumption DEF IsText, Flags
<1> DEFINE r == AddNolock(shm, k, v, f)
<1>3. IF Present(shm, k) THEN Spurned(Content, r, "EXIST") ELSE SetResult(Content, r, k, v, f)
  BY <1>1, <1>2, AddShows, MapsAgree
<1> HIDE DEF r
<1>4. Answer("add", k, f, r)
  BY <1>1 DEF r
<1>5. Present(shm, k) <=> k \in Promise!Held
  BY ContentOf, MapsAgree
<1>6. CASE Present(shm, k)
  <2>1. Promise!Refuse("add", k, "EXIST", f)
    BY <1>3, <1>4, <1>6, Endings
  <2>2. QED
    BY <1>5, <1>6, <2>1 DEF Promise!Add
<1>7. CASE ~Present(shm, k)
  <2>1. \/ Promise!Refuse("add", k, "ESIZE", f) /\ Promise!TooLarge(k, v.nval)
        \/ Promise!Put("add", k, v, f) /\ ~Promise!TooLarge(k, v.nval)
    BY <1>3, <1>4, <1>7, SetEnds
  <2>2. QED
    BY <1>5, <1>7, <2>1 DEF Promise!Add
<1>8. QED
  BY <1>6, <1>7

\* shmc_replace.
LEMMA ReplaceRefines ==
  ASSUME Good(shm, {}), NEW k \in Key, Replace(k), EvictToFree => ChunksEverywhere
  PROVE  Promise!Replace(k)
<1>1. PICK v \in Text, f \in FlagSet :
        /\ Present(shm, k) => ~Lost(k, v.nval)
        /\ Answer("replace", k, f, ReplaceNolock(shm, k, v, f))
  BY DEF Replace
<1>2. f \in Flags /\ IsText(v)
  BY ParamAssumption DEF IsText, Flags
<1> DEFINE r == ReplaceNolock(shm, k, v, f)
<1>3. IF ~Present(shm, k) THEN Spurned(Content, r, "NOTFOUND")
      ELSE \/ Overwritten(Content, r, k, v, f)
           \/ SetResult(Without(Content, k), r, k, v, f)
  BY <1>1, <1>2, ReplaceShows, MapsAgree
<1> HIDE DEF r
<1>4. Answer("replace", k, f, r)
  BY <1>1 DEF r
<1>5. Present(shm, k) <=> k \in Promise!Held
  BY ContentOf, MapsAgree
<1>6. CASE ~Present(shm, k)
  <2>1. Promise!Refuse("replace", k, "NOTFOUND", f)
    BY <1>3, <1>4, <1>6, Endings
  <2>2. QED
    BY <1>5, <1>6, <2>1 DEF Promise!Replace
<1>7. CASE Present(shm, k) /\ Overwritten(Content, r, k, v, f)
  <2>1. \/ /\ Promise!Answered("replace", k, "OK", <<>>, f)
           /\ ~Promise!TooLarge(k, v.nval) /\ Promise!Keep(k, Promise!Entry(v, f))
        \/ Promise!Brim("replace", k, v, f)
    BY <1>4, <1>7, Brims, ContentOf
  <2>2. CASE Promise!Brim("replace", k, v, f)
    BY <2>2 DEF Promise!Replace
  <2>3. CASE /\ Promise!Answered("replace", k, "OK", <<>>, f)
             /\ ~Promise!TooLarge(k, v.nval) /\ Promise!Keep(k, Promise!Entry(v, f))
    <3>1. Promise!Put("replace", k, v, f)
      BY <2>3 DEF Promise!Put
    <3>2. QED
      BY <1>5, <1>7, <2>3, <3>1 DEF Promise!Replace
  <2>4. QED
    BY <2>1, <2>2, <2>3
<1>8. CASE Present(shm, k) /\ SetResult(Without(Content, k), r, k, v, f)
  <2>1. CASE ItemSizeOk(KeyLen[k], v.nval)
    <3>1. PutResult(Content, r, k, Value(v, f))
      BY <1>8, <2>1, SetAfterDrop, ContentOf DEF SetResult
    <3>2. Promise!Put("replace", k, v, f) /\ ~Promise!TooLarge(k, v.nval)
      BY <1>4, <2>1, <3>1, Endings, MapsAgree
    <3>3. QED
      BY <1>5, <1>8, <3>2 DEF Promise!Replace
  <2>2. CASE ~ItemSizeOk(KeyLen[k], v.nval)
    <3>1. Dropped(Content, r, k, "ESIZE")
      BY <1>8, <2>2 DEF SetResult, Spurned, Dropped
    <3>2. Promise!Lose("replace", k, "ESIZE", f) /\ Promise!TooLarge(k, v.nval)
      BY <1>4, <2>2, <3>1, Endings, MapsAgree
    <3>3. QED
      BY <1>5, <1>8, <3>2 DEF Promise!Replace
  <2>3. QED
    BY <2>1, <2>2
<1>9. QED
  BY <1>3, <1>6, <1>7, <1>8

\* The values append and prepend may be asked for are those of Cache.
LEMMA JoinsAreGrown ==
  ASSUME Good(shm, {}), NEW k \in Key, Present(shm, k), NEW front \in BOOLEAN,
         NEW w \in Joins(k, front)
  PROVE  w \in Promise!Grown(k, front)
<1> DEFINE it == shm.item[AssocFind(shm, k)]
<1>1. (\E v \in Text : w = Joined(it, v, front)) /\ Len(w.body) <= MaxParts
  BY DEF Joins
<1>2. PICK v \in Text : w = Joined(it, v, front)
  BY <1>1
<1>3. k \in Promise!Held /\ Content[k] = Seen(shm, AssocFind(shm, k))
  BY ContentOf, MapsAgree
<1>4. Content[k].nval = it.nval /\ Content[k].body = it.body
  BY <1>3 DEF Seen
<1> HIDE DEF it
<1>5. w = Promise!Joined(Content[k], v, front)
  BY <1>2, <1>4 DEF Joined, Promise!Joined
<1>6. QED
  BY <1>1, <1>3, <1>5 DEF Promise!Grown

\* shmc_append, shmc_prepend.
LEMMA ExtendRefines ==
  ASSUME Good(shm, {}), NEW k \in Key, NEW op, NEW front \in BOOLEAN, Extend(op, k, front),
         EvictToFree => ChunksEverywhere
  PROVE  Promise!Extend(op, k, front)
<1>1. PICK w \in Joins(k, front), f \in FlagSet :
        /\ Present(shm, k) => ~Lost(k, w.nval)
        /\ Answer(op, k, f, ExtendNolock(shm, k, w, f))
  BY DEF Extend
<1>2. f \in Flags /\ IsText(w)
  BY ParamAssumption, JoinsAreTexts DEF Flags
<1> DEFINE r == ExtendNolock(shm, k, w, f)
<1>3. IF ~Present(shm, k) THEN Spurned(Content, r, "NOTFOUND")
                          ELSE ExtendResult(Content, r, k, w, f)
  BY <1>1, <1>2, ExtendShows, MapsAgree
<1> HIDE DEF r
<1>4. Answer(op, k, f, r)
  BY <1>1 DEF r
<1>5. Present(shm, k) <=> k \in Promise!Held
  BY ContentOf, MapsAgree
<1>6. Present(shm, k) => w \in Promise!Grown(k, front)
  BY JoinsAreGrown
<1>7. CASE ~Present(shm, k)
  <2>1. Promise!Refuse(op, k, "NOTFOUND", f)
    BY <1>3, <1>4, <1>7, Endings
  <2>2. QED
    BY <1>5, <1>7, <2>1 DEF Promise!Extend
<1>8. CASE Present(shm, k) /\ Overwritten(Content, r, k, w, f)
  <2>1. \/ /\ Promise!Answered(op, k, "OK", <<>>, f)
           /\ ~Promise!TooLarge(k, w.nval) /\ Promise!Keep(k, Promise!Entry(w, f))
        \/ Promise!Brim(op, k, w, f)
    BY <1>4, <1>8, Brims, ContentOf
  <2>2. QED
    BY <1>6, <1>8, <2>1 DEF Promise!Extend
<1>9. CASE Present(shm, k) /\ Spurned(Content, r, "ESIZE") /\ ~ItemSizeOk(KeyLen[k], w.nval)
  <2>1. Promise!Refuse(op, k, "ESIZE", f) /\ Promise!TooLarge(k, w.nval)
    BY <1>4, <1>9, Endings, MapsAgree
  <2>2. QED
    BY <1>6, <1>9, <2>1 DEF Promise!Extend
<1>10. CASE Present(shm, k) /\ Spurned(Content, r, "NOMEMORY") /\ ~EvictToFree
  <2>1. Promise!Refuse(op, k, "NOMEMORY", f)
    BY <1>4, <1>10, Endings
  <2>2. QED
    BY <1>5, <1>10, <2>1 DEF Promise!Extend
<1>11. CASE /\ Present(shm, k) /\ ItemSizeOk(KeyLen[k], w.nval)
            /\ \E g \in Flags : Entered_(Content, r, k, Value(w, g))
  <2>1. PICK g \in Flags : Entered_(Content, r, k, Value(w, g))
    BY <1>11
  <2>2. r.rc = "OK" /\ r.out = <<>> /\ Stored(Content, Content', k, Value(w, g))
    BY <1>4, <2>1, Answers DEF Entered_, Bare
  <2>3. Promise!Answered(op, k, "OK", <<>>, f)
    BY <1>4, <2>2, Answers
  <2>4. Promise!Keep(k, Promise!Entry(w, g)) /\ ~Promise!TooLarge(k, w.nval)
    BY <1>11, <2>2, KeepsAndDrops, MapsAgree
  <2>5. g \in {f} \cup Promise!Leftover
    BY DEF Flags, Promise!Leftover
  <2>6. QED
    BY <1>6, <1>11, <2>3, <2>4, <2>5 DEF Promise!Extend
<1>12. QED
  BY <1>3, <1>7, <1>8, <1>9, <1>10, <1>11 DEF ExtendResult

\* The numbers of Cache are those of ShmcStore.
LEMMA NumbersAgree ==
  ASSUME NEW k
  PROVE  /\ Promise!CounterLen = CounterLen
         /\ Promise!IsCounter(k) <=> k \in DOMAIN Content /\ Content[k].nval = CounterLen
         /\ Promise!Old(k).flags = OldFlags(Content, k)
         /\ Promise!SafeStrtoull(Promise!Old(k).body) =
              IF k \in DOMAIN Content THEN SafeStrtoull(Content[k].body) ELSE 0
         /\ \A n : Promise!Counter(n) = Counter(n)
         /\ \A o, val, incr : Promise!NewNumber(Word, o, val, incr) = NewNumber(Word, o, val, incr)
<1>1. Promise!CounterLen = CounterLen
  BY DEF Promise!CounterLen, CounterLen
<1>2. Promise!Held = DOMAIN Content
  BY MapsAgree
<1>3. Promise!IsCounter(k) <=> k \in DOMAIN Content /\ Content[k].nval = CounterLen
  BY <1>1, <1>2 DEF Promise!IsCounter
<1>4. Promise!Old(k).flags = OldFlags(Content, k)
  BY <1>2 DEF Promise!Old, OldFlags
<1>5. \A b : Promise!SafeStrtoull(b) = SafeStrtoull(b)
  BY DEF Promise!SafeStrtoull, SafeStrtoull
<1>6. Promise!Old(k).body = IF k \in DOMAIN Content THEN Content[k].body ELSE <<>>
  BY <1>2 DEF Promise!Old
<1>7. SafeStrtoull(<<>>) = 0
  BY DEF SafeStrtoull
<1>8. \A n : Promise!Counter(n) = Counter(n)
  BY DEF Promise!Counter, Counter
<1>9. \A o, val, incr : Promise!NewNumber(Word, o, val, incr) = NewNumber(Word, o, val, incr)
  BY DEF Promise!NewNumber, NewNumber
<1>10. QED
  BY <1>1, <1>3, <1>4, <1>5, <1>6, <1>7, <1>8, <1>9

\* shmc_incr, shmc_decr.
LEMMA CalculateRefines ==
  ASSUME Good(shm, {}), NEW k \in Key, NEW op, NEW incr \in BOOLEAN, Calculate(op, k, incr),
         EvictToFree => ChunksEverywhere
  PROVE  Promise!Calculate(op, k, incr)
<1>1. PICK val \in Delta, f \in FlagSet \cup {NoFlags} :
        /\ AllocatesCounter(k) => ~Walks(k, CounterLen)
        /\ Answer(op, k, Arithmetic(shm, k, val, incr, f).flags, Arithmetic(shm, k, val, incr, f))
  BY DEF Calculate
<1>2. val \in Nat /\ f \in Flags \cup {NoFlags}
  BY ParamAssumption DEF Flags
<1> DEFINE c   == Content
           old == IF k \in DOMAIN c THEN SafeStrtoull(c[k].body) ELSE 0
           n   == NewNumber(Word, old, val, incr)
           r   == Arithmetic(shm, k, val, incr, f)
           m   == Promise!NewNumber(Word, Promise!SafeStrtoull(Promise!Old(k).body), val, incr)
           fl  == IF f = Promise!NoFlags \/ Promise!IsCounter(k) THEN Promise!Old(k).flags ELSE f
           cnt == [nval |-> Promise!CounterLen, body |-> Promise!Counter(m), flags |-> fl]
           fo  == IF f = Promise!NoFlags THEN f ELSE fl
<1>3. IF k \notin DOMAIN c /\ ~DefaultCounter THEN Spurned(c, r, "NOTFOUND")
      ELSE IF k \in DOMAIN c /\ c[k].nval = CounterLen THEN Recounted(c, r, k, n, f)
      ELSE CounterResult(c, r, k, n, f)
  BY <1>1, <1>2, ArithmeticShows, MapsAgree DEF AllocatesCounter
<1>4. f \in FlagSet \cup {Promise!NoFlags}
  BY <1>1, MapsAgree
<1>5. m = n
  BY NumbersAgree
<1>6. /\ Promise!Held = DOMAIN c /\ Promise!NoFlags = NoFlags
      /\ Promise!IsCounter(k) <=> k \in DOMAIN c /\ c[k].nval = CounterLen
      /\ Promise!Old(k).flags = OldFlags(c, k) /\ Promise!Counter(m) = Counter(m)
      /\ Promise!CounterLen = CounterLen
  BY MapsAgree, NumbersAgree
<1> HIDE DEF r, n, m
<1>7. Answer(op, k, r.flags, r)
  BY <1>1 DEF r
<1>8. c' = View(r.shm) /\ Promise!Answered(op, k, r.rc, r.out, r.flags)
  BY <1>7, Answers
<1>9. CASE k \notin DOMAIN c /\ ~DefaultCounter
  <2>1. Promise!Refuse(op, k, "NOTFOUND", Promise!NoFlags)
    BY <1>3, <1>6, <1>7, <1>9, Endings DEF Spurned, Bare
  <2>2. QED
    BY <1>6, <1>9, <2>1 DEF Promise!Calculate
<1>10. CASE k \in DOMAIN c /\ c[k].nval = CounterLen
  <2>1. Recounted(c, r, k, n, f)
    BY <1>3, <1>10
  <2>2. fl = c[k].flags /\ fo = IF f = NoFlags THEN f ELSE c[k].flags
    BY <1>6, <1>10 DEF OldFlags
  <2>3. Promise!Answered(op, k, "OK", Promise!Counter(m), fo)
    BY <1>5, <1>6, <1>8, <2>1, <2>2 DEF Recounted, Told
  <2>4. cnt = Count(n, c[k].flags)
    BY <1>5, <1>6, <2>2 DEF Count
  <2>5. c' = [c EXCEPT ![k] = cnt]
    BY <1>8, <1>10, <2>1, <2>4, ContentOf DEF Recounted, Bound
  <2> HIDE DEF c, cnt, fl, fo
  <2>6. QED
    BY <1>4, <1>6, <1>10, <2>3, <2>5 DEF Promise!Calculate, c, cnt, fl, fo, m
<1>11. CASE /\ ~(k \notin DOMAIN c /\ ~DefaultCounter)
            /\ ~(k \in DOMAIN c /\ c[k].nval = CounterLen)
  <2>1. CounterResult(c, r, k, n, f)
    BY <1>3, <1>11
  <2>2. fl = NewFlags(c, k, f)
    BY <1>6, <1>11 DEF NewFlags
  <2>3. ~Promise!IsCounter(k) /\ (k \in Promise!Held \/ DefaultCounter)
    BY <1>6, <1>11
  <2>4. CASE Spurned(c, r, "NOMEMORY") /\ ~EvictToFree
    <3>1. Promise!Refuse(op, k, "NOMEMORY", Promise!NoFlags)
      BY <1>6, <1>7, <2>4, Endings DEF Spurned, Bare
    <3>2. QED
      BY <2>3, <2>4, <3>1 DEF Promise!Calculate
  <2>5. CASE Begun(c, r, k, n, f)
    <3>1. Promise!Answered(op, k, "OK", Promise!Counter(m), fo)
      BY <1>5, <1>6, <1>8, <2>2, <2>5 DEF Begun, Told
    <3>2. cnt = Count(n, NewFlags(c, k, f))
      BY <1>5, <1>6, <2>2 DEF Count
    <3>3. Stored(c, c', k, cnt)
      BY <1>8, <2>5, <3>2 DEF Begun
    <3>4. Promise!Keep(k, cnt)
      BY <3>3, KeepsAndDrops
    <3> HIDE DEF c, cnt, fl, fo
    <3>5. QED
      BY <1>4, <2>3, <3>1, <3>4 DEF Promise!Calculate, c, cnt, fl, fo, m
  <2>6. CASE Vanished(c, r, k, n)
    <3>1. PICK g \in {Promise!NoFlags, Promise!Old(k).flags} : Told(r, n, g)
      BY <1>6, <2>6 DEF Vanished
    <3>2. Promise!Answered(op, k, "OK", Promise!Counter(m), g)
      BY <1>5, <1>6, <1>8, <3>1 DEF Told
    <3>3. Promise!Vanish(k)
      BY <1>6, <1>8, <2>6, KeepsAndDrops DEF Vanished, Promise!Vanish
    <3> HIDE DEF c, cnt, fl, fo
    <3>4. QED
      BY <1>4, <2>3, <3>2, <3>3 DEF Promise!Calculate, m
  <2>7. QED
    BY <2>1, <2>4, <2>5, <2>6 DEF CounterResult
<1>12. QED
  BY <1>9, <1>10, <1>11

\* Every step of the segment is a step of the map or leaves it as it is.
LEMMA StepRefines ==
  ASSUME IInv, [Next]_vars, EvictToFree => ChunksEverywhere
  PROVE  [Promise!Next]_<<Content, call>>
<1>1. Good(shm, {})
  BY DEF IInv
<1>2. CASE UNCHANGED vars
  <2>1. shm' = shm /\ call' = call
    BY <1>2 DEF vars
  <2>2. Content' = Content
    BY <2>1, MapsAgree
  <2>3. QED
    BY <2>1, <2>2
<1>3. ASSUME NEW k \in Key, Operation(k)
      PROVE  Promise!Operation(k) \/ UNCHANGED <<Content, call>>
  <2>1. CASE Get(k) \/ Getf(k)
    BY <1>1, <2>1, ReadRefines DEF Promise!Operation
  <2>2. CASE Del(k)
    BY <1>1, <2>2, DelRefines DEF Promise!Operation
  <2>3. CASE Set(k)
    BY <1>1, <2>3, SetRefines DEF Promise!Operation
  <2>4. CASE Add(k)
    BY <1>1, <2>4, AddRefines DEF Promise!Operation
  <2>5. CASE Replace(k)
    BY <1>1, <2>5, ReplaceRefines DEF Promise!Operation
  <2>6. CASE Append_(k) \/ Prepend(k)
    BY <1>1, <2>6, ExtendRefines DEF Append_, Prepend, Promise!Operation
  <2>7. CASE Incr(k) \/ Decr(k)
    BY <1>1, <2>7, CalculateRefines DEF Incr, Decr, Promise!Operation
  <2>8. CASE Abort(k) \/ RunOff(k)
    <3>1. shm' = shm /\ call' = call
      BY <2>8 DEF Abort, RunOff
    <3>2. Content' = Content
      BY <3>1, MapsAgree
    <3>3. QED
      BY <3>1, <3>2
  <2>9. QED
    BY <1>3, <2>1, <2>2, <2>3, <2>4, <2>5, <2>6, <2>7, <2>8 DEF Operation
<1>4. QED
  BY <1>2, <1>3 DEF Next, Promise!Next

\* A new segment shows the empty map.
LEMMA InitRefines ==
  ASSUME Init PROVE Promise!Init
<1>1. Good(Formatted, {})
  BY FormattedGood
<1>2. Linked(Formatted) = {}
  BY EmptyList DEF Linked, Formatted
<1>3. DOMAIN View(Formatted) = {}
  BY <1>1, <1>2, ViewOfItems
<1>4. View(Formatted) = <<>>
  BY <1>1, <1>3, ViewOfItems
<1>5. Content = <<>>
  BY <1>4, MapsAgree DEF Init
<1>6. QED
  BY <1>5 DEF Init, Promise!Init

-------------------------------------------------------------------------------
(***************************************************************************)
(* The theorem.                                                            *)
(***************************************************************************)
\* Slabs, lists and chunks implement the map: whatever the keys, the values, the
\* sizes of the classes and the number of chunks, what the calls answer and what
\* they leave is what the map of Cache would answer and hold. Of eviction it is
\* asked that every class has chunks, as in EvictionSuffices: a class without any
\* is out of memory though the map says that an evicting cache never is.
THEOREM SegmentImplementsMap ==
  ASSUME EvictToFree => ChunksEverywhere
  PROVE  Spec => ImplementsCache
<1>1. Init => Promise!Init
  BY InitRefines
<1>2. IInv /\ [Next]_vars => [Promise!Next]_<<Content, call>>
  BY StepRefines
<1>3. QED
  BY <1>1, <1>2, Invariance, PTL DEF Spec, ImplementsCache, Promise!Spec

-------------------------------------------------------------------------------
(***************************************************************************)
(* Who is evicted, and when.                                               *)
(***************************************************************************)
\* Class id of s has neither a free chunk nor room for a page, and i is the item
\* that item_alloc may evict for it.
Cornered(s, id, i) ==
  /\ EvictToFree /\ id \in Slabs
  /\ s.free[id] = <<>> /\ ~(s.mem_used + PageLen(id) < MemLimit)
  /\ i = Last(s.lru[id]) /\ i \in Linked(s) /\ i[1] = id

\* Of the keys of s other than k, segment t has all, or all but that of one item
\* which had to go.
Spares(s, k, t) ==
  \/ DOMAIN View(s) \ {k} \subseteq DOMAIN View(t)
  \/ \E id, i : /\ Cornered(s, id, i)
                /\ DOMAIN View(s) \ {k, s.item[i].key} \subseteq DOMAIN View(t)

\* Giving item i back adds it to the free list of its class and touches the lists
\* of no other class.
LEMMA ReleaseElsewhere ==
  ASSUME NEW s, NEW F, Good(s, F), NEW k \in Key, NEW i \in Linked(s), s.item[i].key = k
  PROVE  LET t == Release(s, k, i)
         IN  /\ t.mem_used = s.mem_used /\ i[1] \in Slabs /\ t.free[i[1]] # <<>>
             /\ \A c \in Slabs \ {i[1]} : t.free[c] = s.free[c] /\ t.lru[c] = s.lru[c]
<1> DEFINE d == AssocDelete(s, k)
           u == ItemUnlink(d, i)
           t == Release(s, k, i)
<1>1. /\ Good(t, F)
      /\ Linked(t) = Linked(s) \ {i} /\ DOMAIN t.item = DOMAIN s.item
      /\ \A j \in DOMAIN s.item \ {i} : t.item[j] = s.item[j]
      /\ t.free = [s.free EXCEPT ![i[1]] = Cons(i, @)]
      /\ t.carved = s.carved /\ t.mem_used = s.mem_used
  BY Released
<1>2. /\ d \in Segment /\ SameChunks(s, d) /\ d.lru = s.lru
      /\ d.nitems = s.nitems - 1
      /\ \A b \in Buckets :
           IsInjective(d.bucket[b]) /\ Range(d.bucket[b]) = Range(s.bucket[b]) \ {i}
  BY Delete
<1> HIDE DEF d
<1>3. i[1] \in Slabs /\ s.item[i].clsid = i[1]
  BY LinkedByClass DEF Good, ChunksGood, Settled
<1>4. \A c \in Slabs \ {i[1]} : u.lru[c] = d.lru[c]
  <2>1. d.item[i].clsid = i[1] /\ d.lru \in [Slabs -> Seq(ItemName)]
    BY <1>2, <1>3 DEF SameChunks, Segment
  <2>2. CASE {p \in DOMAIN d.lru[i[1]] : d.lru[i[1]][p] = i} = {}
    BY <2>1, <2>2 DEF ItemUnlink
  <2>3. CASE {p \in DOMAIN d.lru[i[1]] : d.lru[i[1]][p] = i} # {}
    <3> DEFINE l == RemoveAt(d.lru[i[1]], Min({p \in DOMAIN d.lru[i[1]] : d.lru[i[1]][p] = i}))
    <3>1. u = [d EXCEPT !.lru[i[1]] = l]
      BY <2>1, <2>3 DEF ItemUnlink
    <3> HIDE DEF l, u
    <3>2. u.lru = [d.lru EXCEPT ![i[1]] = l]
      BY <1>2, <3>1 DEF Segment
    <3>3. QED
      BY <2>1, <3>2
  <2>4. QED
    BY <2>2, <2>3
<1>5. t.lru = u.lru
  <2>1. t = ItemFree(u, i)
    BY DEF Release, d
  <2>2. u \in Segment
    <3>1. u = Unhooked(s, i)
      BY DEF Unhooked, d
    <3> HIDE DEF u
    <3>2. LET w == Unhooked(s, i)
          IN  /\ Good(w, F \cup {i}) /\ SameChunks(s, w) /\ Linked(w) = Linked(s) \ {i}
      BY Unhook
    <3>3. QED
      BY <3>1, <3>2 DEF Good
  <2> HIDE DEF u, t
  <2>3. QED
    BY <2>1, <2>2 DEF ItemFree, Segment
<1> HIDE DEF t, u
<1>6. s.free \in [Slabs -> Seq(ItemName)] /\ Cons(i, s.free[i[1]]) # <<>>
  BY DEF Good, Segment, Cons
<1>7. QED
  BY <1>1, <1>2, <1>3, <1>4, <1>5, <1>6 DEF t

\* item_alloc spares every key or evicts one.
LEMMA AllocSpares ==
  ASSUME NEW s, Good(s, {}), NEW k, NEW nkey, NEW nval, NEW t, NEW i, Handed(s, nkey, nval, t, i)
  PROVE  Spares(s, k, t)
<1> DEFINE id == ItemClsid(nkey, nval)
           x  == Last(s.lru[id])
<1>1. \A j \in Linked(t) : t.item[j] = s.item[j]
  BY DEF Handed
<1>2. PICK G : Good(t, G)
  BY DEF Handed
<1>3. CASE Linked(t) = Linked(s)
  BY <1>1, <1>2, <1>3, SameView DEF Spares
<1>4. CASE Linked(t) # Linked(s)
  <2>1. Evicted(s, id, t)
    BY <1>4 DEF Handed
  <2> HIDE DEF id
  <2>2. x \in Linked(s) /\ x[1] = id /\ Linked(t) = Linked(s) \ {x}
    BY <2>1 DEF Evicted
  <2>3. id \in Slabs
    BY <2>2, LinkedByClass DEF Good
  <2>4. Cornered(s, id, x)
    BY <2>1, <2>3 DEF Evicted, Cornered
  <2> HIDE DEF x
  <2>5. View(t) = Without(View(s), s.item[x].key)
    BY <1>1, <1>2, <2>2, LostView
  <2>6. DOMAIN View(s) \ {k, s.item[x].key} \subseteq DOMAIN View(t)
    BY <2>5 DEF Without
  <2>7. QED
    BY <2>4, <2>6 DEF Spares
<1>5. QED
  BY <1>3, <1>4

\* What is stored or dropped under k afterwards does not matter.
LEMMA SparesAfter ==
  ASSUME NEW s, NEW k, NEW t, Spares(s, k, t), NEW u,
         DOMAIN View(t) \ {k} \subseteq DOMAIN View(u)
  PROVE  Spares(s, k, u)
  BY DEF Spares

\* Nor does the probe before it.
LEMMA SparesProbed ==
  ASSUME NEW s, Good(s, {}), NEW k \in Key, NEW t, Spares(Probe(s, k), k, t)
  PROVE  Spares(s, k, t)
<1> DEFINE p == Probe(s, k)
<1>1. /\ Good(p, {})
      /\ SameChunks(s, p) /\ p.lru = s.lru /\ p.bucket = s.bucket
      /\ Linked(p) = Linked(s)
      /\ Present(p, k) = Present(s, k) /\ AssocFind(p, k) = AssocFind(s, k)
  BY ProbeGood
<1>2. View(p) = View(s)
  BY LookShows
<1>3. Spares(p, k, t)
  OBVIOUS
<1> HIDE DEF p
<1>4. \A id, i : Cornered(p, id, i) => Cornered(s, id, i)
  BY <1>1 DEF Cornered, SameChunks
<1>5. QED
  BY <1>1, <1>2, <1>3, <1>4 DEF Spares, SameChunks

\* Nor the release of the item of k before it: where it went there is a free
\* chunk, so a class that is cornered is another one, and was cornered before.
LEMMA SparesReleased ==
  ASSUME NEW s, Good(s, {}), NEW k \in Key, NEW i \in Linked(s), s.item[i].key = k,
         NEW t, Spares(Release(s, k, i), k, t)
  PROVE  Spares(s, k, t)
<1> DEFINE d == Release(s, k, i)
<1>1. /\ d.mem_used = s.mem_used /\ i[1] \in Slabs /\ d.free[i[1]] # <<>>
      /\ \A c \in Slabs \ {i[1]} : d.free[c] = s.free[c] /\ d.lru[c] = s.lru[c]
  BY ReleaseElsewhere
<1>2. /\ Good(d, {}) /\ Missing(d, k) /\ DOMAIN d.item = DOMAIN s.item
      /\ Linked(d) = Linked(s) \ {i}
      /\ \A j \in {} \cup Linked(d) : d.item[j] = s.item[j]
  BY TakenOut
<1>3. View(d) = Without(View(s), k)
  BY ReleaseShows
<1>4. Spares(d, k, t)
  OBVIOUS
<1> HIDE DEF d
<1>5. ASSUME NEW id, NEW j, Cornered(d, id, j)
      PROVE  Cornered(s, id, j) /\ d.item[j] = s.item[j]
  <2>1. id \in Slabs \ {i[1]}
    BY <1>1, <1>5 DEF Cornered
  <2>2. QED
    BY <1>1, <1>2, <1>5, <2>1 DEF Cornered
<1>6. DOMAIN View(d) = DOMAIN View(s) \ {k}
  BY <1>3 DEF Without
<1>7. CASE DOMAIN View(d) \ {k} \subseteq DOMAIN View(t)
  BY <1>6, <1>7 DEF Spares
<1>8. CASE \E id, j : /\ Cornered(d, id, j)
                      /\ DOMAIN View(d) \ {k, d.item[j].key} \subseteq DOMAIN View(t)
  BY <1>5, <1>6, <1>8 DEF Spares
<1>9. QED
  BY <1>4, <1>7, <1>8 DEF Spares

\* What covers the view but for k spares every other key.
LEMMA SparesAll ==
  ASSUME NEW s, NEW k, NEW t, NEW e,
         \/ View(t) = View(s)
         \/ View(t) = Without(View(s), k)
         \/ View(t) = Bound(View(s), k, e)
  PROVE  Spares(s, k, t)
<1>1. DOMAIN View(s) \ {k} \subseteq DOMAIN View(t)
  BY DEF Without, Bound
<1>2. QED
  BY <1>1 DEF Spares

\* shmc_del.
LEMMA DelSpares ==
  ASSUME NEW s, Good(s, {}), NEW k \in Key
  PROVE  Spares(s, k, DelNolock(s, k).shm)
<1>1. View(DelNolock(s, k).shm) = Without(View(s), k)
  BY DelShows
<1>2. QED
  BY <1>1, SparesAll

\* shmc_set: the old item of the key is released before a chunk is asked for.
LEMMA SetSpares ==
  ASSUME NEW s, Good(s, {}), NEW k \in Key, NEW v, IsText(v), NEW f \in Flags, ~Lost(k, v.nval)
  PROVE  Spares(s, k, SetNolock(s, k, v, f).shm)
<1> DEFINE d == DelNolock(s, k).shm
           a == ItemAlloc(d, KeyLen[k], v.nval)
           t == a.shm
           i == a.item
           e == SetFlags(Enter(t, k, i, v.body), i, f)
           r == SetNolock(s, k, v, f)
<1>1. Good(d, {}) /\ Missing(d, k)
  BY DeleteKeeps
<1>2. r.shm = IF ~ItemSizeOk(KeyLen[k], v.nval) THEN s ELSE IF i = NoItem THEN t ELSE e
  BY DEF SetNolock, Result
<1>3. KeyLen[k] \in Nat /\ v.nval \in Nat /\ v.body \in Seq(Part)
  BY ParamAssumption DEF IsText
<1>4. ASSUME NEW u, Spares(d, k, u) PROVE Spares(s, k, u)
  <2> DEFINE p == Probe(s, k)
             o == AssocFind(s, k)
  <2>1. d = IF Present(s, k) THEN Release(p, k, o) ELSE p
    BY DEF DelNolock, Result
  <2>2. Good(p, {}) /\ (Present(s, k) => o \in Linked(p) /\ p.item[o].key = k)
    BY Probed
  <2> HIDE DEF p, o, d
  <2>3. Spares(p, k, u)
    BY <1>4, <2>1, <2>2, SparesReleased
  <2>4. QED
    BY <2>3, SparesProbed DEF p
<1> HIDE DEF d, r
<1>5. CASE ~ItemSizeOk(KeyLen[k], v.nval)
  BY <1>2, <1>5, SparesAll DEF r
<1>6. CASE ItemSizeOk(KeyLen[k], v.nval)
  <2>1. ItemClsid(KeyLen[k], v.nval) \in Slabs
    BY <1>6 DEF Lost, Walks
  <2>2. Handed(d, KeyLen[k], v.nval, t, i)
    BY <1>1, <1>3, <2>1, Allocated
  <2> HIDE DEF t, i
  <2>3. Spares(d, k, t)
    BY <1>1, <2>2, AllocSpares
  <2>4. CASE i = NoItem
    BY <1>2, <1>4, <1>6, <2>3, <2>4 DEF r
  <2>5. CASE i # NoItem
    <3>1. Missing(t, k) /\ Good(t, {i}) /\ t.item[i].nkey = KeyLen[k]
      BY <1>1, <2>2, <2>5 DEF Missing, Handed
    <3>2. View(e) = Bound(View(t), k, [nval |-> t.item[i].nval, body |-> v.body, flags |-> f])
      BY <1>3, <3>1, StoreShows
    <3> HIDE DEF e
    <3>3. DOMAIN View(t) \ {k} \subseteq DOMAIN View(e)
      BY <3>2 DEF Bound
    <3>4. Spares(d, k, e)
      BY <2>3, <3>3, SparesAfter
    <3>5. QED
      BY <1>2, <1>4, <1>6, <2>5, <3>4 DEF r
  <2>6. QED
    BY <2>4, <2>5
<1>7. QED
  BY <1>5, <1>6

\* shmc_add.
LEMMA AddSpares ==
  ASSUME NEW s, Good(s, {}), NEW k \in Key, NEW v, IsText(v), NEW f \in Flags,
         Present(s, k) \/ ~Lost(k, v.nval)
  PROVE  Spares(s, k, AddNolock(s, k, v, f).shm)
<1> DEFINE p == Probe(s, k)
<1>1. Good(p, {}) /\ View(p) = View(s)
  BY Probed, LookShows
<1>2. AddNolock(s, k, v, f) = IF Present(s, k) THEN Result(p, "EXIST") ELSE SetNolock(p, k, v, f)
  BY DEF AddNolock
<1> HIDE DEF p
<1>3. CASE Present(s, k)
  <2>1. AddNolock(s, k, v, f).shm = p
    BY <1>2, <1>3 DEF Result
  <2>2. QED
    BY <1>1, <2>1, SparesAll
<1>4. CASE ~Present(s, k)
  <2>1. Spares(p, k, SetNolock(p, k, v, f).shm)
    BY <1>1, <1>4, SetSpares
  <2>2. Spares(s, k, SetNolock(p, k, v, f).shm)
    BY <2>1, SparesProbed DEF p
  <2>3. QED
    BY <1>2, <1>4, <2>2
<1>5. QED
  BY <1>3, <1>4

\* A value of the same class is written in place.
LEMMA OverwriteSpares ==
  ASSUME NEW s, Good(s, {}), NEW k \in Key, NEW v, IsText(v), NEW f \in Flags,
         Present(s, k), s.item[AssocFind(s, k)].clsid = ItemClsid(KeyLen[k], v.nval)
  PROVE  Spares(s, k, Overwrite(Probe(s, k), AssocFind(s, k), v, f))
<1> DEFINE o == Overwrite(Probe(s, k), AssocFind(s, k), v, f)
           r == Result(o, "OK")
<1>1. Overwritten(View(s), r, k, v, f)
  BY OverwriteShows
<1>2. r.shm = o
  BY DEF Result
<1> HIDE DEF o, r
<1>3. View(o) = Bound(View(s), k, Value(v, f))
  BY <1>1, <1>2 DEF Overwritten
<1>4. QED
  BY <1>3, SparesAll DEF o

\* shmc_replace.
LEMMA ReplaceSpares ==
  ASSUME NEW s, Good(s, {}), NEW k \in Key, NEW v, IsText(v), NEW f \in Flags,
         Present(s, k) => ~Lost(k, v.nval)
  PROVE  Spares(s, k, ReplaceNolock(s, k, v, f).shm)
<1> DEFINE p == Probe(s, k)
           i == AssocFind(s, k)
           c == s.item[i].clsid = ItemClsid(KeyLen[k], v.nval)
           o == Overwrite(p, i, v, f)
           l == Release(p, k, i)
           r == ReplaceNolock(s, k, v, f)
<1>1. Good(p, {}) /\ View(p) = View(s) /\ (Present(s, k) => i \in Linked(p) /\ p.item[i].key = k)
  BY Probed, LookShows
<1>2. r.shm = IF ~Present(s, k) THEN p ELSE IF c THEN o ELSE SetNolock(l, k, v, f).shm
  BY DEF ReplaceNolock, Result
<1> HIDE DEF r
<1>3. CASE ~Present(s, k)
  BY <1>1, <1>2, <1>3, SparesAll DEF r
<1>4. CASE Present(s, k) /\ c
  BY <1>2, <1>4, OverwriteSpares DEF r
<1>5. CASE Present(s, k) /\ ~c
  <2> HIDE DEF p, i, o
  <2>1. Good(l, {})
    BY <1>1, <1>5, TakenOut
  <2> DEFINE u == SetNolock(l, k, v, f).shm
  <2>2. Spares(l, k, u)
    BY <1>5, <2>1, SetSpares
  <2> HIDE DEF u
  <2>3. Spares(p, k, u)
    BY <1>1, <1>5, <2>2, SparesReleased
  <2>4. Spares(s, k, u)
    BY <2>3, SparesProbed DEF p
  <2>5. r.shm = u
    BY <1>2, <1>5 DEF u
  <2>6. QED
    BY <2>4, <2>5 DEF r
<1>6. QED
  BY <1>3, <1>4, <1>5

\* shmc_append, shmc_prepend: a chunk is asked for before the old item is given
\* back.
LEMMA ExtendSpares ==
  ASSUME NEW s, Good(s, {}), NEW k \in Key, NEW v, IsText(v), NEW f \in Flags,
         Present(s, k) => ~Lost(k, v.nval)
  PROVE  Spares(s, k, ExtendNolock(s, k, v, f).shm)
<1> DEFINE p  == Probe(s, k)
           i  == AssocFind(s, k)
           id == ItemClsid(KeyLen[k], v.nval)
           o  == Overwrite(p, i, v, f)
           a  == ItemAlloc(p, KeyLen[k], v.nval)
           t  == a.shm
           n  == a.item
           m  == Moved(t, k, i, n, v.body, f)
           r  == ExtendNolock(s, k, v, f)
<1>1. Good(p, {}) /\ View(p) = View(s)
  BY Probed, LookShows
<1>2. Present(s, k) =>
        /\ i \in Linked(p) /\ p.item[i].key = k /\ p.item[i] = s.item[i] /\ Settled(p, i)
  BY Probed
<1>3. r.shm = IF ~Present(s, k) THEN p
              ELSE IF s.item[i].clsid = id THEN o
              ELSE IF ~ItemSizeOk(KeyLen[k], v.nval) THEN p
              ELSE IF n = NoItem THEN t ELSE m
  BY DEF ExtendNolock, Moved, Result
<1>4. KeyLen[k] \in Nat /\ v.nval \in Nat /\ v.body \in Seq(Part)
  BY ParamAssumption DEF IsText
<1>5. Present(s, k) /\ s.item[i].clsid = id => Spares(s, k, o)
  BY OverwriteSpares
<1>6. Spares(s, k, p)
  BY <1>1, SparesAll
<1>7. \A u : Spares(p, k, u) => Spares(s, k, u)
  BY SparesProbed
<1> HIDE DEF p, i, o, r
<1>8. CASE Present(s, k) /\ s.item[i].clsid # id /\ ItemSizeOk(KeyLen[k], v.nval)
  <2>1. id \in Slabs
    BY <1>8 DEF Lost, Walks
  <2>2. Handed(p, KeyLen[k], v.nval, t, n)
    BY <1>1, <1>4, <2>1, Allocated
  <2> HIDE DEF t, n, id
  <2>3. Spares(p, k, t)
    BY <1>1, <2>2, AllocSpares
  <2>4. CASE n = NoItem
    BY <1>3, <1>7, <1>8, <2>3, <2>4 DEF r
  <2>5. CASE n # NoItem
    <3>1. /\ Good(t, {n}) /\ t.item[n].nkey = KeyLen[k] /\ n[1] = id
          /\ \A j \in Linked(p) : j \in Linked(t) \/ j = n
          /\ \A j \in Linked(t) : t.item[j] = p.item[j]
      BY <2>2, <2>5 DEF Handed, id
    <3>2. i \in Linked(t) /\ t.item[i].key = k
      BY <1>2, <1>8, <3>1 DEF Settled
    <3>3. Rehoused(t, k, n, v.body, m)
      BY <1>4, <3>1, <3>2, MoveShows
    <3> HIDE DEF m
    <3>4. DOMAIN View(t) \ {k} \subseteq DOMAIN View(m)
      BY <3>3 DEF Rehoused, Bound, Without
    <3>5. Spares(p, k, m)
      BY <2>3, <3>4, SparesAfter
    <3>6. QED
      BY <1>3, <1>7, <1>8, <2>5, <3>5 DEF r
  <2>6. QED
    BY <2>4, <2>5
<1>9. QED
  BY <1>3, <1>5, <1>6, <1>8 DEF r

\* incr and decr where an item is allocated: the chunk may be that of the key
\* itself, which then is gone.
LEMMA NewCounterSpares ==
  ASSUME NEW s, Good(s, {}), NEW k \in Key, NEW n, Counter(n) \in Seq(Part),
         NEW f \in Flags \cup {NoFlags}, ~Walks(k, CounterLen)
  PROVE  Spares(s, k, NewCounter(Probe(s, k), k, n, f).shm)
<1> DEFINE p   == Probe(s, k)
           i   == AssocFind(p, k)
           a   == ItemAlloc(p, KeyLen[k], CounterLen)
           t   == a.shm
           x   == a.item
           d   == IF Present(p, k) THEN Release(t, k, i) ELSE t
           old == IF ~Present(p, k) THEN 0 ELSE p.item[i].flags
           fl  == IF f = NoFlags THEN old ELSE f
           b   == Counter(n)
           e   == SetFlags(Enter(d, k, x, b), x, fl)
           r   == NewCounter(p, k, n, f)
<1>1. Good(p, {}) /\ (~Present(p, k) => Missing(p, k))
  BY ProbeGood, Probed
<1>2. Present(p, k) => i \in Linked(p) /\ p.item[i].key = k /\ p.item[i] \in ItemType
  BY ProbeGood, Probed
<1>3. fl \in Flags
  BY <1>2 DEF ItemType, Flags
<1>4. r.shm = IF x = NoItem THEN t ELSE IF x = i THEN d ELSE e
  BY DEF NewCounter, Result
<1>5. KeyLen[k] \in Nat /\ CounterLen \in Nat /\ ItemClsid(KeyLen[k], CounterLen) \in Slabs
      /\ b \in Seq(Part)
  BY ParamAssumption DEF CounterLen, Walks
<1>6. \A u : Spares(p, k, u) => Spares(s, k, u)
  BY SparesProbed
<1> HIDE DEF p, r, b, fl, i
<1>7. Handed(p, KeyLen[k], CounterLen, t, x)
  BY <1>1, <1>5, Allocated
<1> HIDE DEF t, x
<1>8. Spares(p, k, t)
  BY <1>1, <1>7, AllocSpares
<1>9. CASE x = NoItem
  BY <1>4, <1>6, <1>8, <1>9 DEF r, p
<1>10. CASE x # NoItem
  <2>1. /\ Good(t, {x}) /\ t.item[x].nkey = KeyLen[k]
        /\ \A j \in Linked(p) : j \in Linked(t) \/ j = x
        /\ \A j \in Linked(t) : j \in Linked(p) /\ t.item[j] = p.item[j]
    BY <1>7, <1>10 DEF Handed
  <2>2. x \in ItemName /\ x \notin Linked(t)
    <3>1. Linked(t) \cap {x} = {} /\ DOMAIN t.item \subseteq ItemName
      BY <2>1, LinkedByClass DEF Good
    <3>2. {x} \subseteq DOMAIN t.item
      BY <2>1 DEF Good, ChunksGood
    <3>3. QED
      BY <3>1, <3>2
  <2>3. CASE Present(p, k) /\ x = i
    <3>1. Missing(t, k)
      BY <1>1, <1>2, <2>1, <2>2, <2>3, SMTT(40) DEF Missing, Good, IndexGood
    <3>2. d = Release(t, k, x)
      BY <2>3
    <3> HIDE DEF d
    <3>3. LET w == Release(t, k, x)
          IN  /\ Good(w, {}) /\ Linked(w) = Linked(t)
              /\ \A j \in Linked(t) : w.item[j] = t.item[j]
      BY <2>1, <2>2, <3>1, HandedBack
    <3>4. View(d) = View(t)
      BY <2>1, <3>2, <3>3, SameView
    <3>5. Spares(p, k, d)
      BY <1>8, <3>4, SparesAfter
    <3>6. QED
      BY <1>4, <1>6, <1>10, <2>3, <3>5 DEF r, p
  <2>4. CASE ~(Present(p, k) /\ x = i)
    <3>1. x # i
      BY <1>10, <2>4 DEF i, AssocFind, Present
    <3>2. /\ Good(d, {x}) /\ Missing(d, k) /\ d.item[x].nkey = KeyLen[k]
          /\ DOMAIN View(t) \ {k} \subseteq DOMAIN View(d)
      <4>1. CASE Present(p, k)
        <5>1. i \in Linked(t) /\ t.item[i].key = k
          BY <1>2, <2>1, <3>1, <4>1
        <5>2. d = Release(t, k, i)
          BY <4>1
        <5> HIDE DEF d
        <5>3. Good(d, {x}) /\ Missing(d, k) /\ d.item[x] = t.item[x]
          BY <2>1, <5>1, <5>2, TakenOut
        <5>4. View(d) = Without(View(t), k)
          BY <2>1, <5>1, <5>2, ReleaseShows
        <5>5. QED
          BY <2>1, <5>3, <5>4 DEF Without
      <4>2. CASE ~Present(p, k)
        BY <1>1, <2>1, <4>2 DEF Missing
      <4>3. QED
        BY <4>1, <4>2
    <3> HIDE DEF d
    <3>3. View(e) = Bound(View(d), k, [nval |-> d.item[x].nval, body |-> b, flags |-> fl])
      BY <1>3, <1>5, <3>2, StoreShows
    <3> HIDE DEF e
    <3>4. DOMAIN View(t) \ {k} \subseteq DOMAIN View(e)
      BY <3>2, <3>3 DEF Bound
    <3>5. Spares(p, k, e)
      BY <1>8, <3>4, SparesAfter
    <3>6. QED
      BY <1>4, <1>6, <1>10, <3>1, <3>5 DEF r, p
  <2>5. QED
    BY <2>3, <2>4
<1>11. QED
  BY <1>9, <1>10

\* shmc_incr, shmc_decr.
LEMMA ArithmeticSpares ==
  ASSUME NEW s, Good(s, {}), NEW k \in Key, NEW val \in Nat, NEW incr \in BOOLEAN,
         NEW f \in Flags \cup {NoFlags},
         (IF Present(s, k) THEN s.item[AssocFind(s, k)].nval # CounterLen ELSE DefaultCounter)
           => ~Walks(k, CounterLen)
  PROVE  Spares(s, k, Arithmetic(s, k, val, incr, f).shm)
<1> DEFINE i   == AssocFind(s, k)
           old == IF Present(s, k) THEN SafeStrtoull(s.item[i].body) ELSE 0
           n   == NewNumber(Word, old, val, incr)
           p   == Probe(s, k)
           r   == Arithmetic(s, k, val, incr, f)
<1>1. /\ Good(p, {}) /\ View(p) = View(s)
      /\ Present(s, k) => s.item[i] \in ItemType
  BY Probed, LookShows
<1>2. Counter(n) \in Seq(Part)
  <2>1. CASE Present(s, k)
    <3>1. s.item[i].body \in Seq(Part)
      BY <1>1, <2>1 DEF ItemType
    <3>2. QED
      BY <2>1, <3>1, NumberInRange
  <2>2. CASE ~Present(s, k)
    <3>1. <<>> \in Seq(Part)
      OBVIOUS
    <3>2. QED
      BY <2>2, <3>1, NumberInRange
  <2>3. QED
    BY <2>1, <2>2
<1>3. r = IF ~Present(s, k) /\ ~DefaultCounter THEN Result(p, "NOTFOUND")
          ELSE IF Present(s, k) /\ s.item[i].nval = CounterLen THEN Recount(p, i, n, f)
          ELSE NewCounter(p, k, n, f)
  BY DEF Arithmetic
<1> HIDE DEF n, r, old
<1>4. CASE ~Present(s, k) /\ ~DefaultCounter
  <2>1. r.shm = p
    BY <1>3, <1>4 DEF Result
  <2>2. QED
    BY <1>1, <2>1, SparesAll DEF r
<1>5. CASE Present(s, k) /\ s.item[i].nval = CounterLen
  <2>1. Recounted(View(s), r, k, n, f)
    BY <1>2, <1>3, <1>5, RecountShows
  <2>2. View(r.shm) = Bound(View(s), k, Count(n, View(s)[k].flags))
    BY <2>1 DEF Recounted
  <2>3. QED
    BY <2>2, SparesAll DEF r
<1>6. CASE ~(~Present(s, k) /\ ~DefaultCounter) /\ ~(Present(s, k) /\ s.item[i].nval = CounterLen)
  <2>1. ~Walks(k, CounterLen) /\ r = NewCounter(Probe(s, k), k, n, f)
    BY <1>3, <1>6
  <2>2. QED
    BY <1>2, <2>1, NewCounterSpares DEF r
<1>7. QED
  BY <1>4, <1>5, <1>6

\* Every call spares the keys of others, but for the one it may evict.
LEMMA StepSpares ==
  ASSUME IInv, [Next]_vars, fault' = "none"
  PROVE  Gone = {} \/ Spares(shm, call'.key, shm')
<1>1. Good(shm, {})
  BY DEF IInv
<1>2. CASE UNCHANGED vars
  BY <1>2 DEF vars, Gone
<1>3. ASSUME NEW op, NEW k, NEW flags, NEW r, Answer(op, k, flags, r), Spares(shm, k, r.shm)
      PROVE  Spares(shm, call'.key, shm')
  BY <1>3 DEF Answer
<1>4. ASSUME NEW k \in Key, Operation(k)
      PROVE  Spares(shm, call'.key, shm')
  <2>1. CASE Get(k)
    <3>1. PICK m \in BOOLEAN :
            Answer("get", k, GetNolock(shm, k, m).flags, GetNolock(shm, k, m))
      BY <2>1 DEF Get
    <3>2. View(GetNolock(shm, k, m).shm) = View(shm)
      BY <1>1, ReadShows DEF Spurned, Shown
    <3>3. QED
      BY <1>3, <3>1, <3>2, SparesAll
  <2>2. CASE Getf(k)
    <3>1. PICK n \in Capacity :
            Answer("getf", k, GetfNolock(shm, k, n).flags, GetfNolock(shm, k, n))
      BY <2>2 DEF Getf
    <3>2. View(GetfNolock(shm, k, n).shm) = View(shm)
      BY <1>1, ReadShows DEF Spurned, Shown
    <3>3. QED
      BY <1>3, <3>1, <3>2, SparesAll
  <2>3. CASE Del(k)
    BY <1>1, <1>3, <2>3, DelSpares DEF Del
  <2>4. CASE Set(k)
    <3>1. PICK v \in Text, f \in FlagSet :
            ~Lost(k, v.nval) /\ Answer("set", k, f, SetNolock(shm, k, v, f))
      BY <2>4 DEF Set
    <3>2. f \in Flags /\ IsText(v)
      BY ParamAssumption DEF IsText, Flags
    <3>3. Spares(shm, k, SetNolock(shm, k, v, f).shm)
      BY <1>1, <3>1, <3>2, SetSpares
    <3>4. QED
      BY <1>3, <3>1, <3>3
  <2>5. CASE Add(k)
    <3>1. PICK v \in Text, f \in FlagSet :
            /\ Present(shm, k) \/ ~Lost(k, v.nval)
            /\ Answer("add", k, f, AddNolock(shm, k, v, f))
      BY <2>5 DEF Add
    <3>2. f \in Flags /\ IsText(v)
      BY ParamAssumption DEF IsText, Flags
    <3>3. Spares(shm, k, AddNolock(shm, k, v, f).shm)
      BY <1>1, <3>1, <3>2, AddSpares
    <3>4. QED
      BY <1>3, <3>1, <3>3
  <2>6. CASE Replace(k)
    <3>1. PICK v \in Text, f \in FlagSet :
            /\ Present(shm, k) => ~Lost(k, v.nval)
            /\ Answer("replace", k, f, ReplaceNolock(shm, k, v, f))
      BY <2>6 DEF Replace
    <3>2. f \in Flags /\ IsText(v)
      BY ParamAssumption DEF IsText, Flags
    <3>3. Spares(shm, k, ReplaceNolock(shm, k, v, f).shm)
      BY <1>1, <3>1, <3>2, ReplaceSpares
    <3>4. QED
      BY <1>3, <3>1, <3>3
  <2>7. ASSUME NEW op, NEW front \in BOOLEAN, Extend(op, k, front)
        PROVE  Spares(shm, call'.key, shm')
    <3>1. PICK w \in Joins(k, front), f \in FlagSet :
            /\ Present(shm, k) => ~Lost(k, w.nval)
            /\ Answer(op, k, f, ExtendNolock(shm, k, w, f))
      BY <2>7 DEF Extend
    <3>2. f \in Flags /\ IsText(w)
      BY <1>1, ParamAssumption, JoinsAreTexts DEF Flags
    <3>3. Spares(shm, k, ExtendNolock(shm, k, w, f).shm)
      BY <1>1, <3>1, <3>2, ExtendSpares
    <3>4. QED
      BY <1>3, <3>1, <3>3
  <2>8. ASSUME NEW op, NEW incr \in BOOLEAN, Calculate(op, k, incr)
        PROVE  Spares(shm, call'.key, shm')
    <3>1. PICK val \in Delta, f \in FlagSet \cup {NoFlags} :
            /\ AllocatesCounter(k) => ~Walks(k, CounterLen)
            /\ Answer(op, k, Arithmetic(shm, k, val, incr, f).flags,
                      Arithmetic(shm, k, val, incr, f))
      BY <2>8 DEF Calculate
    <3>2. val \in Nat /\ f \in Flags \cup {NoFlags}
      BY ParamAssumption DEF Flags
    <3>3. Spares(shm, k, Arithmetic(shm, k, val, incr, f).shm)
      BY <1>1, <3>1, <3>2, ArithmeticSpares DEF AllocatesCounter
    <3>4. QED
      BY <1>3, <3>1, <3>3
  <2>9. CASE Append_(k) \/ Prepend(k)
    BY <2>7, <2>9 DEF Append_, Prepend
  <2>10. CASE Incr(k) \/ Decr(k)
    BY <2>8, <2>10 DEF Incr, Decr
  <2>11. ~Abort(k) /\ ~RunOff(k)
    BY DEF Abort, RunOff
  <2>12. QED
    BY <1>4, <2>1, <2>2, <2>3, <2>4, <2>5, <2>6, <2>9, <2>10, <2>11 DEF Operation
<1>5. QED
  BY <1>2, <1>4 DEF Next

\* No call takes a key but its own from the segment, unless eviction is on and the
\* class it needs a chunk of has neither a free one nor room for a page: then it
\* takes one, and that is the least recently linked of the class.
THEOREM EvictionIsLast == Spec => EvictOnlyUnderPressure
<1>1. ASSUME IInv, [Next]_vars, fault' = "none", NEW x \in Gone
      PROVE  LET i == AssocFind(shm, x)
                 c == i[1]
             IN  /\ Gone = {x} /\ EvictToFree
                 /\ shm.free[c] = <<>>
                 /\ ~(shm.mem_used + PageLen(c) < MemLimit)
                 /\ i = Last(shm.lru[c])
  <2> DEFINE k == call'.key
  <2>1. Good(shm, {}) /\ Good(shm', {})
    <3>1. IInv'
      BY <1>1, StepKeeps
    <3>2. QED
      BY <1>1, <3>1 DEF IInv
  <2>2. ASSUME NEW y \in Gone
        PROVE  /\ y \in Key /\ y # k /\ Present(shm, y)
               /\ y \in DOMAIN View(shm) /\ y \notin DOMAIN View(shm')
    <3>1. y \in Key /\ y # k /\ Present(shm, y) /\ ~Present(shm', y)
      BY <2>2 DEF Gone
    <3>2. QED
      BY <2>1, <3>1, ViewOfItems
  <2>3. Spares(shm, k, shm')
    BY <1>1, StepSpares
  <2>4. PICK id, i : /\ Cornered(shm, id, i)
                     /\ DOMAIN View(shm) \ {k, shm.item[i].key} \subseteq DOMAIN View(shm')
    BY <1>1, <2>2, <2>3 DEF Spares
  <2>5. \A y \in Gone : y = shm.item[i].key
    BY <2>2, <2>4
  <2>6. x = shm.item[i].key /\ Gone = {x}
    BY <1>1, <2>5
  <2>7. i \in Linked(shm) /\ x \in Key
    BY <1>1, <2>2, <2>4 DEF Cornered
  <2>8. AssocFind(shm, x) = i
    BY <2>1, <2>6, <2>7, Find
  <2>9. QED
    BY <2>4, <2>6, <2>8 DEF Cornered
<1>2. IInv /\ [Next]_vars =>
        (fault' = "none" =>
           \A x \in Gone :
             LET i == AssocFind(shm, x)
                 c == i[1]
             IN  /\ Gone = {x} /\ EvictToFree
                 /\ shm.free[c] = <<>>
                 /\ ~(shm.mem_used + PageLen(c) < MemLimit)
                 /\ i = Last(shm.lru[c]))
  BY <1>1
<1>3. QED
  BY <1>2, Invariance, PTL DEF Spec, EvictOnlyUnderPressure

=================================================================================
