------------------------------- MODULE ShmcStore -------------------------------
(***************************************************************************)
(* The shared segment of shmc and the operations of shmc.c on it, each one *)
(* atomic: the caller of every operation holds the write lock (shmc.h).    *)
(*                                                                         *)
(* The segment is the record `shm'. An item is named <<c, n>>: the n-th    *)
(* chunk carved for slab class c, standing for its offset in the segment.  *)
(* The linked lists are sequences: free[c] (the stack slabs[c].free_item), *)
(* lru[c] (heads[c] first, tails[c] last) and bucket[b] (the hash chain).  *)
(* Of what a chunk holds once it is freed only the flags are kept, which   *)
(* the next owner may still read.                                          *)
(***************************************************************************)
EXTENDS SlabClass, Values, SequencesExt

CONSTANTS
  Key,             \* the keys callers use
  KeyLen,          \* KeyLen[k]: nkey of a key
  Slot,            \* Slot[k]: hash(k) % nbuckets
  NBuckets,        \* attr nbuckets
  Text,            \* the values callers store: [nval, body]
  Capacity,        \* the buffer sizes callers of shmc_getf bring
  FlagSet,         \* the flags callers pass
  Delta,           \* the amounts callers add or subtract
  MaxParts,        \* bound: append and prepend stop at this many parts
  Word,            \* 2^64, the modulus of a counter
  NSlabs,          \* attr slabs_count
  SlabSize,        \* slabs[c].size
  SlabCount,       \* slabs[c].count, the chunks of one page
  ItemSizeMax,     \* attr item_size_max
  MemLimit,        \* attr mem_limit
  EvictToFree,     \* attr evict_to_free
  DefaultCounter,  \* attr default_counter
  DebugBuild,      \* built with assertions (make DEBUG=1), not with NDEBUG
  NoKey            \* what the key field of a dead chunk reads

VARIABLES
  shm,     \* the shared segment
  call,    \* the last call and its answer
  fault    \* why the process can do nothing more that is known

vars == <<shm, call, fault>>

-------------------------------------------------------------------------------
Slabs == 0 .. NSlabs - 1
Buckets == 0 .. NBuckets - 1

\* The null pointer, and a NULL flags argument.
NoItem == <<NSlabs, 0>>
NoFlags == -1

PageLen(c) == SlabSize[c] * SlabCount[c]
MemFormatted == SumFunction([c \in Slabs |-> PageLen(c)])

\* The parts of values (see Values), of the texts and of counters.
Tag == {"number"} \cup UNION {{q.tag : q \in Range(v.body)} : v \in Text}
Part == [tag : Tag, num : 0 .. Word - 1]

ASSUME ParamAssumption ==
  /\ NBuckets \in Nat /\ NSlabs \in Nat
  /\ KeyLen \in [Key -> Nat] /\ Slot \in [Key -> Buckets] /\ NoKey \notin Key
  /\ SlabSize \in [Slabs -> Nat] /\ SlabCount \in [Slabs -> Nat]
  /\ ItemSizeMax \in Nat /\ MemLimit \in Nat
  /\ Capacity \subseteq Nat /\ FlagSet \subseteq Nat /\ Delta \subseteq Nat
  /\ Word \in Nat \ {0}
  /\ \A v \in Text : v.nval \in Nat /\ v.body \in Seq(Part)
  /\ EvictToFree \in BOOLEAN /\ DefaultCounter \in BOOLEAN
  /\ DebugBuild \in BOOLEAN

\* The assertion of format_slabs: the first page of every class fits the pool.
ASSUME FormatAssumption == MemFormatted < MemLimit

\* slabs[c].count is item_size_max / slabs[c].size.
ASSUME PageAssumption == \A c \in Slabs : PageLen(c) <= ItemSizeMax

ItemSizeOk(nkey, nval) == SizeAccepted(ItemSizeMax, nkey, nval)
ItemClsid(nkey, nval) == ClassFor(SlabSize, NSlabs, ItemSize(nkey, nval))

\* The chunks of a pool in which carved[c] chunks have been cut for class c.
Chunks(carved) == UNION {{c} \X (1 .. carved[c]) : c \in Slabs}

\* A freed or never used chunk: of its fields only flags outlives the owner.
Dead(flags) ==
  [clsid |-> 0, key |-> NoKey, nkey |-> 0, nval |-> 0, body |-> <<>>,
   flags |-> flags]

-------------------------------------------------------------------------------
(***************************************************************************)
(* The hash table.                                                         *)
(***************************************************************************)
Chain(s, k) == s.bucket[Slot[k]]

\* The places of the chain whose item has key k.
Hits(s, k) == {p \in DOMAIN Chain(s, k) : s.item[Chain(s, k)[p]].key = k}

AssocFind(s, k) ==
  IF Hits(s, k) = {} THEN NoItem ELSE Chain(s, k)[Min(Hits(s, k))]

Present(s, k) == Hits(s, k) # {}

\* assoc_find keeps in max_depth the most items it has looked at.
Probe(s, k) ==
  LET depth == IF Present(s, k) THEN Min(Hits(s, k)) ELSE Len(Chain(s, k))
  IN  [s EXCEPT !.max_depth = IF depth > @ THEN depth ELSE @]

AssocInsert(s, k, i) ==
  [s EXCEPT !.bucket[Slot[k]] = Cons(i, @), !.nitems = @ + 1]

\* Mutants of assoc_delete: it counts down though nothing was found, and it
\* never counts down.
DeleteCountsMisses(s, k) ==
  IF ~Present(s, k) THEN [s EXCEPT !.nitems = @ - 1]
  ELSE [s EXCEPT !.bucket[Slot[k]] = RemoveAt(@, Min(Hits(s, k))),
                 !.nitems = @ - 1]
DeleteUncounted(s, k) ==
  IF ~Present(s, k) THEN s
  ELSE [s EXCEPT !.bucket[Slot[k]] = RemoveAt(@, Min(Hits(s, k)))]

AssocDelete(s, k) ==
  IF ~Present(s, k) THEN s
  ELSE [s EXCEPT !.bucket[Slot[k]] = RemoveAt(@, Min(Hits(s, k))),
                 !.nitems = @ - 1]

(***************************************************************************)
(* The LRU lists.                                                          *)
(***************************************************************************)
ItemLink(s, i) == [s EXCEPT !.lru[s.item[i].clsid] = Cons(i, @)]

\* Of an item that is on no list, prev and next are null: nothing changes.
ItemUnlink(s, i) ==
  LET list == s.lru[s.item[i].clsid]
      at   == {p \in DOMAIN list : list[p] = i}
  IN  IF at = {} THEN s
      ELSE [s EXCEPT !.lru[s.item[i].clsid] = RemoveAt(@, Min(at))]

ItemRelink(s, i) == ItemLink(ItemUnlink(s, i), i)

(***************************************************************************)
(* The slabs.                                                              *)
(***************************************************************************)
ItemFree(s, i) ==
  LET id == ItemClsid(s.item[i].nkey, s.item[i].nval)
  IN  [s EXCEPT !.free[id] = Cons(i, @), !.item[i] = Dead(@.flags)]

\* Mutant: the pool is not charged for the page.
CarveUncharged(s, id) ==
  LET old    == s.carved[id]
      carved == [s.carved EXCEPT ![id] = @ + SlabCount[id]]
      new    == [j \in 1 .. SlabCount[id] |-> <<id, old + SlabCount[id] + 1 - j>>]
  IN  [s EXCEPT !.carved   = carved,
                !.free[id] = new \o @,
                !.item     = [i \in Chunks(carved) |->
                                IF i \in DOMAIN s.item THEN s.item[i] ELSE Dead(0)]]

\* A page for class id: each of its chunks is pushed on the free list.
CarvePage(s, id) ==
  LET old    == s.carved[id]
      carved == [s.carved EXCEPT ![id] = @ + SlabCount[id]]
      new    == [j \in 1 .. SlabCount[id] |-> <<id, old + SlabCount[id] + 1 - j>>]
  IN  [s EXCEPT !.mem_used = @ + PageLen(id),
                !.carved   = carved,
                !.free[id] = new \o @,
                !.item     = [i \in Chunks(carved) |->
                                IF i \in DOMAIN s.item THEN s.item[i] ELSE Dead(0)]]

\* Mutant: the item stays on its LRU list.
ReleaseLinked(s, k, i) == ItemFree(AssocDelete(s, k), i)

\* Take item i out of the table, its list and its owner's hands.
Release(s, k, i) == ItemFree(ItemUnlink(AssocDelete(s, k), i), i)

\* Mutants of the eviction: the most recently used item goes, and the list of
\* another class is looked at.
EvictHead(s, id) ==
  IF s.lru[id] = <<>> THEN s
  ELSE Release(s, s.item[Head(s.lru[id])].key, Head(s.lru[id]))
EvictFirstClass(s, id) ==
  IF s.lru[0] = <<>> THEN s
  ELSE Release(s, s.item[Last(s.lru[0])].key, Last(s.lru[0]))

EvictTail(s, id) ==
  IF s.lru[id] = <<>> THEN s
  ELSE Release(s, s.item[Last(s.lru[id])].key, Last(s.lru[id]))

\* Mutant: an item is evicted while the pool still has a page.
RefillEvictingFirst(s, id) ==
  IF s.free[id] # <<>> THEN s
  ELSE IF EvictToFree /\ s.lru[id] # <<>> THEN EvictTail(s, id)
  ELSE IF s.mem_used + PageLen(id) < MemLimit THEN CarvePage(s, id)
  ELSE s

\* What item_alloc does when the free list of the class is empty.
Refill(s, id) ==
  IF s.free[id] # <<>> THEN s
  ELSE IF s.mem_used + PageLen(id) < MemLimit THEN CarvePage(s, id)
  ELSE IF EvictToFree THEN EvictTail(s, id)
  ELSE s

\* The answer is NoItem, or a chunk that is on no list. Key, body and flags
\* are left for the caller to write.
ItemAlloc(s, nkey, nval) ==
  LET id == ItemClsid(nkey, nval)
      r  == Refill(s, id)
      i  == Head(r.free[id])
  IN  IF r.free[id] = <<>> THEN [shm |-> r, item |-> NoItem]
      ELSE [shm  |-> [r EXCEPT !.free[id] = Tail(@),
                               !.item[i].clsid = id,
                               !.item[i].nkey  = nkey,
                               !.item[i].nval  = nval],
            item |-> i]

\* Enter a new item in the table and its list and write its key and value.
Enter(s, k, i, body) ==
  [ItemLink(AssocInsert(s, k, i), i) EXCEPT !.item[i].key  = k,
                                            !.item[i].body = body]

SetFlags(s, i, f) == [s EXCEPT !.item[i].flags = f]

-------------------------------------------------------------------------------
(***************************************************************************)
(* The operations: functions from a segment to a result, which is the new  *)
(* segment, the return code and what is stored through the out pointers.   *)
(***************************************************************************)
Result(s, rc) == [shm |-> s, rc |-> rc, out |-> <<>>, flags |-> NoFlags]

\* shmc_get_nolock: the copy is made after the item has been relinked, and
\* malloc may refuse it.
GetNolock(s, k, memory) ==
  LET i == AssocFind(s, k)
      t == ItemRelink(Probe(s, k), i)
  IN  IF ~Present(s, k) THEN Result(Probe(s, k), "NOTFOUND")
      ELSE IF ~memory THEN Result(t, "SYSTEM")
      ELSE [shm |-> t, rc |-> "OK", out |-> t.item[i].body,
            flags |-> t.item[i].flags]

GetfNolock(s, k, nval) ==
  LET i == AssocFind(s, k)
      t == ItemRelink(Probe(s, k), i)
  IN  IF ~Present(s, k) THEN Result(Probe(s, k), "NOTFOUND")
      ELSE IF nval < t.item[i].nval THEN Result(t, "ESPACE")
      ELSE [shm |-> t, rc |-> "OK", out |-> t.item[i].body,
            flags |-> t.item[i].flags]

DelNolock(s, k) ==
  IF ~Present(s, k) THEN Result(Probe(s, k), "NOTFOUND")
  ELSE Result(Release(Probe(s, k), k, AssocFind(s, k)), "OK")

\* Mutant: the item the key has is not deleted.
SetBeside(s, k, v, f) ==
  LET a == ItemAlloc(s, KeyLen[k], v.nval)
  IN  IF ~ItemSizeOk(KeyLen[k], v.nval) THEN Result(s, "ESIZE")
      ELSE IF a.item = NoItem THEN Result(a.shm, "NOMEMORY")
      ELSE Result(SetFlags(Enter(a.shm, k, a.item, v.body), a.item, f), "OK")

SetNolock(s, k, v, f) ==
  LET a == ItemAlloc(DelNolock(s, k).shm, KeyLen[k], v.nval)
  IN  IF ~ItemSizeOk(KeyLen[k], v.nval) THEN Result(s, "ESIZE")
      ELSE IF a.item = NoItem THEN Result(a.shm, "NOMEMORY")
      ELSE Result(SetFlags(Enter(a.shm, k, a.item, v.body), a.item, f), "OK")

AddNolock(s, k, v, f) ==
  IF Present(s, k) THEN Result(Probe(s, k), "EXIST")
  ELSE SetNolock(Probe(s, k), k, v, f)

\* Mutant: the flags are forgotten.
OverwriteValue(s, i, v, f) ==
  [ItemRelink(s, i) EXCEPT !.item[i].nval = v.nval, !.item[i].body = v.body]

\* Write value v over item i, whose class already suits it.
Overwrite(s, i, v, f) ==
  [ItemRelink(s, i) EXCEPT !.item[i].flags = f,
                           !.item[i].nval  = v.nval,
                           !.item[i].body  = v.body]

\* Mutant: the value is written in place whenever the chunk can hold it.
ReplaceWhereItFits(s, k, v, f) ==
  LET i == AssocFind(s, k)
      p == Probe(s, k)
  IN  IF ~Present(s, k) THEN Result(p, "NOTFOUND")
      ELSE IF s.item[i].clsid >= ItemClsid(KeyLen[k], v.nval)
           THEN Result(Overwrite(p, i, v, f), "OK")
           ELSE SetNolock(Release(p, k, i), k, v, f)

ReplaceNolock(s, k, v, f) ==
  LET i == AssocFind(s, k)
      p == Probe(s, k)
  IN  IF ~Present(s, k) THEN Result(p, "NOTFOUND")
      ELSE IF s.item[i].clsid = ItemClsid(KeyLen[k], v.nval)
           THEN Result(Overwrite(p, i, v, f), "OK")
           ELSE SetNolock(Release(p, k, i), k, v, f)

\* Mutant: the old item is given back before the new chunk is asked for.
ExtendFreeingFirst(s, k, v, f) ==
  LET i == AssocFind(s, k)
      p == Probe(s, k)
      a == ItemAlloc(Release(p, k, i), KeyLen[k], v.nval)
  IN  IF ~Present(s, k) THEN Result(p, "NOTFOUND")
      ELSE IF s.item[i].clsid = ItemClsid(KeyLen[k], v.nval)
           THEN Result(Overwrite(p, i, v, f), "OK")
      ELSE IF ~ItemSizeOk(KeyLen[k], v.nval) THEN Result(p, "ESIZE")
      ELSE IF a.item = NoItem THEN Result(a.shm, "NOMEMORY")
      ELSE Result(Enter(a.shm, k, a.item, v.body), "OK")

\* shmc_prepend_nolock and shmc_append_nolock, which differ in the body v.body
\* they build. The moved item does not get the flags: they go to the old one.
ExtendNolock(s, k, v, f) ==
  LET i == AssocFind(s, k)
      p == Probe(s, k)
      a == ItemAlloc(p, KeyLen[k], v.nval)
      u == ItemUnlink(AssocDelete(a.shm, k), i)
  IN  IF ~Present(s, k) THEN Result(p, "NOTFOUND")
      ELSE IF s.item[i].clsid = ItemClsid(KeyLen[k], v.nval)
           THEN Result(Overwrite(p, i, v, f), "OK")
      ELSE IF ~ItemSizeOk(KeyLen[k], v.nval) THEN Result(p, "ESIZE")
      ELSE IF a.item = NoItem THEN Result(a.shm, "NOMEMORY")
      ELSE Result(ItemFree(SetFlags(Enter(u, k, a.item, v.body), i, f), i), "OK")

\* shmc_arithmetic where a counter is already there, rewritten in place.
Recount(p, i, n, f) ==
  [shm |-> [p EXCEPT !.item[i].body = Counter(n)], rc |-> "OK",
   out |-> Counter(n), flags |-> IF f = NoFlags THEN NoFlags ELSE p.item[i].flags]

\* shmc_arithmetic where an item is allocated, for a key that is absent or whose
\* value is not a counter. item_alloc may have evicted the old item and handed
\* out its chunk: then it is freed again and nothing is entered.
NewCounter(p, k, n, f) ==
  LET i   == AssocFind(p, k)
      a   == ItemAlloc(p, KeyLen[k], CounterLen)
      d   == IF Present(p, k) THEN Release(a.shm, k, i) ELSE a.shm
      old == IF ~Present(p, k) THEN 0 ELSE p.item[i].flags
      fl  == IF f = NoFlags THEN old ELSE f
      out == IF f = NoFlags THEN NoFlags ELSE IF a.item = i THEN old ELSE fl
  IN  IF a.item = NoItem THEN Result(a.shm, "NOMEMORY")
      ELSE [shm   |-> IF a.item = i THEN d
                      ELSE SetFlags(Enter(d, k, a.item, Counter(n)), a.item, fl),
            rc    |-> "OK", out |-> Counter(n), flags |-> out]

Arithmetic(s, k, val, incr, f) ==
  LET i   == AssocFind(s, k)
      old == IF Present(s, k) THEN SafeStrtoull(s.item[i].body) ELSE 0
      n   == NewNumber(Word, old, val, incr)
      p   == Probe(s, k)
  IN  IF ~Present(s, k) /\ ~DefaultCounter THEN Result(p, "NOTFOUND")
      ELSE IF Present(s, k) /\ s.item[i].nval = CounterLen THEN Recount(p, i, n, f)
      ELSE NewCounter(p, k, n, f)

-------------------------------------------------------------------------------
(***************************************************************************)
(* Mapped and formatted (mmap_create, format_slabs).                       *)
(***************************************************************************)
Formatted ==
  [mem_used  |-> MemFormatted,
   carved    |-> SlabCount,
   free      |-> [c \in Slabs |->
                   [j \in 1 .. SlabCount[c] |-> <<c, SlabCount[c] + 1 - j>>]],
   item      |-> [i \in Chunks(SlabCount) |-> Dead(0)],
   lru       |-> [c \in Slabs |-> <<>>],
   bucket    |-> [b \in Buckets |-> <<>>],
   nitems    |-> 0,
   max_depth |-> 0]

Init ==
  /\ shm = Formatted
  /\ call = [op |-> "init", rc |-> "OK"]
  /\ fault = "none"

\* The call op with result r. For a storing call flags is what it passed.
Answer(op, k, flags, r) ==
  /\ shm' = r.shm
  /\ call' = [op |-> op, key |-> k, rc |-> r.rc, out |-> r.out, flags |-> flags]
  /\ UNCHANGED fault

\* item_clsid finds no class for these lengths and walks off slabs[].
Walks(k, nval) == ItemClsid(KeyLen[k], nval) \notin Slabs

\* A call with lengths that item_size_ok accepts and no class holds goes
\* on with garbage for a class: RunOff, not the operation, is its outcome.
Lost(k, nval) == ItemSizeOk(KeyLen[k], nval) /\ Walks(k, nval)

Get(k) ==
  \E memory \in BOOLEAN :
    LET r == GetNolock(shm, k, memory) IN Answer("get", k, r.flags, r)

Getf(k) ==
  \E nval \in Capacity :
    LET r == GetfNolock(shm, k, nval) IN Answer("getf", k, r.flags, r)

Del(k) == Answer("del", k, NoFlags, DelNolock(shm, k))

Set(k) ==
  \E v \in Text, f \in FlagSet :
    /\ ~Lost(k, v.nval)
    /\ Answer("set", k, f, SetNolock(shm, k, v, f))

Add(k) ==
  \E v \in Text, f \in FlagSet :
    /\ Present(shm, k) \/ ~Lost(k, v.nval)
    /\ Answer("add", k, f, AddNolock(shm, k, v, f))

Replace(k) ==
  \E v \in Text, f \in FlagSet :
    /\ Present(shm, k) => ~Lost(k, v.nval)
    /\ Answer("replace", k, f, ReplaceNolock(shm, k, v, f))

\* The values append or prepend may be asked to leave over the one there is.
Joins(k, front) ==
  IF ~Present(shm, k) THEN Text
  ELSE {w \in {Joined(shm.item[AssocFind(shm, k)], v, front) : v \in Text} :
          Len(w.body) <= MaxParts}

Extend(op, k, front) ==
  \E w \in Joins(k, front), f \in FlagSet :
    /\ Present(shm, k) => ~Lost(k, w.nval)
    /\ Answer(op, k, f, ExtendNolock(shm, k, w, f))

Append_(k) == Extend("append", k, FALSE)
Prepend(k) == Extend("prepend", k, TRUE)

\* incr or decr of k needs an item: the key is absent and counters start by
\* default, or its value has not the length of a counter.
AllocatesCounter(k) ==
  IF Present(shm, k) THEN shm.item[AssocFind(shm, k)].nval # CounterLen
                     ELSE DefaultCounter

\* The assertion of item_alloc fails: shmc_arithmetic alone does not test the
\* size before it allocates.
Refused(k) == DebugBuild /\ ~ItemSizeOk(KeyLen[k], CounterLen)

\* The flags pointer of incr and decr may be null: then f is NoFlags.
Calculate(op, k, incr) ==
  \E val \in Delta, f \in FlagSet \cup {NoFlags} :
    LET r == Arithmetic(shm, k, val, incr, f)
    IN  /\ AllocatesCounter(k) => ~Refused(k) /\ ~Walks(k, CounterLen)
        /\ Answer(op, k, r.flags, r)

Incr(k) == Calculate("incr", k, TRUE)
Decr(k) == Calculate("decr", k, FALSE)

Abort(k) ==
  /\ AllocatesCounter(k) /\ Refused(k)
  /\ fault' = "assert"
  /\ UNCHANGED <<shm, call>>

\* The lengths for which some call on k asks item_clsid for a class that does
\* not exist. Replace, append and prepend ask before they test the size. When
\* they go on to refuse it only the comparison saw the garbage, unless the walk
\* ends outside the mapping: both outcomes are possible.
Strays(k) ==
  \/ \E v \in Text : Lost(k, v.nval)
  \/ /\ Present(shm, k)
     /\ \/ \E v \in Text : Walks(k, v.nval)
        \/ \E w \in Joins(k, TRUE) : Walks(k, w.nval)
  \/ AllocatesCounter(k) /\ ~Refused(k) /\ Walks(k, CounterLen)

RunOff(k) ==
  /\ Strays(k)
  /\ fault' = "offtable"
  /\ UNCHANGED <<shm, call>>

Operation(k) ==
  \/ Get(k)
  \/ Getf(k)
  \/ Del(k)
  \/ Set(k)
  \/ Add(k)
  \/ Replace(k)
  \/ Append_(k)
  \/ Prepend(k)
  \/ Incr(k)
  \/ Decr(k)
  \/ Abort(k)
  \/ RunOff(k)

Next == fault = "none" /\ \E k \in Key : Operation(k)

Spec == Init /\ [][Next]_vars

-------------------------------------------------------------------------------
(***************************************************************************)
(* Properties.                                                             *)
(***************************************************************************)
ItemName == Slabs \X (Nat \ {0})

\* The flags a caller has passed, or those of a chunk nobody has had.
Flags == FlagSet \cup {0}

ItemType ==
  [clsid : Slabs, key : Key \cup {NoKey}, nkey : Nat, nval : Nat,
   body : Seq(Part), flags : Flags]

\* Every field of the segment has the type shmc.c declares for it, every list
\* holds chunks that have been carved, and the process runs or has stopped.
TypeOK ==
  /\ shm.mem_used \in Nat /\ shm.nitems \in Nat /\ shm.max_depth \in Nat
  /\ shm.carved \in [Slabs -> Nat]
  /\ DOMAIN shm.item = Chunks(shm.carved)
  /\ \A i \in DOMAIN shm.item : shm.item[i] \in ItemType
  /\ shm.free \in [Slabs -> Seq(ItemName)]
  /\ shm.lru \in [Slabs -> Seq(ItemName)]
  /\ shm.bucket \in [Buckets -> Seq(ItemName)]
  /\ fault \in {"none", "offtable", "assert"}

Linked(s) == UNION {Range(s.lru[c]) : c \in Slabs}

\* After every operation each chunk of a class is on exactly one list of that
\* class, its free list or its LRU list, and on it once: no chunk leaks, none is
\* handed out twice, and none goes home to another class (item_alloc, item_free).
SlabPartition ==
  \A c \in Slabs :
    /\ IsInjective(shm.free[c]) /\ IsInjective(shm.lru[c])
    /\ Range(shm.free[c]) \cap Range(shm.lru[c]) = {}
    /\ Range(shm.free[c]) \cup Range(shm.lru[c]) = {c} \X (1 .. shm.carved[c])

\* The hash chains and the LRU lists hold the same items, each in the chain of
\* its key, and no key has two items: what assoc_find returns is the one item
\* of its key, and what the eviction finds at a tail can be found by its key.
IndexMatchesLru ==
  /\ \A b \in Buckets :
       /\ IsInjective(shm.bucket[b])
       /\ \A i \in Range(shm.bucket[b]) :
            i \in Linked(shm) /\ shm.item[i].key \in Key /\ Slot[shm.item[i].key] = b
  /\ \A i \in Linked(shm) : i \in Range(Chain(shm, shm.item[i].key))
  /\ \A i, j \in Linked(shm) : shm.item[i].key = shm.item[j].key => i = j

\* The class written in an item when it was allocated is still the class of its
\* lengths: item_free, which computes the class anew from lengths that replace,
\* append and prepend have changed in place, gives the chunk back to its own
\* class, and the value fits the chunk.
ClassStable ==
  \A i \in Linked(shm) :
    LET it == shm.item[i]
    IN  it.clsid = i[1] /\ ItemClsid(it.nkey, it.nval) = i[1] /\ it.nkey = KeyLen[it.key]

\* attr nitems counts the items that can be found.
CountExact == shm.nitems = Cardinality(Linked(shm))

\* attr mem_used is the memory cut into chunks so far, and it stays below the
\* limit: no page is carved out of memory past the mapping.
PoolAccounted ==
  /\ shm.mem_used = SumFunction([c \in Slabs |-> SlabSize[c] * shm.carved[c]])
  /\ shm.mem_used < MemLimit

\* The keys other than the caller's that a step takes out of the table.
Gone == {x \in Key \ {call'.key} : Present(shm, x) /\ ~Present(shm', x)}

\* A key other than the one the call names disappears only when eviction is on,
\* the pool has no page left for the class of the item that was needed and that
\* class had no free chunk; then it is the key of the least recently linked item
\* of the class, and it is alone.
EvictOnlyUnderPressure ==
  [][fault' = "none" =>
       \A x \in Gone :
         LET i == AssocFind(shm, x)
             c == i[1]
         IN  /\ Gone = {x} /\ EvictToFree
             /\ shm.free[c] = <<>>
             /\ ~(shm.mem_used + PageLen(c) < MemLimit)
             /\ i = Last(shm.lru[c])]_vars

\* With eviction on, and no class without chunks, no call runs out of memory.
EvictModeNeverRefuses == EvictToFree => call.rc # "NOMEMORY"

\* After a successful append or prepend the value carries the flags the call
\* passed, as the unit test expects after it has appended (t/unit.c, where the
\* longer value stays in its class).
ExtendStoresFlags ==
  call.op \in {"append", "prepend"} /\ call.rc = "OK" =>
    shm.item[AssocFind(shm, call.key)].flags = call.flags

\* The number incr or decr has answered is there for the next one to count
\* from, as the unit test expects of an incr and the two decr after it.
CounterIsStored ==
  call.op \in {"incr", "decr"} /\ call.rc = "OK" => Present(shm, call.key)

\* The assertion at the head of item_alloc holds: whoever allocates has tested
\* the size.
SizeIsTested == fault # "assert"

\* What a caller can learn of the segment.
Content ==
  [k \in {x \in Key : Present(shm, x)} |->
     LET it == shm.item[AssocFind(shm, k)]
     IN  [nval |-> it.nval, body |-> it.body, flags |-> it.flags]]

Promise == INSTANCE Cache WITH content <- Content

\* Slabs, lists and chunks implement the map of Cache: every operation answers
\* from, and changes, the content the way the map would, and a call that fails
\* half-way leaves only what the map allows.
ImplementsCache == Promise!Spec

================================================================================
