----------------------------- MODULE ShmcLockProofs -----------------------------
(***************************************************************************)
(* The locks of shmc at work, for any number of threads, calls and deaths: *)
(* who holds what, hence the exclusion; what the segment is like in the    *)
(* middle of a call, hence that it is whole whenever nobody writes; and    *)
(* that calls taken apart into steps answer as the map of Cache does.      *)
(***************************************************************************)
EXTENDS ShmcLock, ShmcCacheProofs

FindPcs == {"look", "raise", "compare"}
ReaderPcs ==
  FindPcs \cup {"lock", "mutex", "unlist", "relist", "unmutex", "copy", "unlock"}
WriterPcs ==
  FindPcs \cup {"lock", "unhash", "unlist", "free", "alloc", "hook", "list", "fill", "unlock"}
UnderMutex == {"unlist", "relist", "unmutex"}

\* Fits of a call what Fitting is of a thread in it.
Fits(u) == u.op = "set" => ItemSizeOk(KeyLen[u.key], u.val.nval)

Locals == {"pc", "op", "key", "depth", "item", "val", "flags"}

\* The locals of a thread that is in a call: its operation, whose code it is in,
\* and arguments. From the first item it looks at on, the size is accepted.
Frame(u) ==
  /\ DOMAIN u = Locals
  /\ u.op \in {"read", "set", "del"} /\ u.key \in Key /\ u.depth \in Nat
  /\ u.op = "set" => u.val \in Text /\ u.flags \in FlagSet
  /\ u.pc \in IF u.op = "read" THEN ReaderPcs ELSE WriterPcs
  /\ u.pc = "lock" => u.depth = 0
  /\ u.pc \in {"alloc", "hook", "list", "fill"} => u.op = "set"
  /\ u.pc \notin {"lock", "look", "unlock"} => Fits(u)

Frames ==
  DOMAIN me = Thread /\ \A t \in Thread : me[t].pc = "idle" \/ Frame(me[t])

\* Who is between locking and unlocking holds his lock, if he lives or has left
\* it behind.
Has(t) == me[t].pc \notin {"idle", "lock"} /\ (Alive(t) \/ ~use_flock)

LocksHeld ==
  /\ readers \subseteq Thread /\ writer \in Thread \cup {NoThread}
  /\ \A t \in Thread : t \in readers <=> Has(t) /\ Reads(t)
  /\ \A t \in Thread : writer = t <=> Has(t) /\ ~Reads(t)
  /\ writer = NoThread \/ readers = {}

\* The mutex is with the reader, dead or alive, that is between locking and
\* unlocking it.
MutexHeld ==
  /\ mutex \in Thread \cup {NoThread}
  /\ \A t \in Thread : mutex = t <=> me[t].pc \in UnderMutex /\ Reads(t)

HInv == Frames /\ LocksHeld /\ MutexHeld

-------------------------------------------------------------------------------
(***************************************************************************)
(* The locks.                                                              *)
(***************************************************************************)
\* Thread t moves on to locals u, the others stay where they are.
Turns(t, u) == DOMAIN me' = Thread /\ me'[t] = u /\ \A x \in Thread \ {t} : me'[x] = me[x]

\* Locals u and v differ in the place and what the search finds.
SameCall(u, v) ==
  v.op = u.op /\ v.key = u.key /\ v.val = u.val /\ v.flags = u.flags

\* A step to another place changes no other local.
LEMMA Goes ==
  ASSUME Frames, NEW t \in Thread, Frame(me[t]), NEW pc, Goto(t, pc)
  PROVE  /\ Turns(t, me'[t]) /\ DOMAIN me'[t] = Locals
         /\ me'[t].pc = pc /\ SameCall(me[t], me'[t])
         /\ me'[t].depth = me[t].depth /\ me'[t].item = me[t].item
<1>1. me' = [me EXCEPT ![t] = [me[t] EXCEPT !.pc = pc]]
  BY DEF Goto
<1> DEFINE u == [me[t] EXCEPT !.pc = pc]
<1>2. /\ DOMAIN u = Locals /\ u.pc = pc /\ SameCall(me[t], u)
      /\ u.depth = me[t].depth /\ u.item = me[t].item
  BY DEF Frame, Locals, SameCall
<1> HIDE DEF u
<1>3. Turns(t, u)
  BY <1>1 DEF Turns, Frames, u
<1>4. QED
  BY <1>2, <1>3 DEF Turns

\* A thread that holds its lock and moves on to a place its operation knows, not
\* to the inside of the mutex unless it is there already, keeps the invariant.
LEMMA MoveKeeps ==
  ASSUME HInv, NEW t \in Thread, Has(t), Alive(t), NEW u, Turns(t, u), Frame(u),
         u.op = me[t].op, u.pc \notin {"idle", "lock"},
         u.op = "read" => (u.pc \in UnderMutex <=> me[t].pc \in UnderMutex),
         UNCHANGED <<locks, dead>>
  PROVE  HInv'
<1>1. /\ use_flock' = use_flock /\ readers' = readers /\ writer' = writer
      /\ mutex' = mutex /\ dead' = dead
  BY DEF locks
<1>2. Frames'
  BY DEF HInv, Frames, Turns, Frame
<1>3. \A x \in Thread : (Has(x)' <=> Has(x)) /\ (Has(x) => (Reads(x)' <=> Reads(x)))
  BY <1>1 DEF Has, Alive, Turns, Reads
<1>4. LocksHeld'
  BY <1>1, <1>3 DEF HInv, LocksHeld
<1>5. MutexHeld'
  BY <1>1 DEF HInv, MutexHeld, Turns, Reads
<1>6. QED
  BY <1>2, <1>4, <1>5 DEF HInv

\* The same for a step that changes no local but the place.
LEMMA GotoKeeps ==
  ASSUME HInv, NEW t \in Thread, Has(t), Alive(t), NEW pc, Goto(t, pc),
         pc \in IF Reads(t) THEN ReaderPcs ELSE WriterPcs,
         pc # "lock", pc \notin {"look", "unlock"} => Fits(me[t]),
         pc \in {"alloc", "hook", "list", "fill"} => me[t].op = "set",
         Reads(t) => (pc \in UnderMutex <=> me[t].pc \in UnderMutex),
         UNCHANGED <<locks, dead>>
  PROVE  HInv'
<1>1. Frame(me[t]) /\ Frames
  BY DEF HInv, Frames, Has
<1>2. /\ Turns(t, me'[t]) /\ DOMAIN me'[t] = Locals
      /\ me'[t].pc = pc /\ SameCall(me[t], me'[t])
      /\ me'[t].depth = me[t].depth /\ me'[t].item = me[t].item
  BY <1>1, Goes
<1>3. Frame(me'[t])
  BY <1>1, <1>2 DEF Frame, SameCall, Fits, Reads
<1>4. pc # "idle"
  BY DEF ReaderPcs, WriterPcs, FindPcs
<1>5. QED
  BY <1>2, <1>3, <1>4, MoveKeeps DEF SameCall, Reads

-------------------------------------------------------------------------------
(***************************************************************************)
(* The steps that take or leave a lock.                                    *)
(***************************************************************************)
\* A thread enters a call and waits for its lock.
LEMMA BeginKeeps ==
  ASSUME HInv, NEW t \in Thread, Begin(t)
  PROVE  /\ HInv' /\ Turns(t, me'[t]) /\ me'[t].pc = "lock" /\ Frame(me'[t])
         /\ me[t].pc = "idle"
<1> DEFINE Called(op, k, v, f) ==
      [pc |-> "lock", op |-> op, key |-> k, depth |-> 0, item |-> NoItem,
       val |-> IF op = "set" THEN v ELSE <<>>,
       flags |-> IF op = "set" THEN f ELSE NoFlags]
<1>0. PICK op \in {"read", "set", "del"}, k \in Key, v \in Text, f \in FlagSet :
        me' = [me EXCEPT ![t] = Called(op, k, v, f)]
  BY DEF Begin
<1> DEFINE u == Called(op, k, v, f)
<1>1. Frame(u) /\ u.pc = "lock"
  BY DEF Frame, Locals, ReaderPcs, WriterPcs, Fits
<1> HIDE DEF u
<1>2. Turns(t, u)
  BY <1>0 DEF HInv, Frames, Turns, u
<1>3. /\ use_flock' = use_flock /\ readers' = readers /\ writer' = writer
      /\ mutex' = mutex /\ dead' = dead /\ me[t].pc = "idle"
  BY DEF Begin, locks, At
<1>4. Frames'
  BY <1>1, <1>2 DEF HInv, Frames, Turns, Frame
<1>5. \A x \in Thread : (Has(x)' <=> Has(x)) /\ (Has(x) => (Reads(x)' <=> Reads(x)))
  BY <1>1, <1>2, <1>3 DEF Has, Alive, Turns, Reads
<1>6. LocksHeld'
  BY <1>3, <1>5 DEF HInv, LocksHeld
<1>7. MutexHeld'
  BY <1>1, <1>2, <1>3 DEF HInv, MutexHeld, Turns, Reads, UnderMutex
<1>8. QED
  BY <1>1, <1>2, <1>3, <1>4, <1>6, <1>7 DEF HInv, Turns

\* The read lock is granted while nobody writes, the write lock while nobody holds
\* either.
LEMMA LockKeeps ==
  ASSUME HInv, NEW t \in Thread, Lock(t)
  PROVE  /\ HInv' /\ Turns(t, me'[t]) /\ me'[t].pc = "look" /\ SameCall(me[t], me'[t])
         /\ me'[t].depth = me[t].depth /\ Frame(me'[t])
         /\ Frame(me[t]) /\ me[t].pc = "lock"
<1>1. Frame(me[t]) /\ Frames /\ me[t].pc = "lock" /\ Alive(t)
  BY DEF HInv, Frames, Lock, At
<1>2. /\ Turns(t, me'[t]) /\ DOMAIN me'[t] = Locals
      /\ me'[t].pc = "look" /\ SameCall(me[t], me'[t])
      /\ me'[t].depth = me[t].depth /\ me'[t].item = me[t].item
  BY <1>1, Goes DEF Lock
<1>3. Frame(me'[t])
  BY <1>1, <1>2 DEF Frame, SameCall, ReaderPcs, WriterPcs, FindPcs
<1>4. Frames'
  BY <1>1, <1>2, <1>3 DEF Frames, Turns
<1>5. use_flock' = use_flock /\ mutex' = mutex /\ dead' = dead /\ writer = NoThread
  BY DEF Lock
<1>6. /\ \A x \in Thread \ {t} : (Has(x)' <=> Has(x)) /\ (Reads(x)' <=> Reads(x))
      /\ ~Has(t) /\ Has(t)' /\ (Reads(t)' <=> Reads(t))
  BY <1>1, <1>2, <1>5 DEF Has, Alive, Turns, Reads, SameCall
<1>7. LocksHeld'
  <2>1. CASE Reads(t)
    <3>1. readers' = readers \cup {t} /\ writer' = writer
      BY <2>1 DEF Lock
    <3>2. QED
      BY <1>5, <1>6, <2>1, <3>1, ThreadAssumption DEF HInv, LocksHeld
  <2>2. CASE ~Reads(t)
    <3>1. readers = {} /\ readers' = {} /\ writer' = t
      BY <2>2 DEF Lock
    <3>2. QED
      BY <1>5, <1>6, <2>2, <3>1, ThreadAssumption DEF HInv, LocksHeld
  <2>3. QED
    BY <2>1, <2>2
<1>8. MutexHeld'
  BY <1>1, <1>2, <1>5, <1>6 DEF HInv, MutexHeld, Turns, UnderMutex
<1>9. QED
  BY <1>1, <1>2, <1>3, <1>4, <1>7, <1>8 DEF HInv

\* The others keep what they hold.
LEMMA UnlockKeeps ==
  ASSUME HInv, NEW t \in Thread, Unlock(t)
  PROVE  /\ HInv' /\ Turns(t, me'[t]) /\ me'[t].pc = "idle"
         /\ me[t].pc = "unlock" /\ Has(t)
<1>1. Frames /\ me[t].pc = "unlock" /\ Alive(t) /\ Has(t)
  BY DEF HInv, Unlock, At, Has
<1>2. Turns(t, Idle) /\ Idle.pc = "idle"
  BY <1>1 DEF Unlock, Frames, Turns, Idle
<1>3. /\ use_flock' = use_flock /\ mutex' = mutex /\ dead' = dead
      /\ readers' = readers \ {t}
      /\ writer' = IF writer = t THEN NoThread ELSE writer
  BY DEF Unlock
<1>4. Frames'
  BY <1>1, <1>2 DEF Frames, Turns
<1>5. /\ \A x \in Thread \ {t} : (Has(x)' <=> Has(x)) /\ (Reads(x)' <=> Reads(x))
      /\ ~Has(t)'
  BY <1>1, <1>2, <1>3 DEF Has, Alive, Turns, Reads
<1>6. LocksHeld'
  BY <1>3, <1>5, ThreadAssumption DEF HInv, LocksHeld
<1>7. MutexHeld'
  BY <1>1, <1>2, <1>3 DEF HInv, MutexHeld, Turns, UnderMutex, Reads
<1>8. QED
  BY <1>1, <1>2, <1>4, <1>6, <1>7 DEF HInv, Turns

\* The mutex was nobody's: no reader is where it would have to have it.
LEMMA MutexKeeps ==
  ASSUME HInv, NEW t \in Thread, Mutex(t)
  PROVE  /\ HInv' /\ Has(t) /\ Reads(t) /\ me[t].pc = "mutex"
<1>1. /\ Frame(me[t]) /\ Frames /\ me[t].pc = "mutex" /\ Alive(t) /\ Has(t)
      /\ mutex = NoThread /\ mutex' = t
  BY DEF HInv, Frames, Mutex, At, Has
<1>2. /\ Turns(t, me'[t]) /\ DOMAIN me'[t] = Locals
      /\ me'[t].pc = "unlist" /\ SameCall(me[t], me'[t])
      /\ me'[t].depth = me[t].depth /\ me'[t].item = me[t].item
  BY <1>1, Goes DEF Mutex
<1>3. Reads(t) /\ Frame(me'[t])
  BY <1>1, <1>2 DEF Frame, SameCall, Fits, Reads, ReaderPcs, WriterPcs, FindPcs
<1>4. Frames'
  BY <1>1, <1>2, <1>3 DEF Frames, Turns
<1>5. use_flock' = use_flock /\ dead' = dead /\ readers' = readers /\ writer' = writer
  BY DEF Mutex
<1>6. \A x \in Thread : (Has(x)' <=> Has(x)) /\ (Reads(x)' <=> Reads(x))
  BY <1>1, <1>2, <1>5 DEF Has, Alive, Turns, Reads, SameCall
<1>7. LocksHeld'
  BY <1>5, <1>6 DEF HInv, LocksHeld
<1>8. MutexHeld'
  BY <1>1, <1>2, <1>3, <1>6, ThreadAssumption DEF HInv, MutexHeld, Turns, UnderMutex
<1>9. QED
  BY <1>1, <1>3, <1>4, <1>7, <1>8 DEF HInv

\* Only a reader comes here, and no other reader had the mutex.
LEMMA UnmutexKeeps ==
  ASSUME HInv, NEW t \in Thread, Unmutex(t)
  PROVE  /\ HInv' /\ Has(t) /\ Reads(t) /\ me[t].pc = "unmutex"
<1>1. /\ Frame(me[t]) /\ Frames /\ me[t].pc = "unmutex" /\ Alive(t) /\ Has(t)
      /\ mutex' = NoThread
  BY DEF HInv, Frames, Unmutex, At, Has
<1>2. /\ Turns(t, me'[t]) /\ DOMAIN me'[t] = Locals
      /\ me'[t].pc = "copy" /\ SameCall(me[t], me'[t])
      /\ me'[t].depth = me[t].depth /\ me'[t].item = me[t].item
  BY <1>1, Goes DEF Unmutex
<1>3. Reads(t) /\ Frame(me'[t])
  BY <1>1, <1>2 DEF Frame, SameCall, Fits, Reads, ReaderPcs, WriterPcs, FindPcs
<1>4. Frames'
  BY <1>1, <1>2, <1>3 DEF Frames, Turns
<1>5. use_flock' = use_flock /\ dead' = dead /\ readers' = readers /\ writer' = writer
  BY DEF Unmutex
<1>6. \A x \in Thread : (Has(x)' <=> Has(x)) /\ (Reads(x)' <=> Reads(x))
  BY <1>1, <1>2, <1>5 DEF Has, Alive, Turns, Reads, SameCall
<1>7. LocksHeld'
  BY <1>5, <1>6 DEF HInv, LocksHeld
<1>8. mutex = t
  BY <1>1, <1>3 DEF HInv, MutexHeld, UnderMutex
<1>9. MutexHeld'
  BY <1>1, <1>2, <1>6, <1>8, ThreadAssumption DEF HInv, MutexHeld, Turns, UnderMutex
<1>10. QED
  BY <1>1, <1>3, <1>4, <1>7, <1>9 DEF HInv

\* A process that dies takes an fcntl lock with it, and nothing else.
LEMMA DieKeeps ==
  ASSUME HInv, NEW t \in Thread, Die(t)
  PROVE  HInv' /\ \A x \in Thread : Has(x)' => Has(x)
<1>1. /\ me' = me /\ mutex' = mutex /\ use_flock' = use_flock /\ dead' = dead \cup {t}
      /\ readers' = IF use_flock THEN readers \ {t} ELSE readers
      /\ writer' = IF use_flock /\ writer = t THEN NoThread ELSE writer
  BY DEF Die
<1>2. /\ \A x \in Thread : Reads(x)' <=> Reads(x)
      /\ \A x \in Thread : x # t \/ ~use_flock => (Has(x)' <=> Has(x))
      /\ use_flock => ~Has(t)'
  BY <1>1 DEF Reads, Has, Alive
<1>3. Frames'
  BY <1>1 DEF HInv, Frames
<1>4. LocksHeld'
  BY <1>1, <1>2, ThreadAssumption DEF HInv, LocksHeld
<1>5. MutexHeld'
  BY <1>1, <1>2 DEF HInv, MutexHeld
<1>6. QED
  BY <1>2, <1>3, <1>4, <1>5 DEF HInv

-------------------------------------------------------------------------------
(***************************************************************************)
(* The segment in the middle of a call. What holds of it is said of the    *)
(* locals u of the thread, the segment s and the content c that the last   *)
(* call left.                                                              *)
(***************************************************************************)
FoundPcs == {"mutex", "unlist", "relist", "unmutex", "copy"}
MidPcs == {"unlist", "free", "alloc", "hook", "list", "fill"}

\* assoc_find has come to depth, and none of the items before has the key.
FindOK(u, s) ==
  LET ch == Chain(s, u.key)
  IN  u.pc \in FindPcs =>
        /\ u.depth <= Len(ch) /\ (u.pc # "look" => u.depth >= 1)
        /\ \A p \in 1 .. Len(ch) :
             p < u.depth \/ (u.pc = "look" /\ p = u.depth) => s.item[ch[p]].key # u.key

\* What assoc_find has found is still there.
FoundOK(u, s) ==
  u.pc = "unhash" \/ (u.op = "read" /\ u.pc \in FoundPcs) =>
    Present(s, u.key) /\ u.item = AssocFind(s, u.key)

\* A writer that changes the segment, and a reader that has an item in hand.
Midway(u) == u.pc \in MidPcs /\ u.op # "read"
Lifting(u) == u.pc = "relist" /\ u.op = "read"

\* A chunk has been allocated for the key and value of u.
InHand(u, s, c) ==
  /\ Good(s, {u.item}) /\ Missing(s, u.key)
  /\ s.item[u.item].nkey = KeyLen[u.key] /\ s.item[u.item].nval = u.val.nval
  /\ View(s) \in Spared(Without(c, u.key))

\* What a writer has made of the segment so far.
Taken(u, s, c) ==
  \E b : /\ Good(b, {}) /\ View(b) = c /\ u.item \in Linked(b)
         /\ b.item[u.item].key = u.key /\ s = AssocDelete(b, u.key)
Loose(u, s, c) ==
  /\ Good(s, {u.item}) /\ Missing(s, u.key) /\ View(s) = Without(c, u.key)
  /\ u.key \in DOMAIN c
Absent(u, s, c) ==
  Good(s, {}) /\ Missing(s, u.key) /\ View(s) = Without(c, u.key)
Hooked(u, s, c) ==
  \E b : InHand(u, b, c) /\ s = AssocInsert(b, u.key, u.item)
Listed(u, s, c) ==
  \E b : InHand(u, b, c) /\ s = ItemLink(AssocInsert(b, u.key, u.item), u.item)

MidOK(u, s, c) ==
  /\ u.pc = "unlist" => Taken(u, s, c)
  /\ u.pc = "free" => Loose(u, s, c)
  /\ u.pc = "alloc" => Absent(u, s, c)
  /\ u.pc = "hook" => InHand(u, s, c)
  /\ u.pc = "list" => Hooked(u, s, c)
  /\ u.pc = "fill" => Listed(u, s, c)

\* Item i has been taken off its list.
Lifted(s, i) ==
  \E b : Good(b, {}) /\ i \in Linked(b) /\ s = ItemUnlink(b, i)

IsMap(c) == c = [x \in DOMAIN c |-> c[x]] /\ DOMAIN c \subseteq Key

\* What the holders of a lock have found is there, and the segment is what the
\* one that changes it has made of it so far.
Search == \A t \in Thread : Has(t) => FindOK(me[t], shm) /\ FoundOK(me[t], shm)
Halfway == \A t \in Thread :
  /\ Midway(me[t]) => MidOK(me[t], shm, content)
  /\ Lifting(me[t]) => Lifted(shm, me[t].item)
Shows == (\A t \in Thread : ~Midway(me[t])) => content = View(shm)
Sound == (\A t \in Thread : ~Midway(me[t]) /\ ~Lifting(me[t])) => Good(shm, {})

SInv ==
  /\ Search /\ Halfway /\ Shows /\ Sound
  /\ IsMap(content) /\ fault \in {"none", "offtable", "assert"}

LInv == HInv /\ SInv

\* Nobody is halfway that does not hold his lock, or the model has stopped.
LEMMA Holders ==
  ASSUME HInv, ~Torn, NEW t \in Thread, Midway(me[t]) \/ Lifting(me[t])
  PROVE  /\ Has(t) /\ Changing(t)
         /\ Midway(me[t]) => writer = t
         /\ Lifting(me[t]) => t \in readers /\ mutex = t
<1>1. Changing(t) /\ me[t].pc \notin {"idle", "lock"}
  BY DEF Changing, Midway, Lifting, MidPcs
<1>2. Has(t)
  BY <1>1 DEF Torn, Has, Alive
<1>3. QED
  BY <1>1, <1>2 DEF HInv, LocksHeld, MutexHeld, Midway, Lifting, Reads, UnderMutex

\* While a reader holds his lock nobody is halfway but another reader, and nobody
\* at all if he has the mutex.
LEMMA ReaderIn ==
  ASSUME HInv, ~Torn, NEW t \in Thread, Has(t), Reads(t)
  PROVE  /\ \A x \in Thread : ~Midway(me[x])
         /\ mutex = t => \A x \in Thread \ {t} : ~Lifting(me[x])
<1>1. /\ writer = NoThread
      /\ \A x \in Thread : x # NoThread
  BY ThreadAssumption DEF HInv, LocksHeld
<1>2. QED
  BY <1>1, Holders

\* A writer is alone.
LEMMA WriterIn ==
  ASSUME HInv, ~Torn, NEW t \in Thread, Has(t), ~Reads(t)
  PROVE  \A x \in Thread \ {t} : ~Has(x) /\ ~Midway(me[x]) /\ ~Lifting(me[x])
<1>1. writer = t /\ t # NoThread
  BY ThreadAssumption DEF HInv, LocksHeld
<1>2. \A x \in Thread \ {t} : ~Has(x)
  BY <1>1 DEF HInv, LocksHeld
<1>3. QED
  BY <1>2, Holders

\* What assoc_find and a caller see depends on the table and the items alone.
LEMMA SameTable ==
  ASSUME NEW s, NEW r, r.bucket = s.bucket, r.item = s.item
  PROVE  /\ View(r) = View(s)
         /\ \A k : Chain(r, k) = Chain(s, k) /\ Present(r, k) = Present(s, k)
                   /\ AssocFind(r, k) = AssocFind(s, k)
         /\ \A u : FindOK(u, r) = FindOK(u, s) /\ FoundOK(u, r) = FoundOK(u, s)
<1>1. \A k : Chain(r, k) = Chain(s, k)
  BY DEF Chain
<1>2. \A k : Hits(r, k) = Hits(s, k)
  BY <1>1 DEF Hits
<1>3. \A k : Present(r, k) = Present(s, k) /\ AssocFind(r, k) = AssocFind(s, k)
  BY <1>1, <1>2 DEF Present, AssocFind
<1>4. \A i : Seen(r, i) = Seen(s, i)
  BY DEF Seen
<1>5. View(r) = View(s)
  BY <1>3, <1>4, Zenon DEF View
<1>6. \A u : FindOK(u, r) = FindOK(u, s)
  BY <1>1 DEF FindOK
<1>7. \A u : FoundOK(u, r) = FoundOK(u, s)
  BY <1>3 DEF FoundOK
<1>8. QED
  BY <1>1, <1>3, <1>5, <1>6, <1>7

-------------------------------------------------------------------------------
(***************************************************************************)
(* The types, which hold in the middle of a call too.                      *)
(***************************************************************************)
Typed(s) == s \in Segment /\ s.nitems \in Nat /\ DOMAIN s.item = Chunks(s.carved)

\* A good segment is well typed.
LEMMA GoodTyped ==
  ASSUME NEW s, NEW F, Good(s, F)
  PROVE  Typed(s)
<1>1. s \in Segment /\ DOMAIN s.item = Chunks(s.carved)
  BY DEF Good, ChunksGood
<1>2. IsFiniteSet(Linked(s)) /\ s.nitems = Cardinality(Linked(s))
  BY DEF Good, CountsGood
<1>3. s.nitems \in Nat
  BY <1>2, FS_CardinalityType
<1>4. QED
  BY <1>1, <1>3 DEF Typed

\* Lists of items without one of them are of the same types.
LEMMA LiftedTyped ==
  ASSUME NEW b, Good(b, {}), NEW i \in Linked(b)
  PROVE  /\ Typed(ItemUnlink(b, i))
         /\ ItemUnlink(b, i).bucket = b.bucket /\ ItemUnlink(b, i).item = b.item
<1> DEFINE t == ItemUnlink(b, i)
<1>1. b \in Segment /\ ChunksGood(b, {})
  BY DEF Good
<1>2. t \in Segment /\ SameChunks(b, t) /\ SameIndex(b, t)
  BY <1>1, Unlink
<1>3. Typed(b)
  BY GoodTyped
<1> HIDE DEF t
<1>4. Typed(t) /\ t.bucket = b.bucket /\ t.item = b.item
  BY <1>2, <1>3 DEF Typed, SameChunks, SameIndex
<1>5. QED
  BY <1>4 DEF t

\* And so is the table without one.
LEMMA TakenTyped ==
  ASSUME NEW b, Good(b, {}), NEW i \in Linked(b)
  PROVE  Typed(AssocDelete(b, b.item[i].key))
<1> DEFINE t == AssocDelete(b, b.item[i].key)
<1>1. t \in Segment /\ SameChunks(b, t) /\ t.nitems = b.nitems - 1
  BY Delete
<1>2. IsFiniteSet(Linked(b)) /\ b.nitems = Cardinality(Linked(b))
  BY DEF Good, CountsGood
<1>3. b.nitems \in Nat /\ b.nitems # 0
  BY <1>2, FS_CardinalityType, FS_EmptySet
<1>4. Typed(b)
  BY GoodTyped
<1> HIDE DEF t
<1>5. Typed(t)
  BY <1>1, <1>3, <1>4 DEF Typed, SameChunks
<1>6. QED
  BY <1>5 DEF t

\* The chunk in hand enters the table and the list.
LEMMA HookedTyped ==
  ASSUME NEW b, NEW i, Good(b, {i}), NEW k \in Key
  PROVE  Typed(AssocInsert(b, k, i)) /\ Typed(ItemLink(AssocInsert(b, k, i), i))
<1> DEFINE t == AssocInsert(b, k, i)
           r == ItemLink(t, i)
<1>1. t \in Segment /\ SameChunks(b, t) /\ t.lru = b.lru /\ t.nitems = b.nitems + 1
  BY Insert
<1>2. Typed(b)
  BY GoodTyped
<1> HIDE DEF t
<1>3. Typed(t)
  BY <1>1, <1>2 DEF Typed, SameChunks
<1>4. /\ i \in DOMAIN b.item /\ b.item[i].clsid = i[1]
      /\ \A c \in Slabs : IsInjective(b.lru[c]) /\ i \notin Range(b.lru[c])
  BY DEF Good, ChunksGood, Settled
<1>5. /\ i \in ItemName /\ i \notin Linked(t) /\ t.item[i].clsid = i[1]
      /\ \A c \in Slabs : IsInjective(t.lru[c])
  <2>1. i \in ItemName
    BY <1>2, <1>4, ChunkNames DEF Typed, Segment
  <2>2. QED
    BY <1>1, <1>4, <2>1 DEF Linked, SameChunks
<1>6. r \in Segment /\ SameChunks(t, r) /\ SameIndex(t, r)
  BY <1>1, <1>5, Link
<1> HIDE DEF r
<1>7. Typed(r)
  BY <1>3, <1>6 DEF Typed, SameChunks, SameIndex
<1>8. QED
  BY <1>3, <1>7 DEF t, r

\* Whatever a writer has made of the segment, it is well typed.
LEMMA MidTyped ==
  ASSUME NEW u, NEW s, NEW c, MidOK(u, s, c), u.pc \in MidPcs, u.key \in Key
  PROVE  Typed(s)
<1>1. CASE u.pc = "unlist"
  BY <1>1, TakenTyped DEF MidOK, Taken
<1>2. CASE u.pc = "free"
  BY <1>2, GoodTyped DEF MidOK, Loose
<1>3. CASE u.pc = "alloc"
  BY <1>3, GoodTyped DEF MidOK, Absent
<1>4. CASE u.pc = "hook"
  BY <1>4, GoodTyped DEF MidOK, InHand
<1>5. CASE u.pc = "list"
  BY <1>5, HookedTyped DEF MidOK, Hooked, InHand
<1>6. CASE u.pc = "fill"
  BY <1>6, HookedTyped DEF MidOK, Listed, InHand
<1>7. QED
  BY <1>1, <1>2, <1>3, <1>4, <1>5, <1>6 DEF MidPcs

\* The segment is well typed in the middle of a call too.
LEMMA AlwaysTyped ==
  ASSUME LInv
  PROVE  Typed(shm)
<1>1. CASE \E t \in Thread : Midway(me[t])
  <2>1. PICK t \in Thread : Midway(me[t])
    BY <1>1
  <2>2. MidOK(me[t], shm, content)
    BY <2>1 DEF LInv, SInv, Halfway
  <2>3. me[t].pc \in MidPcs /\ me[t].key \in Key
    BY <2>1 DEF LInv, HInv, Frames, Frame, Midway, MidPcs
  <2>4. QED
    BY <2>2, <2>3, MidTyped
<1>2. CASE \E t \in Thread : Lifting(me[t])
  <2>1. PICK t \in Thread : Lifting(me[t])
    BY <1>2
  <2>2. Lifted(shm, me[t].item)
    BY <2>1 DEF LInv, SInv, Halfway
  <2>3. QED
    BY <2>2, LiftedTyped DEF Lifted
<1>3. CASE \A t \in Thread : ~Midway(me[t]) /\ ~Lifting(me[t])
  BY <1>3, GoodTyped DEF LInv, SInv, Sound
<1>4. QED
  BY <1>1, <1>2, <1>3

-------------------------------------------------------------------------------
(***************************************************************************)
(* What the other threads have found stays true.                           *)
(***************************************************************************)
\* A step of t that leaves the locks alone.
LEMMA HasStays ==
  ASSUME NEW t \in Thread, Turns(t, me'[t]), use_flock' = use_flock, dead' = dead
  PROVE  \A x \in Thread \ {t} : Has(x)' <=> Has(x)
BY DEF Turns, Has, Alive

\* A step of t that changes neither table nor items, or is made while nobody else
\* holds a lock.
LEMMA SearchKeeps ==
  ASSUME LInv, NEW t \in Thread, Turns(t, me'[t]),
         \A x \in Thread \ {t} : Has(x)' => Has(x),
         \/ shm'.bucket = shm.bucket /\ shm'.item = shm.item
         \/ \A x \in Thread \ {t} : ~Has(x),
         Has(t)' => FindOK(me'[t], shm') /\ FoundOK(me'[t], shm')
  PROVE  Search'
<1> SUFFICES ASSUME NEW x \in Thread, Has(x)'
             PROVE  FindOK(me'[x], shm') /\ FoundOK(me'[x], shm')
  BY DEF Search
<1>1. CASE x = t
  BY <1>1
<1>2. CASE x # t
  <2>1. me'[x] = me[x] /\ Has(x)
    BY <1>2 DEF Turns
  <2>2. FindOK(me[x], shm) /\ FoundOK(me[x], shm)
    BY <2>1 DEF LInv, SInv, Search
  <2>3. shm'.bucket = shm.bucket /\ shm'.item = shm.item
    BY <1>2, <2>1
  <2>4. QED
    BY <2>1, <2>2, <2>3, SameTable
<1>3. QED
  BY <1>1, <1>2

\* A step of t that changes nothing of the segment but max_depth, and the content
\* not at all, made by a thread that is not halfway before or after.
Calm(t) ==
  /\ Turns(t, me'[t]) /\ UNCHANGED <<content, fault>>
  /\ ~Midway(me[t]) /\ ~Lifting(me[t]) /\ ~Midway(me'[t]) /\ ~Lifting(me'[t])

\* The segment stays what the others have made of it.
LEMMA CalmKeeps ==
  ASSUME LInv, NEW t \in Thread, Calm(t), shm' = shm
  PROVE  Halfway' /\ Shows' /\ Sound' /\ IsMap(content)' /\ (fault \in {"none", "offtable", "assert"})'
<1>1. content' = content /\ fault' = fault
  BY DEF Calm
<1>2. \A x \in Thread : /\ Midway(me'[x]) => Midway(me[x]) /\ me'[x] = me[x]
                        /\ Midway(me[x]) => Midway(me'[x])
                        /\ Lifting(me'[x]) => Lifting(me[x]) /\ me'[x] = me[x]
                        /\ Lifting(me[x]) => Lifting(me'[x])
  BY DEF Calm, Turns
<1>3. Halfway'
  BY <1>1, <1>2 DEF LInv, SInv, Halfway
<1>4. Shows'
  BY <1>1, <1>2 DEF LInv, SInv, Shows
<1>5. Sound'
  BY <1>1, <1>2 DEF LInv, SInv, Sound
<1>6. QED
  BY <1>1, <1>3, <1>4, <1>5 DEF LInv, SInv

\* A hash chain is a list of items.
LEMMA ChainTyped ==
  ASSUME NEW s, Typed(s), NEW k \in Key
  PROVE  /\ Chain(s, k) \in Seq(ItemName) /\ Len(Chain(s, k)) \in Nat
         /\ DOMAIN Chain(s, k) = 1 .. Len(Chain(s, k))
<1>1. Slot[k] \in Buckets
  BY ParamAssumption
<1>2. Chain(s, k) \in Seq(ItemName)
  BY <1>1 DEF Typed, Segment, Chain
<1>3. QED
  BY <1>2

\* What is known of a thread that is in the middle of a call.
LEMMA Ready ==
  ASSUME LInv, NEW t \in Thread, NEW pc, At(t, pc), pc \notin {"idle", "lock"}
  PROVE  /\ Frames /\ Frame(me[t]) /\ me[t].pc = pc /\ Alive(t) /\ Has(t)
         /\ FindOK(me[t], shm) /\ FoundOK(me[t], shm) /\ me[t].key \in Key
         /\ Typed(shm) /\ IsMap(content)
<1>1. Frame(me[t]) /\ Frames /\ me[t].pc = pc /\ Alive(t) /\ Has(t)
  BY DEF LInv, HInv, Frames, At, Has
<1>2. FindOK(me[t], shm) /\ FoundOK(me[t], shm) /\ IsMap(content)
  BY <1>1 DEF LInv, SInv, Search
<1>3. QED
  BY <1>1, <1>2, AlwaysTyped DEF Frame

-------------------------------------------------------------------------------
(***************************************************************************)
(* The steps around a call, and those with the locks.                      *)
(***************************************************************************)
\* Nothing is said of a thread that begins.
LEMMA BeginSound ==
  ASSUME LInv, NEW t \in Thread, Begin(t), UNCHANGED fault
  PROVE  LInv'
<1>1. /\ HInv' /\ Turns(t, me'[t]) /\ me'[t].pc = "lock" /\ me[t].pc = "idle"
  BY BeginKeeps DEF LInv
<1>2. shm' = shm /\ UNCHANGED <<history, fault>> /\ use_flock' = use_flock /\ dead' = dead
  BY DEF Begin, locks
<1>3. Calm(t)
  BY <1>1, <1>2 DEF Calm, history, Midway, Lifting, MidPcs
<1>4. ~Has(t)'
  BY <1>1 DEF Has
<1>5. \A x \in Thread \ {t} : Has(x)' => Has(x)
  BY <1>1, <1>2, HasStays
<1>6. Search'
  BY <1>1, <1>2, <1>4, <1>5, SearchKeeps
<1>7. QED
  BY <1>1, <1>2, <1>3, <1>6, CalmKeeps DEF LInv, SInv

\* A thread that has its lock starts at the head of the chain.
LEMMA LockSound ==
  ASSUME LInv, NEW t \in Thread, Lock(t), UNCHANGED fault
  PROVE  LInv'
<1>1. /\ HInv' /\ Turns(t, me'[t]) /\ me'[t].pc = "look" /\ SameCall(me[t], me'[t])
      /\ me'[t].depth = me[t].depth /\ Frame(me'[t])
      /\ Frame(me[t]) /\ me[t].pc = "lock"
  BY LockKeeps DEF LInv
<1>2. shm' = shm /\ UNCHANGED <<history, fault>> /\ use_flock' = use_flock /\ dead' = dead
  BY DEF Lock
<1>3. Calm(t)
  BY <1>1, <1>2 DEF Calm, history, Midway, Lifting, MidPcs
<1>4. FoundOK(me'[t], shm')
  BY <1>1 DEF FoundOK, FoundPcs
<1>5. FindOK(me'[t], shm')
  <2>1. me'[t].depth = 0
    BY <1>1 DEF Frame
  <2>2. Len(Chain(shm, me'[t].key)) \in Nat
    BY <1>1, AlwaysTyped, ChainTyped DEF Frame
  <2>3. QED
    BY <1>1, <1>2, <2>1, <2>2 DEF FindOK
<1>6. \A x \in Thread \ {t} : Has(x)' => Has(x)
  BY <1>1, <1>2, HasStays
<1>7. Search'
  BY <1>1, <1>2, <1>4, <1>5, <1>6, SearchKeeps
<1>8. QED
  BY <1>1, <1>2, <1>3, <1>7, CalmKeeps DEF LInv, SInv

\* A thread that has let its lock go takes nothing along.
LEMMA UnlockSound ==
  ASSUME LInv, NEW t \in Thread, Unlock(t), UNCHANGED fault
  PROVE  LInv'
<1>1. HInv' /\ Turns(t, me'[t]) /\ me'[t].pc = "idle" /\ me[t].pc = "unlock"
  BY UnlockKeeps DEF LInv
<1>2. shm' = shm /\ UNCHANGED <<history, fault>> /\ use_flock' = use_flock /\ dead' = dead
  BY DEF Unlock
<1>3. Calm(t)
  BY <1>1, <1>2 DEF Calm, history, Midway, Lifting, MidPcs
<1>4. ~Has(t)'
  BY <1>1 DEF Has
<1>5. \A x \in Thread \ {t} : Has(x)' => Has(x)
  BY <1>1, <1>2, HasStays
<1>6. Search'
  BY <1>1, <1>2, <1>4, <1>5, SearchKeeps
<1>7. QED
  BY <1>1, <1>2, <1>3, <1>6, CalmKeeps DEF LInv, SInv

\* What the reader has found is still there when the mutex is his, and when he
\* has let it go.
LEMMA MutexSound ==
  ASSUME LInv, NEW t \in Thread, Mutex(t) \/ Unmutex(t), UNCHANGED fault
  PROVE  LInv'
<1>1. HInv' /\ Has(t) /\ Reads(t) /\ me[t].pc \in {"mutex", "unmutex"}
  BY MutexKeeps, UnmutexKeeps DEF LInv
<1>2. /\ shm' = shm /\ UNCHANGED <<history, fault>> /\ use_flock' = use_flock /\ dead' = dead
      /\ Goto(t, "unlist") \/ Goto(t, "copy")
  BY DEF Mutex, Unmutex
<1>3. Frames /\ Frame(me[t])
  BY <1>1 DEF LInv, HInv, Frames
<1>4. /\ Turns(t, me'[t]) /\ SameCall(me[t], me'[t]) /\ me'[t].item = me[t].item
      /\ me'[t].pc \in {"unlist", "copy"}
  BY <1>2, <1>3, Goes
<1>5. Calm(t)
  BY <1>1, <1>2, <1>4 DEF Calm, history, Midway, Lifting, MidPcs, Reads, SameCall
<1>6. FoundOK(me[t], shm)
  BY <1>1 DEF LInv, SInv, Search
<1>7. FindOK(me'[t], shm') /\ FoundOK(me'[t], shm')
  BY <1>1, <1>2, <1>4, <1>6 DEF FindOK, FoundOK, FindPcs, FoundPcs, SameCall, Reads
<1>8. \A x \in Thread \ {t} : Has(x)' => Has(x)
  BY <1>2, <1>4, HasStays
<1>9. Search'
  BY <1>2, <1>4, <1>7, <1>8, SearchKeeps
<1>10. QED
  BY <1>1, <1>2, <1>5, <1>9, CalmKeeps DEF LInv, SInv

\* Who dies leaves the segment as it is.
LEMMA DieSound ==
  ASSUME LInv, NEW t \in Thread, Die(t), UNCHANGED fault
  PROVE  LInv'
<1>1. HInv' /\ \A x \in Thread : Has(x)' => Has(x)
  BY DieKeeps DEF LInv
<1>2. me' = me /\ shm' = shm /\ content' = content /\ fault' = fault
  BY DEF Die, history
<1>3. Search'
  BY <1>1, <1>2 DEF LInv, SInv, Search
<1>4. Halfway' /\ Shows' /\ Sound'
  BY <1>2 DEF LInv, SInv, Halfway, Shows, Sound
<1>5. QED
  BY <1>1, <1>2, <1>3, <1>4 DEF LInv, SInv

-------------------------------------------------------------------------------
(***************************************************************************)
(* assoc_find.                                                             *)
(***************************************************************************)
\* Who holds his lock and has changed nothing yet sees what the last call left.
LEMMA SeesContent ==
  ASSUME LInv, ~Torn, NEW t \in Thread, Has(t), ~Midway(me[t])
  PROVE  (\A x \in Thread : ~Midway(me[x])) /\ content = View(shm)
<1>1. \A x \in Thread : ~Midway(me[x])
  BY ReaderIn, WriterIn DEF LInv
<1>2. QED
  BY <1>1 DEF LInv, SInv, Shows

\* The answer of a call that has changed nothing leaves the content as it is.
LEMMA AnswerSound ==
  ASSUME LInv, ~Torn, NEW t \in Thread, NEW pc, At(t, pc), pc \in {"look", "copy"},
         NEW op, NEW rc, NEW out, NEW flags, Reply(t, op, rc, out, flags),
         UNCHANGED <<shm, locks, dead, fault>>
  PROVE  LInv' /\ content' = content
<1>1. /\ Frames /\ Frame(me[t]) /\ me[t].pc = pc /\ Alive(t) /\ Has(t)
  BY Ready
<1>2. ~Midway(me[t]) /\ ~Lifting(me[t])
  BY <1>1 DEF Midway, Lifting, MidPcs
<1>3. content' = content
  <2>1. content' = View(shm)
    BY MapsAgree DEF Reply
  <2>2. QED
    BY <1>1, <1>2, <2>1, SeesContent
<1>4. /\ Goto(t, "unlock") /\ shm' = shm /\ fault' = fault
      /\ use_flock' = use_flock /\ dead' = dead /\ UNCHANGED <<locks, dead>>
  BY DEF Reply, locks
<1>5. /\ Turns(t, me'[t]) /\ me'[t].pc = "unlock" /\ SameCall(me[t], me'[t])
  BY <1>1, <1>4, Goes
<1>6. HInv'
  BY <1>1, <1>4, GotoKeeps DEF LInv, ReaderPcs, WriterPcs, UnderMutex
<1>7. Calm(t)
  BY <1>2, <1>3, <1>4, <1>5 DEF Calm, Midway, Lifting, MidPcs
<1>8. FindOK(me'[t], shm') /\ FoundOK(me'[t], shm')
  BY <1>5 DEF FindOK, FoundOK, FindPcs, FoundPcs
<1>9. \A x \in Thread \ {t} : Has(x)' => Has(x)
  BY <1>4, <1>5, HasStays
<1>10. Search'
  BY <1>4, <1>5, <1>8, <1>9, SearchKeeps
<1>11. QED
  BY <1>3, <1>4, <1>6, <1>7, <1>10, CalmKeeps DEF LInv, SInv

\* A step within the search that leaves the segment alone.
LEMMA SearchSound ==
  ASSUME LInv, NEW t \in Thread, Has(t), Alive(t), Frame(me[t]), me[t].pc \in FindPcs,
         NEW u, Turns(t, u), Frame(u), SameCall(me[t], u),
         u.pc \in FindPcs \cup {"mutex", "unhash"},
         FindOK(u, shm), FoundOK(u, shm),
         UNCHANGED <<shm, locks, dead, fault, history>>
  PROVE  LInv'
<1>1. me'[t] = u /\ Turns(t, me'[t])
  BY DEF Turns
<1>2. /\ shm' = shm /\ content' = content /\ fault' = fault
      /\ use_flock' = use_flock /\ dead' = dead /\ UNCHANGED <<locks, dead>>
  BY DEF locks, history
<1>3. HInv'
  BY <1>2, MoveKeeps DEF LInv, SameCall, FindPcs, UnderMutex
<1>4. Calm(t)
  BY <1>1, <1>2 DEF Calm, Midway, Lifting, MidPcs, FindPcs
<1>5. \A x \in Thread \ {t} : Has(x)' => Has(x)
  BY <1>1, <1>2, HasStays
<1>6. Search'
  BY <1>1, <1>2, <1>5, SearchKeeps
<1>7. QED
  BY <1>2, <1>3, <1>4, <1>6, CalmKeeps DEF LInv, SInv

\* On to the next item: those before are not it.
LEMMA LookSound ==
  ASSUME LInv, NEW t \in Thread, Look(t), UNCHANGED fault
  PROVE  LInv'
<1> DEFINE d == me[t].depth + 1
           pc == IF d > shm.max_depth THEN "raise" ELSE "compare"
           u == [[me[t] EXCEPT !.depth = d] EXCEPT !.pc = pc]
<1>1. /\ Frames /\ Frame(me[t]) /\ me[t].pc = "look" /\ Alive(t) /\ Has(t)
      /\ FindOK(me[t], shm) /\ me[t].key \in Key /\ Typed(shm)
  BY Ready DEF Look
<1>2. /\ me' = [me EXCEPT ![t] = u] /\ d <= Len(Path(t)) /\ Fitting(t)
      /\ UNCHANGED <<shm, locks, dead, fault, history>>
  BY DEF Look
<1>3. pc \in {"raise", "compare"}
  OBVIOUS
<1>4. DOMAIN u = Locals /\ SameCall(me[t], u) /\ u.pc = pc /\ u.depth = d /\ d \in Nat
  BY <1>1 DEF Frame, Locals, SameCall
<1> HIDE DEF pc, u
<1>5. Turns(t, u)
  BY <1>1, <1>2 DEF Turns, Frames
<1>6. Frame(u)
  BY <1>1, <1>2, <1>3, <1>4
     DEF Frame, SameCall, Fits, Fitting, ReaderPcs, WriterPcs, FindPcs
<1>7. FindOK(u, shm)
  <2> DEFINE ch == Chain(shm, me[t].key)
  <2>1. Len(ch) \in Nat /\ d <= Len(ch) /\ me[t].depth \in Nat
    BY <1>1, <1>2, ChainTyped DEF Path, Frame
  <2>2. \A p \in 1 .. Len(ch) : p <= me[t].depth => shm.item[ch[p]].key # me[t].key
    BY <1>1, <2>1 DEF FindOK, FindPcs
  <2> HIDE DEF ch
  <2>3. \A p \in 1 .. Len(ch) : p < d => shm.item[ch[p]].key # me[t].key
    BY <2>1, <2>2
  <2>4. QED
    BY <1>3, <1>4, <2>1, <2>3 DEF FindOK, SameCall, ch
<1>8. FoundOK(u, shm)
  BY <1>3, <1>4 DEF FoundOK, FoundPcs
<1>9. QED
  BY <1>1, <1>2, <1>3, <1>4, <1>5, <1>6, <1>7, <1>8, SearchSound DEF FindPcs

\* The first place whose item has the key is what assoc_find answers.
LEMMA FirstHit ==
  ASSUME NEW s, Typed(s), NEW k \in Key, NEW d \in 1 .. Len(Chain(s, k)),
         s.item[Chain(s, k)[d]].key = k,
         \A p \in 1 .. Len(Chain(s, k)) : p < d => s.item[Chain(s, k)[p]].key # k
  PROVE  Present(s, k) /\ AssocFind(s, k) = Chain(s, k)[d]
<1>1. Len(Chain(s, k)) \in Nat /\ DOMAIN Chain(s, k) = 1 .. Len(Chain(s, k))
  BY ChainTyped
<1>2. d \in Hits(s, k) /\ Hits(s, k) \subseteq 1 .. Len(Chain(s, k))
  BY <1>1 DEF Hits
<1>3. \A p \in Hits(s, k) : ~(p < d)
  BY <1>1, <1>2 DEF Hits
<1>4. /\ Hits(s, k) \subseteq Nat /\ Hits(s, k) # {}
  BY <1>1, <1>2
<1>5. Min(Hits(s, k)) \in Hits(s, k) /\ \A x \in Hits(s, k) : Min(Hits(s, k)) <= x
  BY <1>4, LeastNumber
<1>6. Min(Hits(s, k)) = d
  BY <1>2, <1>3, <1>4, <1>5
<1>7. QED
  BY <1>4, <1>6 DEF Present, AssocFind

\* The item has the key, or the search goes on behind it.
LEMMA CompareSound ==
  ASSUME LInv, NEW t \in Thread, Compare(t), UNCHANGED fault
  PROVE  LInv'
<1> DEFINE i == Path(t)[me[t].depth]
           pc == IF Reads(t) THEN "mutex" ELSE "unhash"
           u == [[me[t] EXCEPT !.item = i] EXCEPT !.pc = pc]
           v == [me[t] EXCEPT !.pc = "look"]
           ch == Chain(shm, me[t].key)
           d == me[t].depth
<1>1. /\ Frames /\ Frame(me[t]) /\ me[t].pc = "compare" /\ Alive(t) /\ Has(t)
      /\ FindOK(me[t], shm) /\ me[t].key \in Key /\ Typed(shm)
  BY Ready DEF Compare
<1>2. UNCHANGED <<shm, locks, dead, fault, history>>
  BY DEF Compare
<1>3. /\ Len(ch) \in Nat /\ d \in 1 .. Len(ch) /\ i = ch[d]
      /\ \A p \in 1 .. Len(ch) : p < d => shm.item[ch[p]].key # me[t].key
  BY <1>1, ChainTyped DEF FindOK, FindPcs, Path, Frame
<1>4. CASE shm.item[i].key = me[t].key
  <2>1. me' = [me EXCEPT ![t] = u]
    BY <1>4 DEF Compare
  <2>2. DOMAIN u = Locals /\ SameCall(me[t], u) /\ u.pc = pc /\ u.item = i /\ u.depth = d
    BY <1>1 DEF Frame, Locals, SameCall
  <2>3. pc \in {"mutex", "unhash"} /\ (pc = "mutex" <=> Reads(t))
    OBVIOUS
  <2> HIDE DEF u, pc
  <2>4. Turns(t, u)
    BY <1>1, <2>1 DEF Turns, Frames
  <2>5. Frame(u)
    BY <1>1, <2>2, <2>3 DEF Frame, SameCall, Fits, ReaderPcs, WriterPcs, FindPcs, Reads
  <2>6. Present(shm, me[t].key) /\ AssocFind(shm, me[t].key) = i
    BY <1>1, <1>3, <1>4, FirstHit
  <2>7. FindOK(u, shm) /\ FoundOK(u, shm)
    BY <2>2, <2>3, <2>6 DEF FindOK, FoundOK, FindPcs, SameCall
  <2>8. QED
    BY <1>1, <1>2, <2>2, <2>3, <2>4, <2>5, <2>7, SearchSound DEF FindPcs
<1>5. CASE shm.item[i].key # me[t].key
  <2>1. me' = [me EXCEPT ![t] = v]
    BY <1>5 DEF Compare, Goto
  <2>2. DOMAIN v = Locals /\ SameCall(me[t], v) /\ v.pc = "look" /\ v.depth = d
    BY <1>1 DEF Frame, Locals, SameCall
  <2> HIDE DEF v
  <2>3. Turns(t, v)
    BY <1>1, <2>1 DEF Turns, Frames
  <2>4. Frame(v)
    BY <1>1, <2>2 DEF Frame, SameCall, Fits, ReaderPcs, WriterPcs, FindPcs, Reads
  <2>5. FindOK(v, shm) /\ FoundOK(v, shm)
    <3>1. v.key = me[t].key
      BY <2>2 DEF SameCall
    <3>2. d <= Len(ch) /\ \A p \in 1 .. Len(ch) :
                            p < d \/ p = d => shm.item[ch[p]].key # me[t].key
      <4>1. d <= Len(ch) /\ \A p \in 1 .. Len(ch) : p < d => shm.item[ch[p]].key # me[t].key
        BY <1>3
      <4>2. shm.item[ch[d]].key # me[t].key
        BY <1>3, <1>5, Zenon
      <4>3. QED
        BY <4>1, <4>2, Zenon
    <3> HIDE DEF ch, d
    <3>3. FindOK(v, shm)
      BY <2>2, <3>1, <3>2 DEF FindOK, ch
    <3>4. FoundOK(v, shm)
      BY <2>2 DEF FoundOK, FoundPcs
    <3>5. QED
      BY <3>3, <3>4
  <2>6. QED
    BY <1>1, <1>2, <2>2, <2>3, <2>4, <2>5, SearchSound DEF FindPcs
<1>6. QED
  BY <1>4, <1>5

-------------------------------------------------------------------------------
(***************************************************************************)
(* The steps of set and del that change the segment.                       *)
(***************************************************************************)
\* A writer is alone: what he makes of the segment is all there is to say of it.
LEMMA WriterSound ==
  ASSUME LInv, ~Torn, NEW t \in Thread, Has(t), Alive(t), Frame(me[t]), ~Reads(t),
         NEW u, Turns(t, u), Frame(u), u.op = me[t].op, u.pc \in MidPcs \cup {"unlock"},
         UNCHANGED <<locks, dead, fault>>, IsMap(content'),
         u.pc \in MidPcs => MidOK(u, shm', content'),
         u.pc = "unlock" => content' = View(shm') /\ Good(shm', {})
  PROVE  LInv'
<1>1. me'[t] = u /\ Turns(t, me'[t])
  BY DEF Turns
<1>2. /\ fault' = fault /\ use_flock' = use_flock /\ dead' = dead
      /\ UNCHANGED <<locks, dead>>
  BY DEF locks
<1>3. u.op # "read"
  BY DEF Reads
<1>4. HInv'
  BY <1>2, <1>3, MoveKeeps DEF LInv, MidPcs
<1>5. \A x \in Thread \ {t} : ~Has(x) /\ ~Midway(me[x]) /\ ~Lifting(me[x])
  BY WriterIn DEF LInv
<1>6. \A x \in Thread \ {t} : Has(x)' => Has(x)
  BY <1>1, <1>2, HasStays
<1>7. FindOK(u, shm') /\ FoundOK(u, shm')
  BY <1>3 DEF FindOK, FoundOK, FindPcs, FoundPcs, MidPcs
<1>8. Search'
  BY <1>1, <1>5, <1>6, <1>7, SearchKeeps
<1>9. /\ ~Lifting(u) /\ (Midway(u) <=> u.pc \in MidPcs)
      /\ \A x \in Thread \ {t} : ~Midway(me'[x]) /\ ~Lifting(me'[x])
  BY <1>3, <1>5 DEF Turns, Lifting, Midway
<1>10. Halfway'
  BY <1>1, <1>9 DEF Halfway
<1>11. Shows' /\ Sound'
  BY <1>1, <1>9 DEF Shows, Sound
<1>12. QED
  BY <1>2, <1>4, <1>8, <1>10, <1>11 DEF LInv, SInv

\* The same of a step that changes no local but the place.
LEMMA WriterGoes ==
  ASSUME LInv, ~Torn, NEW t \in Thread, NEW old, At(t, old), old \notin {"idle", "lock"},
         ~Reads(t), NEW pc, Goto(t, pc), pc \in MidPcs \cup {"unlock"},
         pc \in {"alloc", "hook", "list", "fill"} => me[t].op = "set",
         pc # "unlock" => Fits(me[t]),
         UNCHANGED <<locks, dead, fault>>, IsMap(content'),
         \A u : SameCall(me[t], u) /\ u.item = me[t].item /\ u.pc = pc /\ pc # "unlock"
                  => MidOK(u, shm', content'),
         pc = "unlock" => content' = View(shm') /\ Good(shm', {})
  PROVE  LInv'
<1>1. Frames /\ Frame(me[t]) /\ Has(t) /\ Alive(t)
  BY Ready
<1>2. /\ Turns(t, me'[t]) /\ DOMAIN me'[t] = Locals
      /\ me'[t].pc = pc /\ SameCall(me[t], me'[t])
      /\ me'[t].depth = me[t].depth /\ me'[t].item = me[t].item
  BY <1>1, Goes
<1>3. Frame(me'[t]) /\ me'[t].op = me[t].op
  BY <1>1, <1>2 DEF Frame, SameCall, Fits, Reads, WriterPcs, MidPcs
<1>4. /\ me'[t].pc \in MidPcs => MidOK(me'[t], shm', content')
      /\ me'[t].pc = "unlock" => content' = View(shm') /\ Good(shm', {})
  BY <1>2 DEF MidPcs
<1>5. QED
  BY <1>1, <1>2, <1>3, <1>4, WriterSound

\* Before a writer changes anything the segment is good, and a key that has no
\* item is not in the map.
LEMMA WriterSees ==
  ASSUME LInv, ~Torn, NEW t \in Thread, NEW pc, At(t, pc), pc \in FindPcs \cup {"unhash"},
         ~Reads(t)
  PROVE  /\ Good(shm, {}) /\ content = View(shm)
         /\ ~Present(shm, me[t].key) =>
              Missing(shm, me[t].key) /\ View(shm) = Without(content, me[t].key)
<1>1. Frame(me[t]) /\ me[t].pc = pc /\ Has(t) /\ me[t].key \in Key /\ IsMap(content)
  BY Ready DEF FindPcs
<1>2. ~Midway(me[t]) /\ ~Lifting(me[t])
  BY <1>1 DEF Midway, Lifting, MidPcs, FindPcs
<1>3. Good(shm, {})
  BY <1>1, <1>2, WriterIn DEF LInv, SInv, Sound
<1>4. content = View(shm)
  BY <1>1, <1>2, SeesContent
<1>5. ASSUME ~Present(shm, me[t].key)
      PROVE  Missing(shm, me[t].key) /\ me[t].key \notin DOMAIN View(shm)
  BY <1>1, <1>3, <1>5, Find, ViewOfItems DEF Missing
<1>6. content = [x \in DOMAIN content |-> content[x]]
  BY <1>1 DEF IsMap
<1>7. QED
  BY <1>3, <1>4, <1>5, <1>6, DropTwice

\* The search has come to the end of the chain.
LEMMA NotThere ==
  ASSUME LInv, NEW t \in Thread, Miss(t)
  PROVE  ~Present(shm, me[t].key)
<1> DEFINE ch == Chain(shm, me[t].key)
<1>1. /\ Frame(me[t]) /\ me[t].pc = "look" /\ FindOK(me[t], shm) /\ me[t].key \in Key
      /\ Typed(shm) /\ me[t].depth = Len(ch)
  BY Ready DEF Miss, Path
<1>2. Len(ch) \in Nat /\ DOMAIN ch = 1 .. Len(ch)
  BY <1>1, ChainTyped
<1> DEFINE n == Len(ch)
<1>3. \A p \in 1 .. n : p < n \/ p = n => shm.item[ch[p]].key # me[t].key
  BY <1>1 DEF FindOK, FindPcs
<1>4. DOMAIN ch = 1 .. n /\ n \in Nat
  BY <1>2
<1> HIDE DEF ch, n
<1>5. \A p \in 1 .. n : p < n \/ p = n
  BY <1>4
<1>6. \A p \in DOMAIN ch : shm.item[ch[p]].key # me[t].key
  BY <1>3, <1>4, <1>5
<1>7. Hits(shm, me[t].key) = {}
  BY <1>6 DEF Hits, ch
<1>8. QED
  BY <1>7 DEF Present

\* set goes on to allocate.
LEMMA MissSound ==
  ASSUME LInv, ~Torn, NEW t \in Thread, Miss(t), UNCHANGED fault
  PROVE  LInv'
<1>1. At(t, "look") /\ Fits(me[t]) /\ UNCHANGED <<shm, locks, dead, fault>>
  BY DEF Miss, Fitting, Fits
<1>2. CASE me[t].op = "set" /\ Goto(t, "alloc") /\ UNCHANGED history
  <2>1. ~Reads(t) /\ content' = content /\ shm' = shm
    BY <1>1, <1>2 DEF Reads, history
  <2>2. Good(shm, {}) /\ Missing(shm, me[t].key) /\ View(shm) = Without(content, me[t].key)
    BY <1>1, <2>1, NotThere, WriterSees DEF FindPcs
  <2>3. Absent(me[t], shm, content)
    BY <2>2 DEF Absent
  <2>4. \A u : SameCall(me[t], u) /\ u.pc = "alloc" => MidOK(u, shm', content')
    BY <2>1, <2>3 DEF SameCall, MidOK, Absent
  <2>5. IsMap(content')
    BY <1>1, <2>1, Ready
  <2>6. QED
    BY <1>1, <1>2, <2>1, <2>4, <2>5, WriterGoes DEF MidPcs
<1>3. CASE \E op : Reply(t, op, "NOTFOUND", <<>>, NoFlags)
  BY <1>1, <1>3, AnswerSound
<1>4. QED
  BY <1>2, <1>3 DEF Miss

-------------------------------------------------------------------------------
(***************************************************************************)
(* assoc_find writes max_depth, whatever another reader does meanwhile.    *)
(***************************************************************************)
Deeper(s, d) == [s EXCEPT !.max_depth = d]

\* max_depth is of no account to the rest.
LEMMA GoodDeeper ==
  ASSUME NEW s, NEW F, Good(s, F), NEW d \in Nat
  PROVE  /\ Good(Deeper(s, d), F) /\ Linked(Deeper(s, d)) = Linked(s)
         /\ Deeper(s, d).bucket = s.bucket /\ Deeper(s, d).item = s.item
<1> DEFINE t == Deeper(s, d)
<1>1. s \in Segment
  BY DEF Good
<1>2. t = [s EXCEPT !.max_depth = d]
  BY DEF Deeper
<1> HIDE DEF t
<1>3. t \in Segment
  BY <1>1, <1>2 DEF Segment
<1>4. /\ SameChunks(s, t) /\ t.lru = s.lru /\ t.bucket = s.bucket /\ t.nitems = s.nitems
      /\ t.item = s.item
  BY <1>1, <1>2 DEF Segment, SameChunks
<1>5. Linked(t) = Linked(s)
  BY <1>4 DEF Linked
<1>6. ChunksGood(t, F)
  BY <1>4, <1>5 DEF Good, ChunksGood, SameChunks, Settled
<1>7. IndexGood(t)
  BY <1>4, <1>5 DEF Good, IndexGood, SameChunks
<1>8. CountsGood(t)
  BY <1>4, <1>5 DEF Good, CountsGood, SameChunks
<1>9. Good(t, F)
  BY <1>3, <1>6, <1>7, <1>8 DEF Good
<1>10. QED
  BY <1>4, <1>5, <1>9 DEF t

\* Nor to an item in hand.
LEMMA LiftedDeeper ==
  ASSUME NEW s, NEW i, Lifted(s, i), NEW d \in Nat
  PROVE  Lifted(Deeper(s, d), i)
<1>1. PICK b : Good(b, {}) /\ i \in Linked(b) /\ s = ItemUnlink(b, i)
  BY DEF Lifted
<1>2. Good(Deeper(b, d), {}) /\ i \in Linked(Deeper(b, d))
  BY <1>1, GoodDeeper
<1>3. b \in Segment
  BY <1>1 DEF Good
<1>4. Deeper(b, d).lru = b.lru /\ Deeper(b, d).item = b.item
  BY <1>3 DEF Deeper, Segment
<1> DEFINE c == b.item[i].clsid
           at == {p \in DOMAIN b.lru[c] : b.lru[c][p] = i}
           q == RemoveAt(b.lru[c], Min(at))
<1>5. /\ at = {} => ItemUnlink(b, i) = b /\ ItemUnlink(Deeper(b, d), i) = Deeper(b, d)
      /\ at # {} => /\ ItemUnlink(b, i) = [b EXCEPT !.lru[c] = q]
                    /\ ItemUnlink(Deeper(b, d), i) = [Deeper(b, d) EXCEPT !.lru[c] = q]
  BY <1>4 DEF ItemUnlink
<1> HIDE DEF at, q, c
<1>6. [Deeper(b, d) EXCEPT !.lru[c] = q] = Deeper([b EXCEPT !.lru[c] = q], d)
  BY <1>3 DEF Deeper, Segment
<1>7. ItemUnlink(Deeper(b, d), i) = Deeper(s, d)
  BY <1>1, <1>5, <1>6
<1>8. QED
  BY <1>2, <1>7 DEF Lifted

\* The depth is written while others read, and one of them relinks an item.
LEMMA RaiseSound ==
  ASSUME LInv, ~Torn, NEW t \in Thread, Raise(t), UNCHANGED fault
  PROVE  LInv'
<1> DEFINE d == me[t].depth
<1>1. /\ Frames /\ Frame(me[t]) /\ me[t].pc = "raise" /\ Alive(t) /\ Has(t)
      /\ FindOK(me[t], shm) /\ FoundOK(me[t], shm)
  BY Ready DEF Raise
<1>2. /\ Goto(t, "compare") /\ shm' = Deeper(shm, d) /\ content' = content /\ fault' = fault
      /\ use_flock' = use_flock /\ dead' = dead /\ UNCHANGED <<locks, dead>>
  BY DEF Raise, Deeper, locks, history
<1>3. /\ Turns(t, me'[t]) /\ me'[t].pc = "compare" /\ SameCall(me[t], me'[t])
      /\ me'[t].depth = me[t].depth
  BY <1>1, <1>2, Goes
<1>4. HInv'
  BY <1>1, <1>2, GotoKeeps DEF LInv, ReaderPcs, WriterPcs, FindPcs, UnderMutex, Frame
<1>5. d \in Nat
  BY <1>1 DEF Frame
<1>6. ~Midway(me[t]) /\ ~Lifting(me[t]) /\ ~Midway(me'[t]) /\ ~Lifting(me'[t])
  BY <1>1, <1>3 DEF Midway, Lifting, MidPcs
<1>7. \A x \in Thread : ~Midway(me[x])
  BY <1>1, <1>6, SeesContent
<1>8. \A x \in Thread \ {t} : me'[x] = me[x]
  BY <1>3 DEF Turns
<1>9. shm'.bucket = shm.bucket /\ shm'.item = shm.item
  <2>1. shm \in Segment
    BY AlwaysTyped DEF Typed
  <2>2. QED
    BY <1>2, <2>1 DEF Deeper, Segment
<1>10. Search'
  <2>1. FindOK(me'[t], shm) /\ FoundOK(me'[t], shm)
    BY <1>1, <1>3 DEF FindOK, FoundOK, FindPcs, FoundPcs, SameCall
  <2>2. FindOK(me'[t], shm') /\ FoundOK(me'[t], shm')
    BY <1>9, <2>1, SameTable
  <2>3. \A x \in Thread \ {t} : Has(x)' => Has(x)
    BY <1>2, <1>3, HasStays
  <2>4. QED
    BY <1>3, <1>9, <2>2, <2>3, SearchKeeps
<1>11. Halfway'
  <2>1. ASSUME NEW x \in Thread, Lifting(me'[x])
        PROVE  Lifted(shm', me'[x].item)
    <3>1. x # t /\ me'[x] = me[x]
      BY <1>6, <1>8, <2>1
    <3>2. Lifted(shm, me[x].item)
      BY <2>1, <3>1 DEF LInv, SInv, Halfway
    <3>3. QED
      BY <1>2, <1>5, <3>1, <3>2, LiftedDeeper
  <2>2. \A x \in Thread : ~Midway(me'[x])
    BY <1>6, <1>7, <1>8
  <2>3. QED
    BY <2>1, <2>2 DEF Halfway
<1>12. Shows'
  <2>1. View(shm') = View(shm)
    BY <1>9, SameTable
  <2>2. content = View(shm)
    BY <1>7 DEF LInv, SInv, Shows
  <2>3. QED
    BY <1>2, <2>1, <2>2 DEF Shows
<1>13. Sound'
  <2>1. (\A x \in Thread : ~Midway(me'[x]) /\ ~Lifting(me'[x])) =>
           \A x \in Thread : ~Midway(me[x]) /\ ~Lifting(me[x])
    BY <1>6, <1>8
  <2>2. (\A x \in Thread : ~Midway(me[x]) /\ ~Lifting(me[x])) => Good(shm, {})
    BY DEF LInv, SInv, Sound
  <2>3. Good(shm, {}) => Good(shm', {})
    BY <1>2, <1>5, GoodDeeper
  <2>4. QED
    BY <2>1, <2>2, <2>3 DEF Sound
<1>14. IsMap(content)' /\ (fault \in {"none", "offtable", "assert"})'
  BY <1>2 DEF LInv, SInv
<1>15. QED
  BY <1>4, <1>10, <1>11, <1>12, <1>13, <1>14 DEF LInv, SInv

-------------------------------------------------------------------------------
(***************************************************************************)
(* item_relink under the mutex.                                            *)
(***************************************************************************)
\* The reader that has the mutex is the only one to change the lists: what he
\* makes of them is all there is to say of the segment.
LEMMA RelinkSound ==
  ASSUME LInv, ~Torn, NEW t \in Thread, At(t, "unlist") \/ At(t, "relist"), Reads(t),
         NEW pc \in {"relist", "unmutex"}, Goto(t, pc),
         UNCHANGED <<locks, dead, history, fault>>,
         shm'.bucket = shm.bucket, shm'.item = shm.item,
         pc = "relist" => Lifted(shm', me[t].item),
         pc = "unmutex" => Good(shm', {})
  PROVE  LInv'
<1>1. /\ Frames /\ Frame(me[t]) /\ me[t].pc \in {"unlist", "relist"} /\ Alive(t) /\ Has(t)
      /\ FindOK(me[t], shm) /\ FoundOK(me[t], shm)
  BY Ready
<1>2. /\ content' = content /\ fault' = fault
      /\ use_flock' = use_flock /\ dead' = dead /\ UNCHANGED <<locks, dead>>
  BY DEF locks, history
<1>3. /\ Turns(t, me'[t]) /\ me'[t].pc = pc /\ SameCall(me[t], me'[t])
      /\ me'[t].item = me[t].item
  BY <1>1, Goes
<1>4. HInv'
  BY <1>1, <1>2, GotoKeeps DEF LInv, ReaderPcs, FindPcs, UnderMutex, Frame
<1>5. mutex = t
  BY <1>1 DEF LInv, HInv, MutexHeld, UnderMutex
<1>6. /\ \A x \in Thread : ~Midway(me[x])
      /\ \A x \in Thread \ {t} : ~Lifting(me[x])
  BY <1>1, <1>5, ReaderIn DEF LInv
<1>7. \A x \in Thread \ {t} : me'[x] = me[x]
  BY <1>3 DEF Turns
<1>8. ~Midway(me'[t]) /\ (Lifting(me'[t]) <=> pc = "relist")
  BY <1>3 DEF Midway, Lifting, SameCall, Reads
<1>9. Search'
  <2>1. FindOK(me'[t], shm) /\ FoundOK(me'[t], shm)
    BY <1>1, <1>3 DEF FindOK, FoundOK, FindPcs, FoundPcs, SameCall, Reads
  <2>2. FindOK(me'[t], shm') /\ FoundOK(me'[t], shm')
    BY <2>1, SameTable
  <2>3. \A x \in Thread \ {t} : Has(x)' => Has(x)
    BY <1>2, <1>3, HasStays
  <2>4. QED
    BY <1>3, <2>2, <2>3, SearchKeeps
<1>10. Halfway'
  BY <1>3, <1>6, <1>7, <1>8 DEF Halfway
<1>11. Shows'
  <2>1. View(shm') = View(shm)
    BY SameTable
  <2>2. content = View(shm)
    BY <1>6 DEF LInv, SInv, Shows
  <2>3. QED
    BY <1>2, <2>1, <2>2 DEF Shows
<1>12. Sound'
  <2>1. (\A x \in Thread : ~Midway(me'[x]) /\ ~Lifting(me'[x])) => pc = "unmutex"
    BY <1>8
  <2>2. QED
    BY <2>1 DEF Sound
<1>13. IsMap(content)' /\ (fault \in {"none", "offtable", "assert"})'
  BY <1>2 DEF LInv, SInv
<1>14. QED
  BY <1>4, <1>9, <1>10, <1>11, <1>12, <1>13 DEF LInv, SInv

\* He takes the item he has found off its list.
LEMMA LiftSound ==
  ASSUME LInv, ~Torn, NEW t \in Thread, Unlist(t), Reads(t), UNCHANGED fault
  PROVE  LInv'
<1> DEFINE i == me[t].item
<1>1. /\ At(t, "unlist") /\ shm' = ItemUnlink(shm, i) /\ Goto(t, "relist")
      /\ UNCHANGED <<locks, dead, history, fault>>
  BY DEF Unlist
<1>2. /\ Frame(me[t]) /\ me[t].pc = "unlist" /\ Has(t) /\ FoundOK(me[t], shm)
      /\ me[t].key \in Key
  BY <1>1, Ready
<1>3. mutex = t
  BY <1>2 DEF LInv, HInv, MutexHeld, UnderMutex
<1>4. \A x \in Thread : ~Midway(me[x]) /\ ~Lifting(me[x])
  <2>1. /\ \A x \in Thread : ~Midway(me[x])
        /\ \A x \in Thread \ {t} : ~Lifting(me[x])
    BY <1>2, <1>3, ReaderIn DEF LInv
  <2>2. ~Lifting(me[t])
    BY <1>2 DEF Lifting
  <2>3. QED
    BY <2>1, <2>2
<1>5. Good(shm, {})
  BY <1>4 DEF LInv, SInv, Sound
<1>6. i \in Linked(shm)
  <2>1. Present(shm, me[t].key) /\ i = AssocFind(shm, me[t].key)
    BY <1>2 DEF FoundOK, FoundPcs, Reads
  <2>2. QED
    BY <1>2, <1>5, <2>1, Find
<1>7. shm'.bucket = shm.bucket /\ shm'.item = shm.item
  BY <1>1, <1>5, <1>6, LiftedTyped
<1>8. Lifted(shm', i)
  BY <1>1, <1>5, <1>6 DEF Lifted
<1>9. QED
  BY <1>1, <1>7, <1>8, RelinkSound

\* He puts it at the head.
LEMMA RelistSound ==
  ASSUME LInv, ~Torn, NEW t \in Thread, Relist(t), UNCHANGED fault
  PROVE  LInv'
<1> DEFINE i == me[t].item
<1>1. /\ At(t, "relist") /\ shm' = ItemLink(shm, i) /\ Goto(t, "unmutex")
      /\ UNCHANGED <<locks, dead, history, fault>>
  BY DEF Relist
<1>2. Frame(me[t]) /\ me[t].pc = "relist"
  BY <1>1, Ready
<1>3. Reads(t)
  BY <1>2 DEF Frame, WriterPcs, FindPcs, Reads
<1>4. Lifting(me[t])
  BY <1>2, <1>3 DEF Lifting, Reads
<1>5. PICK b : Good(b, {}) /\ i \in Linked(b) /\ shm = ItemUnlink(b, i)
  BY <1>4 DEF LInv, SInv, Halfway, Lifted
<1>6. shm' = ItemRelink(b, i)
  BY <1>1, <1>5 DEF ItemRelink
<1>7. LET r == ItemRelink(b, i)
      IN  Good(r, {}) /\ SameChunks(b, r) /\ SameIndex(b, r) /\ Linked(r) = Linked(b)
  BY <1>5, Relink
<1>8. Good(shm', {}) /\ shm'.bucket = b.bucket /\ shm'.item = b.item
  BY <1>6, <1>7 DEF SameChunks, SameIndex
<1>9. shm.bucket = b.bucket /\ shm.item = b.item
  BY <1>5, LiftedTyped
<1>10. shm'.bucket = shm.bucket /\ shm'.item = shm.item
  BY <1>8, <1>9
<1>11. QED
  BY <1>1, <1>3, <1>8, <1>10, RelinkSound

\* The copy and the refusal change nothing.
LEMMA CopySound ==
  ASSUME LInv, ~Torn, NEW t \in Thread, Copy(t) \/ Refuse(t), UNCHANGED fault
  PROVE  LInv' /\ content' = content
<1>1. UNCHANGED <<shm, locks, dead, fault>>
  BY DEF Copy, Refuse
<1>2. \E pc \in {"look", "copy"} : \E op, rc, out, flags :
        At(t, pc) /\ Reply(t, op, rc, out, flags)
  BY DEF Copy, Refuse
<1>3. QED
  BY <1>1, <1>2, AnswerSound

-------------------------------------------------------------------------------
(***************************************************************************)
(* The rest of set and del.                                                *)
(***************************************************************************)
\* del and set take what they have found out of the table.
LEMMA UnhashSound ==
  ASSUME LInv, ~Torn, NEW t \in Thread, Unhash(t), UNCHANGED fault
  PROVE  LInv'
<1> DEFINE i == me[t].item
           k == me[t].key
<1>1. /\ At(t, "unhash") /\ shm' = AssocDelete(shm, k) /\ Goto(t, "unlist")
      /\ UNCHANGED <<locks, dead, fault>> /\ content' = content
  BY DEF Unhash, history
<1>2. /\ Frame(me[t]) /\ me[t].pc = "unhash" /\ FoundOK(me[t], shm) /\ k \in Key
      /\ IsMap(content)
  BY <1>1, Ready
<1>3. ~Reads(t) /\ Fits(me[t])
  BY <1>2 DEF Frame, ReaderPcs, FindPcs, Reads
<1>4. Good(shm, {}) /\ content = View(shm)
  BY <1>1, <1>3, WriterSees
<1>5. Present(shm, k) /\ i = AssocFind(shm, k)
  BY <1>2 DEF FoundOK
<1>6. i \in Linked(shm) /\ shm.item[i].key = k
  BY <1>2, <1>4, <1>5, Find
<1>7. Taken(me[t], shm', content)
  BY <1>1, <1>4, <1>6 DEF Taken
<1>8. \A u : SameCall(me[t], u) /\ u.item = i /\ u.pc = "unlist" => MidOK(u, shm', content')
  BY <1>1, <1>7 DEF SameCall, MidOK, Taken
<1>9. QED
  BY <1>1, <1>2, <1>3, <1>8, WriterGoes DEF MidPcs

\* A writer that is halfway, and what he has made of the segment.
LEMMA WriterAt ==
  ASSUME LInv, NEW t \in Thread, NEW pc \in {"free", "alloc", "hook", "list", "fill", "unlist"},
         At(t, pc), pc = "unlist" => ~Reads(t)
  PROVE  /\ Frame(me[t]) /\ me[t].pc = pc /\ Has(t) /\ ~Reads(t) /\ me[t].key \in Key
         /\ Fits(me[t]) /\ IsMap(content) /\ MidOK(me[t], shm, content) /\ Typed(shm)
<1>1. /\ Frame(me[t]) /\ me[t].pc = pc /\ Has(t) /\ me[t].key \in Key /\ IsMap(content)
      /\ Typed(shm)
  BY Ready
<1>2. ~Reads(t) /\ Fits(me[t])
  BY <1>1 DEF Frame, ReaderPcs, FindPcs, Reads
<1>3. Midway(me[t])
  BY <1>1, <1>2 DEF Midway, MidPcs, Reads
<1>4. MidOK(me[t], shm, content)
  BY <1>3 DEF LInv, SInv, Halfway
<1>5. QED
  BY <1>1, <1>2, <1>4

\* And off its list.
LEMMA DropSound ==
  ASSUME LInv, ~Torn, NEW t \in Thread, Unlist(t), ~Reads(t), UNCHANGED fault
  PROVE  LInv'
<1> DEFINE i == me[t].item
           k == me[t].key
<1>1. /\ At(t, "unlist") /\ shm' = ItemUnlink(shm, i) /\ Goto(t, "free")
      /\ UNCHANGED <<locks, dead, fault>> /\ content' = content
  BY DEF Unlist, history
<1>2. /\ Frame(me[t]) /\ me[t].pc = "unlist" /\ k \in Key /\ Fits(me[t])
      /\ IsMap(content) /\ MidOK(me[t], shm, content)
  BY <1>1, WriterAt
<1>3. PICK b : /\ Good(b, {}) /\ View(b) = content /\ i \in Linked(b)
               /\ b.item[i].key = k /\ shm = AssocDelete(b, k)
  BY <1>2 DEF MidOK, Taken
<1>4. shm' = Unhooked(b, i)
  BY <1>1, <1>3 DEF Unhooked
<1>5. LET r == Unhooked(b, i)
      IN  Good(r, {} \cup {i}) /\ SameChunks(b, r) /\ Linked(r) = Linked(b) \ {i}
  BY <1>3, Unhook
<1>6. Good(shm', {i}) /\ shm'.item = b.item /\ Linked(shm') = Linked(b) \ {i}
  BY <1>4, <1>5 DEF SameChunks
<1>7. Missing(shm', k)
  <2>1. \A j \in Linked(b) : b.item[j].key = k => j = i
    BY <1>2, <1>3, Find
  <2>2. QED
    BY <1>6, <2>1 DEF Missing
<1>8. View(shm') = Without(content, k)
  BY <1>3, <1>6, LostView
<1>9. k \in DOMAIN content
  BY <1>3, ViewOfItems
<1>10. Loose(me[t], shm', content)
  BY <1>6, <1>7, <1>8, <1>9 DEF Loose
<1>11. \A u : SameCall(me[t], u) /\ u.item = i /\ u.pc = "free" => MidOK(u, shm', content')
  BY <1>1, <1>10 DEF SameCall, MidOK, Loose
<1>12. QED
  BY <1>1, <1>2, <1>11, WriterGoes DEF MidPcs

\* The answer of a writer: the content is what the segment shows now.
LEMMA WriterAnswers ==
  ASSUME LInv, ~Torn, NEW t \in Thread, NEW pc, At(t, pc), pc \in MidPcs, ~Reads(t),
         NEW op, NEW rc, NEW out, NEW flags, Reply(t, op, rc, out, flags),
         UNCHANGED <<locks, dead, fault>>, Good(shm', {})
  PROVE  LInv' /\ content' = View(shm')
<1>1. content' = View(shm') /\ Goto(t, "unlock")
  BY MapsAgree DEF Reply
<1>2. IsMap(content')
  BY <1>1, ViewOfItems DEF IsMap
<1>3. QED
  BY <1>1, <1>2, WriterGoes DEF MidPcs

\* A chunk that goes back brings no key along.
LEMMA FreedMissing ==
  ASSUME NEW s, NEW F, Good(s, F), NEW i \in F, NEW k
  PROVE  /\ Good(ItemFree(s, i), F \ {i})
         /\ Missing(s, k) => Missing(ItemFree(s, i), k)
<1> DEFINE r == ItemFree(s, i)
<1>1. /\ Good(r, F \ {i})
      /\ r.free = [s.free EXCEPT ![i[1]] = Cons(i, @)]
      /\ r.lru = s.lru /\ r.carved = s.carved /\ r.mem_used = s.mem_used
      /\ Linked(r) = Linked(s) /\ DOMAIN r.item = DOMAIN s.item
      /\ \A j \in DOMAIN s.item \ {i} : r.item[j] = s.item[j]
      /\ r.item[i] = Dead(s.item[i].flags)
  BY Freed
<1> HIDE DEF r
<1>2. \A j \in Linked(s) : j \in DOMAIN s.item \ {i}
  BY LinkedByClass DEF Good
<1>3. Missing(s, k) => Missing(r, k)
  BY <1>1, <1>2 DEF Missing
<1>4. QED
  BY <1>1, <1>3 DEF r

\* The chunk goes back: set goes on, del is done.
LEMMA FreeSound ==
  ASSUME LInv, ~Torn, NEW t \in Thread, Free(t), UNCHANGED fault
  PROVE  /\ LInv' /\ ~Reads(t)
         /\ me[t].op # "set" => /\ content' = Without(content, me[t].key)
                                /\ me[t].key \in DOMAIN content
<1> DEFINE i == me[t].item
           k == me[t].key
<1>1. At(t, "free") /\ shm' = ItemFree(shm, i) /\ UNCHANGED <<locks, dead, fault>>
  BY DEF Free
<1>2. /\ Frame(me[t]) /\ me[t].pc = "free" /\ ~Reads(t) /\ k \in Key /\ Fits(me[t])
      /\ IsMap(content) /\ MidOK(me[t], shm, content)
  BY <1>1, WriterAt
<1>3. /\ Good(shm, {i}) /\ Missing(shm, k) /\ View(shm) = Without(content, k)
      /\ k \in DOMAIN content
  BY <1>2 DEF MidOK, Loose
<1>4. Good(shm', {i} \ {i}) /\ (Missing(shm, k) => Missing(shm', k))
  BY <1>1, <1>3, FreedMissing
<1>5. View(shm') = View(shm)
  BY <1>1, <1>3, FreeShows
<1>6. Good(shm', {})
  BY <1>4
<1>7. Missing(shm', k)
  BY <1>3, <1>4
<1>8. CASE me[t].op = "set"
  <2>1. Goto(t, "alloc") /\ content' = content
    BY <1>8 DEF Free, history
  <2>2. Absent(me[t], shm', content)
    BY <1>3, <1>5, <1>6, <1>7 DEF Absent
  <2>3. \A u : SameCall(me[t], u) /\ u.item = i /\ u.pc = "alloc" => MidOK(u, shm', content')
    BY <2>1, <2>2 DEF SameCall, MidOK, Absent
  <2>4. QED
    BY <1>1, <1>2, <1>8, <2>1, <2>3, WriterGoes DEF MidPcs
<1>9. CASE me[t].op # "set"
  <2>1. Reply(t, "del", "OK", <<>>, NoFlags)
    BY <1>9 DEF Free
  <2>2. LInv' /\ content' = View(shm')
    BY <1>1, <1>2, <1>6, <2>1, WriterAnswers DEF MidPcs
  <2>3. QED
    BY <1>2, <1>3, <1>5, <2>2
<1>10. QED
  BY <1>8, <1>9

\* A chunk for the new value, or none.
LEMMA AllocSound ==
  ASSUME LInv, ~Torn, NEW t \in Thread, Alloc(t), UNCHANGED fault
  PROVE  /\ LInv' /\ ~Reads(t)
         /\ \/ UNCHANGED history
            \/ /\ Reply(t, "set", "NOMEMORY", <<>>, me[t].flags)
               /\ content' = Without(content, me[t].key)
               /\ EvictToFree => ~ChunksEverywhere
<1> DEFINE k == me[t].key
           nval == me[t].val.nval
           a == ItemAlloc(shm, KeyLen[k], nval)
<1>1. /\ At(t, "alloc") /\ shm' = a.shm /\ UNCHANGED <<locks, dead, fault>>
      /\ IF a.item = NoItem THEN Reply(t, "set", "NOMEMORY", <<>>, me[t].flags)
         ELSE me' = [me EXCEPT ![t].item = a.item, ![t].pc = "hook"] /\ UNCHANGED history
  BY DEF Alloc
<1>2. /\ Frame(me[t]) /\ me[t].pc = "alloc" /\ ~Reads(t) /\ k \in Key /\ Fits(me[t])
      /\ IsMap(content) /\ MidOK(me[t], shm, content) /\ Has(t)
  BY <1>1, WriterAt
<1>3. Good(shm, {}) /\ Missing(shm, k) /\ View(shm) = Without(content, k)
  BY <1>2 DEF MidOK, Absent
<1>4. me[t].op = "set" /\ me[t].val \in Text /\ ItemSizeOk(KeyLen[k], nval)
  BY <1>2 DEF Frame, Fits
<1>5. KeyLen[k] \in Nat /\ nval \in Nat /\ ItemClsid(KeyLen[k], nval) \in Slabs
  BY <1>2, <1>4, ParamAssumption, ClassAssumption DEF Walks
<1>6. Handed(shm, KeyLen[k], nval, a.shm, a.item)
  BY <1>3, <1>5, Allocated
<1> DEFINE i == a.item
           c == ItemClsid(KeyLen[k], nval)
<1> HIDE DEF a, i, c
<1>7. Handed(shm, KeyLen[k], nval, shm', i)
  BY <1>1, <1>6 DEF i
<1>8. View(shm') \in Spared(View(shm)) /\ (i = NoItem => View(shm') = View(shm))
  BY <1>3, <1>7, AllocShows
<1>9. CASE i = NoItem
  <2>1. Reply(t, "set", "NOMEMORY", <<>>, me[t].flags)
    BY <1>1, <1>9 DEF i
  <2>2. Good(shm', {}) /\ (EvictToFree => ~ChunksEverywhere)
    BY <1>5, <1>7, <1>9 DEF Handed, ChunksEverywhere
  <2>3. LInv' /\ content' = View(shm')
    BY <1>1, <1>2, <2>1, <2>2, WriterAnswers DEF MidPcs
  <2>4. QED
    BY <1>2, <1>3, <1>8, <1>9, <2>1, <2>2, <2>3
<1>10. CASE i # NoItem
  <2> DEFINE u == [[me[t] EXCEPT !.item = i] EXCEPT !.pc = "hook"]
  <2>1. me' = [me EXCEPT ![t] = u] /\ UNCHANGED history
    BY <1>1, <1>10 DEF i
  <2>2. DOMAIN u = Locals /\ SameCall(me[t], u) /\ u.pc = "hook" /\ u.item = i
        /\ u.depth = me[t].depth
    BY <1>2 DEF Frame, Locals, SameCall
  <2> HIDE DEF u
  <2>3. Turns(t, u)
    BY <1>2, <2>1 DEF LInv, HInv, Turns, Frames
  <2>4. Frame(u) /\ u.op = me[t].op
    BY <1>2, <1>4, <2>2 DEF Frame, SameCall, Fits, WriterPcs
  <2>5. /\ Good(shm', {i}) /\ shm'.item[i].nkey = KeyLen[k] /\ shm'.item[i].nval = nval
        /\ Missing(shm', k)
    BY <1>3, <1>7, <1>10 DEF Handed, Missing
  <2>6. InHand(u, shm', content)
    BY <1>3, <1>8, <2>2, <2>5 DEF InHand, SameCall
  <2>7. content' = content
    BY <2>1 DEF history
  <2>8. MidOK(u, shm', content')
    BY <2>2, <2>6, <2>7 DEF MidOK
  <2>9. LInv'
    BY <1>1, <1>2, <2>2, <2>3, <2>4, <2>7, <2>8, WriterSound DEF MidPcs, At
  <2>10. QED
    BY <1>2, <2>1, <2>9
<1>11. QED
  BY <1>9, <1>10

\* The chunk enters the table, and then the list.
LEMMA HookSound ==
  ASSUME LInv, ~Torn, NEW t \in Thread, Hook(t) \/ List(t), UNCHANGED fault
  PROVE  LInv'
<1> DEFINE i == me[t].item
           k == me[t].key
<1>1. UNCHANGED <<locks, dead, fault>> /\ content' = content
  BY DEF Hook, List, history
<1>2. CASE Hook(t)
  <2>1. At(t, "hook") /\ shm' = AssocInsert(shm, k, i) /\ Goto(t, "list")
    BY <1>2 DEF Hook
  <2>2. /\ Frame(me[t]) /\ me[t].pc = "hook" /\ ~Reads(t) /\ Fits(me[t])
        /\ IsMap(content) /\ MidOK(me[t], shm, content)
    BY <2>1, WriterAt
  <2>3. InHand(me[t], shm, content) /\ me[t].op = "set"
    BY <2>2 DEF MidOK, Frame
  <2>4. \A u : SameCall(me[t], u) /\ u.item = i => InHand(u, shm, content)
    BY <2>3 DEF SameCall, InHand
  <2>5. \A u : SameCall(me[t], u) /\ u.item = i => Hooked(u, shm', content')
    BY <1>1, <2>1, <2>4 DEF SameCall, Hooked
  <2>6. \A u : SameCall(me[t], u) /\ u.item = i /\ u.pc = "list" => MidOK(u, shm', content')
    BY <2>5 DEF MidOK
  <2>7. QED
    BY <1>1, <2>1, <2>2, <2>3, <2>6, WriterGoes DEF MidPcs
<1>3. CASE List(t)
  <2>1. At(t, "list") /\ shm' = ItemLink(shm, i) /\ Goto(t, "fill")
    BY <1>3 DEF List
  <2>2. /\ Frame(me[t]) /\ me[t].pc = "list" /\ ~Reads(t) /\ Fits(me[t])
        /\ IsMap(content) /\ MidOK(me[t], shm, content)
    BY <2>1, WriterAt
  <2>3. Hooked(me[t], shm, content) /\ me[t].op = "set"
    BY <2>2 DEF MidOK, Frame
  <2>4. PICK b : InHand(me[t], b, content) /\ shm = AssocInsert(b, k, i)
    BY <2>3 DEF Hooked
  <2>5. \A u : SameCall(me[t], u) /\ u.item = i => InHand(u, b, content)
    BY <2>4 DEF SameCall, InHand
  <2>6. \A u : SameCall(me[t], u) /\ u.item = i => Listed(u, shm', content')
    BY <1>1, <2>1, <2>4, <2>5 DEF SameCall, Listed
  <2>7. \A u : SameCall(me[t], u) /\ u.item = i /\ u.pc = "fill" => MidOK(u, shm', content')
    BY <2>6 DEF MidOK
  <2>8. QED
    BY <1>1, <2>1, <2>2, <2>3, <2>7, WriterGoes DEF MidPcs
<1>4. QED
  BY <1>2, <1>3

\* What set writes in the end, at once or the flags last.
AtOnce(s, i, k, b, f) == [s EXCEPT !.item[i].flags = f, !.item[i].key = k, !.item[i].body = b]
FlagsLast(s, i, k, b, f) ==
  [[s EXCEPT !.item[i].key = k, !.item[i].body = b] EXCEPT !.item[i].flags = f]

\* It is the same.
LEMMA ThreeFields ==
  ASSUME NEW s \in Segment, NEW i, NEW k, NEW b, NEW f
  PROVE  AtOnce(s, i, k, b, f) = FlagsLast(s, i, k, b, f)
<1> DEFINE r == s.item[i]
           x == [[[r EXCEPT !.flags = f] EXCEPT !.key = k] EXCEPT !.body = b]
           y == [[[r EXCEPT !.key = k] EXCEPT !.body = b] EXCEPT !.flags = f]
<1>1. x = y
  OBVIOUS
<1> HIDE DEF r
<1>2. AtOnce(s, i, k, b, f) = [s EXCEPT !.item = [s.item EXCEPT ![i] = x]]
  BY DEF AtOnce, r, Segment
<1>3. FlagsLast(s, i, k, b, f) = [s EXCEPT !.item = [s.item EXCEPT ![i] = y]]
  BY DEF FlagsLast, r, Segment
<1>4. QED
  BY <1>1, <1>2, <1>3

\* Key, value and flags are written, and set is done.
LEMMA FillSound ==
  ASSUME LInv, ~Torn, NEW t \in Thread, Fill(t), UNCHANGED fault
  PROVE  /\ LInv' /\ ~Reads(t)
         /\ Stored(content, content', me[t].key, Value(me[t].val, me[t].flags))
         /\ ItemSizeOk(KeyLen[me[t].key], me[t].val.nval)
<1> DEFINE i == me[t].item
           k == me[t].key
           v == me[t].val
           f == me[t].flags
<1>1. /\ At(t, "fill") /\ UNCHANGED <<locks, dead, fault>>
      /\ Reply(t, "set", "OK", <<>>, f)
      /\ shm' = [shm EXCEPT !.item[i].flags = f, !.item[i].key = k, !.item[i].body = v.body]
  BY DEF Fill
<1>2. /\ Frame(me[t]) /\ me[t].pc = "fill" /\ ~Reads(t) /\ k \in Key /\ Fits(me[t])
      /\ IsMap(content) /\ MidOK(me[t], shm, content) /\ Typed(shm)
  BY <1>1, WriterAt
<1>3. /\ me[t].op = "set" /\ v \in Text /\ f \in FlagSet /\ ItemSizeOk(KeyLen[k], v.nval)
  BY <1>2 DEF Frame, Fits
<1>4. v.body \in Seq(Part) /\ f \in Flags
  BY <1>3, ParamAssumption DEF Flags
<1>5. PICK b : InHand(me[t], b, content) /\ shm = ItemLink(AssocInsert(b, k, i), i)
  BY <1>2 DEF MidOK, Listed
<1>6. /\ Good(b, {i}) /\ Missing(b, k) /\ b.item[i].nkey = KeyLen[k]
      /\ b.item[i].nval = v.nval /\ View(b) \in Spared(Without(content, k))
  BY <1>5 DEF InHand
<1>7. shm' = SetFlags(Enter(b, k, i, v.body), i, f)
  <2>1. shm \in Segment
    BY <1>2 DEF Typed
  <2>2. SetFlags(Enter(b, k, i, v.body), i, f) = FlagsLast(shm, i, k, v.body, f)
    BY <1>5, Zenon DEF SetFlags, Enter, FlagsLast
  <2>3. shm' = AtOnce(shm, i, k, v.body, f)
    BY <1>1, Zenon DEF AtOnce
  <2>4. QED
    BY <2>1, <2>2, <2>3, ThreeFields, Zenon
<1>8. Good(shm', {i} \ {i})
  BY <1>2, <1>4, <1>6, <1>7, EnterKeeps
<1>9. View(shm') = Bound(View(b), k, [nval |-> b.item[i].nval, body |-> v.body, flags |-> f])
  BY <1>2, <1>4, <1>6, <1>7, StoreShows
<1>10. View(shm') = Bound(View(b), k, Value(v, f))
  BY <1>6, <1>9 DEF Value
<1>11. Good(shm', {})
  BY <1>8
<1>12. LInv' /\ content' = View(shm')
  BY <1>1, <1>2, <1>11, WriterAnswers DEF MidPcs
<1>13. Stored(content, content', k, Value(v, f))
  BY <1>6, <1>10, <1>12, StoredAfterDrop
<1>14. QED
  BY <1>2, <1>3, <1>12, <1>13

-------------------------------------------------------------------------------
(***************************************************************************)
(* The invariant.                                                          *)
(***************************************************************************)
\* Nobody is in a call, and the segment is formatted.
LEMMA LockInit ==
  ASSUME LInit
  PROVE  LInv
<1>1. /\ me = [t \in Thread |-> Idle] /\ readers = {} /\ writer = NoThread
      /\ mutex = NoThread /\ dead = {} /\ content = Content
      /\ shm = Formatted /\ fault = "none"
  BY DEF LInit, Init
<1>2. \A t \in Thread : me[t].pc = "idle"
  BY <1>1 DEF Idle
<1>3. Frames /\ \A t \in Thread : ~Has(t)
  BY <1>1, <1>2 DEF Frames, Has
<1>4. LocksHeld /\ MutexHeld
  BY <1>1, <1>2, <1>3, ThreadAssumption DEF LocksHeld, MutexHeld, UnderMutex
<1>5. \A t \in Thread : ~Midway(me[t]) /\ ~Lifting(me[t])
  BY <1>2 DEF Midway, Lifting, MidPcs
<1>6. Good(shm, {})
  BY <1>1, FormattedGood
<1>7. content = View(shm)
  BY <1>1, MapsAgree
<1>8. IsMap(content)
  BY <1>6, <1>7, ViewOfItems DEF IsMap
<1>9. Search /\ Halfway /\ Shows /\ Sound
  BY <1>3, <1>5, <1>6, <1>7 DEF Search, Halfway, Shows, Sound
<1>10. QED
  BY <1>1, <1>3, <1>4, <1>8, <1>9 DEF LInv, HInv, SInv

\* Every step of every thread keeps the invariant, and so does a death.
LEMMA LockStep ==
  ASSUME LInv, [LNext]_lvars
  PROVE  LInv'
<1>1. CASE UNCHANGED lvars
  <2>1. /\ shm' = shm /\ fault' = fault /\ use_flock' = use_flock /\ readers' = readers
        /\ writer' = writer /\ mutex' = mutex /\ me' = me /\ dead' = dead
        /\ content' = content
    BY <1>1 DEF lvars
  <2>2. HInv'
    BY <2>1 DEF LInv, HInv, Frames, LocksHeld, MutexHeld, Has, Alive, Reads
  <2>3. SInv'
    BY <2>1 DEF LInv, SInv, Search, Halfway, Shows, Sound, Has, Alive
  <2>4. QED
    BY <2>2, <2>3 DEF LInv
<1>2. ASSUME NEW t \in Thread, ~Torn, Step(t), UNCHANGED fault
      PROVE  LInv'
  <2>1. CASE Lock(t)
    BY <1>2, <2>1, LockSound
  <2>2. CASE Unlock(t)
    BY <1>2, <2>2, UnlockSound
  <2>3. CASE Mutex(t) \/ Unmutex(t)
    BY <1>2, <2>3, MutexSound
  <2>4. CASE Refuse(t) \/ Copy(t)
    BY <1>2, <2>4, CopySound
  <2>5. CASE Look(t)
    BY <1>2, <2>5, LookSound
  <2>6. CASE Raise(t)
    BY <1>2, <2>6, RaiseSound
  <2>7. CASE Compare(t)
    BY <1>2, <2>7, CompareSound
  <2>8. CASE Miss(t)
    BY <1>2, <2>8, MissSound
  <2>9. CASE Unlist(t)
    BY <1>2, <2>9, LiftSound, DropSound
  <2>10. CASE Relist(t)
    BY <1>2, <2>10, RelistSound
  <2>11. CASE Unhash(t)
    BY <1>2, <2>11, UnhashSound
  <2>12. CASE Free(t)
    BY <1>2, <2>12, FreeSound
  <2>13. CASE Alloc(t)
    BY <1>2, <2>13, AllocSound
  <2>14. CASE Hook(t) \/ List(t)
    BY <1>2, <2>14, HookSound
  <2>15. CASE Fill(t)
    BY <1>2, <2>15, FillSound
  <2>16. QED
    BY <1>2, <2>1, <2>2, <2>3, <2>4, <2>5, <2>6, <2>7, <2>8, <2>9, <2>10, <2>11, <2>12,
       <2>13, <2>14, <2>15 DEF Step
<1>3. ASSUME NEW t \in Thread, Go(t) \/ (Begin(t) /\ UNCHANGED fault)
                                    \/ (Die(t) /\ UNCHANGED fault)
      PROVE  LInv'
  BY <1>2, <1>3, BeginSound, DieSound DEF Go
<1>4. QED
  BY <1>1, <1>3 DEF LNext

\* Who holds what, and what the segment is like in the middle of a call.
THEOREM LockInvariance == LSpec => []LInv
<1>1. LInit => LInv
  BY LockInit
<1>2. LInv /\ [LNext]_lvars => LInv'
  BY LockStep
<1>3. QED
  BY <1>1, <1>2, PTL DEF LSpec

-------------------------------------------------------------------------------
(***************************************************************************)
(* The properties.                                                         *)
(***************************************************************************)
\* A set or del is in the segment alone, and among the gets no more than one
\* relinks an item, however the steps of the threads fall and whoever dies.
THEOREM Exclusion == LSpec => []OneChanger
<1>1. ASSUME LInv, NEW t \in Thread, Inside(t), NEW u \in Thread, Inside(u), t # u
      PROVE  Reads(t) /\ Reads(u) /\ ~(Changing(t) /\ Changing(u))
  <2>1. Has(t) /\ Has(u) /\ Frame(me[t]) /\ Frame(me[u])
    BY <1>1 DEF Inside, InCall, Has, LInv, HInv, Frames
  <2>2. Reads(t) /\ Reads(u)
    BY <1>1, <2>1, ThreadAssumption DEF LInv, HInv, LocksHeld
  <2>3. \A x \in {t, u} : Changing(x) => mutex = x
    <3>1. ASSUME NEW x \in {t, u}, Changing(x) PROVE mutex = x
      <4>1. x \in Thread /\ Reads(x) /\ Frame(me[x])
        BY <1>1, <2>1, <2>2
      <4>2. me[x].pc \in UnderMutex
        BY <3>1, <4>1 DEF Changing, Frame, Reads, ReaderPcs, FindPcs, UnderMutex
      <4>3. QED
        BY <1>1, <4>1, <4>2 DEF LInv, HInv, MutexHeld
    <3>2. QED
      BY <3>1
  <2>4. QED
    BY <1>1, <2>2, <2>3
<1>2. LInv => OneChanger
  BY <1>1 DEF OneChanger
<1>3. QED
  BY <1>2, LockInvariance, PTL

\* The segment keeps its types in the middle of a call too; the locks are held by
\* threads that are where they hold them.
THEOREM LockTypes == LSpec => []LTypeOK
<1>1. ASSUME LInv PROVE TypeOK
  <2>1. Typed(shm)
    BY <1>1, AlwaysTyped
  <2>2. \A i \in DOMAIN shm.item : shm.item[i] \in ItemType
    BY <2>1, ItemMapType DEF Typed, Segment
  <2>3. QED
    BY <1>1, <2>1, <2>2 DEF TypeOK, Typed, Segment, LInv, SInv
<1>2. ASSUME LInv
      PROVE  /\ readers \subseteq Thread /\ writer \in Thread \cup {NoThread}
             /\ \A t \in readers : me[t].pc \notin {"idle", "lock"}
             /\ mutex \in readers \cup dead \cup {NoThread}
             /\ mutex # NoThread => me[mutex].pc \in {"unlist", "relist", "unmutex"}
  <2>1. LocksHeld /\ MutexHeld
    BY <1>2 DEF LInv, HInv
  <2>2. /\ readers \subseteq Thread /\ writer \in Thread \cup {NoThread}
        /\ \A t \in readers : me[t].pc \notin {"idle", "lock"}
    BY <2>1 DEF LocksHeld, Has
  <2>3. ASSUME mutex # NoThread
        PROVE  mutex \in readers \cup dead /\ me[mutex].pc \in UnderMutex
    <3>1. mutex \in Thread /\ me[mutex].pc \in UnderMutex /\ Reads(mutex)
      BY <2>1, <2>3 DEF MutexHeld
    <3>2. QED
      BY <2>1, <3>1 DEF LocksHeld, Has, Alive, UnderMutex
  <2>4. QED
    BY <2>2, <2>3 DEF UnderMutex
<1>3. LInv => LTypeOK
  BY <1>1, <1>2 DEF LTypeOK
<1>4. QED
  BY <1>3, LockInvariance, PTL

\* The lists of s hold all chunks, and the table all items, but for the items H.
WholeBut(s, H) ==
  /\ \A c \in Slabs :
       /\ IsInjective(s.free[c] \o s.lru[c])
       /\ Range(s.free[c]) \cup Range(s.lru[c]) \cup {i \in H : i[1] = c}
            = {c} \X (1 .. s.carved[c])
  /\ UNION {Range(s.bucket[b]) : b \in Buckets} = Linked(s) \cup H
  /\ \A b \in Buckets :
       /\ IsInjective(s.bucket[b])
       /\ \A i \in Range(s.bucket[b]) : Slot[s.item[i].key] = b

\* So do those of a segment from which an item has been lifted.
LEMMA WholeButLifted ==
  ASSUME NEW b, Good(b, {}), NEW H, NEW s,
         \/ H = {} /\ s = b
         \/ \E i \in Linked(b) : H = {i} /\ s = ItemUnlink(b, i)
  PROVE  WholeBut(s, H)
<1>1. b \in Segment /\ ChunksGood(b, {}) /\ IndexGood(b)
  BY DEF Good
<1>2. /\ s.free = b.free /\ s.bucket = b.bucket /\ s.item = b.item /\ s.carved = b.carved
      /\ s \in Segment /\ Linked(s) \cup H = Linked(b) /\ H \subseteq Linked(b)
      /\ \A c \in Slabs : IsInjective(s.lru[c]) /\ Range(s.lru[c]) = Range(b.lru[c]) \ H
  <2>1. CASE H = {} /\ s = b
    BY <1>1, <2>1 DEF ChunksGood
  <2>2. CASE \E i \in Linked(b) : H = {i} /\ s = ItemUnlink(b, i)
    <3>1. PICK i \in Linked(b) : H = {i} /\ s = ItemUnlink(b, i)
      BY <2>2
    <3>2. LET r == ItemUnlink(b, i)
          IN  /\ r \in Segment /\ SameChunks(b, r) /\ SameIndex(b, r)
              /\ Linked(r) = Linked(b) \ {i}
              /\ \A c \in Slabs :
                   IsInjective(r.lru[c]) /\ Range(r.lru[c]) = Range(b.lru[c]) \ {i}
      BY <1>1, Unlink
    <3>3. QED
      BY <3>1, <3>2 DEF SameChunks, SameIndex
  <2>3. QED
    BY <2>1, <2>2
<1>3. ASSUME NEW c \in Slabs
      PROVE  /\ IsInjective(s.free[c] \o s.lru[c])
             /\ Range(s.free[c]) \cup Range(s.lru[c]) \cup {i \in H : i[1] = c}
                  = {c} \X (1 .. s.carved[c])
  <2>1. /\ IsInjective(b.free[c]) /\ IsInjective(b.lru[c])
        /\ Range(b.free[c]) \cap Range(b.lru[c]) = {}
        /\ Range(b.free[c]) \cup Range(b.lru[c]) = {c} \X (1 .. b.carved[c])
    BY ListsShareChunks
  <2>2. Range(s.free[c]) \cap Range(s.lru[c]) = {}
    BY <1>2, <2>1
  <2>3. s.free[c] \in Seq(ItemName) /\ s.lru[c] \in Seq(ItemName)
    BY <1>2 DEF Segment
  <2>4. IsInjective(s.free[c] \o s.lru[c])
    BY <1>2, <2>1, <2>2, <2>3, ConcatList
  <2>5. Range(b.lru[c]) = {i \in Linked(b) : i[1] = c}
    BY <1>1, LinkedByClass
  <2>6. Range(s.lru[c]) \cup {i \in H : i[1] = c} = Range(b.lru[c])
    BY <1>2, <2>5
  <2>7. QED
    BY <1>2, <2>1, <2>4, <2>6
<1>4. UNION {Range(s.bucket[d]) : d \in Buckets} = Linked(s) \cup H
  <2>1. \A i \in Linked(b) : \E d \in Buckets : i \in Range(b.bucket[d])
    BY <1>1, ParamAssumption DEF IndexGood
  <2>2. \A d \in Buckets : Range(b.bucket[d]) \subseteq Linked(b)
    BY <1>1 DEF IndexGood
  <2>3. QED
    BY <1>2, <2>1, <2>2
<1>5. \A d \in Buckets :
        /\ IsInjective(s.bucket[d])
        /\ \A i \in Range(s.bucket[d]) : Slot[s.item[i].key] = d
  BY <1>1, <1>2 DEF IndexGood
<1>6. QED
  BY <1>3, <1>4, <1>5 DEF WholeBut

\* Whenever no set or del is at work the lists hold all chunks and the table all
\* items, but for the one a get is just relinking, even after processes have died
\* in the middle of their calls.
THEOREM WholeUnlessWriting == LSpec => []WholeWithoutWriter
<1>1. ASSUME LInv, writer = NoThread, ~Torn
      PROVE  WholeBut(shm, InHands)
  <2>1. \A t \in Thread : ~Midway(me[t])
    BY <1>1, Holders, ThreadAssumption DEF LInv
  <2>2. \A t \in Thread : me[t].pc = "relist" => Lifting(me[t])
    BY <1>1 DEF LInv, HInv, Frames, Frame, Lifting, WriterPcs, FindPcs
  <2>3. \E b : /\ Good(b, {})
               /\ \/ InHands = {} /\ shm = b
                  \/ \E i \in Linked(b) : InHands = {i} /\ shm = ItemUnlink(b, i)
    <3>1. CASE \A t \in Thread : ~Lifting(me[t])
      <4>1. InHands = {}
        BY <2>2, <3>1 DEF InHands
      <4>2. Good(shm, {})
        BY <1>1, <2>1, <3>1 DEF LInv, SInv, Sound
      <4>3. QED
        BY <4>1, <4>2
    <3>2. CASE \E t \in Thread : Lifting(me[t])
      <4>1. PICK t \in Thread : Lifting(me[t])
        BY <3>2
      <4>2. \A x \in Thread : Lifting(me[x]) => x = t
        BY <1>1, <4>1, Holders DEF LInv
      <4>3. InHands = {me[t].item}
        BY <2>2, <4>1, <4>2 DEF InHands, Lifting
      <4>4. Lifted(shm, me[t].item)
        BY <1>1, <4>1 DEF LInv, SInv, Halfway
      <4>5. QED
        BY <4>3, <4>4 DEF Lifted
    <3>3. QED
      BY <3>1, <3>2
  <2>4. PICK b : /\ Good(b, {})
                 /\ \/ InHands = {} /\ shm = b
                    \/ \E i \in Linked(b) : InHands = {i} /\ shm = ItemUnlink(b, i)
    BY <2>3
  <2>5. QED
    BY <2>4, WholeButLifted
<1>2. LInv /\ writer = NoThread /\ ~Torn => WholeBut(shm, InHands)
  BY <1>1
<1>3. LInv => WholeWithoutWriter
  BY <1>2, Zenon DEF WholeWithoutWriter, WholeBut
<1>4. QED
  BY <1>3, LockInvariance, PTL

-------------------------------------------------------------------------------
(***************************************************************************)
(* The steps that answer are steps of Cache.                               *)
(***************************************************************************)
\* The map of Whole is what the last call left; it is changed as in ShmcCacheProofs.
LEMMA WholeIsMap ==
  /\ Whole!Held = DOMAIN content
  /\ \A k, e : Whole!Keep(k, e) <=> Stored(content, content', k, e)
  /\ \A k : Whole!Drop(k) <=> content' = Without(content, k)
  /\ \A v, f : Whole!Entry(v, f) = Value(v, f)
  /\ \A k, n : Whole!TooLarge(k, n) <=> ~ItemSizeOk(KeyLen[k], n)
  /\ Whole!NoFlags = NoFlags
<1>1. Whole!Held = DOMAIN content
  BY DEF Whole!Held
<1>2. Whole!Room = Spared(content)
  BY <1>1 DEF Whole!Room, Whole!Restrict, Spared, Without
<1>3. \A c, k, e : Whole!Bind(c, k, e) = Bound(c, k, e)
  BY DEF Whole!Bind, Bound
<1>4. ASSUME NEW k, NEW e
      PROVE  Whole!Keep(k, e) <=> Stored(content, content', k, e)
  <2>1. Whole!Keep(k, e) <=> \E c \in Whole!Room : content' = Whole!Bind(c, k, e)
    BY DEF Whole!Keep
  <2>2. QED
    BY <1>2, <1>3, <2>1 DEF Stored
<1>5. \A k : Whole!Drop(k) <=> content' = Without(content, k)
  BY <1>1 DEF Whole!Drop, Whole!Restrict, Without
<1>6. \A v, f : Whole!Entry(v, f) = Value(v, f)
  BY DEF Whole!Entry, Value
<1>7. \A k, n : Whole!TooLarge(k, n) <=> ~ItemSizeOk(KeyLen[k], n)
  BY DEF Whole!TooLarge, Whole!SizeAccepted, Whole!ItemSize, Whole!ItemHdr,
         ItemSizeOk, SizeAccepted, ItemSize, ItemHdr
<1>8. Whole!NoFlags = NoFlags
  BY DEF Whole!NoFlags, NoFlags
<1>9. QED
  BY <1>1, <1>4, <1>5, <1>6, <1>7, <1>8

\* The answer is given in the same way.
LEMMA ReplyTells ==
  ASSUME NEW t, NEW op, NEW rc, NEW out, NEW flags, Reply(t, op, rc, out, flags)
  PROVE  /\ Whole!Answered(op, me[t].key, rc, out, flags)
         /\ content' = content /\ out = <<>> => Whole!Refuse(op, me[t].key, rc, flags)
  BY DEF Reply, Whole!Answered, Whole!Refuse

\* A refusal, and a search that finds nothing.
LEMMA NothingRefines ==
  ASSUME LInv, ~Torn, NEW t \in Thread, Refuse(t) \/ Miss(t), UNCHANGED fault
  PROVE  UNCHANGED history \/ Whole!Operation(me[t].key)
<1> DEFINE k == me[t].key
<1>1. /\ Frame(me[t]) /\ me[t].pc = "look" /\ k \in Key /\ Has(t) /\ At(t, "look")
  BY Ready DEF Refuse, Miss
<1>2. CASE Refuse(t)
  <2>1. content' = content
    BY <1>2, CopySound
  <2>2. Reply(t, "set", "ESIZE", <<>>, me[t].flags) /\ ~Fitting(t)
    BY <1>2 DEF Refuse
  <2>3. Whole!Refuse("set", k, "ESIZE", me[t].flags)
    BY <2>1, <2>2, ReplyTells
  <2>4. me[t].val \in Text /\ me[t].flags \in FlagSet /\ ~ItemSizeOk(KeyLen[k], me[t].val.nval)
    BY <1>1, <2>2 DEF Fitting, Frame
  <2>5. Whole!TooLarge(k, me[t].val.nval)
    BY <2>4, WholeIsMap
  <2>6. Whole!Set(k)
    BY <2>3, <2>4, <2>5 DEF Whole!Set
  <2>7. QED
    BY <2>6 DEF Whole!Operation
<1>3. CASE Miss(t) /\ ~UNCHANGED history
  <2>1. UNCHANGED <<shm, locks, dead, fault>>
    BY <1>3 DEF Miss
  <2>2. PICK op \in {"get", "getf", "del"} : Reply(t, op, "NOTFOUND", <<>>, NoFlags)
    BY <1>3 DEF Miss
  <2>3. content' = content
    BY <1>1, <2>1, <2>2, AnswerSound
  <2>4. k \notin Whole!Held
    <3>1. ~Present(shm, k)
      BY <1>3, NotThere
    <3>2. ~Midway(me[t])
      BY <1>1 DEF Midway, MidPcs
    <3>3. content = View(shm)
      BY <1>1, <3>2, SeesContent
    <3>4. QED
      BY <3>1, <3>3, WholeIsMap DEF View
  <2>5. Whole!Refuse(op, k, "NOTFOUND", Whole!NoFlags)
    BY <2>2, <2>3, ReplyTells, WholeIsMap
  <2>6. CASE op = "get"
    BY <2>4, <2>5, <2>6 DEF Whole!Get, Whole!Operation
  <2>7. CASE op = "getf"
    BY <2>4, <2>5, <2>7 DEF Whole!Getf, Whole!Operation
  <2>8. CASE op = "del"
    BY <2>4, <2>5, <2>8 DEF Whole!Del, Whole!Operation
  <2>9. QED
    BY <2>6, <2>7, <2>8
<1>4. QED
  BY <1>2, <1>3

\* The copy is what the map holds: nobody has written the item since it was found.
LEMMA CopyRefines ==
  ASSUME LInv, ~Torn, NEW t \in Thread, Copy(t), UNCHANGED fault
  PROVE  Whole!Operation(me[t].key)
<1> DEFINE k == me[t].key
           it == shm.item[me[t].item]
<1>1. /\ Frame(me[t]) /\ me[t].pc = "copy" /\ k \in Key /\ Has(t) /\ FoundOK(me[t], shm)
  BY Ready DEF Copy
<1>2. ~Midway(me[t]) /\ me[t].op = "read"
  BY <1>1 DEF Midway, MidPcs, Frame, WriterPcs, FindPcs
<1>3. Present(shm, k) /\ me[t].item = AssocFind(shm, k)
  BY <1>1, <1>2 DEF FoundOK, FoundPcs
<1>4. content = View(shm) /\ content' = content
  BY <1>1, <1>2, SeesContent, CopySound
<1>5. k \in DOMAIN content /\ content[k] = Seen(shm, me[t].item)
  BY <1>1, <1>3, <1>4 DEF View
<1>6. content[k].nval = it.nval /\ content[k].body = it.body /\ content[k].flags = it.flags
  BY <1>5 DEF Seen
<1> HIDE DEF it
<1>7. \/ Reply(t, "get", "OK", it.body, it.flags)
      \/ Reply(t, "get", "SYSTEM", <<>>, NoFlags)
      \/ /\ \E n \in Capacity : n >= it.nval
         /\ Reply(t, "getf", "OK", it.body, it.flags)
      \/ /\ \E n \in Capacity : n < it.nval
         /\ Reply(t, "getf", "ESPACE", <<>>, NoFlags)
  BY DEF Copy, it
<1>8. k \in Whole!Held
  BY <1>5, WholeIsMap
<1>9. ASSUME NEW op, Reply(t, op, "OK", it.body, it.flags)
      PROVE  Whole!Hand(op, k)
  <2>1. Whole!Answered(op, k, "OK", it.body, it.flags)
    BY <1>9, ReplyTells
  <2>2. content[k] \in {content[x] : x \in Whole!Held \cap {k}}
    BY <1>8
  <2>3. QED
    BY <1>4, <1>6, <2>1, <2>2 DEF Whole!Hand
<1>10. ASSUME NEW op, NEW rc, Reply(t, op, rc, <<>>, NoFlags)
       PROVE  Whole!Refuse(op, k, rc, Whole!NoFlags)
  BY <1>4, <1>10, ReplyTells, WholeIsMap
<1>11. CASE Reply(t, "get", "OK", it.body, it.flags)
  BY <1>9, <1>11 DEF Whole!Get, Whole!Operation
<1>12. CASE Reply(t, "get", "SYSTEM", <<>>, NoFlags)
  BY <1>8, <1>10, <1>12 DEF Whole!Get, Whole!Operation
<1>13. CASE /\ \E n \in Capacity : n >= it.nval
            /\ Reply(t, "getf", "OK", it.body, it.flags)
  BY <1>6, <1>9, <1>13 DEF Whole!Getf, Whole!Operation
<1>14. CASE /\ \E n \in Capacity : n < it.nval
            /\ Reply(t, "getf", "ESPACE", <<>>, NoFlags)
  BY <1>6, <1>8, <1>10, <1>14 DEF Whole!Getf, Whole!Operation
<1>15. QED
  BY <1>7, <1>11, <1>12, <1>13, <1>14

\* del answers when the chunk has gone back; set when there is none for the new
\* value, or when it has been written.
LEMMA ChangeRefines ==
  ASSUME LInv, ~Torn, NEW t \in Thread, Free(t) \/ Alloc(t) \/ Fill(t), UNCHANGED fault,
         EvictToFree => ChunksEverywhere
  PROVE  UNCHANGED history \/ Whole!Operation(me[t].key)
<1> DEFINE k == me[t].key
           v == me[t].val
           f == me[t].flags
<1>1. CASE Free(t) /\ ~UNCHANGED history
  <2>1. Reply(t, "del", "OK", <<>>, NoFlags) /\ me[t].op # "set"
    BY <1>1 DEF Free
  <2>2. content' = Without(content, k) /\ k \in DOMAIN content
    BY <1>1, <2>1, FreeSound
  <2>3. Whole!Answered("del", k, "OK", <<>>, Whole!NoFlags)
    BY <2>1, ReplyTells, WholeIsMap
  <2>4. Whole!Drop(k) /\ k \in Whole!Held
    BY <2>2, WholeIsMap
  <2>5. Whole!Del(k)
    BY <2>3, <2>4 DEF Whole!Del, Whole!Lose
  <2>6. QED
    BY <2>5 DEF Whole!Operation
<1>2. ASSUME Alloc(t) \/ Fill(t)
      PROVE  v \in Text /\ f \in FlagSet /\ ~Whole!TooLarge(k, v.nval)
  <2>1. \E pc \in {"alloc", "fill"} : At(t, pc)
    BY <1>2 DEF Alloc, Fill
  <2>2. Frame(me[t]) /\ Fits(me[t]) /\ me[t].pc \in {"alloc", "fill"}
    BY <2>1, WriterAt
  <2>3. me[t].op = "set"
    BY <2>2 DEF Frame
  <2>4. v \in Text /\ f \in FlagSet /\ ItemSizeOk(KeyLen[k], v.nval)
    BY <2>2, <2>3 DEF Frame, Fits
  <2>5. QED
    BY <2>4, WholeIsMap
<1>3. CASE Alloc(t) /\ ~UNCHANGED history
  <2>1. /\ Reply(t, "set", "NOMEMORY", <<>>, f) /\ content' = Without(content, k)
        /\ EvictToFree => ~ChunksEverywhere
    BY <1>3, AllocSound
  <2>2. Whole!Answered("set", k, "NOMEMORY", <<>>, f)
    BY <2>1, ReplyTells
  <2>3. Whole!Drop(k) /\ ~EvictToFree
    BY <2>1, WholeIsMap
  <2>4. Whole!Put("set", k, v, f)
    BY <2>2, <2>3 DEF Whole!Put, Whole!Lose
  <2>5. Whole!Set(k)
    BY <1>2, <1>3, <2>4 DEF Whole!Set
  <2>6. QED
    BY <2>5 DEF Whole!Operation
<1>4. CASE Fill(t)
  <2>1. Stored(content, content', k, Value(v, f))
    BY <1>4, FillSound
  <2>2. Reply(t, "set", "OK", <<>>, f)
    BY <1>4 DEF Fill
  <2>3. Whole!Answered("set", k, "OK", <<>>, f)
    BY <2>2, ReplyTells
  <2>4. Whole!Keep(k, Whole!Entry(v, f))
    BY <2>1, WholeIsMap
  <2>5. Whole!Put("set", k, v, f)
    BY <2>3, <2>4 DEF Whole!Put
  <2>6. Whole!Set(k)
    BY <1>2, <1>4, <2>5 DEF Whole!Set
  <2>7. QED
    BY <2>6 DEF Whole!Operation
<1>5. QED
  BY <1>1, <1>3, <1>4

\* Every step of a thread is a step of the map or none.
LEMMA LockStepRefines ==
  ASSUME LInv, [LNext]_lvars, EvictToFree => ChunksEverywhere
  PROVE  [Whole!Next]_<<content, call>>
<1>1. ASSUME UNCHANGED history PROVE UNCHANGED <<content, call>>
  BY <1>1 DEF history
<1>2. ASSUME NEW t \in Thread, ~Torn, Step(t), UNCHANGED fault
      PROVE  UNCHANGED history \/ Whole!Next
  <2>1. CASE Refuse(t) \/ Miss(t) \/ Copy(t) \/ Free(t) \/ Alloc(t) \/ Fill(t)
    <3>1. UNCHANGED history \/ Whole!Operation(me[t].key)
      BY <1>2, <2>1, NothingRefines, CopyRefines, ChangeRefines
    <3>2. \E pc \in {"look", "copy", "free", "alloc", "fill"} : At(t, pc)
      BY <2>1 DEF Refuse, Miss, Copy, Free, Alloc, Fill
    <3>3. me[t].key \in Key
      BY <3>2, Ready
    <3>4. QED
      BY <3>1, <3>3 DEF Whole!Next
  <2>2. CASE Lock(t) \/ Unlock(t) \/ Mutex(t) \/ Unmutex(t)
    BY <2>2 DEF Lock, Unlock, Mutex, Unmutex
  <2>3. CASE Look(t) \/ Raise(t) \/ Compare(t) \/ Unlist(t) \/ Relist(t)
    BY <2>3 DEF Look, Raise, Compare, Unlist, Relist
  <2>4. CASE Unhash(t) \/ Hook(t) \/ List(t)
    BY <2>4 DEF Unhash, Hook, List
  <2>5. QED
    BY <1>2, <2>1, <2>2, <2>3, <2>4 DEF Step
<1>3. CASE UNCHANGED lvars
  BY <1>3 DEF lvars
<1>4. ASSUME NEW t \in Thread, Go(t) \/ Begin(t) \/ Die(t)
      PROVE  UNCHANGED history \/ Whole!Next
  <2>1. CASE Go(t)
    BY <1>2, <2>1 DEF Go
  <2>2. CASE Begin(t) \/ Die(t)
    BY <2>2 DEF Begin, Die
  <2>3. QED
    BY <1>4, <2>1, <2>2
<1>5. QED
  BY <1>1, <1>3, <1>4 DEF LNext

\* Calls that run at the same time, taken apart into every step of theirs that
\* reads or changes the segment, answer as if each had been made at one moment,
\* whatever the threads, keys, values and sizes. Of eviction it is asked what is
\* asked in SegmentImplementsMap.
THEOREM Atomicity ==
  ASSUME EvictToFree => ChunksEverywhere
  PROVE  LSpec => CallsAreAtomic
<1>1. LInit => Whole!Init
  <2>1. Init => Promise!Init
    BY InitRefines
  <2>2. Promise!Init => Content = <<>> /\ call = [op |-> "init", rc |-> "OK"]
    BY DEF Promise!Init
  <2>3. QED
    BY <2>1, <2>2 DEF LInit, Whole!Init
<1>2. LInv /\ [LNext]_lvars => [Whole!Next]_<<content, call>>
  BY LockStepRefines
<1>3. QED
  BY <1>1, <1>2, LockInvariance, PTL DEF LSpec, CallsAreAtomic, Whole!Spec

================================================================================
