-------------------------------- MODULE ShmcLock --------------------------------
(***************************************************************************)
(* Threads, each of a process of its own, that call get, getf, set and del *)
(* on one segment: the locks of shmc.h and shmc.c around the steps of the  *)
(* call, a helper of ShmcStore for each step.                              *)
(*                                                                         *)
(* The lock of the segment is a pthread rwlock, or with use_flock an fcntl *)
(* lock on the token. Between live threads of different processes the two  *)
(* are the same; when a process dies the kernel lets go of its fcntl lock  *)
(* and nobody of the rwlock. The mutex for the LRU lists is a pthread mutex*)
(* in both cases.                                                          *)
(***************************************************************************)
EXTENDS ShmcStore

CONSTANTS
  Thread,      \* the threads
  NoThread,    \* nobody
  MaxCalls,    \* bound: the calls of a thread
  MaxDeaths    \* bound: the processes that die

VARIABLES
  use_flock,   \* attr use_flock
  readers,     \* who holds the lock of the segment to read
  writer,      \* who holds it to write
  mutex,       \* who holds the mutex
  me,          \* each thread: where it is, its arguments, its locals
  left,        \* the calls each thread may still make
  dead,        \* the threads whose process has died
  content      \* history: what the last call left in the segment

lvars == <<shm, call, fault, use_flock, readers, writer, mutex, me, left, dead, content>>
locks == <<use_flock, readers, writer, mutex>>
history == <<call, content>>

ASSUME ThreadAssumption == NoThread \notin Thread /\ MaxCalls \in Nat /\ MaxDeaths \in Nat

\* Every size that is accepted has a class, else item_clsid leaves the table.
ASSUME ClassAssumption ==
  \A k \in Key, v \in Text :
    ItemSizeOk(KeyLen[k], v.nval) => ~Walks(k, v.nval)

-------------------------------------------------------------------------------
Idle == [pc |-> "idle"]
Alive(t) == t \notin dead
At(t, pc) == Alive(t) /\ me[t].pc = pc
Reads(t) == me[t].op = "read"
Goto(t, pc) == me' = [me EXCEPT ![t].pc = pc]

\* The answer of the call, after which only the unlocking is left.
Reply(t, op, rc, out, flags) ==
  /\ call' = [op |-> op, key |-> me[t].key, rc |-> rc, out |-> out, flags |-> flags]
  /\ content' = Content'
  /\ Goto(t, "unlock")

LInit ==
  /\ Init
  /\ use_flock \in BOOLEAN
  /\ readers = {} /\ writer = NoThread /\ mutex = NoThread
  /\ me = [t \in Thread |-> Idle]
  /\ left = [t \in Thread |-> MaxCalls]
  /\ dead = {}
  /\ content = Content

\* A thread enters shmc_get or shmc_getf, whose code is the same up to the copy
\* (op "read"), or shmc_set or shmc_del.
Begin(t) ==
  /\ At(t, "idle") /\ left[t] > 0
  /\ left' = [left EXCEPT ![t] = @ - 1]
  /\ \E op \in {"read", "set", "del"}, k \in Key, v \in Text, f \in FlagSet :
       me' = [me EXCEPT ![t] =
                [pc |-> "lock", op |-> op, key |-> k, depth |-> 0, item |-> NoItem,
                 val |-> IF op = "set" THEN v ELSE <<>>,
                 flags |-> IF op = "set" THEN f ELSE NoFlags]]
  /\ UNCHANGED <<shm, locks, dead, history>>

-------------------------------------------------------------------------------
(***************************************************************************)
(* The locks.                                                              *)
(***************************************************************************)
\* Mutant: the write lock is taken as if it were the read lock.
LockShared(t) ==
  /\ At(t, "lock") /\ writer = NoThread
  /\ IF Reads(t) THEN readers' = readers \cup {t} /\ UNCHANGED writer
     ELSE writer' = t /\ UNCHANGED readers
  /\ Goto(t, "look")
  /\ UNCHANGED <<shm, use_flock, mutex, left, dead, history>>

Lock(t) ==
  /\ At(t, "lock") /\ writer = NoThread
  /\ IF Reads(t) THEN readers' = readers \cup {t} /\ UNCHANGED writer
     ELSE readers = {} /\ writer' = t /\ UNCHANGED readers
  /\ Goto(t, "look")
  /\ UNCHANGED <<shm, use_flock, mutex, left, dead, history>>

Unlock(t) ==
  /\ At(t, "unlock")
  /\ readers' = readers \ {t}
  /\ writer' = IF writer = t THEN NoThread ELSE writer
  /\ me' = [me EXCEPT ![t] = Idle]
  /\ UNCHANGED <<shm, use_flock, mutex, left, dead, history>>

\* Mutant: the mutex does not keep anybody out.
MutexIgnored(t) ==
  /\ At(t, "mutex")
  /\ mutex' = t
  /\ Goto(t, "unlist")
  /\ UNCHANGED <<shm, use_flock, readers, writer, left, dead, history>>

Mutex(t) ==
  /\ At(t, "mutex") /\ mutex = NoThread
  /\ mutex' = t
  /\ Goto(t, "unlist")
  /\ UNCHANGED <<shm, use_flock, readers, writer, left, dead, history>>

\* Mutant: the mutex is not let go.
UnmutexForgotten(t) ==
  /\ At(t, "unmutex")
  /\ Goto(t, "copy")
  /\ UNCHANGED <<shm, locks, left, dead, history>>

Unmutex(t) ==
  /\ At(t, "unmutex")
  /\ mutex' = NoThread
  /\ Goto(t, "copy")
  /\ UNCHANGED <<shm, use_flock, readers, writer, left, dead, history>>

-------------------------------------------------------------------------------
(***************************************************************************)
(* assoc_find, a step for each item it looks at. max_depth is compared and *)
(* written by threads that hold no more than the read lock.                *)
(***************************************************************************)
Path(t) == Chain(shm, me[t].key)

\* set tests the size before it looks.
Fitting(t) == me[t].op = "set" => ItemSizeOk(KeyLen[me[t].key], me[t].val.nval)

Refuse(t) ==
  /\ At(t, "look") /\ ~Fitting(t)
  /\ UNCHANGED <<shm, locks, left, dead>>
  /\ Reply(t, "set", "ESIZE", <<>>, me[t].flags)

\* On to the next item of the chain: what becomes of max_depth is decided on
\* the value it has now.
Look(t) ==
  LET d == me[t].depth + 1
  IN  /\ At(t, "look") /\ Fitting(t) /\ d <= Len(Path(t))
      /\ me' = [me EXCEPT ![t].depth = d,
                          ![t].pc = IF d > shm.max_depth THEN "raise" ELSE "compare"]
      /\ UNCHANGED <<shm, locks, left, dead, history>>

Raise(t) ==
  /\ At(t, "raise")
  /\ shm' = [shm EXCEPT !.max_depth = me[t].depth]
  /\ Goto(t, "compare")
  /\ UNCHANGED <<locks, left, dead, history>>

Compare(t) ==
  LET i == Path(t)[me[t].depth]
  IN  /\ At(t, "compare")
      /\ IF shm.item[i].key = me[t].key
         THEN me' = [me EXCEPT ![t].item = i,
                               ![t].pc = IF Reads(t) THEN "mutex" ELSE "unhash"]
         ELSE Goto(t, "look")
      /\ UNCHANGED <<shm, locks, left, dead, history>>

\* The chain is at its end: only set goes on.
Miss(t) ==
  /\ At(t, "look") /\ Fitting(t) /\ me[t].depth = Len(Path(t))
  /\ UNCHANGED <<shm, locks, left, dead>>
  /\ \/ /\ me[t].op = "set"
        /\ Goto(t, "alloc")
        /\ UNCHANGED history
     \/ /\ me[t].op # "set"
        /\ \E op \in IF Reads(t) THEN {"get", "getf"} ELSE {"del"} :
             Reply(t, op, "NOTFOUND", <<>>, NoFlags)

-------------------------------------------------------------------------------
(***************************************************************************)
(* The rest of get and getf: item_relink under the mutex, and the copy.    *)
(***************************************************************************)
Unlist(t) ==
  /\ At(t, "unlist")
  /\ shm' = ItemUnlink(shm, me[t].item)
  /\ Goto(t, IF Reads(t) THEN "relist" ELSE "free")
  /\ UNCHANGED <<locks, left, dead, history>>

Relist(t) ==
  /\ At(t, "relist")
  /\ shm' = ItemLink(shm, me[t].item)
  /\ Goto(t, "unmutex")
  /\ UNCHANGED <<locks, left, dead, history>>

Copy(t) ==
  LET it == shm.item[me[t].item]
  IN  /\ At(t, "copy")
      /\ UNCHANGED <<shm, locks, left, dead>>
      /\ \/ Reply(t, "get", "OK", it.body, it.flags)
         \/ Reply(t, "get", "SYSTEM", <<>>, NoFlags)
         \/ /\ \E n \in Capacity : n >= it.nval
            /\ Reply(t, "getf", "OK", it.body, it.flags)
         \/ /\ \E n \in Capacity : n < it.nval
            /\ Reply(t, "getf", "ESPACE", <<>>, NoFlags)

-------------------------------------------------------------------------------
(***************************************************************************)
(* The rest of del, which is also the first part of set, and of set.       *)
(***************************************************************************)
Unhash(t) ==
  /\ At(t, "unhash")
  /\ shm' = AssocDelete(shm, me[t].key)
  /\ Goto(t, "unlist")
  /\ UNCHANGED <<locks, left, dead, history>>

Free(t) ==
  /\ At(t, "free")
  /\ shm' = ItemFree(shm, me[t].item)
  /\ IF me[t].op = "set" THEN Goto(t, "alloc") /\ UNCHANGED history
     ELSE Reply(t, "del", "OK", <<>>, NoFlags)
  /\ UNCHANGED <<locks, left, dead>>

Alloc(t) ==
  LET a == ItemAlloc(shm, KeyLen[me[t].key], me[t].val.nval)
  IN  /\ At(t, "alloc")
      /\ shm' = a.shm
      /\ IF a.item = NoItem THEN Reply(t, "set", "NOMEMORY", <<>>, me[t].flags)
         ELSE me' = [me EXCEPT ![t].item = a.item, ![t].pc = "hook"] /\ UNCHANGED history
      /\ UNCHANGED <<locks, left, dead>>

Hook(t) ==
  /\ At(t, "hook")
  /\ shm' = AssocInsert(shm, me[t].key, me[t].item)
  /\ Goto(t, "list")
  /\ UNCHANGED <<locks, left, dead, history>>

List(t) ==
  /\ At(t, "list")
  /\ shm' = ItemLink(shm, me[t].item)
  /\ Goto(t, "fill")
  /\ UNCHANGED <<locks, left, dead, history>>

Fill(t) ==
  /\ At(t, "fill")
  /\ shm' = [shm EXCEPT !.item[me[t].item].flags = me[t].flags,
                        !.item[me[t].item].key   = me[t].key,
                        !.item[me[t].item].body  = me[t].val.body]
  /\ Reply(t, "set", "OK", <<>>, me[t].flags)
  /\ UNCHANGED <<locks, left, dead>>

-------------------------------------------------------------------------------
\* The process of t is killed in the middle of a call.
Die(t) ==
  /\ Alive(t) /\ me[t].pc # "idle" /\ Cardinality(dead) < MaxDeaths
  /\ dead' = dead \cup {t}
  /\ IF use_flock
     THEN readers' = readers \ {t} /\ writer' = IF writer = t THEN NoThread ELSE writer
     ELSE UNCHANGED <<readers, writer>>
  /\ UNCHANGED <<shm, use_flock, mutex, me, left, history>>

Step(t) ==
  \/ Lock(t) \/ Unlock(t) \/ Mutex(t) \/ Unmutex(t)
  \/ Refuse(t) \/ Look(t) \/ Raise(t) \/ Compare(t) \/ Miss(t)
  \/ Unlist(t) \/ Relist(t) \/ Copy(t)
  \/ Unhash(t) \/ Free(t) \/ Alloc(t) \/ Hook(t) \/ List(t) \/ Fill(t)

\* Where a thread changes lists, table or items.
Changing(t) ==
  me[t].pc \in {"unlist", "relist", "unhash", "free", "alloc", "hook", "list", "fill"}

\* With use_flock the next process enters a segment that a dead one has left
\* half-changed. What it does there is not modelled.
Torn == use_flock /\ \E t \in dead : Changing(t)

Go(t) == ~Torn /\ Step(t) /\ UNCHANGED fault

LNext ==
  \E t \in Thread :
    \/ Go(t)
    \/ Begin(t) /\ ~Torn /\ UNCHANGED fault
    \/ Die(t) /\ ~Torn /\ UNCHANGED fault

\* A thread that can go on with its call does, sooner or later: the scheduler
\* runs every thread. Nobody has to make a call, and nothing is assumed of the
\* order in which the locks are granted.
Fairness == \A t \in Thread : WF_lvars(Go(t))

LSpec == LInit /\ [][LNext]_lvars /\ Fairness

-------------------------------------------------------------------------------
(***************************************************************************)
(* Properties.                                                             *)
(***************************************************************************)
InCall(t) == Alive(t) /\ me[t].pc # "idle"
Inside(t) == InCall(t) /\ me[t].pc # "lock"

\* The locks are held by threads that are in a call, and the mutex by one that
\* holds the read lock too or has died: shmc_get and shmc_getf let the mutex go
\* before they copy.
LTypeOK ==
  /\ TypeOK
  /\ readers \subseteq Thread /\ writer \in Thread \cup {NoThread}
  /\ \A t \in readers : me[t].pc \notin {"idle", "lock"}
  /\ mutex \in readers \cup dead \cup {NoThread}
  /\ mutex # NoThread => me[mutex].pc \in {"unlist", "relist", "unmutex"}

\* A writer is in the segment alone, and of the readers no more than one changes
\* the LRU lists: shmc_get writes the lists under the read lock.
OneChanger ==
  \A t, u \in {x \in Thread : Inside(x)} :
    t # u => Reads(t) /\ Reads(u) /\ ~(Changing(t) /\ Changing(u))

\* The items that a reader, perhaps a dead one, has taken off their list.
InHands == {me[t].item : t \in {u \in Thread : me[u].pc = "relist"}}

\* While nobody has the write lock the segment is whole but for the item a
\* reader is just relinking, whoever has died before: a process that dies in a
\* set or del leaves the rwlock taken, so nobody sees what it has left half-done.
\* With use_flock that is so only until a process dies in such a place.
WholeWithoutWriter ==
  writer = NoThread /\ ~Torn =>
    /\ \A c \in Slabs :
         /\ IsInjective(shm.free[c] \o shm.lru[c])
         /\ Range(shm.free[c]) \cup Range(shm.lru[c]) \cup {i \in InHands : i[1] = c}
              = {c} \X (1 .. shm.carved[c])
    /\ UNION {Range(shm.bucket[b]) : b \in Buckets} = Linked(shm) \cup InHands
    /\ \A b \in Buckets :
         /\ IsInjective(shm.bucket[b])
         /\ \A i \in Range(shm.bucket[b]) : Slot[shm.item[i].key] = b

\* Calls that run at the same time answer as if each of them had been made at
\* one moment between its beginning and its end, on the map that Cache promises:
\* the steps that answer are steps of Cache.
Whole == INSTANCE Cache
CallsAreAtomic == Whole!Spec

\* A call ends, unless a process has died that held the rwlock or the mutex: no
\* two calls wait for each other, whatever order the locks are taken in.
Stuck == Torn \/ (readers \cup {writer, mutex}) \cap dead # {}
EveryCallEnds == \A t \in Thread : InCall(t) ~> (~InCall(t) \/ Stuck)

================================================================================
