-------------------------------- MODULE ShmcMap --------------------------------
(***************************************************************************)
(* The file behind a segment: processes create it, attach to it, work in   *)
(* it under its lock, leave it, unlink it (netshell -a) and die, all at    *)
(* the same time (shmc_init, mmap_create, mmap_attach, shmc_destroy). An   *)
(* inode outlives its token as long as a process has it mapped.            *)
(*                                                                         *)
(* proc[p].late, proc[p].epoch, disk[f].early, disk[f].items and unlinks   *)
(* are history.                                                            *)
(***************************************************************************)
EXTENDS Integers

CONSTANTS
  Proc,       \* the processes
  Attr,       \* the attributes creators bring: [nbuckets, classes, mem_limit, use_flock]
  MaxFiles,   \* bound on the files created
  MaxStarts,  \* bound on the calls of shmc_init
  Size,       \* sizeof: [version, attr, rwlock, mutex, pointer, slab]
  Nobody,     \* a lock that is free
  Stuck       \* the holder of a lock that nobody will let go of

AttrType == [nbuckets : Nat, classes : Nat, mem_limit : Nat, use_flock : BOOLEAN]

ASSUME MapAssumption ==
  /\ Attr \subseteq AttrType /\ MaxFiles \in Nat /\ MaxStarts \in Nat
  /\ Size \in [version : Nat \ {0}, attr : Nat, rwlock : Nat, mutex : Nat, pointer : Nat, slab : Nat]
  /\ Nobody \notin Proc /\ Stuck \notin Proc /\ Nobody # Stuck

VARIABLES
  token,     \* the inode the token names, or 0
  last,      \* the last inode made
  unlinks,   \* how often the token was unlinked
  starts,    \* how often a process has come
  disk,      \* the inodes
  proc       \* the processes

vars == <<token, last, unlinks, starts, disk, proc>>

Inode == 1 .. MaxFiles

-------------------------------------------------------------------------------
(***************************************************************************)
(* The layout of the mapping. classes stands for what count_of_slabs makes *)
(* of the item sizes (see SlabFormat).                                     *)
(***************************************************************************)
\* Mutant: the tails of the lists are not counted.
SizeOfMmapShort(a) ==
  Size.version + Size.attr + Size.rwlock + Size.mutex
  + Size.pointer * a.classes
  + Size.pointer * a.nbuckets
  + Size.slab * a.classes + a.mem_limit

SizeOfMmap(a) ==
  Size.version + Size.attr + Size.rwlock + Size.mutex
  + Size.pointer * a.classes + Size.pointer * a.classes
  + Size.pointer * a.nbuckets
  + Size.slab * a.classes + a.mem_limit

\* Where the lists, the table, the slabs and the memory start.
FormatMmap(a) ==
  LET heads   == Size.version + Size.attr + Size.rwlock + Size.mutex
      tails   == heads + Size.pointer * a.classes
      buckets == tails + Size.pointer * a.classes
      slabs   == buckets + Size.pointer * a.nbuckets
  IN  [heads |-> heads, tails |-> tails, buckets |-> buckets, slabs |-> slabs,
       raw |-> slabs + Size.slab * a.classes]

\* The attributes in a file that nobody has written to.
Zero == [nbuckets |-> 0, classes |-> 0, mem_limit |-> 0, use_flock |-> FALSE]

\* What may be read of attributes that are being copied over zeros.
Torn(a) ==
  [nbuckets : {0, a.nbuckets}, classes : {0, a.classes, a.classes + 1},
   mem_limit : {0, a.mem_limit}, use_flock : {FALSE, a.use_flock}]

\* A file as open creates it. rw and fl are the write locks: of the rwlock in the
\* segment, and of fcntl.
Blank ==
  [len |-> 0, version |-> FALSE, attr |-> Zero, copying |-> FALSE, rw |-> Nobody,
   fl |-> Nobody, done |-> FALSE, items |-> {}, early |-> FALSE, spoilt |-> FALSE]

Attributes(f) == IF disk[f].copying THEN Torn(disk[f].attr) ELSE {disk[f].attr}

\* The layout the creator has given the file.
Layout(f) == FormatMmap(disk[f].attr)

Off == [pc |-> "off", file |-> 0, attr |-> Zero, late |-> FALSE, epoch |-> 0]

Init ==
  /\ token = 0 /\ last = 0 /\ unlinks = 0 /\ starts = 0
  /\ disk = [f \in Inode |-> Blank] /\ proc = [p \in Proc |-> Off]

At(p, pc) == proc[p].pc = pc
Goto(p, pc) == proc' = [proc EXCEPT ![p].pc = pc]
Write(f, d) == disk' = [disk EXCEPT ![f] = d]

\* shmc_init answers an error, shmc_destroy has returned, or the process is dead.
Return(p) == proc' = [proc EXCEPT ![p] = Off]

\* The kernel drops the fcntl lock of a process that closes the file.
Closed(p, f) == [disk[f] EXCEPT !.fl = IF @ = p THEN Nobody ELSE @]

-------------------------------------------------------------------------------
(***************************************************************************)
(* Creating.                                                               *)
(***************************************************************************)
\* netshell with or without -a, or another program, calls shmc_init.
Begin(p) ==
  /\ At(p, "off") /\ starts < MaxStarts /\ starts' = starts + 1
  /\ \/ \E a \in Attr, pc \in {"unlink", "create"} :
          proc' = [proc EXCEPT ![p] = [Off EXCEPT !.pc = pc, !.attr = a]]
     \/ proc' = [proc EXCEPT ![p] = [Off EXCEPT !.pc = "attach"]]
  /\ UNCHANGED <<token, last, unlinks, disk>>

Unlink(p) ==
  /\ At(p, "unlink") /\ Goto(p, "create")
  /\ token' = 0 /\ unlinks' = IF token = 0 THEN unlinks ELSE unlinks + 1
  /\ UNCHANGED <<last, starts, disk>>

Opened(p, f, pc) ==
  proc' = [proc EXCEPT ![p].pc = pc, ![p].file = f, ![p].epoch = unlinks,
                       ![p].late = disk[f].done]

\* Mutant: without O_EXCL a file that is there is opened.
OpenAnyway(p) ==
  /\ At(p, "create")
  /\ IF token = 0
     THEN /\ last < MaxFiles
          /\ token' = last + 1 /\ last' = last + 1 /\ Opened(p, last + 1, "truncate")
     ELSE Opened(p, token, "truncate") /\ UNCHANGED <<token, last>>
  /\ UNCHANGED <<unlinks, starts, disk>>

\* O_CREAT | O_EXCL; SHMC_ECREATE if the file is there.
Open(p) ==
  /\ At(p, "create")
  /\ IF token = 0
     THEN /\ last < MaxFiles
          /\ token' = last + 1 /\ last' = last + 1 /\ Opened(p, last + 1, "truncate")
     ELSE Return(p) /\ UNCHANGED <<token, last>>
  /\ UNCHANGED <<unlinks, starts, disk>>

Truncate(p) ==
  LET f == proc[p].file
  IN  /\ At(p, "truncate") /\ Goto(p, "map")
      /\ Write(f, [disk[f] EXCEPT !.len = SizeOfMmap(proc[p].attr)])
      /\ UNCHANGED <<token, last, unlinks, starts>>

\* The file is mapped, its version written, and the attributes are on their way.
Map(p) ==
  LET f == proc[p].file
  IN  /\ At(p, "map") /\ Goto(p, "copy")
      /\ Write(f, [disk[f] EXCEPT !.version = TRUE, !.attr = proc[p].attr, !.copying = TRUE])
      /\ UNCHANGED <<token, last, unlinks, starts>>

Copy(p) ==
  LET f == proc[p].file
  IN  /\ At(p, "copy") /\ Goto(p, "locks")
      /\ Write(f, [disk[f] EXCEPT !.copying = FALSE])
      /\ UNCHANGED <<token, last, unlinks, starts>>

\* pthread_rwlock_init, whoever holds the lock.
InitLocks(p) ==
  LET f == proc[p].file
  IN  /\ At(p, "locks") /\ Goto(p, "lists")
      /\ Write(f, [disk[f] EXCEPT !.rw = Nobody])
      /\ UNCHANGED <<token, last, unlinks, starts>>

\* The lists and the table are emptied, then the pool is cut.
InitLists(p) ==
  LET f == proc[p].file
  IN  /\ At(p, "lists") /\ Goto(p, "slabs")
      /\ Write(f, [disk[f] EXCEPT !.items = {}])
      /\ UNCHANGED <<token, last, unlinks, starts>>

FormatSlabs(p) ==
  LET f == proc[p].file
  IN  /\ At(p, "slabs") /\ Goto(p, "run")
      /\ Write(f, [disk[f] EXCEPT !.done = TRUE])
      /\ UNCHANGED <<token, last, unlinks, starts>>

\* Mutant: what was created is removed again when the creation fails.
FailTidily(p) ==
  LET f == proc[p].file
  IN  /\ proc[p].pc \in {"create", "truncate", "map", "attach", "look", "remap"}
      /\ Return(p)
      /\ IF f = 0 THEN UNCHANGED disk ELSE Write(f, Closed(p, f))
      /\ token' = IF proc[p].pc \in {"truncate", "map"} THEN 0 ELSE token
      /\ UNCHANGED <<last, unlinks, starts>>

\* open, ftruncate or mmap fails. The file stays.
Fail(p) ==
  LET f == proc[p].file
  IN  /\ proc[p].pc \in {"create", "truncate", "map", "attach", "look", "remap"}
      /\ Return(p)
      /\ IF f = 0 THEN UNCHANGED disk ELSE Write(f, Closed(p, f))
      /\ UNCHANGED <<token, last, unlinks, starts>>

Creating == {"truncate", "map", "copy", "locks", "lists", "slabs"}

-------------------------------------------------------------------------------
(***************************************************************************)
(* Attaching.                                                              *)
(***************************************************************************)
\* SHMC_ETOKEN if there is no file.
OpenToken(p) ==
  /\ At(p, "attach")
  /\ IF token = 0
     THEN Return(p) /\ UNCHANGED disk
     ELSE /\ Opened(p, token, "look")
          /\ Write(token, [disk[token] EXCEPT !.early = @ \/ ~disk[token].done])
  /\ UNCHANGED <<token, last, unlinks, starts>>

\* The first map. An empty file has no page to read the version from (SIGBUS);
\* without its version it is refused (SHMC_EVERSION).
Look(p) ==
  LET f == proc[p].file
  IN  /\ At(p, "look")
      /\ IF disk[f].len = 0 \/ ~disk[f].version
         THEN Return(p) /\ Write(f, Closed(p, f))
         ELSE Goto(p, "measure") /\ UNCHANGED disk
      /\ UNCHANGED <<token, last, unlinks, starts>>

\* The attributes tell the layout. Item sizes without their factor send
\* count_of_slabs round for ever.
Measure(p) ==
  LET f == proc[p].file
  IN  /\ At(p, "measure")
      /\ \/ \E a \in Attributes(f) :
              proc' = [proc EXCEPT ![p].pc = "remap", ![p].attr = a]
         \/ disk[f].copying /\ Goto(p, "spin")
      /\ UNCHANGED <<token, last, unlinks, starts, disk>>

\* Mutant: the locks are initialised by whoever comes.
RemapAfresh(p) ==
  LET f == proc[p].file
  IN  /\ At(p, "remap") /\ Goto(p, "run") /\ Write(f, [disk[f] EXCEPT !.rw = Nobody])
      /\ UNCHANGED <<token, last, unlinks, starts>>

Remap(p) == At(p, "remap") /\ Goto(p, "run") /\ UNCHANGED <<token, last, unlinks, starts, disk>>

-------------------------------------------------------------------------------
(***************************************************************************)
(* Working, leaving and dying. Calls take the write lock here; what a      *)
(* reader does in the meantime is in ShmcLock.                             *)
(***************************************************************************)
Holder(f, flock) == IF flock THEN disk[f].fl ELSE disk[f].rw

\* A call of shmc.h, or shmc_destroy.
Lock(p) ==
  LET f == proc[p].file
  IN  /\ At(p, "run")
      /\ \E a \in Attributes(f) :
           /\ Holder(f, a.use_flock) = Nobody
           /\ IF a.use_flock THEN Write(f, [disk[f] EXCEPT !.fl = p])
                             ELSE Write(f, [disk[f] EXCEPT !.rw = p])
      /\ \E pc \in {"in", "leave"} : Goto(p, pc)
      /\ UNCHANGED <<token, last, unlinks, starts>>

\* The call finds what the creator has laid out.
Sound(p) == LET f == proc[p].file IN
  disk[f].done /\ ~disk[f].spoilt /\ FormatMmap(proc[p].attr) = Layout(f)

\* What shmc_unlock makes of the rwlock: one that is not held is undone.
Released(p, rw) == IF rw = p THEN {Nobody} ELSE {Nobody, Stuck}

Unlocked(p, f, d) ==
  \E a \in Attributes(f) :
    IF a.use_flock THEN Write(f, [d EXCEPT !.fl = IF @ = p THEN Nobody ELSE @])
    ELSE \E rw \in Released(p, d.rw) : Write(f, [d EXCEPT !.rw = rw])

\* A call stores an item, or writes where it should not, and lets go.
Work(p) ==
  LET f == proc[p].file
  IN  /\ At(p, "in") /\ Goto(p, "run")
      /\ Unlocked(p, f, IF Sound(p) THEN [disk[f] EXCEPT !.items = @ \cup {p}]
                        ELSE [disk[f] EXCEPT !.spoilt = TRUE])
      /\ UNCHANGED <<token, last, unlinks, starts>>

\* shmc_destroy, once it has the size, lets go and unmaps.
Destroy(p) ==
  LET f == proc[p].file
  IN  /\ At(p, "leave") /\ Return(p)
      /\ Unlocked(p, f, Closed(p, f))
      /\ UNCHANGED <<token, last, unlinks, starts>>

\* Mutant: the fcntl lock stays, as the rwlock does.
DieHolding(p) ==
  LET f == proc[p].file
  IN  /\ ~At(p, "off") /\ Return(p)
      /\ IF f = 0 THEN UNCHANGED disk
         ELSE Write(f, [disk[f] EXCEPT !.rw = IF @ = p THEN Stuck ELSE @])
      /\ UNCHANGED <<token, last, unlinks, starts>>

\* The rwlock of a dead process stays taken, the fcntl lock does not.
Die(p) ==
  LET f == proc[p].file
  IN  /\ ~At(p, "off") /\ Return(p)
      /\ IF f = 0 THEN UNCHANGED disk
         ELSE Write(f, [Closed(p, f) EXCEPT !.rw = IF @ = p THEN Stuck ELSE @])
      /\ UNCHANGED <<token, last, unlinks, starts>>

Step(p) ==
  \/ Begin(p) \/ Unlink(p) \/ Open(p) \/ Truncate(p) \/ Map(p) \/ Copy(p)
  \/ InitLocks(p) \/ InitLists(p) \/ FormatSlabs(p) \/ Fail(p)
  \/ OpenToken(p) \/ Look(p) \/ Measure(p) \/ Remap(p)
  \/ Lock(p) \/ Work(p) \/ Destroy(p) \/ Die(p)

Next == \E p \in Proc : Step(p)

Spec == Init /\ [][Next]_vars

-------------------------------------------------------------------------------
(***************************************************************************)
(* Properties.                                                             *)
(***************************************************************************)
Attached == {"run", "in", "leave"}
Mapping == Creating \cup Attached \cup {"look", "measure", "remap", "spin"}

File ==
  [len : Nat, version : BOOLEAN, attr : AttrType, copying : BOOLEAN,
   rw : Proc \cup {Nobody, Stuck}, fl : Proc \cup {Nobody}, done : BOOLEAN,
   items : SUBSET Proc, early : BOOLEAN, spoilt : BOOLEAN]

\* Fields are in range, files are made in order, processes map files that exist,
\* and the kernel keeps fcntl locks for processes that have the file open.
TypeOK ==
  /\ last \in 0 .. MaxFiles /\ token \in 0 .. last /\ unlinks \in Nat /\ starts \in 0 .. MaxStarts
  /\ disk \in [Inode -> File]
  /\ proc \in [Proc -> [pc : Mapping \cup {"off", "unlink", "create", "attach"},
                        file : 0 .. last, attr : AttrType, late : BOOLEAN, epoch : 0 .. unlinks]]
  /\ \A p \in Proc : proc[p].pc \in Mapping <=> proc[p].file # 0
  /\ \A f \in Inode, p \in Proc : disk[f].fl = p => proc[p].file = f

\* "We can attach after create" (reader.c:41): whoever opens the token once it
\* names a finished file has no broken mapping and no wrong version in store, and
\* finds the layout of the creator, which ends where the file ends.
LateAttachSound ==
  \A p \in Proc :
    LET f == proc[p].file
    IN  proc[p].pc \in Mapping /\ proc[p].late =>
          /\ disk[f].done /\ disk[f].version /\ disk[f].len # 0 /\ proc[p].pc # "spin"
          /\ Layout(f).raw + disk[f].attr.mem_limit = disk[f].len
          /\ proc[p].pc \in Attached \cup {"remap"} =>
               FormatMmap(proc[p].attr) = Layout(f)

\* "Only one process can create" (shmc.c:202): no two processes format a file, and
\* nobody formats a file that is finished, whoever unlinks the token, dies or fails
\* in the meantime.
OneMaker ==
  \A p \in Proc : proc[p].pc \in Creating =>
    /\ ~disk[proc[p].file].done
    /\ \A q \in Proc : proc[q].pc \in Creating /\ proc[q].file = proc[p].file => q = p

\* Processes that opened the token with no unlink in between share a file: a token
\* is never given to a second file, however creations fail.
SharedUnlessUnlinked ==
  \A p, q \in Proc :
    proc[p].pc \in Mapping /\ proc[q].pc \in Mapping /\ proc[p].epoch = proc[q].epoch
      => proc[p].file = proc[q].file

\* Two processes are in a file together only if somebody had opened it before it
\* was finished: then the lock may have been initialised, or changed for the other
\* kind of lock, while it was held.
AloneUnlessEarly ==
  \A p, q \in Proc :
    /\ p # q /\ proc[p].pc \in {"in", "leave"} /\ proc[q].pc \in {"in", "leave"}
    /\ proc[p].file = proc[q].file
    => disk[proc[p].file].early

\* A finished file stays finished, with what is stored in it, and of the processes
\* that use it only one that came early can spoil it.
FinishedStays ==
  [][\A f \in Inode : disk[f].done =>
       /\ disk'[f].done /\ disk[f].items \subseteq disk'[f].items
       /\ disk'[f].spoilt => disk[f].early]_vars

================================================================================
