----------------------------- MODULE ShmcMapProofs -----------------------------
(***************************************************************************)
(* The safety of ShmcMap, for any number of processes, files and starts,   *)
(* any attributes and any sizes.                                           *)
(***************************************************************************)
EXTENDS ShmcMap, TLAPS

\* Files that are not made yet are blank.
FreshBlank == \A f \in Inode : f > last => disk[f] = Blank

\* Whoever opened since the last unlink has the file the token names.
TokenShared ==
  \A p \in Proc :
    proc[p].pc \in Mapping /\ proc[p].epoch = unlinks => proc[p].file = token

\* What the creator has written of the file by the time it is at a step.
Progress ==
  \A p \in Proc :
    LET f == proc[p].file
    IN  /\ proc[p].pc \in Creating \ {"truncate"} =>
             disk[f].len = SizeOfMmap(proc[p].attr)
        /\ proc[p].pc \in Creating \ {"truncate", "map"} =>
             disk[f].version /\ disk[f].attr = proc[p].attr
        /\ proc[p].pc \in {"locks", "lists", "slabs"} => ~disk[f].copying

\* What is true of a finished file.
Finished ==
  \A f \in Inode : disk[f].done =>
    /\ disk[f].version /\ ~disk[f].copying
    /\ disk[f].len = SizeOfMmap(disk[f].attr)

\* Of those that use a file: it is finished if they came late, or if nobody came
\* early, and then they have the attributes of its creator.
Users ==
  \A p \in Proc :
    LET f == proc[p].file
    IN  proc[p].pc \in Mapping \ Creating /\ (proc[p].late \/ ~disk[f].early) =>
          /\ disk[f].done /\ proc[p].pc # "spin"
          /\ proc[p].pc \in Attached \cup {"remap"} => proc[p].attr = disk[f].attr

\* A creator has not come late.
Makers == \A p \in Proc : proc[p].pc \in Creating => ~proc[p].late

\* In a file that nobody opened early a process that works holds the lock.
Holders ==
  \A p \in Proc :
    LET f == proc[p].file
    IN  proc[p].pc \in {"in", "leave"} /\ ~disk[f].early =>
          Holder(f, disk[f].attr.use_flock) = p

\* Only who came early has spoilt a file.
SpoiltEarly == \A f \in Inode : disk[f].spoilt => disk[f].early

MapInv ==
  /\ TypeOK /\ FreshBlank /\ TokenShared /\ SharedUnlessUnlinked /\ OneMaker
  /\ Progress /\ Finished /\ Users /\ Makers /\ Holders /\ SpoiltEarly

Pcs == Mapping \cup {"off", "unlink", "create", "attach"}
State ==
  [pc : Pcs, file : 0 .. last, attr : AttrType, late : BOOLEAN, epoch : 0 .. unlinks]

-------------------------------------------------------------------------------
(***************************************************************************)
(* A step of p that leaves it with the record u and its file f with the    *)
(* record d.                                                               *)
(***************************************************************************)
Moves(p, u, f, d) ==
  /\ proc' = [proc EXCEPT ![p] = u] /\ disk' = [disk EXCEPT ![f] = d]
  /\ UNCHANGED <<token, last, unlinks, starts>>

\* p keeps its file, opens the token, or lets go.
Stays(p, u, f) ==
  /\ u.pc \in Mapping <=> u.file # 0
  /\ u.file \in {0, f} /\ proc[p].file \in {0, f}
  /\ u.file # 0 => \/ u.file = proc[p].file /\ u.epoch = proc[p].epoch
                   \/ u.file = token /\ u.epoch = unlinks

\* What the invariant says of p and f afterwards.
Own(p, u, d) ==
  /\ u.pc \in Creating => ~d.done /\ ~u.late /\ proc[p].pc \in Creating
  /\ u.pc \in Creating \ {"truncate"} => d.len = SizeOfMmap(u.attr)
  /\ u.pc \in Creating \ {"truncate", "map"} => d.version /\ d.attr = u.attr
  /\ u.pc \in {"locks", "lists", "slabs"} => ~d.copying
  /\ u.pc \in Mapping \ Creating /\ (u.late \/ ~d.early) =>
       /\ d.done /\ u.pc # "spin"
       /\ u.pc \in Attached \cup {"remap"} => u.attr = d.attr
  /\ u.pc \in {"in", "leave"} /\ ~d.early =>
       (IF d.attr.use_flock THEN d.fl ELSE d.rw) = p
  /\ d.done => d.version /\ ~d.copying /\ d.len = SizeOfMmap(d.attr)
  /\ d.spoilt => d.early

\* What it does to the others that have f open: nothing, unless p is its creator,
\* or the file was opened early and its lock means nothing.
Spares(p, u, f, d) ==
  /\ disk[f].early => d.early
  /\ disk[f].done => d.done
  /\ \A q \in Proc \ {p} : d.fl = q => disk[f].fl = q
  /\ d.fl = p => u.file = f
  /\ \/ proc[p].pc \in Creating
     \/ /\ d.len = disk[f].len /\ d.version = disk[f].version /\ d.attr = disk[f].attr
        /\ d.copying = disk[f].copying /\ d.done = disk[f].done
        /\ ~d.early => \A q \in Proc \ {p} :
             (disk[f].rw = q => d.rw = q) /\ (disk[f].fl = q => d.fl = q)

\* Such a step keeps the invariant.
LEMMA MoveKeeps ==
  ASSUME MapInv, NEW p \in Proc, NEW u \in State, NEW f \in 1 .. last, NEW d \in File,
         Moves(p, u, f, d), Stays(p, u, f), Own(p, u, d), Spares(p, u, f, d)
  PROVE  MapInv'
<1>1. /\ proc \in [Proc -> State] /\ disk \in [Inode -> File] /\ f \in Inode
      /\ \A q \in Proc : proc[q].pc \in Mapping <=> proc[q].file # 0
      /\ \A g \in Inode, q \in Proc : disk[g].fl = q => proc[q].file = g
      /\ last \in 0 .. MaxFiles /\ MaxFiles \in Nat
  BY MapAssumption DEF MapInv, TypeOK, State, Pcs, Inode
<1>2. /\ proc'[p] = u /\ \A q \in Proc \ {p} : proc'[q] = proc[q]
      /\ disk'[f] = d /\ \A g \in Inode \ {f} : disk'[g] = disk[g]
      /\ token' = token /\ last' = last /\ unlinks' = unlinks /\ starts' = starts
      /\ DOMAIN proc' = Proc /\ DOMAIN disk' = Inode
  BY <1>1 DEF Moves
<1>3. \A q \in Proc : proc[q].file \in 0 .. last /\ (proc[q].pc \in Mapping => proc[q].file \in Inode)
  <2>1. \A q \in Proc : proc[q].file \in 0 .. last
    BY <1>1 DEF State
  <2>2. ASSUME NEW q \in Proc, proc[q].pc \in Mapping PROVE proc[q].file \in Inode
    <3>1. proc[q].file # 0 /\ proc[q].file \in 0 .. last
      BY <2>1, <2>2, <1>1
    <3> QED
      BY <3>1, <1>1 DEF Inode
  <2> QED
    BY <2>1, <2>2
<1>4. u.pc \in Pcs /\ u.file \in 0 .. last /\ u.epoch \in 0 .. unlinks
  BY DEF State
<1>5. TypeOK'
  <2>1. disk' \in [Inode -> File] /\ proc' \in [Proc -> State]
    BY <1>1 DEF Moves
  <2>2. \A q \in Proc : proc'[q].pc \in Mapping <=> proc'[q].file # 0
    BY <1>1, <1>2 DEF Stays
  <2>3. \A g \in Inode, q \in Proc : disk'[g].fl = q => proc'[q].file = g
    <3> SUFFICES ASSUME NEW g \in Inode, NEW q \in Proc, disk'[g].fl = q
                 PROVE  proc'[q].file = g
      OBVIOUS
    <3>1. CASE g = f
      BY <3>1, <1>1, <1>2 DEF Spares
    <3>2. CASE g # f
      <4>1. proc[q].file = g
        BY <3>2, <1>1, <1>2
      <4>2. g # 0
        BY DEF Inode
      <4> QED
        BY <3>2, <4>1, <4>2, <1>2 DEF Stays
    <3> QED
      BY <3>1, <3>2
  <2> QED
    BY <2>1, <2>2, <2>3, <1>2 DEF TypeOK, MapInv, State, Pcs
<1>6. FreshBlank'
  BY <1>1, <1>2 DEF FreshBlank, MapInv
<1>7. \A q \in Proc : proc'[q].file # 0 =>
        \/ proc'[q].file = proc[q].file /\ proc'[q].epoch = proc[q].epoch
        \/ proc'[q].file = token /\ proc'[q].epoch = unlinks
  BY <1>2 DEF Stays
<1>8. \A q \in Proc : proc'[q].pc \in Mapping <=> proc'[q].file # 0
  BY <1>5 DEF TypeOK
<1>9. TokenShared'
  BY <1>1, <1>2, <1>7, <1>8 DEF TokenShared, MapInv
<1>10. SharedUnlessUnlinked'
  BY <1>1, <1>2, <1>7, <1>8 DEF SharedUnlessUnlinked, TokenShared, MapInv
<1>11. ASSUME NEW q \in Proc \ {p}, proc[q].pc \in Creating, proc[q].file = f
       PROVE  proc[p].pc \notin Creating
  <2>1. proc[p].pc \in Creating => proc[p].file = f
    BY <1>1 DEF Stays, Mapping
  <2> QED
    BY <1>11, <2>1 DEF MapInv, OneMaker
<1>12. ASSUME NEW q \in Proc \ {p}, proc[q].pc \in Mapping \ Creating, proc[q].file = f,
              proc[q].late \/ ~d.early
       PROVE  proc[p].pc \notin Creating
  <2>1. disk[f].done
    BY <1>12 DEF MapInv, Users, Spares
  <2>2. proc[p].pc \in Creating => proc[p].file = f
    BY <1>1 DEF Stays, Mapping
  <2> QED
    BY <2>1, <2>2 DEF MapInv, OneMaker
<1>13. OneMaker'
  <2>1. ASSUME NEW q \in Proc, proc'[q].pc \in Creating
        PROVE  /\ ~disk'[proc'[q].file].done
               /\ \A r \in Proc : proc'[r].pc \in Creating /\ proc'[r].file = proc'[q].file => r = q
    <3>1. \A r \in Proc : proc'[r].pc \in Creating =>
            proc[r].pc \in Creating /\ proc[r].file = proc'[r].file /\ proc'[r].file \in Inode
      <4> SUFFICES ASSUME NEW r \in Proc, proc'[r].pc \in Creating
                   PROVE  proc[r].pc \in Creating /\ proc[r].file = proc'[r].file
                          /\ proc'[r].file \in Inode
        OBVIOUS
      <4>1. proc[r].pc \in Creating
        BY <1>2 DEF Own
      <4>2. proc[r].file \in Inode /\ proc'[r].file # 0
        BY <4>1, <1>3, <1>8 DEF Mapping
      <4> QED
        BY <4>1, <4>2, <1>2 DEF Stays, Inode
    <3>2. ~disk'[proc'[q].file].done
      <4>1. CASE q = p
        BY <4>1, <2>1, <3>1, <1>2 DEF Own, Stays, Inode
      <4>2. CASE q # p /\ proc[q].file = f
        BY <4>2, <2>1, <1>2, <1>11 DEF MapInv, OneMaker, Spares
      <4>3. CASE q # p /\ proc[q].file # f
        BY <4>3, <2>1, <3>1, <1>2 DEF MapInv, OneMaker
      <4> QED
        BY <4>1, <4>2, <4>3
    <3> QED
      BY <2>1, <3>1, <3>2 DEF MapInv, OneMaker
  <2> QED
    BY <2>1 DEF OneMaker
<1>14. ASSUME NEW q \in Proc, q # p, proc[q].pc \in Mapping
       PROVE  proc'[q] = proc[q] /\ proc[q].file \in Inode
              /\ (proc[q].file # f => disk'[proc[q].file] = disk[proc[q].file])
  BY <1>14, <1>2, <1>3
<1>15. p \in Proc /\ (u.pc \in Mapping => u.file = f /\ disk'[u.file] = d)
  BY <1>2 DEF Stays
<1>16. Progress'
  <2> SUFFICES ASSUME NEW q \in Proc, proc'[q].pc \in Creating
               PROVE  LET g == proc'[q].file
                      IN  /\ proc'[q].pc \in Creating \ {"truncate"} =>
                               disk'[g].len = SizeOfMmap(proc'[q].attr)
                          /\ proc'[q].pc \in Creating \ {"truncate", "map"} =>
                               disk'[g].version /\ disk'[g].attr = proc'[q].attr
                          /\ proc'[q].pc \in {"locks", "lists", "slabs"} => ~disk'[g].copying
    BY DEF Progress, Creating
  <2>1. CASE q = p
    BY <2>1, <1>2, <1>15 DEF Own, Mapping
  <2>2. CASE q # p /\ proc[q].file = f
    BY <2>2, <1>2, <1>11 DEF MapInv, Progress, Spares
  <2>3. CASE q # p /\ proc[q].file # f
    BY <2>3, <1>2, <1>14 DEF MapInv, Progress, Mapping
  <2> QED
    BY <2>1, <2>2, <2>3
<1>17. Finished'
  <2> SUFFICES ASSUME NEW g \in Inode, disk'[g].done
               PROVE  /\ disk'[g].version /\ ~disk'[g].copying
                      /\ disk'[g].len = SizeOfMmap(disk'[g].attr)
    BY DEF Finished
  <2>1. CASE g = f
    BY <2>1, <1>2 DEF Own
  <2>2. CASE g # f
    BY <2>2, <1>2 DEF MapInv, Finished
  <2> QED
    BY <2>1, <2>2
<1>18. Users'
  <2> SUFFICES ASSUME NEW q \in Proc, proc'[q].pc \in Mapping \ Creating,
                      proc'[q].late \/ ~disk'[proc'[q].file].early
               PROVE  LET g == proc'[q].file
                      IN  /\ disk'[g].done /\ proc'[q].pc # "spin"
                          /\ proc'[q].pc \in Attached \cup {"remap"} =>
                               proc'[q].attr = disk'[g].attr
    BY DEF Users
  <2>1. CASE q = p
    BY <2>1, <1>2, <1>15 DEF Own
  <2>2. CASE q # p /\ proc[q].file = f
    <3>1. proc[p].pc \notin Creating
      BY <2>2, <1>2, <1>12
    <3> QED
      BY <2>2, <3>1, <1>2 DEF MapInv, Users, Spares
  <2>3. CASE q # p /\ proc[q].file # f
    BY <2>3, <1>2, <1>14 DEF MapInv, Users
  <2> QED
    BY <2>1, <2>2, <2>3
<1>19. Makers'
  BY <1>2 DEF Makers, MapInv, Own
<1>20. Holders'
  <2> SUFFICES ASSUME NEW q \in Proc, proc'[q].pc \in {"in", "leave"},
                      ~disk'[proc'[q].file].early
               PROVE  LET g == proc'[q].file
                      IN  (IF disk'[g].attr.use_flock THEN disk'[g].fl ELSE disk'[g].rw) = q
    BY DEF Holders, Holder
  <2>1. CASE q = p
    BY <2>1, <1>2, <1>15 DEF Own, Mapping, Attached
  <2>2. proc'[q].pc \in Mapping \ Creating
    BY DEF Mapping, Attached, Creating
  <2>3. CASE q # p /\ proc[q].file = f
    <3>1. proc[p].pc \notin Creating
      BY <2>2, <2>3, <1>2, <1>12
    <3>2. (IF disk[f].attr.use_flock THEN disk[f].fl ELSE disk[f].rw) = q
      BY <2>3, <1>2 DEF MapInv, Holders, Holder, Spares
    <3> QED
      BY <2>3, <3>1, <3>2, <1>2 DEF Spares
  <2>4. CASE q # p /\ proc[q].file # f
    BY <2>2, <2>4, <1>2, <1>14 DEF MapInv, Holders, Holder
  <2> QED
    BY <2>1, <2>3, <2>4
<1>21. SpoiltEarly'
  BY <1>2 DEF SpoiltEarly, MapInv, Own
<1> QED
  BY <1>5, <1>6, <1>9, <1>10, <1>13, <1>16, <1>17, <1>18, <1>19, <1>20, <1>21 DEF MapInv

-------------------------------------------------------------------------------
(***************************************************************************)
(* The steps. First what the invariant says of a process that has a file.  *)
(***************************************************************************)
LEMMA HasFile ==
  ASSUME MapInv, NEW p \in Proc, proc[p].pc \in Mapping
  PROVE  /\ proc[p] \in State /\ proc[p].file \in 1 .. last /\ proc[p].file \in Inode
         /\ disk[proc[p].file] \in File /\ disk \in [Inode -> File] /\ proc \in [Proc -> State]
<1>1. /\ proc \in [Proc -> State] /\ disk \in [Inode -> File] /\ last \in 0 .. MaxFiles
      /\ proc[p].file # 0
  BY DEF MapInv, TypeOK, State, Pcs
<1>2. proc[p] \in State /\ proc[p].file \in 1 .. last
  BY <1>1 DEF State
<1>3. proc[p].file \in Inode
  BY <1>1, <1>2, MapAssumption DEF Inode
<1> QED
  BY <1>1, <1>2, <1>3

\* A step of p from pc to pc that keeps the rest of its record.
LEMMA GotoKeeps ==
  ASSUME MapInv, NEW p \in Proc, proc[p].pc \in Mapping, NEW pc \in Mapping, NEW d \in File,
         Goto(p, pc), Write(proc[p].file, d), UNCHANGED <<token, last, unlinks, starts>>,
         Own(p, [proc[p] EXCEPT !.pc = pc], d),
         Spares(p, [proc[p] EXCEPT !.pc = pc], proc[p].file, d)
  PROVE  MapInv'
<1> DEFINE f == proc[p].file
           u == [proc[p] EXCEPT !.pc = pc]
<1>1. proc[p] \in State /\ f \in 1 .. last /\ proc \in [Proc -> State]
  BY HasFile
<1>2. u \in State /\ u.file = f /\ u.epoch = proc[p].epoch /\ u.pc = pc
  BY <1>1 DEF State, Pcs
<1>3. Moves(p, u, f, d)
  BY <1>1 DEF Moves, Goto, Write
<1>4. Stays(p, u, f)
  BY <1>1, <1>2 DEF Stays
<1> HIDE DEF f, u
<1>5. Own(p, u, d) /\ Spares(p, u, f, d)
  BY DEF f, u
<1> QED
  BY <1>1, <1>2, <1>3, <1>4, <1>5, MoveKeeps

\* Setting the length, the first step of a creator keeps the invariant.
LEMMA TruncateKeeps == ASSUME MapInv, NEW p \in Proc, Truncate(p) PROVE MapInv'
<1> DEFINE f == proc[p].file
           d == [disk[f] EXCEPT !.len = SizeOfMmap(proc[p].attr)]
           u == [proc[p] EXCEPT !.pc = "map"]
<1>1. /\ proc[p].pc = "truncate" /\ proc[p].pc \in Mapping /\ proc[p].pc \in Creating
      /\ "map" \in Mapping
  BY DEF Truncate, At, Mapping, Creating, Attached
<1>2. proc[p] \in State /\ f \in Inode /\ disk[f] \in File
  BY <1>1, HasFile
<1>3. d \in File /\ u.pc = "map" /\ u.attr = proc[p].attr /\ u.file = f /\ u.late = proc[p].late
  BY <1>2, MapAssumption DEF File, State, AttrType, SizeOfMmap
<1>4. ~disk[f].done /\ ~proc[p].late
  BY <1>1 DEF MapInv, OneMaker, Makers
<1>5. Own(p, u, d)
  BY <1>1, <1>2, <1>3, <1>4
  DEF MapInv, SpoiltEarly, Own, Mapping, Creating, File, State
<1>6. Spares(p, u, f, d)
  BY <1>1, <1>2, <1>3 DEF MapInv, TypeOK, Spares, File
<1> QED
  BY <1>1, <1>3, <1>5, <1>6, GotoKeeps DEF Truncate

\* Mapping, and writing the version keeps the invariant.
LEMMA MapKeeps == ASSUME MapInv, NEW p \in Proc, Map(p) PROVE MapInv'
<1> DEFINE f == proc[p].file
           d == [disk[f] EXCEPT !.version = TRUE, !.attr = proc[p].attr, !.copying = TRUE]
           u == [proc[p] EXCEPT !.pc = "copy"]
<1>1. /\ proc[p].pc = "map" /\ proc[p].pc \in Mapping /\ proc[p].pc \in Creating
      /\ "copy" \in Mapping
  BY DEF Map, At, Mapping, Creating, Attached
<1>2. proc[p] \in State /\ f \in Inode /\ disk[f] \in File
  BY <1>1, HasFile
<1>3. d \in File /\ u.pc = "copy" /\ u.attr = proc[p].attr /\ u.file = f /\ u.late = proc[p].late
  BY <1>2, MapAssumption DEF File, State
<1>4. ~disk[f].done /\ ~proc[p].late
  BY <1>1 DEF MapInv, OneMaker, Makers
<1>5. Own(p, u, d)
  BY <1>1, <1>2, <1>3, <1>4
  DEF MapInv, SpoiltEarly, Own, Mapping, Creating, File, State, Progress
<1>6. Spares(p, u, f, d)
  BY <1>1, <1>2, <1>3 DEF MapInv, TypeOK, Spares, File
<1> QED
  BY <1>1, <1>3, <1>5, <1>6, GotoKeeps DEF Map

\* The end of the copy of the attributes keeps the invariant.
LEMMA CopyKeeps == ASSUME MapInv, NEW p \in Proc, Copy(p) PROVE MapInv'
<1> DEFINE f == proc[p].file
           d == [disk[f] EXCEPT !.copying = FALSE]
           u == [proc[p] EXCEPT !.pc = "locks"]
<1>1. /\ proc[p].pc = "copy" /\ proc[p].pc \in Mapping /\ proc[p].pc \in Creating
      /\ "locks" \in Mapping
  BY DEF Copy, At, Mapping, Creating, Attached
<1>2. proc[p] \in State /\ f \in Inode /\ disk[f] \in File
  BY <1>1, HasFile
<1>3. d \in File /\ u.pc = "locks" /\ u.attr = proc[p].attr /\ u.file = f /\ u.late = proc[p].late
  BY <1>2, MapAssumption DEF File, State
<1>4. ~disk[f].done /\ ~proc[p].late
  BY <1>1 DEF MapInv, OneMaker, Makers
<1>5. Own(p, u, d)
  BY <1>1, <1>2, <1>3, <1>4
  DEF MapInv, SpoiltEarly, Own, Mapping, Creating, File, State, Progress
<1>6. Spares(p, u, f, d)
  BY <1>1, <1>2, <1>3 DEF MapInv, TypeOK, Spares, File
<1> QED
  BY <1>1, <1>3, <1>5, <1>6, GotoKeeps DEF Copy

\* Initialising the locks keeps the invariant.
LEMMA InitLocksKeeps == ASSUME MapInv, NEW p \in Proc, InitLocks(p) PROVE MapInv'
<1> DEFINE f == proc[p].file
           d == [disk[f] EXCEPT !.rw = Nobody]
           u == [proc[p] EXCEPT !.pc = "lists"]
<1>1. /\ proc[p].pc = "locks" /\ proc[p].pc \in Mapping /\ proc[p].pc \in Creating
      /\ "lists" \in Mapping
  BY DEF InitLocks, At, Mapping, Creating, Attached
<1>2. proc[p] \in State /\ f \in Inode /\ disk[f] \in File
  BY <1>1, HasFile
<1>3. d \in File /\ u.pc = "lists" /\ u.attr = proc[p].attr /\ u.file = f /\ u.late = proc[p].late
  BY <1>2, MapAssumption DEF File, State
<1>4. ~disk[f].done /\ ~proc[p].late
  BY <1>1 DEF MapInv, OneMaker, Makers
<1>5. Own(p, u, d)
  BY <1>1, <1>2, <1>3, <1>4
  DEF MapInv, SpoiltEarly, Own, Mapping, Creating, File, State, Progress
<1>6. Spares(p, u, f, d)
  BY <1>1, <1>2, <1>3 DEF MapInv, TypeOK, Spares, File
<1> QED
  BY <1>1, <1>3, <1>5, <1>6, GotoKeeps DEF InitLocks

\* Emptying the lists and the table keeps the invariant.
LEMMA InitListsKeeps == ASSUME MapInv, NEW p \in Proc, InitLists(p) PROVE MapInv'
<1> DEFINE f == proc[p].file
           d == [disk[f] EXCEPT !.items = {}]
           u == [proc[p] EXCEPT !.pc = "slabs"]
<1>1. /\ proc[p].pc = "lists" /\ proc[p].pc \in Mapping /\ proc[p].pc \in Creating
      /\ "slabs" \in Mapping
  BY DEF InitLists, At, Mapping, Creating, Attached
<1>2. proc[p] \in State /\ f \in Inode /\ disk[f] \in File
  BY <1>1, HasFile
<1>3. d \in File /\ u.pc = "slabs" /\ u.attr = proc[p].attr /\ u.file = f /\ u.late = proc[p].late
  BY <1>2, MapAssumption DEF File, State
<1>4. ~disk[f].done /\ ~proc[p].late
  BY <1>1 DEF MapInv, OneMaker, Makers
<1>5. Own(p, u, d)
  BY <1>1, <1>2, <1>3, <1>4
  DEF MapInv, SpoiltEarly, Own, Mapping, Creating, File, State, Progress
<1>6. Spares(p, u, f, d)
  BY <1>1, <1>2, <1>3 DEF MapInv, TypeOK, Spares, File
<1> QED
  BY <1>1, <1>3, <1>5, <1>6, GotoKeeps DEF InitLists

\* Cutting the pool, which finishes the file keeps the invariant.
LEMMA FormatSlabsKeeps == ASSUME MapInv, NEW p \in Proc, FormatSlabs(p) PROVE MapInv'
<1> DEFINE f == proc[p].file
           d == [disk[f] EXCEPT !.done = TRUE]
           u == [proc[p] EXCEPT !.pc = "run"]
<1>1. /\ proc[p].pc = "slabs" /\ proc[p].pc \in Mapping /\ proc[p].pc \in Creating
      /\ "run" \in Mapping
  BY DEF FormatSlabs, At, Mapping, Creating, Attached
<1>2. proc[p] \in State /\ f \in Inode /\ disk[f] \in File
  BY <1>1, HasFile
<1>3. d \in File /\ u.pc = "run" /\ u.attr = proc[p].attr /\ u.file = f /\ u.late = proc[p].late
  BY <1>2, MapAssumption DEF File, State
<1>4. ~disk[f].done /\ ~proc[p].late
  BY <1>1 DEF MapInv, OneMaker, Makers
<1>5. Own(p, u, d)
  BY <1>1, <1>2, <1>3, <1>4
  DEF MapInv, SpoiltEarly, Own, Mapping, Creating, File, State, Progress, Attached
<1>6. Spares(p, u, f, d)
  BY <1>1, <1>2, <1>3 DEF MapInv, TypeOK, Spares, File
<1> QED
  BY <1>1, <1>3, <1>5, <1>6, GotoKeeps DEF FormatSlabs

\* The second mmap of an attacher keeps the invariant.
LEMMA RemapKeeps == ASSUME MapInv, NEW p \in Proc, Remap(p) PROVE MapInv'
<1> DEFINE f == proc[p].file
           u == [proc[p] EXCEPT !.pc = "run"]
<1>1. proc[p].pc = "remap" /\ proc[p].pc \in Mapping /\ "run" \in Mapping
  BY DEF Remap, At, Mapping, Attached
<1>2. proc[p] \in State /\ f \in Inode /\ disk[f] \in File /\ disk \in [Inode -> File]
  BY <1>1, HasFile
<1>3. u.pc = "run" /\ u.attr = proc[p].attr /\ u.file = f /\ u.late = proc[p].late
  BY <1>2 DEF State
<1>4. Own(p, u, disk[f])
  BY <1>1, <1>2, <1>3 DEF MapInv, SpoiltEarly, Users, Finished, Own, Mapping, Attached, Creating
<1>5. Spares(p, u, f, disk[f])
  BY <1>1, <1>2, <1>3 DEF MapInv, TypeOK, Spares, File
<1>6. Write(f, disk[f])
  BY <1>2 DEF Remap, Write
<1> QED
  BY <1>1, <1>2, <1>4, <1>5, <1>6, GotoKeeps DEF Remap

\* Of a process in the segment of a file that nobody opened early.
LEMMA InSound ==
  ASSUME MapInv, NEW p \in Proc, proc[p].pc \in Attached, ~disk[proc[p].file].early
  PROVE  LET f == proc[p].file
         IN  /\ disk[f].done /\ Attributes(f) = {disk[f].attr} /\ proc[p].attr = disk[f].attr
             /\ proc[p].pc # "run" => Holder(f, disk[f].attr.use_flock) = p
<1> DEFINE f == proc[p].file
<1>1. proc[p].pc \in Mapping \ Creating
  BY DEF Mapping, Attached, Creating
<1>2. disk[f].done /\ proc[p].attr = disk[f].attr /\ f \in Inode
  BY <1>1, HasFile DEF MapInv, Users
<1>3. Attributes(f) = {disk[f].attr}
  BY <1>2 DEF MapInv, Finished, Attributes
<1> QED
  BY <1>2, <1>3 DEF MapInv, Holders, Attached

\* Taking the lock keeps the invariant.
LEMMA LockKeeps == ASSUME MapInv, NEW p \in Proc, Lock(p) PROVE MapInv'
<1> DEFINE f == proc[p].file
<1>1. proc[p].pc = "run" /\ proc[p].pc \in Mapping /\ proc[p].pc \in Attached
  BY DEF Lock, At, Mapping, Attached
<1>2. proc[p] \in State /\ f \in Inode /\ disk[f] \in File /\ disk \in [Inode -> File]
  BY <1>1, HasFile
<1>3. PICK a \in Attributes(f), pc \in {"in", "leave"} :
        /\ Holder(f, a.use_flock) = Nobody
        /\ IF a.use_flock THEN Write(f, [disk[f] EXCEPT !.fl = p])
                          ELSE Write(f, [disk[f] EXCEPT !.rw = p])
        /\ Goto(p, pc)
  BY DEF Lock
<1> DEFINE d == IF a.use_flock THEN [disk[f] EXCEPT !.fl = p] ELSE [disk[f] EXCEPT !.rw = p]
           u == [proc[p] EXCEPT !.pc = pc]
<1>4. /\ d \in File /\ d.early = disk[f].early /\ d.done = disk[f].done /\ d.attr = disk[f].attr
      /\ d.len = disk[f].len /\ d.version = disk[f].version /\ d.copying = disk[f].copying
      /\ d.spoilt = disk[f].spoilt
      /\ u.pc = pc /\ u.attr = proc[p].attr /\ u.file = f /\ u.late = proc[p].late
  BY <1>2 DEF File, State
<1>5. ~disk[f].early => a = disk[f].attr /\ disk[f].done
  BY <1>1, <1>3, InSound
<1>6. IF a.use_flock THEN disk[f].fl = Nobody /\ d.fl = p /\ d.rw = disk[f].rw
                     ELSE disk[f].rw = Nobody /\ d.rw = p /\ d.fl = disk[f].fl
  BY <1>2, <1>3 DEF Holder, File
<1>7. Write(f, d)
  BY <1>3 DEF Write
<1>8. pc \in Mapping /\ pc \in {"in", "leave"} /\ pc \in Attached /\ pc \notin Creating /\ pc # "spin"
  BY <1>3 DEF Mapping, Attached, Creating
<1> HIDE DEF d, f, u
<1>9. Own(p, u, d)
  <2>1. d.done => d.version /\ ~d.copying /\ d.len = SizeOfMmap(d.attr)
    BY <1>2, <1>4 DEF MapInv, Finished
  <2>2. d.spoilt => d.early
    BY <1>2, <1>4 DEF MapInv, SpoiltEarly
  <2>3. u.late \/ ~d.early => d.done /\ u.attr = d.attr
    BY <1>1, <1>4 DEF MapInv, Users, Creating, Attached, f
  <2> QED
    BY <2>1, <2>2, <2>3, <1>4, <1>5, <1>6, <1>8 DEF Own, Creating
<1>10. Spares(p, u, f, d)
  <2>1. ASSUME NEW q \in Proc \ {p}
        PROVE  /\ d.fl = q => disk[f].fl = q
               /\ disk[f].rw = q => d.rw = q
               /\ disk[f].fl = q => d.fl = q
    BY <1>6, MapAssumption
  <2> QED
    BY <2>1, <1>4 DEF Spares
<1> QED
  BY <1>1, <1>3, <1>4, <1>7, <1>8, <1>9, <1>10, GotoKeeps DEF Lock, f, u

\* Reading the attributes keeps the invariant.
LEMMA MeasureKeeps == ASSUME MapInv, NEW p \in Proc, Measure(p) PROVE MapInv'
<1> DEFINE f == proc[p].file
<1>1. proc[p].pc = "measure" /\ proc[p].pc \in Mapping /\ "spin" \in Mapping
  BY DEF Measure, At, Mapping
<1>2. /\ proc[p] \in State /\ f \in Inode /\ f \in 1 .. last /\ disk[f] \in File
      /\ disk \in [Inode -> File] /\ proc \in [Proc -> State]
  BY <1>1, HasFile
<1>3. disk' = [disk EXCEPT ![f] = disk[f]] /\ UNCHANGED <<token, last, unlinks, starts>>
  BY <1>2 DEF Measure
<1>4. proc[p].late \/ ~disk[f].early => disk[f].done /\ ~disk[f].copying
  BY <1>1, <1>2 DEF MapInv, Users, Finished, Mapping, Creating
<1>5. /\ disk[f].done => disk[f].version /\ ~disk[f].copying /\ disk[f].len = SizeOfMmap(disk[f].attr)
      /\ disk[f].spoilt => disk[f].early
  BY <1>2 DEF MapInv, Finished, SpoiltEarly
<1>6. ASSUME NEW u \in State, u.file = f, u.epoch = proc[p].epoch, u.pc \in Mapping,
             proc' = [proc EXCEPT ![p] = u], Own(p, u, disk[f])
      PROVE  MapInv'
  <2>1. Moves(p, u, f, disk[f])
    BY <1>3, <1>6 DEF Moves
  <2>2. Stays(p, u, f) /\ Spares(p, u, f, disk[f])
    BY <1>1, <1>2, <1>6 DEF Stays, Spares, MapInv, TypeOK
  <2> QED
    BY <1>2, <1>6, <2>1, <2>2, MoveKeeps
<1>7. ASSUME NEW a \in Attributes(f), proc' = [proc EXCEPT ![p].pc = "remap", ![p].attr = a]
      PROVE  MapInv'
  <2> DEFINE u == [proc[p] EXCEPT !.pc = "remap", !.attr = a]
  <2>1. a \in AttrType
    <3>1. disk[f].attr \in AttrType
      BY <1>2 DEF File
    <3>2. ASSUME NEW t \in AttrType PROVE Torn(t) \subseteq AttrType
      <4>1. t.nbuckets \in Nat /\ t.classes \in Nat /\ t.classes + 1 \in Nat
            /\ t.mem_limit \in Nat /\ t.use_flock \in BOOLEAN
        BY DEF AttrType
      <4>2. /\ {0, t.nbuckets} \subseteq Nat /\ {0, t.classes, t.classes + 1} \subseteq Nat
            /\ {0, t.mem_limit} \subseteq Nat
        BY <4>1
      <4>3. {FALSE, t.use_flock} \subseteq BOOLEAN
        BY <4>1, Zenon
      <4>4. ASSUME NEW N \in SUBSET Nat, NEW C \in SUBSET Nat, NEW M \in SUBSET Nat,
                   NEW F \in SUBSET BOOLEAN
            PROVE  [nbuckets : N, classes : C, mem_limit : M, use_flock : F] \subseteq AttrType
        BY DEF AttrType
      <4> QED
        BY <4>2, <4>3, <4>4, Zenon DEF Torn
    <3> QED
      BY <3>1, <3>2, <1>7 DEF Attributes
  <2>2. u \in State /\ u.pc = "remap" /\ u.attr = a /\ u.file = f /\ u.late = proc[p].late
        /\ u.epoch = proc[p].epoch
    BY <1>2, <2>1 DEF State, Pcs, Mapping
  <2>3. ~disk[f].copying => a = disk[f].attr
    BY <1>7 DEF Attributes
  <2>4. proc' = [proc EXCEPT ![p] = u] /\ u.pc \in Mapping
    BY <1>2, <1>7, <2>2 DEF Mapping
  <2>5. Own(p, u, disk[f])
    BY <1>4, <1>5, <2>2, <2>3 DEF Own, Creating, Mapping, Attached
  <2> QED
    BY <1>6, <2>2, <2>4, <2>5
<1>8. CASE disk[f].copying /\ Goto(p, "spin")
  <2> DEFINE u == [proc[p] EXCEPT !.pc = "spin"]
  <2>1. u \in State /\ u.pc = "spin" /\ u.file = f /\ u.late = proc[p].late /\ u.epoch = proc[p].epoch
    BY <1>2 DEF State, Pcs, Mapping
  <2>2. proc' = [proc EXCEPT ![p] = u]
    BY <1>2, <1>8 DEF Goto
  <2>3. Own(p, u, disk[f])
    BY <1>4, <1>5, <1>8, <2>1 DEF Own, Creating, Mapping, Attached
  <2> QED
    BY <1>1, <1>6, <2>1, <2>2, <2>3
<1> QED
  BY <1>7, <1>8 DEF Measure

\* The two records of a file differ in its locks and items, and in whether it is
\* spoilt, at most.
Alike(d, e) ==
  /\ d.len = e.len /\ d.version = e.version /\ d.attr = e.attr /\ d.copying = e.copying
  /\ d.done = e.done /\ d.early = e.early

\* What letting go of the lock does to the locks.
LetGo(p, f, e, d) ==
  /\ Write(f, d)
  /\ Alike(d, e) /\ d.items = e.items /\ d.spoilt = e.spoilt
  /\ d.fl = e.fl \/ (d.fl = Nobody /\ e.fl = p)
  /\ ~disk[f].early => \A q \in Proc \ {p} : disk[f].rw = q => d.rw = q

LEMMA UnlockSpares ==
  ASSUME MapInv, NEW p \in Proc, proc[p].pc \in {"in", "leave"}, NEW f, f = proc[p].file,
         NEW e \in File, e.rw = disk[f].rw, e.attr = disk[f].attr,
         e.fl = disk[f].fl \/ (e.fl = Nobody /\ disk[f].fl = p), Unlocked(p, f, e)
  PROVE  \E d \in File : LetGo(p, f, e, d)
<1> USE DEF LetGo
<1>1. PICK a \in Attributes(f) :
        IF a.use_flock THEN Write(f, [e EXCEPT !.fl = IF @ = p THEN Nobody ELSE @])
        ELSE \E rw \in Released(p, e.rw) : Write(f, [e EXCEPT !.rw = rw])
  BY DEF Unlocked
<1>2. proc[p].pc \in Attached /\ proc[p].pc \in Mapping /\ proc[p].pc # "run"
  BY DEF Attached, Mapping
<1>3. disk[f] \in File
  BY <1>2, HasFile
<1>4. CASE a.use_flock
  <2> DEFINE d == [e EXCEPT !.fl = IF @ = p THEN Nobody ELSE @]
  <2>1. Write(f, d)
    BY <1>1, <1>4
  <2>2. /\ d \in File /\ d.rw = e.rw /\ d.items = e.items /\ d.spoilt = e.spoilt
        /\ d.fl = e.fl \/ (d.fl = Nobody /\ e.fl = p)
    BY DEF File
  <2>3. Alike(d, e)
    BY DEF File, Alike
  <2> HIDE DEF d
  <2> QED
    BY <2>1, <2>2, <2>3
<1>5. CASE ~a.use_flock
  <2>1. PICK rw \in Released(p, e.rw) : Write(f, [e EXCEPT !.rw = rw])
    BY <1>1, <1>5
  <2> DEFINE d == [e EXCEPT !.rw = rw]
  <2>2. rw \in {Nobody, Stuck}
    BY <2>1 DEF Released
  <2>3. /\ d \in File /\ Write(f, d) /\ d.fl = e.fl /\ d.rw = rw
        /\ Alike(d, e) /\ d.items = e.items /\ d.spoilt = e.spoilt
    BY <2>1, <2>2 DEF File, Alike
  <2>4. ASSUME ~disk[f].early, NEW q \in Proc \ {p}, disk[f].rw = q
        PROVE  d.rw = q
    <3>1. Attributes(f) = {disk[f].attr} /\ Holder(f, disk[f].attr.use_flock) = p
      BY <1>2, <2>4, InSound
    <3>2. disk[f].rw = p
      BY <3>1, <1>1, <1>5 DEF Holder
    <3> QED
      BY <3>2, <2>4
  <2> HIDE DEF d
  <2> QED
    BY <2>3, <2>4
<1> QED
  BY <1>4, <1>5

\* A step in which p lets go of its file.
LEMMA ReturnKeeps ==
  ASSUME MapInv, NEW p \in Proc, proc[p].pc \in Mapping, NEW d \in File,
         Return(p), Write(proc[p].file, d), UNCHANGED <<token, last, unlinks, starts>>,
         Alike(d, disk[proc[p].file]), d.spoilt = disk[proc[p].file].spoilt,
         ~d.early => \A q \in Proc \ {p} : disk[proc[p].file].rw = q => d.rw = q,
         \/ d.fl = disk[proc[p].file].fl /\ d.fl # p
         \/ d.fl = Nobody /\ disk[proc[p].file].fl = p
  PROVE  MapInv'
<1> DEFINE f == proc[p].file
<1>1. proc[p] \in State /\ f \in 1 .. last /\ f \in Inode /\ disk[f] \in File
  BY HasFile
<1>2. Off \in State /\ Off.pc = "off" /\ Off.file = 0
  <2>1. unlinks \in Nat /\ last \in Nat
    BY MapAssumption DEF MapInv, TypeOK
  <2> QED
    BY <2>1 DEF Off, State, Pcs, Zero, AttrType
<1>3. /\ d.early = disk[f].early /\ d.attr = disk[f].attr /\ d.done = disk[f].done
      /\ d.len = disk[f].len /\ d.version = disk[f].version /\ d.copying = disk[f].copying
      /\ d.spoilt = disk[f].spoilt
  BY DEF Alike
<1> HIDE DEF f
<1>4. \A q \in Proc : (d.fl = q => disk[f].fl = q) /\ (q # p => (disk[f].fl = q => d.fl = q))
                      /\ d.fl # p
  BY MapAssumption DEF f
<1>5. Spares(p, Off, f, d)
  BY <1>3, <1>4 DEF Spares, f
<1>6. Own(p, Off, d)
  BY <1>1, <1>2, <1>3 DEF Own, Creating, Mapping, Attached, MapInv, Finished, SpoiltEarly
<1>7. Stays(p, Off, f)
  BY <1>2 DEF Stays, Mapping, Creating, Attached, f
<1>8. Moves(p, Off, f, d)
  BY DEF Moves, Return, Write, f
<1> QED
  BY <1>1, <1>2, <1>5, <1>6, <1>7, <1>8, MoveKeeps

\* As it closes the file.
LEMMA CloseKeeps ==
  ASSUME MapInv, NEW p \in Proc, proc[p].pc \in Mapping, Return(p),
         Write(proc[p].file, Closed(p, proc[p].file)), UNCHANGED <<token, last, unlinks, starts>>
  PROVE  MapInv'
<1> DEFINE f == proc[p].file
           d == Closed(p, f)
<1>1. disk[f] \in File
  BY HasFile
<1>2. d \in File /\ Alike(d, disk[f]) /\ d.spoilt = disk[f].spoilt /\ d.rw = disk[f].rw
  BY <1>1 DEF Closed, File, Alike
<1>3. \/ d.fl = disk[f].fl /\ d.fl # p
      \/ d.fl = Nobody /\ disk[f].fl = p
  BY <1>1 DEF Closed, File
<1> HIDE DEF d
<1>4. Write(f, d)
  BY DEF d
<1> QED
  BY <1>2, <1>3, <1>4, ReturnKeeps

\* A step of a process that has no file and gets none.
LEMMA IdleKeeps ==
  ASSUME MapInv, NEW p \in Proc, proc[p].pc \notin Mapping,
         NEW u \in State, u.pc \notin Mapping, u.file = 0,
         proc' = [proc EXCEPT ![p] = u], UNCHANGED <<last, disk>>,
         starts' \in 0 .. MaxStarts,
         \/ UNCHANGED <<token, unlinks>>
         \/ token' = 0 /\ unlinks' = unlinks + 1
  PROVE  MapInv'
<1>1. /\ proc \in [Proc -> State] /\ unlinks \in Nat /\ last \in 0 .. MaxFiles
      /\ proc[p].file = 0 /\ MaxFiles \in Nat
  BY MapAssumption DEF MapInv, TypeOK, State, Pcs
<1>2. /\ proc'[p] = u /\ \A q \in Proc \ {p} : proc'[q] = proc[q]
      /\ disk' = disk /\ last' = last /\ DOMAIN proc' = Proc
  BY <1>1
<1>3. unlinks' \in Nat /\ unlinks <= unlinks' /\ token' \in 0 .. last
  BY <1>1 DEF MapInv, TypeOK
<1>4. \A q \in Proc : proc'[q].pc \in Mapping => q # p /\ proc'[q] = proc[q]
  BY <1>2
<1>5. TypeOK'
  <2>1. \A q \in Proc : proc'[q] \in State /\ proc'[q].epoch \in 0 .. unlinks'
    BY <1>1, <1>2, <1>3 DEF State
  <2>2. proc' \in [Proc -> State']
    <3>1. \A q \in Proc : proc'[q] \in State'
      BY <2>1, <1>2 DEF State
    <3> QED
      BY <3>1, <1>1
  <2>3. \A q \in Proc : proc'[q].pc \in Mapping <=> proc'[q].file # 0
    BY <1>2 DEF MapInv, TypeOK
  <2>4. \A f \in Inode, q \in Proc : disk'[f].fl = q => proc'[q].file = f
    <3>1. \A f \in Inode : f # 0
      BY DEF Inode
    <3> QED
      BY <3>1, <1>1, <1>2 DEF MapInv, TypeOK
  <2> QED
    BY <2>2, <2>3, <2>4, <1>2, <1>3 DEF MapInv, TypeOK, State, Pcs
<1>6. FreshBlank' /\ Finished' /\ SpoiltEarly'
  BY <1>2 DEF MapInv, FreshBlank, Finished, SpoiltEarly
<1>7. TokenShared' /\ SharedUnlessUnlinked'
  <2>1. \A q \in Proc : proc[q].epoch <= unlinks /\ proc[q].epoch \in Nat
    BY <1>1 DEF State
  <2>2. SharedUnlessUnlinked'
    BY <1>4 DEF MapInv, SharedUnlessUnlinked
  <2>3. CASE UNCHANGED <<token, unlinks>>
    BY <2>2, <2>3, <1>1, <1>2, <1>4 DEF MapInv, TokenShared
  <2>4. CASE unlinks' = unlinks + 1
    <3>1. \A q \in Proc : proc[q].epoch # unlinks'
      BY <2>1, <2>4, <1>1
    <3> QED
      BY <3>1, <2>2, <1>1, <1>2, <1>4 DEF TokenShared
  <2> QED
    BY <2>3, <2>4
<1>8. OneMaker' /\ Progress' /\ Makers'
  <2>1. \A q \in Proc : proc'[q].pc \in Creating => proc'[q] = proc[q]
    BY <1>4 DEF Mapping
  <2>2. OneMaker'
    BY <1>2, <2>1 DEF MapInv, OneMaker
  <2>3. Progress'
    <3>1. \A q \in Proc : proc'[q].pc \in {"locks", "lists", "slabs"} => proc'[q].pc \in Creating
      BY DEF Creating
    <3> QED
      BY <1>2, <2>1, <3>1 DEF MapInv, Progress
  <2>4. Makers'
    BY <2>1 DEF MapInv, Makers
  <2> QED
    BY <2>2, <2>3, <2>4
<1>9. Users'
  BY <1>2, <1>4 DEF MapInv, Users
<1>10. Holders'
  <2>1. \A q \in Proc : proc'[q].pc \in {"in", "leave"} => proc'[q].pc \in Mapping
    BY DEF Mapping, Attached
  <2> QED
    BY <2>1, <1>2, <1>4 DEF MapInv, Holders, Holder
<1> QED
  BY <1>5, <1>6, <1>7, <1>8, <1>9, <1>10 DEF MapInv

\* It goes.
LEMMA GoneKeeps ==
  ASSUME MapInv, NEW p \in Proc, proc[p].pc \notin Mapping, Return(p),
         UNCHANGED <<token, last, unlinks, starts, disk>>
  PROVE  MapInv'
<1>1. unlinks \in Nat /\ last \in Nat /\ starts \in 0 .. MaxStarts
  BY MapAssumption DEF MapInv, TypeOK
<1>2. Off \in State /\ Off.pc \notin Mapping /\ Off.file = 0
  BY <1>1 DEF Off, State, Pcs, Zero, AttrType, Mapping, Creating, Attached
<1> QED
  BY <1>1, <1>2, IdleKeeps DEF Return

\* The first mmap of an attacher keeps the invariant.
LEMMA LookKeeps == ASSUME MapInv, NEW p \in Proc, Look(p) PROVE MapInv'
<1> DEFINE f == proc[p].file
           u == [proc[p] EXCEPT !.pc = "measure"]
<1>1. proc[p].pc = "look" /\ proc[p].pc \in Mapping \ Creating /\ "measure" \in Mapping
  BY DEF Look, At, Mapping, Creating
<1>2. proc[p] \in State /\ f \in Inode /\ disk[f] \in File /\ disk \in [Inode -> File]
  BY <1>1, HasFile
<1>3. UNCHANGED <<token, last, unlinks, starts>>
  BY DEF Look
<1>4. CASE Goto(p, "measure") /\ UNCHANGED disk
  <2>1. u.pc = "measure" /\ u.attr = proc[p].attr /\ u.file = f /\ u.late = proc[p].late
    BY <1>2 DEF State
  <2>2. Own(p, u, disk[f])
    BY <1>1, <1>2, <2>1
    DEF MapInv, SpoiltEarly, Users, Finished, Own, Mapping, Attached, Creating
  <2>3. Spares(p, u, f, disk[f]) /\ Write(f, disk[f])
    BY <1>2, <1>4, <2>1 DEF MapInv, TypeOK, Spares, Write
  <2> QED
    BY <1>1, <1>2, <1>3, <1>4, <2>2, <2>3, GotoKeeps
<1>5. CASE Return(p) /\ Write(f, Closed(p, f))
  BY <1>1, <1>3, <1>5, CloseKeeps
<1> QED
  BY <1>4, <1>5 DEF Look

\* The death of a process keeps the invariant.
LEMMA DieKeeps == ASSUME MapInv, NEW p \in Proc, Die(p) PROVE MapInv'
<1> DEFINE f == proc[p].file
           d == [Closed(p, f) EXCEPT !.rw = IF @ = p THEN Stuck ELSE @]
<1>1. CASE proc[p].pc \notin Mapping
  <2>1. f = 0
    BY <1>1 DEF MapInv, TypeOK
  <2> QED
    BY <1>1, <2>1, GoneKeeps DEF Die
<1>2. CASE proc[p].pc \in Mapping
  <2>1. f # 0 /\ disk[f] \in File
    BY <1>2, HasFile
  <2>2. Return(p) /\ Write(f, d) /\ UNCHANGED <<token, last, unlinks, starts>>
    BY <2>1 DEF Die
  <2>3. d \in File /\ Alike(d, disk[f]) /\ d.spoilt = disk[f].spoilt
    BY <2>1 DEF Closed, File, Alike
  <2>4. /\ \A q \in Proc \ {p} : disk[f].rw = q => d.rw = q
        /\ \/ d.fl = disk[f].fl /\ d.fl # p
           \/ d.fl = Nobody /\ disk[f].fl = p
    BY <2>1 DEF Closed, File
  <2> HIDE DEF d
  <2> QED
    BY <1>2, <2>2, <2>3, <2>4, ReturnKeeps
<1> QED
  BY <1>1, <1>2

\* A call of shmc_init that fails keeps the invariant.
LEMMA FailKeeps == ASSUME MapInv, NEW p \in Proc, Fail(p) PROVE MapInv'
<1>1. CASE proc[p].pc \notin Mapping
  <2>1. proc[p].file = 0
    BY <1>1 DEF MapInv, TypeOK
  <2> QED
    BY <1>1, <2>1, GoneKeeps DEF Fail
<1>2. CASE proc[p].pc \in Mapping
  <2>1. proc[p].file # 0
    BY <1>2, HasFile
  <2> QED
    BY <1>2, <2>1, CloseKeeps DEF Fail
<1> QED
  BY <1>1, <1>2

\* The end of shmc_destroy keeps the invariant.
LEMMA DestroyKeeps == ASSUME MapInv, NEW p \in Proc, Destroy(p) PROVE MapInv'
<1> DEFINE f == proc[p].file
<1>1. proc[p].pc = "leave" /\ proc[p].pc \in {"in", "leave"} /\ proc[p].pc \in Mapping
  BY DEF Destroy, At, Mapping, Attached
<1>2. disk[f] \in File
  BY <1>1, HasFile
<1>3. /\ Closed(p, f) \in File /\ Closed(p, f).rw = disk[f].rw
      /\ Alike(Closed(p, f), disk[f]) /\ Closed(p, f).spoilt = disk[f].spoilt
      /\ \/ Closed(p, f).fl = disk[f].fl /\ disk[f].fl # p
         \/ Closed(p, f).fl = Nobody /\ disk[f].fl = p
  BY <1>2 DEF Closed, File, Alike
<1>4. Unlocked(p, f, Closed(p, f)) /\ Return(p) /\ UNCHANGED <<token, last, unlinks, starts>>
  BY DEF Destroy
<1> DEFINE e == Closed(p, f)
<1> HIDE DEF e
<1>5. PICK d \in File :
        /\ Write(f, d)
        /\ Alike(d, e) /\ d.items = e.items /\ d.spoilt = e.spoilt
        /\ d.fl = e.fl \/ (d.fl = Nobody /\ e.fl = p)
        /\ ~disk[f].early => \A q \in Proc \ {p} : disk[f].rw = q => d.rw = q
  <2>1. e.attr = disk[f].attr
    BY <1>3 DEF Alike, e
  <2>2. e.fl = disk[f].fl \/ (e.fl = Nobody /\ disk[f].fl = p)
    BY <1>3 DEF e
  <2>3. e \in File /\ e.rw = disk[f].rw /\ Unlocked(p, f, e)
    BY <1>3, <1>4, Zenon DEF e
  <2>4. f = proc[p].file
    OBVIOUS
  <2> HIDE DEF f
  <2>5. \E d \in File : LetGo(p, f, e, d)
    BY <1>1, <2>1, <2>2, <2>3, <2>4, UnlockSpares, Zenon
  <2> QED
    BY <2>5, Zenon DEF LetGo
<1>6. Alike(d, disk[f]) /\ d.spoilt = disk[f].spoilt
  <2>1. Alike(e, disk[f]) /\ e.spoilt = disk[f].spoilt
    BY <1>3, Zenon DEF e
  <2>2. Alike(d, e) /\ d.spoilt = e.spoilt
    BY <1>5, Zenon
  <2> QED
    BY <2>1, <2>2, Zenon DEF Alike
<1>7. \/ d.fl = disk[f].fl /\ d.fl # p
      \/ d.fl = Nobody /\ disk[f].fl = p
  BY <1>3, <1>5, MapAssumption DEF e
<1> QED
  BY <1>1, <1>4, <1>5, <1>6, <1>7, ReturnKeeps DEF Alike

\* A call on the segment keeps the invariant.
LEMMA WorkKeeps == ASSUME MapInv, NEW p \in Proc, Work(p) PROVE MapInv'
<1> DEFINE f == proc[p].file
           e == IF Sound(p) THEN [disk[f] EXCEPT !.items = @ \cup {p}]
                ELSE [disk[f] EXCEPT !.spoilt = TRUE]
           u == [proc[p] EXCEPT !.pc = "run"]
<1>1. /\ proc[p].pc = "in" /\ proc[p].pc \in {"in", "leave"}
      /\ proc[p].pc \in Attached /\ proc[p].pc \in Mapping /\ proc[p].pc \notin Creating
      /\ "run" \in Mapping
  BY DEF Work, At, Mapping, Attached, Creating
<1>2. disk[f] \in File /\ f \in Inode /\ proc[p] \in State
  BY <1>1, HasFile
<1>3. /\ e \in File /\ e.rw = disk[f].rw /\ e.fl = disk[f].fl /\ e.attr = disk[f].attr
      /\ Alike(e, disk[f])
  BY <1>2 DEF File, Alike
<1>4. e.spoilt => e.early
  <2>1. disk[f].spoilt => disk[f].early
    BY <1>2 DEF MapInv, SpoiltEarly
  <2>2. ~Sound(p) => disk[f].early
    BY <1>1, <1>2, <2>1, InSound DEF Sound, Layout
  <2> QED
    BY <1>2, <2>1, <2>2 DEF File
<1>5. Unlocked(p, f, e) /\ Goto(p, "run") /\ UNCHANGED <<token, last, unlinks, starts>>
  BY DEF Work
<1> HIDE DEF e
<1>6. PICK d \in File :
        /\ Write(f, d)
        /\ Alike(d, e) /\ d.items = e.items /\ d.spoilt = e.spoilt
        /\ d.fl = e.fl \/ (d.fl = Nobody /\ e.fl = p)
        /\ ~disk[f].early => \A q \in Proc \ {p} : disk[f].rw = q => d.rw = q
  <2>1. f = proc[p].file
    OBVIOUS
  <2> HIDE DEF f
  <2>2. \E d \in File : LetGo(p, f, e, d)
    BY <1>1, <1>3, <1>5, <2>1, UnlockSpares, Zenon
  <2> QED
    BY <2>2, Zenon DEF LetGo
<1>7. u.pc = "run" /\ u.file = f /\ u.late = proc[p].late /\ u.attr = proc[p].attr
  BY <1>2 DEF State
<1>8. Alike(d, disk[f]) /\ (d.spoilt => d.early)
  BY <1>3, <1>4, <1>6 DEF Alike
<1>9. d.done => d.version /\ ~d.copying /\ d.len = SizeOfMmap(d.attr)
  BY <1>2, <1>8 DEF Alike, MapInv, Finished
<1>10. u.late \/ ~d.early => d.done /\ u.attr = d.attr
  BY <1>1, <1>7, <1>8 DEF Alike, MapInv, Users
<1> HIDE DEF u, f
<1>11. Own(p, u, d)
  BY <1>7, <1>8, <1>9, <1>10 DEF Own, Creating
<1>12. Spares(p, u, f, d)
  <2>1. \A q \in Proc \ {p} : (d.fl = q => disk[f].fl = q) /\ (disk[f].fl = q => d.fl = q)
    BY <1>3, <1>6, MapAssumption
  <2> QED
    BY <1>6, <1>7, <1>8, <2>1 DEF Spares, Alike
<1> QED
  BY <1>1, <1>5, <1>6, <1>11, <1>12, GotoKeeps DEF f, u

\* A call of shmc_init keeps the invariant.
LEMMA BeginKeeps == ASSUME MapInv, NEW p \in Proc, Begin(p) PROVE MapInv'
<1>1. /\ unlinks \in Nat /\ last \in Nat /\ starts' \in 0 .. MaxStarts
      /\ proc[p].pc \notin Mapping /\ UNCHANGED <<token, last, unlinks, disk>>
  <2>1. /\ unlinks \in Nat /\ last \in Nat /\ starts \in 0 .. MaxStarts /\ MaxStarts \in Nat
    BY MapAssumption DEF MapInv, TypeOK
  <2>2. starts < MaxStarts /\ starts' = starts + 1 /\ UNCHANGED <<token, last, unlinks, disk>>
    BY DEF Begin
  <2>3. proc[p].pc \notin Mapping
    BY DEF Begin, At, Mapping, Creating, Attached
  <2> QED
    BY <2>1, <2>2, <2>3
<1>2. PICK u : /\ proc' = [proc EXCEPT ![p] = u]
               /\ \/ \E a \in Attr, pc \in {"unlink", "create"} :
                       u = [Off EXCEPT !.pc = pc, !.attr = a]
                  \/ u = [Off EXCEPT !.pc = "attach"]
  BY Zenon DEF Begin
<1>3. u.pc \in {"unlink", "create", "attach"} /\ u.file = 0 /\ u \in State
  <2>1. Off \in State /\ Off.file = 0
    BY <1>1 DEF Off, State, Pcs, Zero, AttrType
  <2>2. {"unlink", "create", "attach"} \subseteq Pcs /\ Attr \subseteq AttrType
    BY MapAssumption DEF Pcs
  <2>3. ASSUME NEW a \in AttrType, NEW pc \in Pcs, u = [Off EXCEPT !.pc = pc, !.attr = a]
        PROVE  u \in State /\ u.pc = pc /\ u.file = 0
    BY <2>1, <2>3 DEF State
  <2>4. CASE u = [Off EXCEPT !.pc = "attach"]
    BY <2>1, <2>2, <2>4 DEF State
  <2>5. CASE \E a \in Attr, pc \in {"unlink", "create"} :
               u = [Off EXCEPT !.pc = pc, !.attr = a]
    <3>1. PICK a \in Attr, pc \in {"unlink", "create"} : u = [Off EXCEPT !.pc = pc, !.attr = a]
      BY <2>5
    <3> QED
      BY <2>2, <2>3, <3>1
  <2> QED
    BY <1>2, <2>4, <2>5
<1>4. u.pc \notin Mapping
  BY <1>3 DEF Mapping, Creating, Attached
<1> QED
  BY <1>1, <1>2, <1>3, <1>4, IdleKeeps

\* The unlink of netshell -a keeps the invariant.
LEMMA UnlinkKeeps == ASSUME MapInv, NEW p \in Proc, Unlink(p) PROVE MapInv'
<1> DEFINE u == [proc[p] EXCEPT !.pc = "create"]
<1>1. /\ proc[p].pc = "unlink" /\ proc[p].pc \notin Mapping
      /\ UNCHANGED <<last, starts, disk>> /\ "create" \notin Mapping
  BY DEF Unlink, At, Mapping, Creating, Attached
<1>2. /\ proc \in [Proc -> State] /\ proc[p].file = 0 /\ starts \in 0 .. MaxStarts
      /\ token' = 0 /\ unlinks' = IF token = 0 THEN unlinks ELSE unlinks + 1
      /\ unlinks \in Nat /\ last \in Nat /\ proc' = [proc EXCEPT ![p] = u]
  BY <1>1, MapAssumption DEF MapInv, TypeOK, State, Pcs, Unlink, Goto
<1>3. u \in State /\ u.pc = "create" /\ u.file = 0
  BY <1>2 DEF State, Pcs
<1>4. \/ UNCHANGED <<token, unlinks>>
      \/ token' = 0 /\ unlinks' = unlinks + 1
  BY <1>2
<1> HIDE DEF u
<1> QED
  BY <1>1, <1>2, <1>3, <1>4, IdleKeeps

\* The open of an attacher keeps the invariant.
LEMMA OpenTokenKeeps == ASSUME MapInv, NEW p \in Proc, OpenToken(p) PROVE MapInv'
<1>1. /\ proc[p].pc = "attach" /\ proc[p].pc \notin Mapping /\ "look" \in Mapping
      /\ UNCHANGED <<token, last, unlinks, starts>>
  BY DEF OpenToken, At, Mapping, Creating, Attached
<1>2. /\ proc \in [Proc -> State] /\ disk \in [Inode -> File] /\ proc[p].file = 0
      /\ last \in 0 .. MaxFiles /\ token \in 0 .. last /\ unlinks \in Nat
  BY <1>1 DEF MapInv, TypeOK, State, Pcs
<1>3. CASE token = 0
  BY <1>1, <1>3, GoneKeeps DEF OpenToken
<1>4. CASE token # 0
  <2> DEFINE d == [disk[token] EXCEPT !.early = @ \/ ~disk[token].done]
             u == [proc[p] EXCEPT !.pc = "look", !.file = token, !.epoch = unlinks,
                                  !.late = disk[token].done]
  <2>1. token \in 1 .. last /\ token \in Inode
    BY <1>2, <1>4, MapAssumption DEF Inode
  <2>2. disk[token] \in File
    BY <1>2, <2>1
  <2>3. /\ d \in File /\ d.early = (disk[token].early \/ ~disk[token].done)
        /\ d.len = disk[token].len /\ d.version = disk[token].version
        /\ d.attr = disk[token].attr /\ d.copying = disk[token].copying
        /\ d.done = disk[token].done /\ d.rw = disk[token].rw /\ d.fl = disk[token].fl
        /\ d.spoilt = disk[token].spoilt
    BY <2>2 DEF File
  <2>4. /\ u \in State /\ u.pc = "look" /\ u.file = token /\ u.epoch = unlinks
        /\ u.late = disk[token].done
    <3>1. disk[token].done \in BOOLEAN /\ "look" \in Pcs /\ proc[p] \in State
      BY <1>1, <1>2, <2>2 DEF File, Pcs
    <3>2. token \in 0 .. last /\ unlinks \in 0 .. unlinks
      BY <1>2
    <3> QED
      BY <3>1, <3>2 DEF State
  <2>5. Moves(p, u, token, d)
    BY <1>1, <1>2, <1>4 DEF Moves, OpenToken, Opened, Write
  <2>6. Stays(p, u, token)
    BY <1>1, <1>2, <1>4, <2>4 DEF Stays
  <2>7. Own(p, u, d)
    <3>1. disk[token].done => /\ disk[token].version /\ ~disk[token].copying
                              /\ disk[token].len = SizeOfMmap(disk[token].attr)
      BY <2>1 DEF MapInv, Finished
    <3>2. disk[token].spoilt => disk[token].early
      BY <2>1 DEF MapInv, SpoiltEarly
    <3> QED
      BY <2>3, <2>4, <3>1, <3>2 DEF Own, Creating, Attached
  <2>8. Spares(p, u, token, d)
    BY <2>2, <2>3, <2>4, <1>4 DEF Spares
  <2> HIDE DEF d, u
  <2> QED
    BY <2>1, <2>3, <2>4, <2>5, <2>6, <2>7, <2>8, MoveKeeps
<1> QED
  BY <1>3, <1>4

\* A file that is made is unused, and none has been opened since the last unlink.
LEMMA OpenKeeps == ASSUME MapInv, NEW p \in Proc, Open(p) PROVE MapInv'
<1>1. /\ proc[p].pc = "create" /\ proc[p].pc \notin Mapping /\ "truncate" \in Mapping
      /\ UNCHANGED <<unlinks, starts, disk>>
  BY DEF Open, At, Mapping, Creating, Attached
<1>2. /\ proc \in [Proc -> State] /\ disk \in [Inode -> File] /\ proc[p].file = 0
      /\ last \in 0 .. MaxFiles /\ token \in 0 .. last /\ unlinks \in Nat /\ MaxFiles \in Nat
      /\ \A q \in Proc : proc[q].pc \in Mapping <=> proc[q].file # 0
      /\ \A g \in Inode, q \in Proc : disk[g].fl = q => proc[q].file = g
  BY <1>1, MapAssumption DEF MapInv, TypeOK, State, Pcs
<1>3. CASE token # 0
  BY <1>1, <1>3, GoneKeeps DEF Open
<1>4. CASE token = 0
  <2> DEFINE f == last + 1
             u == [proc[p] EXCEPT !.pc = "truncate", !.file = f, !.epoch = unlinks,
                                  !.late = disk[f].done]
  <2>1. /\ last < MaxFiles /\ token' = f /\ last' = f
        /\ proc' = [proc EXCEPT ![p] = u]
    BY <1>2, <1>4 DEF Open, Opened
  <2>2. f \in Inode /\ f > last /\ f \in Nat /\ last \in Nat /\ f # 0
    BY <1>2, <2>1 DEF Inode
  <2>3. disk[f] = Blank
    BY <2>2 DEF MapInv, FreshBlank
  <2>4. /\ ~disk[f].done /\ ~disk[f].early /\ ~disk[f].spoilt /\ disk[f].fl = Nobody
    BY <2>3 DEF Blank
  <2>5. /\ u.pc = "truncate" /\ u.file = f /\ u.epoch = unlinks /\ ~u.late
        /\ u \in [pc : Pcs, file : 0 .. f, attr : AttrType, late : BOOLEAN, epoch : 0 .. unlinks]
    <3>1. disk[f].done \in BOOLEAN /\ "truncate" \in Pcs /\ proc[p] \in State
      BY <1>1, <1>2, <2>2 DEF File, Pcs
    <3>2. f \in 0 .. f /\ unlinks \in 0 .. unlinks
      BY <1>2, <2>2
    <3> HIDE DEF f
    <3> QED
      BY <3>1, <3>2, <2>4 DEF State
  <2>6. ASSUME NEW q \in Proc, q # p
        PROVE  /\ proc'[q] = proc[q] /\ proc[q].file # f
               /\ proc[q] \in [pc : Pcs, file : 0 .. f, attr : AttrType, late : BOOLEAN,
                               epoch : 0 .. unlinks]
    BY <1>2, <2>1, <2>2, <2>6 DEF State
  <2>7. proc'[p] = u /\ disk' = disk /\ unlinks' = unlinks /\ starts' = starts
    BY <1>1, <1>2, <2>1
  <2> HIDE DEF f, u
  <2>8. TypeOK'
    <3>1. \A q \in Proc : proc'[q] \in [pc : Pcs, file : 0 .. f, attr : AttrType,
                                        late : BOOLEAN, epoch : 0 .. unlinks]
      BY <2>5, <2>6, <2>7
    <3>2. proc' \in [Proc -> [pc : Pcs, file : 0 .. f, attr : AttrType,
                              late : BOOLEAN, epoch : 0 .. unlinks]]
      BY <1>2, <2>1, <3>1
    <3>3. \A q \in Proc : proc'[q].pc \in Mapping <=> proc'[q].file # 0
      BY <1>1, <1>2, <2>2, <2>5, <2>6, <2>7
    <3>4. \A g \in Inode, q \in Proc : disk'[g].fl = q => proc'[q].file = g
      <4>1. \A g \in Inode : disk[g].fl # p
        BY <1>2 DEF Inode
      <4> QED
        BY <4>1, <1>2, <2>6, <2>7
    <3>5. last' \in 0 .. MaxFiles /\ token' \in 0 .. last'
      BY <1>2, <2>1, <2>2 DEF Inode
    <3> QED
      BY <3>2, <3>3, <3>4, <3>5, <1>2, <2>1, <2>7 DEF MapInv, TypeOK, Pcs
  <2>9. FreshBlank'
    BY <1>2, <2>1, <2>2, <2>7 DEF MapInv, FreshBlank, Inode
  <2>10. \A q \in Proc : q # p /\ proc[q].pc \in Mapping => proc[q].epoch # unlinks
    BY <1>2, <1>4 DEF MapInv, TokenShared
  <2>11. TokenShared'
    BY <2>1, <2>5, <2>6, <2>7, <2>10 DEF TokenShared
  <2>12. SharedUnlessUnlinked'
    BY <2>5, <2>6, <2>7, <2>10 DEF MapInv, SharedUnlessUnlinked
  <2>13. OneMaker'
    BY <2>4, <2>5, <2>6, <2>7 DEF MapInv, OneMaker
  <2>14. Progress' /\ Makers'
    BY <2>5, <2>6, <2>7 DEF MapInv, Progress, Makers
  <2>15. Finished' /\ SpoiltEarly'
    BY <2>7 DEF MapInv, Finished, SpoiltEarly
  <2>16. Users'
    BY <2>5, <2>6, <2>7 DEF MapInv, Users, Creating
  <2>17. Holders'
    BY <2>5, <2>6, <2>7 DEF MapInv, Holders, Holder
  <2> QED
    BY <2>8, <2>9, <2>11, <2>12, <2>13, <2>14, <2>15, <2>16, <2>17 DEF MapInv
<1> QED
  BY <1>3, <1>4

-------------------------------------------------------------------------------
\* It holds at first.
LEMMA MapInit == Init => MapInv
<1> SUFFICES ASSUME Init PROVE MapInv
  OBVIOUS
<1>1. /\ token = 0 /\ last = 0 /\ unlinks = 0 /\ starts = 0
      /\ disk = [f \in Inode |-> Blank] /\ proc = [p \in Proc |-> Off]
  BY DEF Init
<1>2. Blank \in File /\ ~Blank.done /\ ~Blank.spoilt /\ Blank.fl = Nobody
  BY DEF Blank, File, Zero, AttrType
<1>3. Off \in State /\ Off.pc = "off" /\ Off.file = 0
  BY <1>1 DEF Off, State, Pcs, Zero, AttrType
<1>4. "off" \notin Mapping
  BY DEF Mapping, Creating, Attached
<1>5. TypeOK
  <2>1. disk \in [Inode -> File] /\ proc \in [Proc -> State]
    BY <1>1, <1>2, <1>3
  <2>2. last \in 0 .. MaxFiles /\ token \in 0 .. last /\ unlinks \in Nat /\ starts \in 0 .. MaxStarts
    BY <1>1, MapAssumption
  <2>3. \A p \in Proc : proc[p].pc \in Mapping <=> proc[p].file # 0
    BY <1>1, <1>3, <1>4
  <2>4. \A f \in Inode, p \in Proc : disk[f].fl = p => proc[p].file = f
    BY <1>1, <1>2, MapAssumption
  <2> QED
    BY <2>1, <2>2, <2>3, <2>4 DEF TypeOK, State, Pcs
<1>6. \A p \in Proc : proc[p].pc = "off" /\ proc[p].pc \notin Mapping
  BY <1>1, <1>3, <1>4
<1>7. FreshBlank /\ Finished /\ SpoiltEarly
  BY <1>1, <1>2 DEF FreshBlank, Finished, SpoiltEarly
<1> QED
  BY <1>5, <1>6, <1>7
  DEF MapInv, TokenShared, SharedUnlessUnlinked, OneMaker, Progress, Users, Makers, Holders,
      Mapping, Creating

\* Every step keeps it.
LEMMA MapNext == MapInv /\ [Next]_vars => MapInv'
<1> SUFFICES ASSUME MapInv, [Next]_vars PROVE MapInv'
  OBVIOUS
<1>1. CASE UNCHANGED vars
  BY <1>1 DEF vars, MapInv, TypeOK, FreshBlank, TokenShared, SharedUnlessUnlinked, OneMaker,
              Progress, Finished, Users, Makers, Holders, Holder, SpoiltEarly
<1>2. CASE Next
  <2> PICK p \in Proc : Step(p)
    BY <1>2 DEF Next
  <2> QED
    BY BeginKeeps, UnlinkKeeps, OpenKeeps, TruncateKeeps, MapKeeps, CopyKeeps, InitLocksKeeps,
       InitListsKeeps, FormatSlabsKeeps, FailKeeps, OpenTokenKeeps, LookKeeps, MeasureKeeps,
       RemapKeeps, LockKeeps, WorkKeeps, DestroyKeeps, DieKeeps
    DEF Step
<1> QED
  BY <1>1, <1>2

\* The inductive invariant holds of every reachable state.
THEOREM MapInvariance == Spec => []MapInv
BY MapInit, MapNext, PTL DEF Spec

\* The state is well typed whatever processes come, go and die.
THEOREM MapTypes == Spec => []TypeOK
<1>1. MapInv => TypeOK
  BY DEF MapInv
<1> QED
  BY <1>1, MapInvariance, PTL

\* Only one process creates a file, and none a finished one (O_CREAT | O_EXCL in
\* mmap_create).
THEOREM OneCreator == Spec => []OneMaker
<1>1. MapInv => OneMaker
  BY DEF MapInv
<1> QED
  BY <1>1, MapInvariance, PTL

\* Between two unlinks all share one file.
THEOREM Sharing == Spec => []SharedUnlessUnlinked
<1>1. MapInv => SharedUnlessUnlinked
  BY DEF MapInv
<1> QED
  BY <1>1, MapInvariance, PTL

\* "We can attach after create": a late attacher finds the creator's layout.
THEOREM LateAttach == Spec => []LateAttachSound
<1>1. ASSUME MapInv, NEW p \in Proc, proc[p].pc \in Mapping, proc[p].late
      PROVE  LET f == proc[p].file
             IN  /\ disk[f].done /\ disk[f].version /\ disk[f].len # 0 /\ proc[p].pc # "spin"
                 /\ Layout(f).raw + disk[f].attr.mem_limit = disk[f].len
                 /\ proc[p].pc \in Attached \cup {"remap"} =>
                      FormatMmap(proc[p].attr) = Layout(f)
  <2> DEFINE f == proc[p].file
             a == disk[f].attr
  <2>1. f \in Inode /\ disk[f] \in File
    BY <1>1, HasFile
  <2>2. proc[p].pc \notin Creating
    BY <1>1 DEF MapInv, Makers
  <2>3. /\ disk[f].done /\ proc[p].pc # "spin"
        /\ proc[p].pc \in Attached \cup {"remap"} => proc[p].attr = a
    <3>1. Users /\ proc[p].pc \in Mapping \ Creating
      BY <1>1, <2>2 DEF MapInv
    <3> QED
      BY <1>1, <3>1 DEF Users
  <2>4. disk[f].version /\ disk[f].len = SizeOfMmap(a)
    BY <1>1, <2>1, <2>3 DEF MapInv, Finished
  <2>5. a.classes \in Nat /\ a.nbuckets \in Nat /\ a.mem_limit \in Nat
    BY <2>1 DEF File, AttrType
  <2> DEFINE lists == Size.pointer * a.classes
             table == Size.pointer * a.nbuckets
             slabs == Size.slab * a.classes
             first == Size.version + Size.attr + Size.rwlock + Size.mutex
  <2>6. /\ lists \in Nat /\ table \in Nat /\ slabs \in Nat /\ first \in Nat /\ first # 0
    BY <2>5, MapAssumption
  <2>7. SizeOfMmap(a) = first + lists + lists + table + slabs + a.mem_limit
    BY DEF SizeOfMmap
  <2>8. FormatMmap(a).raw = first + lists + lists + table + slabs
    BY DEF FormatMmap
  <2> HIDE DEF lists, table, slabs, first, a
  <2>9. SizeOfMmap(a) # 0 /\ FormatMmap(a).raw + a.mem_limit = SizeOfMmap(a)
    BY <2>5, <2>6, <2>7, <2>8
  <2> QED
    BY <2>3, <2>4, <2>9 DEF Layout, a
<1>2. MapInv => LateAttachSound
  BY <1>1 DEF LateAttachSound
<1> QED
  BY <1>2, MapInvariance, PTL

\* In a file that nobody opened too early one process works at a time.
THEOREM Alone == Spec => []AloneUnlessEarly
<1>1. MapInv => AloneUnlessEarly
  BY DEF MapInv, Holders, AloneUnlessEarly
<1> QED
  BY <1>1, MapInvariance, PTL

\* What was stored in a finished file stays, and only who came early spoils it.
THEOREM FinishedFiles == Spec => FinishedStays
<1>1. ASSUME MapInv, MapInv', Next, NEW f \in Inode, disk[f].done
      PROVE  disk'[f].done /\ disk[f].items \subseteq disk'[f].items
             /\ (disk'[f].spoilt => disk[f].early)
  <2>1. PICK p \in Proc : Step(p)
    BY <1>1 DEF Next
  <2> DEFINE g == proc[p].file
  <2>2. disk \in [Inode -> File] /\ disk[f] \in File
    BY <1>1 DEF MapInv, TypeOK
  <2>3. disk[f].spoilt => disk[f].early
    BY <1>1 DEF MapInv, SpoiltEarly
  <2>4. proc[p].pc \in Creating => g # f
    BY <1>1 DEF MapInv, OneMaker
  <2>5. ASSUME disk'[f] = disk[f] \/ (/\ disk'[f].done = disk[f].done
                                      /\ disk[f].items \subseteq disk'[f].items
                                      /\ disk'[f].spoilt => disk[f].early)
        PROVE  disk'[f].done /\ disk[f].items \subseteq disk'[f].items
               /\ (disk'[f].spoilt => disk[f].early)
    BY <1>1, <2>3, <2>5
  <2>6. CASE Begin(p) \/ Unlink(p) \/ Open(p) \/ Measure(p) \/ Remap(p)
    BY <2>5, <2>6 DEF Begin, Unlink, Open, Measure, Remap
  <2>7. CASE \/ Truncate(p) \/ Map(p) \/ Copy(p) \/ InitLocks(p) \/ InitLists(p)
             \/ FormatSlabs(p)
    <3>1. proc[p].pc \in Creating
      BY <2>7 DEF Truncate, Map, Copy, InitLocks, InitLists, FormatSlabs, At, Creating
    <3>2. disk'[f] = disk[f]
      BY <2>2, <2>4, <2>7, <3>1
      DEF Truncate, Map, Copy, InitLocks, InitLists, FormatSlabs, Write
    <3> QED
      BY <2>5, <3>2
  <2>8. CASE Fail(p) \/ Look(p) \/ Die(p) \/ OpenToken(p) \/ Lock(p)
    <3>1. \/ disk'[f] = disk[f]
          \/ /\ disk'[f].done = disk[f].done /\ disk'[f].items = disk[f].items
             /\ disk'[f].spoilt = disk[f].spoilt
      <4>1. CASE Fail(p) \/ Look(p)
        <5>1. disk' = disk \/ Write(g, Closed(p, g))
          BY <4>1 DEF Fail, Look
        <5>2. CASE Write(g, Closed(p, g))
          BY <2>2, <5>2 DEF Write, Closed, File
        <5>3. CASE disk' = disk
          BY <5>3
        <5> QED
          BY <5>1, <5>2, <5>3
      <4>2. CASE Die(p)
        <5> DEFINE d == [Closed(p, g) EXCEPT !.rw = IF @ = p THEN Stuck ELSE @]
        <5>1. disk' = disk \/ disk' = [disk EXCEPT ![g] = d]
          BY <4>2 DEF Die, Write
        <5>2. g = f => /\ d.done = disk[f].done /\ d.items = disk[f].items
                       /\ d.spoilt = disk[f].spoilt
          BY <2>2 DEF Closed, File
        <5> HIDE DEF d
        <5>3. CASE disk' = [disk EXCEPT ![g] = d]
          BY <2>2, <5>2, <5>3
        <5>4. CASE disk' = disk
          BY <5>4
        <5> QED
          BY <5>1, <5>3, <5>4
      <4>3. CASE OpenToken(p)
        BY <2>2, <4>3 DEF OpenToken, Write, File
      <4>4. CASE Lock(p)
        BY <2>2, <4>4 DEF Lock, Write, File
      <4> QED
        BY <2>8, <4>1, <4>2, <4>3, <4>4
    <3> QED
      BY <2>3, <2>5, <3>1
  <2>9. CASE Work(p) \/ Destroy(p)
    <3>1. proc[p].pc \in {"in", "leave"} /\ proc[p].pc \in Mapping /\ proc[p].pc \in Attached
      BY <2>9 DEF Work, Destroy, At, Mapping, Attached
    <3>2. CASE g # f
      <4>1. disk'[f] = disk[f]
        BY <2>2, <2>9, <3>2 DEF Work, Destroy, Unlocked, Write
      <4> QED
        BY <2>5, <4>1
    <3>3. CASE g = f
      <4>1. CASE Destroy(p)
        <5>1. /\ disk'[f].done = disk[f].done /\ disk'[f].items = disk[f].items
              /\ disk'[f].spoilt = disk[f].spoilt
          <6> DEFINE e == Closed(p, f)
          <6>1. /\ e \in File /\ e.done = disk[f].done /\ e.items = disk[f].items
                /\ e.spoilt = disk[f].spoilt
            BY <2>2 DEF Closed, File
          <6>2. Unlocked(p, f, e)
            BY <3>3, <4>1 DEF Destroy
          <6> HIDE DEF e
          <6> QED
            BY <2>2, <6>1, <6>2 DEF Unlocked, Write, File
        <5> QED
          BY <2>3, <2>5, <5>1
      <4>2. CASE Work(p)
        <5> DEFINE e == IF Sound(p) THEN [disk[f] EXCEPT !.items = @ \cup {p}]
                        ELSE [disk[f] EXCEPT !.spoilt = TRUE]
        <5>1. /\ e.done = disk[f].done /\ disk[f].items \subseteq e.items
              /\ e.spoilt => disk[f].spoilt \/ ~Sound(p)
          BY <2>2 DEF File
        <5>2. Unlocked(p, f, e)
          BY <3>3, <4>2 DEF Work
        <5>3. ~Sound(p) => disk[f].early
          BY <1>1, <2>3, <3>1, <3>3, InSound DEF Sound, Layout
        <5>4. e \in [len : Nat, version : BOOLEAN, attr : AttrType, copying : BOOLEAN,
                     rw : Proc \cup {Nobody, Stuck}, fl : Proc \cup {Nobody}, done : BOOLEAN,
                     items : SUBSET Proc, early : BOOLEAN, spoilt : BOOLEAN]
          BY <2>2 DEF File
        <5> HIDE DEF e
        <5>5. /\ disk'[f].done = e.done /\ disk'[f].items = e.items
              /\ disk'[f].spoilt = e.spoilt
          BY <2>2, <5>2, <5>4 DEF Unlocked, Write
        <5> QED
          BY <2>3, <2>5, <5>1, <5>3, <5>5
      <4> QED
        BY <2>9, <4>1, <4>2
    <3> QED
      BY <3>2, <3>3
  <2> QED
    BY <2>1, <2>6, <2>7, <2>8, <2>9 DEF Step
<1>2. ASSUME MapInv, MapInv', [Next]_vars
      PROVE  [\A f \in Inode : disk[f].done =>
                /\ disk'[f].done /\ disk[f].items \subseteq disk'[f].items
                /\ disk'[f].spoilt => disk[f].early]_vars
  <2>1. CASE UNCHANGED vars
    BY <2>1
  <2>2. CASE Next
    BY <1>1, <1>2, <2>2
  <2> QED
    BY <1>2, <2>1, <2>2
<1> QED
  BY <1>2, MapInvariance, PTL DEF FinishedStays, Spec

================================================================================
