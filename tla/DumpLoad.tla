-------------------------------- MODULE DumpLoad --------------------------------
(***************************************************************************)
(* shmc_dump and shmc_load: the items of a segment are written to a file,  *)
(* record by record, and read back through a buffer into the segment, or   *)
(* into one that has been created since. The write lock is held all along. *)
(*                                                                         *)
(* Of the bytes of the file only the places matter: load.base, load.pos    *)
(* and load.read are places in the file: of what the buffer starts with,   *)
(* of what is parsed next, and of what fread returns next. In shmc.c       *)
(* offset is pos - base, and read - base when fread is called.             *)
(* saved and before are history.                                           *)
(***************************************************************************)
EXTENDS ShmcStore

CONSTANTS
  Buffer,    \* BUFFER_SIZE
  Junk,      \* what a value reads as after a NUL that was not written
  MaxDumps,  \* bound on the dumps
  MaxCalls   \* bound on the loads and the other calls

VARIABLES
  file,    \* the records of the dump file
  dumps,   \* how many dumps there were
  calls,   \* how many loads and other calls
  load,    \* the load that is under way, or has just ended
  saved,   \* of each class, the keys in its list at the dump
  before   \* the content when the load began

dvars == <<shm, call, fault, file, dumps, calls, load, saved, before>>

\* A text is of one part here, whose tag tells its length, and prints whole.
ASSUME DumpAssumption ==
  /\ Buffer \in Nat /\ MaxDumps \in Nat /\ MaxCalls \in Nat
  /\ \A v \in Text : Len(v.body) = 1 /\ v.body[1].tag # "number"
  /\ \A v, w \in Text : v.body[1].tag = w.body[1].tag => v.nval = w.nval
  /\ Junk \in Part

-------------------------------------------------------------------------------
(***************************************************************************)
(* Records: "nkey nval key val\n". The value is printed with %.*s, which   *)
(* stops at the NUL a counter ends in: then len, the bytes there are, is   *)
(* less than need, the bytes load looks for.                               *)
(***************************************************************************)
Digits[n \in Nat] == IF n < 10 THEN 1 ELSE 1 + Digits[n \div 10]

PartLen(q) == IF q.tag = "number" THEN CounterLen
              ELSE (CHOOSE v \in Text : v.body[1].tag = q.tag).nval

Numbers(body) == {p \in DOMAIN body : body[p].tag = "number"}

Printed(it) ==
  IF Numbers(it.body) = {} THEN it.nval
  ELSE LET p    == Min(Numbers(it.body))
           text == SumFunctionOnSet([q \in DOMAIN it.body |-> PartLen(it.body[q])], 1 .. p - 1)
       IN  Min({it.nval, text + Digits[it.body[p].num]})

Record(it) ==
  LET head == Digits[it.nkey] + 1 + Digits[it.nval] + 1 + it.nkey + 1
  IN  [key |-> it.key, nval |-> it.nval, body |-> it.body,
       need |-> head + it.nval + 1, len |-> head + Printed(it) + 1]

\* Mutant: the least recently used item is written first.
RecordsFromTails(s) ==
  LET items == FlattenSeq([c \in 1 .. NSlabs |-> Reverse(s.lru[c - 1])])
  IN  [j \in DOMAIN items |-> Record(s.item[items[j]])]

Records(s) ==
  LET items == FlattenSeq([c \in 1 .. NSlabs |-> s.lru[c - 1]])
  IN  [j \in DOMAIN items |-> Record(s.item[items[j]])]

\* Where record j starts in the file.
Start(j) == SumFunctionOnSet([p \in DOMAIN file |-> file[p].len], 1 .. j - 1)
Bytes == Start(Len(file) + 1)

\* The value load finds in record r, if need be in the bytes that follow it.
Found(r) ==
  [nval |-> r.nval,
   body |-> IF r.len = r.need THEN r.body
            ELSE Append(SubSeq(r.body, 1, Min(Numbers(r.body))), Junk)]

Idle == [pc |-> "idle", base |-> 0, pos |-> 0, read |-> 0]

DInit ==
  /\ Init /\ file = <<>> /\ dumps = 0 /\ calls = 0 /\ load = Idle /\ before = <<>>
  /\ saved = [c \in Slabs |-> <<>>]

Says(op, rc) ==
  call' = [op |-> op, key |-> NoKey, rc |-> rc, out |-> <<>>, flags |-> 0]

Keys(s) == [c \in Slabs |-> [j \in DOMAIN s.lru[c] |-> s.item[s.lru[c][j]].key]]

-------------------------------------------------------------------------------
\* What fprintf and fclose answer is not looked at: on a full disk the file ends
\* in a record, and the answer is the same.
Dump ==
  LET rs == Records(shm)
  IN  /\ dumps < MaxDumps /\ dumps' = dumps + 1
      /\ \/ file' = rs
         \/ \E j \in DOMAIN rs : \E cut \in {1, rs[j].len - 1} :
              file' = Append(SubSeq(rs, 1, j - 1), [rs[j] EXCEPT !.len = cut])
      /\ Says("dump", "OK")
      /\ saved' = Keys(shm) /\ load' = Idle /\ before' = <<>>
      /\ UNCHANGED <<shm, fault, calls>>

\* fopen, or malloc, refuses. Nothing is read or written.
Unopened ==
  /\ \E op \in {"dump", "load"} : Says(op, "SYSTEM")
  /\ load' = Idle /\ before' = Content
  /\ UNCHANGED <<shm, fault, file, dumps, calls, saved>>

Load ==
  /\ dumps > 0 /\ calls < MaxCalls /\ calls' = calls + 1
  /\ load' = [Idle EXCEPT !.pc = "fread"] /\ before' = Content
  /\ UNCHANGED <<shm, call, fault, file, dumps, saved>>

Ended(rc) == Says("load", rc) /\ load' = [load EXCEPT !.pc = "idle"]

Fread ==
  LET n == Min({Buffer - (load.read - load.base), Bytes - load.read})
  IN  /\ load.pc = "fread"
      /\ IF n = 0 THEN Ended("OK")
         ELSE /\ load' = [load EXCEPT !.pc = "parse", !.pos = load.base, !.read = @ + n]
              /\ UNCHANGED call
      /\ UNCHANGED <<shm, fault, file, dumps, calls, saved, before>>

\* Mutant: a key that is there keeps its value.
SetRecordIfAbsent(k, v, n) ==
  LET r == AddNolock(shm, k, v, 0)
  IN  /\ ~Lost(k, v.nval) /\ shm' = r.shm
      /\ load' = [load EXCEPT !.pos = @ + n] /\ UNCHANGED <<call, fault>>

\* A record of n bytes is set, with no flags; an error ends the load.
SetRecord(k, v, n) ==
  LET r == SetNolock(shm, k, v, 0)
  IN  IF Lost(k, v.nval) THEN fault' = "offtable" /\ UNCHANGED <<shm, call, load>>
      ELSE /\ shm' = r.shm
           /\ IF r.rc = "OK" THEN load' = [load EXCEPT !.pos = @ + n] /\ UNCHANGED call
                             ELSE Ended(r.rc)
           /\ UNCHANGED fault

Left == load.read - load.pos
Here == {j \in DOMAIN file : Start(j) = load.pos}

Take ==
  /\ load.pc = "parse"
  /\ \E j \in Here : file[j].need <= Left /\ SetRecord(file[j].key, Found(file[j]), file[j].need)
  /\ UNCHANGED <<file, dumps, calls, saved, before>>

\* The least bytes that can look like a record of k and v: atoi reads nothing as 0.
Least(k, v) ==
  LET number(n) == IF n = 0 THEN 0 ELSE Digits[n]
  IN  number(KeyLen[k]) + number(v.nval) + KeyLen[k] + v.nval + 4

\* In the middle of a record, after one that was shorter than it said, what is
\* there may look like any record.
Stray ==
  /\ load.pc = "parse" /\ Here = {}
  /\ \E k \in Key, v \in Text : \E n \in Least(k, v) .. Left : SetRecord(k, v, n)
  /\ UNCHANGED <<file, dumps, calls, saved, before>>

\* Mutant: a buffer without a record is passed over.
ShiftAnyway ==
  /\ load.pc = "parse" /\ \A j \in Here : file[j].need > Left
  /\ load' = [load EXCEPT !.pc = "fread", !.base = IF load.pos # load.read THEN load.pos ELSE @]
  /\ UNCHANGED <<shm, call, fault, file, dumps, calls, saved, before>>

\* No record is left in the buffer. What there is of the next one is moved to the
\* front, unless there is nothing: then base, and with it offset, stays.
Shift ==
  /\ load.pc = "parse" /\ \A j \in Here : file[j].need > Left
  /\ IF load.pos = load.base THEN Ended("ESIZE")
     ELSE /\ load' = [load EXCEPT !.pc = "fread",
                                  !.base = IF load.pos # load.read THEN load.pos ELSE @]
          /\ UNCHANGED call
  /\ UNCHANGED <<shm, fault, file, dumps, calls, saved, before>>

\* netshell -a, or the first one after a reboot: the segment is a new one.
Recreate ==
  /\ shm' = Formatted /\ call' = [op |-> "init", rc |-> "OK"]
  /\ load' = Idle /\ before' = <<>>
  /\ UNCHANGED <<fault, file, dumps, calls, saved>>

Otherwise ==
  /\ calls < MaxCalls /\ calls' = calls + 1
  /\ \E k \in Key : Operation(k)
  /\ load' = Idle /\ before' = <<>> /\ UNCHANGED <<file, dumps, saved>>

DNext ==
  /\ fault = "none"
  /\ IF load.pc = "idle" THEN Otherwise \/ Dump \/ Unopened \/ Load \/ Recreate
                         ELSE Fread \/ Take \/ Stray \/ Shift

DSpec == DInit /\ [][DNext]_dvars

-------------------------------------------------------------------------------
(***************************************************************************)
(* Properties.                                                             *)
(***************************************************************************)
Whole(j) == file[j].len = file[j].need

\* The records loaded so far, when all of them are whole.
Taken == Cardinality({j \in DOMAIN file : Start(j) + file[j].need <= load.pos})
Straight == \A j \in DOMAIN file : j < Len(file) => Whole(j)

Loading == fault = "none" /\ (load.pc # "idle" \/ call.op = "load")
Answered == Loading /\ load.pc = "idle"

\* While load runs, and when it has answered, whatever it answered: the content
\* is the one it found, overwritten with the records read so far, whose flags are
\* lost. Of the record that found no memory the old value is gone as well.
LoadWritesPrefix ==
  Loading /\ Straight /\ ~EvictToFree =>
    LET new   == {file[j].key : j \in 1 .. Taken}
        read  == [k \in new |->
                   LET r == CHOOSE r \in Range(file) : r.key = k
                   IN  [nval |-> r.nval, body |-> r.body, flags |-> 0]]
        full  == Answered /\ call.rc = "NOMEMORY"
        lost  == IF full THEN {file[Taken + 1].key} ELSE {}
    IN  Content = [k \in (new \cup DOMAIN before) \ lost |->
                     IF k \in new THEN read[k] ELSE before[k]]

\* The answer of load tells whether the file was read to its end: OK means that it
\* was, but for a last record that is cut, or the records have filled the buffer to
\* the last byte; ESIZE means that the next record is cut or larger than the buffer,
\* or holds an item that set refuses (replace and append may store one by Brim).
AnswerTells ==
  Answered /\ Straight =>
    /\ call.rc = "OK" =>
         \/ Taken = Len(file)
         \/ Taken = Len(file) - 1 /\ ~Whole(Len(file))
         \/ load.pos = load.read /\ load.read - load.base = Buffer
    /\ call.rc = "ESIZE" =>
         LET next == file[Taken + 1]
         IN  \/ ~Whole(Taken + 1) \/ next.need > Buffer
             \/ ~ItemSizeOk(KeyLen[next.key], next.nval)

\* Dump writes the most recently used item of a class first and load sets it first:
\* loaded into an empty segment, where no item has to go for another, each list
\* comes back in reverse.
RecencyReversed ==
  /\ Answered /\ call.rc = "OK" /\ before = <<>> /\ ~EvictToFree
  /\ Straight /\ Taken = Len(file)
  /\ Len(file) = Len(FlattenSeq([c \in 1 .. NSlabs |-> saved[c - 1]]))
  => Keys(shm) = [c \in Slabs |-> Reverse(saved[c])]

================================================================================
