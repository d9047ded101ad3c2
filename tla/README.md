# shmc in TLA+

A formal model of shmc, the shared-memory key-value library in `src/shmc.c`, and
of the server `netshell` built on it. TLC checks the modules on small instances;
TLAPS proves for every value of the constants the invariants of the store, of its
slab table, of its locks, of dump and load, of the file behind a segment and of
netshell, and that the store, in whole calls and in calls taken apart, implements the
map it promises.

## 1. The system

| Part | Source | State | Operations | Met by |
|---|---|---|---|---|
| Segment: slab allocator | `shmc.c:845-917` | free list of each class, `mem_used` | `item_alloc`, `item_free`, a page from the pool, eviction | the store operations |
| Segment: hash table | `shmc.c:796-843` | `buckets`, `h_next`, `nitems`, `max_depth` | `assoc_find`, `assoc_insert`, `assoc_delete` | the store operations |
| Segment: LRU lists | `shmc.c:756-794` | `heads`, `tails`, `next`, `prev` | `item_link`, `item_unlink`, `item_relink` | the store operations |
| Store operations | `shmc.c:368-624`, wrappers in `shmc.h` | the items | get, getf, set, add, replace, prepend, append, incr, decr, del | every process that has the segment mapped |
| Slab table | `shmc.c:144-198`, `300-310` | `slabs[].size`, `slabs[].count` | repair of the attributes, `count_of_slabs`, `format_slabs`, `item_clsid` | creation of a segment; `item_alloc`, `item_free` |
| Locks | `shmc.c:715-754`, `373` | rwlock and mutex in the segment, or an fcntl lock on the token | `shmc_rdlock`, `shmc_wrlock`, `shmc_unlock` | the wrappers in `shmc.h` |
| Life cycle | `shmc.c:200-347` | the token file, its mapping | `shmc_init` (create or attach), `shmc_destroy` | processes, netshell |
| Dump and load | `shmc.c:626-713` | a file of records | `shmc_dump`, `shmc_load` | netshell's `dump`, `load` |
| Event loop | `netshell/eventmgr.hpp` | epoll set, `stop_`, timer anchor | `run`, `stop`, `addEvent`, `updateEvent` | `McShell`, the signal handlers |
| Connections | `netshell/mcshell.cc` | state, byte counters and buffers of each connection | `onListening`, `onRead`, `onNRead`, `onWrite`, `onClose` | the event loop calls them, they call shmc |
| Tokenizer | `netshell/token.c` | none | `tokenize` | `onRead` |
| Start-up | `netshell/netshell.cc`, `netshell.init` | the token, signal handlers | unlink, create, run, destroy | the service script |
| Hash function | `hash.c` | none | `hash` | vendored |
| tplock | `tplock.cc` | a shared integer | lock, increment, unlock | stand-alone trial |

How they interact: processes share the segment and nothing else. Each public
operation takes a lock, calls its `_nolock` body and lets the lock go. Readers
(`shmc_get`, `shmc_getf`) hold only the read lock, and relink the item they find
under an extra mutex. `netshell` is one such process: a single thread runs the
event loop, and a connection's handler calls shmc synchronously.

What is hard about each part, and what makes it correct:

- *Allocator, table and lists* are three structures over the same chunks, each
  changed by every operation, with an eviction that may fire in the middle of any
  of them. Correct means: a chunk is on one list of its own class, the table and
  the LRU lists hold the same items, the counters agree, and an eviction takes
  only what it may.
- *Store operations* delete before they allocate, rewrite items in place when the
  class allows, and compute the class anew when they free. Correct means that they
  answer and change the content as a map would.
- *Slab table*: two loops compute the same table with a float factor. Correct
  means that they end and agree and that accepted sizes have a class.
- *Locks*: readers write; the locks are not robust; fcntl locks belong to a
  process. Correct means that no list is changed by two parties, and that a dead
  process does not stop or corrupt the others.
- *Life cycle*: creation is not atomic with respect to attaching, and a failed
  creation leaves its token. Correct means that a file has one creator, that who
  comes late finds a finished file, and that a finished file stays finished.
- *Dump and load*: the buffer boundary, a truncated last record, the order of
  the lists. Correct means that load stores records of the file, in order and
  whole, and that its answer tells how far it came.
- *Server*: partial reads and writes, several commands in one packet, signals
  before the loop starts. Correct means that values are stored whole, a command
  is executed once, a waiting client is answered or disconnected, and a signal
  ends the loop.

`PROJECT.json` lists these hazards with the line at which each one bites.

## 2. Modules

| Module | Models | Lines of the code |
|---|---|---|
| `SlabClass` | sizes, classes, the two steps of the layout loops, as operators | `shmc.c:66-67, 136-166` |
| `Values` | what a stored value is to its readers; counters | `shmc.c:524-537, 590-599` |
| `ShmcStore` | the segment and the ten operations on it | `shmc.c:200-624, 756-917`, `shmc.h` |
| `Cache` | the map that shmc promises its callers | `shmc.h`, the answers in `shmc.c` |
| `ShmcLock` | the locks around get, getf, set and del, taken apart into steps | `shmc.c:368-425, 614-624, 715-812`, `shmc.h:53-75, 124-129` |
| `SlabFormat` | `shmc_init`'s repair, `count_of_slabs`, `format_slabs` | `shmc.c:155-198, 295-329` |
| `ShmcMap` | the file behind a segment: create, attach, use, leave, unlink, die | `shmc.c:80-134, 200-347, 715-754`, `netshell.cc:121-127` |
| `DumpLoad` | dump and load, on top of `ShmcStore` | `shmc.c:626-713`, `shmc.h:131-143` |
| `Tokenize` | the words of a command line | `netshell/token.c` |
| `McConn` | the connections of netshell | `netshell/mcshell.cc` |
| `Netshell` | the event loop, the start and the end of netshell, its clients; composes `McConn` and `Tokenize` | `netshell/eventmgr.hpp:76-115`, `netshell.cc:15-22, 133-147`, `mcshell.cc:146-172, 723-774` |
| `MCShmcStore`, `MCShmcLock`, `MCSlabFormat`, `MCShmcMap`, `MCDumpLoad`, `MCNetshell` | small instances for TLC | |
| `ListLemmas` | facts about sequences, least elements, sums, and lists put one after another | |
| `ShmcStoreProofs` | invariants of `ShmcStore`, proved | |
| `ShmcCacheProofs` | `ShmcStore` implements `Cache`; what eviction may take; proved | |
| `SlabFormatProofs` | the invariants of `SlabFormat` and its variant, proved | |
| `ShmcLockProofs` | the safety of `ShmcLock` and its refinement of `Cache`, proved | |
| `DumpLoadProofs` | what load writes and answers, and the order it leaves, proved | |
| `ShmcMapProofs` | the safety of `ShmcMap`, proved | |
| `NetshellProofs` | the safety of `McConn` and `Netshell`, proved | |

### ShmcStore

The variable `shm` is the segment, a record: `mem_used`, `nitems` and `max_depth`
are the attributes of these names, `carved[c]` is how many chunks have been cut
for class `c`, `free[c]` is the stack `slabs[c].free_item`, `lru[c]` the list from
`heads[c]` to `tails[c]`, `bucket[b]` a hash chain, and `item[i]` the fields of a
chunk. A chunk is named `<<class, number>>`, which stands for its offset. The
variable `call` is the last call and its answer, `fault` says that the process has
met an assertion or has run off the slab table.

Each helper of `shmc.c` is an operator of the same name on segments (`ItemLink`,
`AssocDelete`, `ItemAlloc`, ...). Each `_nolock` function is an operator from a
segment to a result (`SetNolock`, ...), and each call of the API is one action
that replaces `shm` by that result (`Set`, ...): the whole body, including the
eviction it may cause, in the order of the code. Prepend and append share
`ExtendNolock`, as their code is the same but for the two `memcpy`. `Arithmetic`
is `shmc_arithmetic`, with its two ways out in `Recount` and `NewCounter`; the
second follows the code to where `item_alloc` hands out the old item itself.

A call is atomic. For the writing calls that is what the write lock gives. For
get and getf it leaves out that two readers may run at once: that is `ShmcLock`.

`malloc` in `shmc_get_nolock` may fail: a choice. What a chunk holds after it has
been freed matters in one place, where `flags` are read by the next owner
(`shmc.c:480, 514`): `Dead` keeps the flags and nothing else. Where `item_clsid`
finds no class the code reads past `slabs[]`. What follows is undefined, and the
action `RunOff` ends the run with `fault = "offtable"`. Where the garbage is only
compared with (`shmc.c:440, 460, 495`) the call may also go on, as it does in the
operators; `RunOff` and the call are then both possible.

Three assumptions on the constants: `ParamAssumption` gives them their types,
`PageAssumption` says that a page of a class is no larger than `item_size_max`, as
its count is a quotient of the two, and `FormatAssumption` that the first pages fit
the pool, which is the assertion at `shmc.c:185`. (A build without assertions may
also start with a pool that is full to the last byte; such a segment carves no page
any more, and is left out.) `SlabFormat` has the code these come from.

### Cache

The abstract specification: `content`, a function from the keys that are held to
`[nval, body, flags]`, and the same `call`. It has no memory and no classes: a
storing call may be refused for want of memory when eviction is off, and may push
one other key out when it is on. Four of its operators carry the weak points of
the code by name: `Lose` (a failed set or replace has dropped the old value),
`Leftover` (append and prepend may leave flags nobody passed), `Vanish` (incr and
decr may answer with a number they did not store) and `Brim` (replace, append and
prepend, which test the size only where the class changes, may store an item of just
`item_size_max` bytes, which set refuses). `ShmcStore!ImplementsCache`
is the refinement, under the mapping that reads the content through `AssocFind`.

### ShmcLock

Threads, one to a process, that call get, getf, set and del. `readers` and `writer`
are the holders of the segment's lock, `mutex` the holder of the mutex, `me[t]`
where thread `t` is and its locals, `left[t]` the calls it may still make. The module
extends `ShmcStore` and shares its `shm`: a step of a call is one helper of
`ShmcStore` (`ItemUnlink`, `ItemLink`, `AssocDelete`, `ItemAlloc`, ...) applied to the
segment as it is at that moment. Its own initial states, steps and types are `LInit`,
`LNext` and `LTypeOK`; `fault` stays as it is, since `ClassAssumption` gives every
accepted size a class (with the default attributes some have none: finding 4). get and getf are one operation,
`"read"`, up to the copy, since their code is the same to there. `assoc_find` takes
a step for each item (`Look`, `Compare`), with a step of its own (`Raise`) between
the test of `max_depth` and its assignment, which readers make with no exclusive
lock.

`use_flock` is chosen at the start. Between live threads of different processes
the fcntl lock and the rwlock are the same; they differ in `Die`, which may end
any call half-way: the kernel takes a dead process's fcntl lock back, and nobody
takes back the rwlock or the mutex. With an fcntl lock the next process may then
enter a segment left half-changed (`Torn`): what it does there would follow broken
pointers, and the model ends. Two threads of one process, whose fcntl locks are
one, are left out: `shmc.h:207` forbids them.

`call` and `content` are history: the last answer, and the content the segment had
when it was given. `CallsAreAtomic` says that these two behave as `Cache` does,
hence that calls in pieces answer as whole ones.

The calls not in the module (add, replace, prepend, append, incr, decr) are run
under the same write lock as set and del.

### SlabFormat

`pc` says where `shmc_init` is; each turn of the loop in `count_of_slabs` and of
the loop in `format_slabs` is a step. The float factor is a fraction: exact for
the factors meant here, since sizes below 2^24 fit a float. The assertion at
`shmc.c:185` is a step to `"assert"` in a build with assertions, and to
`"overrun"` when the pages are past the pool and assertions are off.

### ShmcMap

`token` is the inode the token names, `disk[f]` an inode: its length, whether the
version is written, the attributes, the holders of the rwlock and of the fcntl
lock, whether the creator is through (`done`), what is stored in it (`items`), and
whether a call has written where it should not (`spoilt`). `proc[p]` is where a
process is in `shmc_init`, in a call or in `shmc_destroy`, with the file it has
open and the attributes it knows. Each step is a system call of `mmap_create` or
`mmap_attach` and the writes up to the next one another process can tell from it.

While the creator copies its attributes (`copying`), who reads them gets any mix
of old and new fields (`Torn`), and may be sent round `count_of_slabs` for ever
(`"spin"`): an item size without its factor does that. `Fail` is a system call
that fails, at every step that has one; what was created stays, as in the code.
`Die` ends a process anywhere. The kernel drops its fcntl lock, and the rwlock it
held is `Stuck`. An unlinked inode lives on in the processes that have it open.

Abstracted: every call takes the write lock (readers are in `ShmcLock`); the codes
a failing `shmc_init` returns; the table of slabs, of which the number of classes
remains (`SlabFormat` has the rest); what is in a file once it is spoilt.
`proc[p].late` (the file was finished when `p` opened it), `proc[p].epoch` (how
often the token had been unlinked), `disk[f].early` (somebody has opened the file
before it was finished), `disk[f].items` and `unlinks` are history, and no step
depends on them.

### DumpLoad

`file` is the dump, a sequence of records in the order in which `shmc_dump_nolock`
meets the items. A record has the bytes load looks for (`need`) and the bytes there
are (`len`). They differ where `%.*s` stops at the NUL of a counter, and in the
last record when the disk is full, which nobody looks at. `load` is the state of
the read loop as places in the file: where the buffer starts, what is parsed next,
how far `fread` has come. `Fread`, `Take` (a record is set), `Shift` (none is left
in the buffer) are its steps. Taking a record is `SetNolock` of `ShmcStore`, so that
it evicts, refuses and fails as `shmc_set` does. When the loop is in the middle of
a record (`Stray`), which happens only after a short one, it may find any key and
value of the instance there, or stop. `Recreate` is a new segment under the old
dump. The write lock is held from the first to the last step of a load, so nothing
else runs in between.

Keys have no NUL and the numbers of a record no sign; an error of `fread` reads as
the end of the file, as it does in the code.

### Tokenize, McConn, Netshell

`Tokens` is the loop of `tokenize`, one `Step` for each character of a line.
`FirstWords` says that a list is that of the words of a line, or of the first of them
if there is no more room, without reference to the loop.

A connection of `McConn` has the fields of the class that its handlers use:
`state`, `header` (`reqHeader_` up to `reqHeaderBytes_`), `body` and `bodySize`,
the reply, and `want`, the event it is registered for. The bytes are units with a
name of their own: unit `i` of request `r` of client `c`. A value that is stored
shows where each of its pieces came from, and a reply which request it was printed
for. There is one action for each way through a handler: `ReadHangup`,
`ReadNoLine`, `ReadStoring` and `ReadCommand` are `onRead`, `NReadShort` and
`NRead` are `onNRead`, `Write` and `Close` are `onWrite` and `onClose`.

A request is a command line, with the length of the data block it declares (`need`),
and what the client sends behind it: `body` units, which may be more or fewer, and of
which those in `breaks` are newlines. The stream has no other marks, and neither has
the code: a server that has lost its place, because a block was longer than declared,
or because what came behind a command was dropped with the buffer, takes the tail of a
line, or a part of a block, for a line. What such bytes say depends on their text.
`Says` is the client's own command where the line is a whole line that was sent as
one, and otherwise any of `Stray`, which may be any commands with any keys and any
declared length. `ran` is history: for each connection the newline and the last unit
of each command executed, whoever meant it.

A call of shmc is a choice among the results the library may give, errors and the
eviction of another key included; what it does inside is in `ShmcStore` and
`DumpLoad`, and that other processes change the content is left out. A dump writes a
value up to a NUL (`Records`): a number has one at its end, and a data block may have
one anywhere, so that a record may be short of the length it states. Load then takes
for the value what is there and bytes of the record behind it (`Restored`), and goes
on in the middle of that one (`Astray`): any key may then have any such bytes
(`Foreign`), or be passed over. A dump may be cut by a full disk, and a load may fail
with some records set. The calls are taken to return, which `ShmcLock!EveryCallEnds`
makes precise.

`Netshell` adds the thread: `pc` is where `main` is, `stop` is `stop_`, `batch` the
events that `epoll_wait` has returned, `current` the connection whose handler runs.
Clients act between any two steps: they connect, send a request in pieces, close
or reset. Those of `Sync` wait for each answer, the others send ahead. A client
that half-closes its connection is `Hangup` with `eof`. `Throw` and `Break` are
the failures of the constructor and of `epoll_wait`; `OnListening` has the three
failures of accepting, of which one leaves a socket open that nobody serves
(`"Leaked"`, `mcshell.cc:158-162`). What a socket takes of a reply is all of it or
not all of it: after a part `onWrite` gives the connection up, whatever the part.

## 3. Runs

| Run | Instance | Shows |
|---|---|---|
| `Store_evict` | 3 keys, two in one chain, the third too long for a counter; chunks 128 x 2 and 256 x 1; pool full; eviction; assertions on | lists, table, counts, classes and evictions stay right under every sequence of calls |
| `Promise_evict` | 2 keys, 2 values, chunks 72 x 1 and 120 x 1, one page left in the pool for class 0 and none for class 1; eviction | refinement of `Cache`; the accounting of pages; pages before evictions |
| `Promise_full` | 2 keys, 3 values, no eviction, no default counters | refinement of `Cache` when calls fail |
| `Lock` | 2 processes with 2 calls each, 2 keys in one chain, one chunk each, both kinds of lock, one death | exclusion, a whole segment whenever nobody writes, atomic calls, calls that end |
| `Format` | 864 combinations of attributes, among them factors of 0, 1 and 3/2 and pools too small | the loops end and agree; the table is ordered; waste is bounded |
| `Server` | 2 clients, 1 key, a header buffer of 4 units, 31 scripts of up to 4 requests with every command, an empty value, a word too many, a line too long, newlines in a value, more and less sent than declared; 3 things a stray line may say | values made of whole blocks, commands executed once and in order, answers to who waits, connections at rest and given back, the end by a signal |
| `Map` | 3 processes, 2 files, 3 starts, 2 sets of attributes with either kind of lock | one creator, sound attaches, exclusion unless somebody came early, finished files |
| `Dump` | 2 keys, records of 14, 32 and 64 bytes, a buffer of 32, classes 72 x 2, 120 x 1, 192 x 1, no eviction; 2 dumps, 4 loads and other calls | what load stores, what it answers, the order it leaves |
| `Extend_flags` | violation | a moved append forgets its flags (finding 1) |
| `Counter_lost` | violation | incr answers with a number it has not stored (finding 2) |
| `Counter_size` | violation | incr meets the assertion of `item_alloc` (finding 3) |
| `Format_default` | violation | accepted sizes without a class under the default attributes (finding 4) |

Bounds, and why they are enough. Two classes, one with two chunks: enough for an
item to move between classes, for a class to be full while another is not, and
for an eviction to have a choice. Two keys in one chain and one in another: a
chain of two has a first and a last element to delete. Values are chosen by the
class they lead to: two in one class, one in the other, and joined ones that are
too large. `MaxParts` (2) stops append and prepend at two parts, enough for the
order of the bytes to show. `Word` (the modulus of counters, 2^64 in the code) is
2 where values matter, so that a counter wraps after two steps; it is 1 in
`Store_evict`, where only lengths matter. `max_depth` and `mem_used` are bounded
by the keys and by the pool. `CHECK_DEADLOCK FALSE` is there because the process
may stop (`fault`), because `shmc_init` ends, and in `Lock` because the calls are
used up or wait for a dead holder; that they wait for nobody else is
`EveryCallEnds`.

In `Lock`, two processes meet in every pair of calls, two readers in one list among
them, and two calls each let a call meet what an earlier one left. One chain of two
gives `assoc_find` a second item to go on to, and so a `max_depth` to raise twice.
The lists are short: with two chunks every position is an end, which is where
`item_unlink` and `item_link` do their work.

In `Server`, each script is there for a way through the handlers: `Alone` has every
command followed by a get on the same connection, which shows what the command has
left in the buffers, and a value with a newline, or a number, that is dumped and
loaded again; `Ahead` has clients whose second request arrives in the buffer of the
first, with the newline of a line, a block or a part of either at its end, or who send
more (`Less`) or less (`More`) than the line declares; `Together` has two clients in
one batch of events. The header of 4 units holds a line and a block whole (`Pair`), a
line and a part of a block, or less than a line (`TooLong`). A stray line is no
command, a get, or a set that takes what follows for its block (`MCStray`): with the
last a piece of one request is stored as the value of another, which `WholeValues`
must find to be the block of a command that was executed, and no more. The theorems
have no bound on what it may say. A property that a client of the protocol could rely on is
stated of clients that wait (`Sync`); those of values and of the order of execution
are stated of all. `TokenizeFindsWords` takes all lines of up to 6 characters and 3
tokens, which is enough for a word, a run of spaces, an escape and a rest that is
more than one word.

In `Map`, three processes are one that creates, one that attaches early or late, and
one that creates again over the first; two files are one before and one after an
unlink. The two sets of attributes differ in the layout and in the lock. A process
may come again after it has left or died, up to three starts in all. The theorems
of `ShmcMapProofs` have no such bound.

In `Dump`, one record is smaller than the buffer, one fills it to the last byte and
one is larger; a counter gives a record that is short. Two items of the smallest
class give a list with an order, and the pool runs out while a load is under way.
Two dumps let a second dump be taken of what a first one has restored. The table is
what `shmc_init` lays out for `item_size_min` 8, `item_size_max` 200 and factor 1.6.
`CHECK_DEADLOCK FALSE` is there because the dumps, calls and starts are used up, and
because netshell ends.

The slab tables of the instances are ones that `shmc_init` lays out: the header
of `MCShmcStore` names the attributes.

Fairness: `ShmcLock` assumes that a thread which can take its next step, and goes
on being able to, takes it (`WF` of `Go(t)` for each thread): the scheduler runs
every runnable thread, and a thread that waits for a free lock gets it or another
does. Nothing is assumed of the order in which waiting threads get a lock, nobody
is obliged to make a call, and a process need not survive. As the calls are
finite in number (`MaxCalls`), `EveryCallEnds` does not say that a writer gets in
between readers that never stop coming, which the locks do not promise.

`Netshell` assumes that its thread takes its next step when it has one (`WF` of
`Server`): the scheduler runs it, the calls of shmc return, and `epoll_wait`
reports what is ready, since it is level-triggered. That is one condition for the
thread as a whole. Nothing is assumed of the clients, which may stop in the middle
of a request; of the signal, which may never come; or of `Throw` and `Break`, which
are failures. `Answered` and `HangupFrees` hold because the loop handles every event
of a batch before it waits again, and `StopHeeded` because it tests the flag after
each batch. `StopHeeded` is stated of signals that arrive once the loop runs: one
that comes while the server is constructed is lost (`Construct` and `Run` clear the
flag, `eventmgr.hpp:83`).

The other modules have no fairness: that `count_of_slabs` ends is stated as a variant
(`CountingAdvances`).

Every property of a passing run has a mutant, an operator beside the definition
it replaces (`DeleteUncounted` beside `AssocDelete`, `EvictHead` beside
`EvictTail`, ...), with which TLC finds that property violated.

## 4. Proofs

`ShmcStoreProofs` proves, for all slab tables, keys, values, pools and flags that
satisfy the three assumptions of `ShmcStore`:

- `TypeInvariance`: `Spec => []TypeOK`
- `Partition`: `Spec => []SlabPartition`
- `IndexAgrees`: `Spec => []IndexMatchesLru`
- `ClassesStable`: `Spec => []ClassStable`
- `CountsExact`: `Spec => []CountExact`
- `PoolStaysAccounted`: `Spec => []PoolAccounted`
- `EvictionSuffices`: `Spec => []EvictModeNeverRefuses`, if every class has
  chunks (`ChunksEverywhere`; a class without any is possible, see
  `SlabFormat!OnlyLastEmpty`, and then the property is false).

None of these invariants is inductive alone: that a freed chunk goes home needs
`ClassStable`, that an evicted item is found by its key needs `IndexMatchesLru`,
that both survive needs `SlabPartition`. The inductive invariant `IInv` is their
conjunction with the types, in the form `Good(shm, {})`. `Good(s, F)` says it of a
segment in the *middle* of an operation, when the chunks of `F` are in the
operation's hands, on no list: `item_alloc` takes a good segment to a good one with
one chunk in hand, `item_free` takes it back. There is one lemma for each helper
(`Unlink`, `Link`, `Delete`, `Freed`, `Carved`, `Allocated`, ...) and one for each
operation (`SetKeeps`, `ReplaceKeeps`, `ExtendKeeps`, `NewCounterKeeps`, ...), each
a chain of the helpers' lemmas in the order of the code. `NewCounterKeeps` has the
hard case: a chunk that is freed twice by the code and once in effect. `StepKeeps`
puts the operations together, one step for each disjunct of `Next`.

`EvictionSuffices` needs more than the invariant about one state: that after a
refill a class that has chunks has a free one, which follows from the partition
(a chunk that is not free is on the LRU list, so the tail exists).

`PoolAccounted` has a sum over the classes, which is a fold, and what a fold comes to
is a matter of induction. `ListLemmas` does without: of the subsets of a finite set on
which a statement fails, one has no other below it (`SmallestSet`, from the library's
theorem that strict inclusion is well-founded), and the statement holds of what is
left of that one when an element is taken away. So a sum exists (`TableExists`), is
what its places make it (`SumSame`), takes any place first (`SumTakes`) and changes by
what one place changes (`SumChanges`).

`ShmcCacheProofs` proves

- `SegmentImplementsMap`: `Spec => ImplementsCache`, if an evicting cache has chunks
  in every class (`EvictToFree => ChunksEverywhere`)
- `EvictionIsLast`: `Spec => EvictOnlyUnderPressure`, an action property

The hypothesis of the first is the case in which `Cache` would be wrong: a class
without chunks is out of memory although eviction is on, and by `EmptyLast` below
only the last class can be one, when rounding has taken its size past
`item_size_max`. `View(s)` is the map a good segment shows. The lemmas go upwards in
three layers: two segments whose linked items show the same have the same view
(`ViewOfItems` and its kin); each helper leaves the view alone, takes a key from it or
puts one in (an allocation with eviction leaves a view that is `Spared`); each
operation has a result of one of a few forms (`SetResult`, `Overwritten`,
`ExtendResult`, `CounterResult`), which are then matched with the disjuncts of the
actions of `Cache`, its weak points among them. Inside an operation the view is that
of a segment with chunks in hand, so that `Good(s, F)` is again what carries the
argument. `EvictionIsLast` follows each operation once more, with what may disappear
in it (`Spares`): a key other than the caller's goes only in `EvictTail`, and the
code gets there only when there is no chunk and no page (`Cornered`).

`SlabFormatProofs` proves, for all attributes that satisfy `AttrAssumption`, which
is every size, limit and factor:

- `FormatTypes`: `Spec => []TypeOK`
- `CountingEnds`: `Spec => CountingAdvances`
- `Ordered`: `Spec => []TableOrdered`
- `EmptyLast`: `Spec => []OnlyLastEmpty`
- `PagesInPool`: `Spec => []PagesFit`
- `LittleWaste`: `Spec => []WasteBounded`

from the invariant `FInv` (`FormatInvariance`). The loops of `count_of_slabs` and
`format_slabs` compute the same sizes, one after the other; `FInv` says so by a
`Track`, the sequence of sizes that the repaired attributes give, which the first loop
is at the end of and the second retraces. So the second ends where the first did, and
never passes the room the first has counted. What is left is arithmetic with
quotients: a size grows by half at least (`Grows`), which is what the repair of the
factor is for, and rounds up by less than eight (`Aligned`). `PagesInPool` is what
`ShmcStore` takes for granted as `PageAssumption` and `FormatAssumption`.

`ShmcLockProofs` proves, for any number of threads, calls and deaths and both kinds of
lock, from the assumptions of `ShmcStore` and the two of `ShmcLock`:

- `LockTypes`: `LSpec => []LTypeOK`
- `Exclusion`: `LSpec => []OneChanger`
- `WholeUnlessWriting`: `LSpec => []WholeWithoutWriter`
- `Atomicity`: `LSpec => CallsAreAtomic`, under the hypothesis of
  `SegmentImplementsMap`

from one inductive invariant, `LInv` (`LockInvariance`), in two parts. `HInv` says
who holds what: a live thread inside a call holds the lock its call asks for and the
write lock is held alone (`LocksHeld`), a live reader between locking and unlocking
the mutex has it (`MutexHeld`), and readers do not run into the code of set and del
(`Frames`). `OneChanger` alone says nothing of the locks, and so nothing of what the
next grant may do.

`SInv` says what the segment is in the middle of a call. `Search`: what `assoc_find`
has passed is not the key, and what it has found is still there, which other readers
could spoil only by relinking, which leaves chains and items alone, or by raising
`max_depth` with no lock of their own, which nothing depends on. `Halfway`: for
each place in the code of set and del, which segment it is (`MidOK`: an item out of
the table and still on its list, in no list, freed, a chunk in hand, in the table,
in its list), each time as a helper of `ShmcStore` applied to a good segment that
shows what the last call left; and a reader between `item_unlink` and `item_link` has
taken one item from a good one (`Lifted`). `Shows` and `Sound`: while nobody is
halfway the segment is good and shows `content`. A dead thread stays halfway, and
`Holders` says that it then holds its lock for ever, or the model has stopped
(`Torn`), so nobody meets what it has left.

With that each step that answers is matched with an action of `Cache`, from the
segment as it was when the last call answered, and each other step with a stutter: the
calls take effect at their answer. The lemmas about helpers are those of
`ShmcStoreProofs` and `ShmcCacheProofs`.

`DumpLoadProofs` proves, for all buffers, dumps and segments that satisfy
`DumpAssumption` and the assumptions of `ShmcStore`:

- `AnswerIsTrue`: `DSpec => []AnswerTells`
- `WritesPrefix`: `DSpec => []LoadWritesPrefix`
- `RecencyIsReversed`: `DSpec => []RecencyReversed`

from the inductive invariant `DInv` (`DumpInvariance`): between two records the segment
is good (`IInv`); the file is `Legible`, which is to say that no key has two records,
that none is longer than it says, and that of those before the last only records of
counters are shorter; the places of the load are in the buffer (`Buffered`); and
if all records but the last are whole, they are a place where a record begins, with
`m` whole records before it (`Reached`). What `Buffered` says of a load that waits for
`fread` is the point of `AnswerTells`: the buffer is empty, or holds a beginning of a
record and room for more, or has been parsed to its last byte. Only then does an
`fread` of nothing mean that the file has been read, but for a record that is cut
(`LastIsCut`), or that the buffer is full. `Stray` needs a place where no record
begins, so it does not happen in such a file (`StrayKeeps`).

To each property belongs a strengthening, which is about every `m` that is `Reached`
and holds while the load runs: `Told_`, `Prefix_` and `Ordered_`. `Prefix_` gets what
one record does to the content from `SetResult` of `ShmcCacheProofs` (`SetWrites`).
`Ordered_` needs it, as a key that is not yet in the segment is entered at the head of
its list and moves nothing else (`SetLists`), and needs to know that the records are
in the order of the lists that were saved, each of the class of its list (`Recorded`);
`Share` says how many keys of a list are among the first `m` records. Where a record
begins and where a list begins in a dump are sums, and the lists put together are a
fold: both are reached through the tables of `ListLemmas` (`Marks`, `Together`), and
the recursive function `Digits` through one of its own (`DigitTableExists`).

`LoadWritesPrefix` and `RecencyReversed` are stated of caches that do not evict. With
eviction a load may push out what it has loaded itself; what each `set` of it does is
then what `SetShows` says of any.

`ShmcMapProofs` proves, for all processes, files, starts, attributes and sizes that
satisfy `MapAssumption`:

- `MapTypes`: `Spec => []TypeOK`
- `OneCreator`: `Spec => []OneMaker`
- `Sharing`: `Spec => []SharedUnlessUnlinked`
- `LateAttach`: `Spec => []LateAttachSound`
- `Alone`: `Spec => []AloneUnlessEarly`
- `FinishedFiles`: `Spec => FinishedStays`, an action property

all from one inductive invariant, `MapInv` (`MapInvariance`). Beside the types it
says what each of the others silently relies on: inodes that are not made yet are
blank (`FreshBlank`), which gives a creator an untouched file; whoever opened since
the last unlink has the file of the token (`TokenShared`), without which `Unlink`
and `Open` could give two files to one epoch; what the creator has written by each
of its steps (`Progress`), so that `done` means a file whose length, version and
attributes are final (`Finished`); that no creator works in a file that was
finished when it came (`Makers`); what the users of a file know of its attributes
(`Users`); who holds which lock (`Holders`); and that a spoilt file was opened early
(`SpoiltEarly`). `LateAttachSound` and `AloneUnlessEarly` are consequences of it,
not parts.

Most steps change one process and one file. `MoveKeeps` is about all such steps:
`Own` says what must be true of the process that moves, and `Spares` what the
others need of the file. Each action's lemma shows these two. `IdleKeeps` and
`ReturnKeeps` do the same for a process that lets go of its file; `Open`,
`OpenToken` and `Unlink`, which change the token, have proofs of their own.
`FinishedFiles` is the one theorem about pairs of states: of a file that nobody has
opened early only late users can be inside, and `InSound` shows that what they do
is sound.

`NetshellProofs` proves, for all clients, requests, keys and sizes of the header
buffer that satisfy `ConnAssumption`, `NetshellAssumption` and `TokenizeAssumption`:

- `NetTypes`: `Spec => []TypeOK`
- `Executed`: `Spec => []ExecutedOnce`
- `NothingTorn`: `Spec => []WholeValues`
- `Rest`: `Spec => []AtRest`
- `EachAnswered`: `Spec => []AnswerToEach`
- `WordsFound`: `Spec => []TokenizeFindsWords`

from the inductive invariant `NetInv` (`NetInvariance`). What a client sends is one
long stream, and the server forgets parts of it: the rest of the buffer after a
command, all that is in flight when a connection is reset. What a line says that was
not sent as one is any of `Stray`, so nothing can be known of whose command is
executed; what is known is where in the stream it stands. So the invariant is about
what the server has read and still has, followed by what is to come (`Coming`): it is
a `Stretch` of the stream of the requests the client has begun, without gaps, that
`Reaches` the end of the last one unless the connection was reset. `Stretch` is said
of any two units of the sequence rather than step by step, because then every part
of a stretch is one (`StretchSplit`) with no induction. `Between` says it of a
connection that reads a line, and that the stretch lies `After` the lines of all
commands executed; from there `ExecutedOnce` follows, as the next line can only be a
later one. `Within` says of a connection that reads a data block that what it has of
the block stands `Blocked` behind the newline of the line: the stretch begins with that
newline, and goes on with what is to come until the block has its length. That is what
`WholeValues` needs: when the command is executed the block is all that was sent
between its line and its last unit (`WholeBlock`). `InBlock` looks for the two ends of
a block around each unit of a value, so a block stays one when others are put before or
after it (`WholeJoin`), and its beginning does when a dump has cut it at a NUL and load
has put other bytes behind (`WholeCut`): `FileBlocks` says it of the records of the
file as load will find them, which is what makes the invariant survive a dump and a
load (`DumpSound`). `Link` joins `Between` and `Within`, and `Rests` says who waits for
what.

`LineFound` says what is known of any line that is found, whether the client sent it as
one or not: where it ends is in the stretch, after everything executed, and what
follows it in the buffer is what was sent next. `BlockStarts`, `BlockReceives` and
`Executes` follow a block from there to the call. Each handler has a lemma
(`ReadStoringStep`, `NReadStep`, ...); `Moves` and `OneMoves` leave the other
connections out of it. `ClientMoves`, `QuietStep` and `CurrentMoves` do the same for the
clients, `main` and the loop.

`EachAnswered` needs a second invariant on top of that one, `TurnInv`: whose turn it is
between a client that waits (`Sync`), as long as its requests keep to the protocol
(`ProperSoFar`), and the server. The answers given are those to the first requests
(`Answers`). Either there is one to every request, and then nothing of the stream is
left, neither in the buffer nor in the socket nor with the client; or the last request
is without one (`Owed`), and then the stretch that is left starts where that request
starts (`Unanswered`), or its block is being read and nothing comes behind it, or its
answer is printed and nothing of it is left to be read (`Due`). `OneRequest` turns a
place where a stretch starts into a bound on its length, which is what makes the rest
empty when the line or the block is complete; `LineAsked` shows that what is then taken
for the command line is the one that was sent, and `CommandPrints` and `StorePrints`
that each branch of onRead and onNRead but that of stats prints a line of its own. The
`...Turn` lemmas are the steps, one for each action.

`WordsFound` holds for lines of any length and any number of tokens. It goes along
`Seen`, what the loop has after each character: the words that start before `s` are
collected (`Collected`), no word has ended since (`Unbroken`), and `esc` says whether
the next character is escaped. `EscapedNext` is why a flag is enough where the
definition counts backslashes, `WordEnds` and `WordOnly` are why `Cut` adds every word
and nothing else, and `LoopSees` looks at the first character after which `Seen`
would not hold, in place of an induction.

Only model-checked: liveness under fairness, which is out of the prover's reach:
`EveryCallEnds` and the temporal properties of `Netshell`.

## 5. Findings

1. `Extend_flags`: append and prepend that move the value write the flags to the
   old item (`shmc.c:480, 514`). `t/unit.c:186` expects them to be stored; the append
   before it (`t/unit.c:179`) stays in its class of 256 bytes, where they are, so the
   test passes and does not come to the lines at fault.
2. `Counter_lost`: incr and decr of a value that is not a counter may be handed
   their own evicted item, answer `SHMC_OK` and leave the key absent
   (`shmc.c:557-577`).
3. `Counter_size`: incr and decr never test the size, and reach
   `assert(item_size_ok(...))` (`shmc.c:847`) with a long key. The release build
   has no assertions (`Makefile:27`).
4. `Format_default`: with the default attributes the largest class holds 524288
   bytes, and sizes up to 1048575 are accepted (`shmc.c:144-166`).

Noted in reading and not made into runs: replace with flags 0 stores 0 (`shmc.c:442`,
and `420` where the value moves), and `t/unit.c:189-196` does just that and expects the
old flags, 64, so that the test, built from the repository, ends there with an error;
`Cache!Replace` says what the code does, the runs have no flags of 0 (`FlagSet`), and
the theorems hold of any. The comment at `shmc.c:140-143` draws the
classes as `[2, 4)` where the code has `(2, 4]`; netshell's usage says that without
`-a` an old map is used (`netshell.cc:44`) while `main` always creates and so fails
on an old token; `netshell.cc:93` joins with `&&` two conditions that exclude each
other. In the models that follow, the properties state around these, where they
name what the code does:

- load answers `SHMC_OK` and leaves the rest of the file when the records in the
  buffer end where the buffer ends (`shmc.c:697-703`; `AnswerTells`).
- load stops with `SHMC_ESIZE` at an item of `item_size_max` bytes that replace,
  append or prepend have stored (`shmc.c:409`, `Cache!Brim`; `AnswerTells`).
- a dump writes a counter with fewer bytes than its record says (`shmc.c:638-639`),
  so what load takes for the end of it is the start of the next record
  (`DumpLoad!Stray`, and in `McConn` `Restored` and `Astray`; `WholeValues`).
- stats prints no line of its own, and the line of the answer before goes out
  again (`mcshell.cc:258-356`; `AnswerToEach`).
- a command that arrives behind another in one packet is dropped
  (`mcshell.cc:499`, `reqHeaderBytes_ = 0`), and a reply that the socket takes in
  part ends the connection (`mcshell.cc:693` compares `errno` with -1).
- of a client that sends ahead, or sends another length than it declares, parts of
  data blocks are executed as commands (`mcshell.cc:424-469`; `Stray`,
  `WholeValues`).
- of an attach that comes before the file is finished nothing can be said
  (`shmc.c:256`; `AloneUnlessEarly`, `FinishedStays`).

## 6. Not modelled

- The answers of `fcntl`, which the code does not look at (`shmc.c:723`): a lock
  that is refused and taken for granted leaves nothing to state.
- Two threads of one process under an fcntl lock, which `shmc.h:207` forbids, and
  what a process does in a segment that a dead one has left half-changed.
- add, replace, prepend, append, incr and decr in steps: they hold the write lock
  from end to end, as set and del do, which `ShmcLock` has in steps.
- The pointers of the lists (`next`, `prev`, `h_next`) and the translation between
  pointers and offsets (`A2R`, `R2A`): lists are sequences and chunks have names.
- The hash function, which is vendored and pure: the bucket of a key is a constant.
- Of netshell: the options, becoming a daemon, the pid file, the service script,
  the numbers in the answer of stats, the text of replies, the timer of the loop
  (never set). Other processes that change the segment between two commands.
- tplock, a stand-alone benchmark; the benchmarks `t/load.c` and `netshell/mcb.cc`;
  the tests; the build files.

What could come next: `ShmcLinks`, the lists with their pointers, shown to implement
the sequences of `ShmcStore`.
