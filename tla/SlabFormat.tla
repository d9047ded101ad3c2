------------------------------- MODULE SlabFormat -------------------------------
(***************************************************************************)
(* How shmc_init lays out the slab classes of a new segment: the repair of *)
(* the attributes, count_of_slabs and the loop of format_slabs, a step for *)
(* each turn of a loop. The table it leaves in `sizes' and `counts' is what*)
(* ShmcStore takes as SlabSize and SlabCount.                              *)
(*                                                                         *)
(* The factor is a C float, here num/den. The sizes below 2^24 and factors *)
(* of few bits are exact in it, and only such are meant.                   *)
(***************************************************************************)
EXTENDS SlabClass, Functions

CONSTANTS
  Attrs,      \* attributes callers pass: [min, max, factor, limit]
  DebugBuild  \* built with assertions (make DEBUG=1), not with NDEBUG

ASSUME AttrAssumption ==
  /\ Attrs \subseteq [min : Nat, max : Nat, limit : Nat,
                     factor : [num : Nat, den : Nat \ {0}]]
  /\ DebugBuild \in BOOLEAN

VARIABLES
  pc,        \* where shmc_init is
  attr,      \* the attributes, repaired
  size,      \* the local size of the loop that runs
  count,     \* the answer of count_of_slabs, so far
  id,        \* the class format_slabs is at
  sizes,     \* slabs[c].size
  counts,    \* slabs[c].count
  mem_used   \* attr mem_used

vars == <<pc, attr, size, count, id, sizes, counts, mem_used>>

\* item_size_factor <= 1.5
Small(factor) == 2 * factor.num <= 3 * factor.den

\* Mutant: the factor is taken as it comes.
Unrepaired(factor) == factor

Repaired(factor) == IF Small(factor) THEN [num |-> 3, den |-> 2] ELSE factor

FirstSize == ItemHdr + attr.min

Init ==
  /\ pc = "init"
  /\ attr \in Attrs
  /\ size = 0 /\ count = 0 /\ id = 0
  /\ sizes = <<>> /\ counts = <<>> /\ mem_used = 0

\* shmc_init, up to the call of mmap_create and of count_of_slabs in it.
Repair ==
  /\ pc = "init"
  /\ attr' = [attr EXCEPT !.factor = Repaired(@)]
  /\ size' = FirstSize
  /\ pc' = "count"
  /\ UNCHANGED <<count, id, sizes, counts, mem_used>>

\* Mutant: the size grows without having been aligned.
CountUnaligned ==
  /\ pc = "count" /\ size < attr.max
  /\ size' = Grow(attr.factor, size)
  /\ count' = count + 1
  /\ UNCHANGED <<pc, attr, id, sizes, counts, mem_used>>

Count ==
  /\ pc = "count" /\ size < attr.max
  /\ size' = Grow(attr.factor, AlignSize(size))
  /\ count' = count + 1
  /\ UNCHANGED <<pc, attr, id, sizes, counts, mem_used>>

Counted ==
  /\ pc = "count" /\ size >= attr.max
  /\ size' = FirstSize
  /\ pc' = "format"
  /\ UNCHANGED <<attr, count, id, sizes, counts, mem_used>>

\* f with x more at place id.
Put(f, x) == [c \in 0 .. id |-> IF c = id THEN x ELSE f[c]]

\* The pages cut so far fit the pool: the assertion of the debug build does not
\* let them fill it.
Fits(end) == end < attr.limit \/ (~DebugBuild /\ end = attr.limit)

\* A turn of the loop in format_slabs that lays out a class of n chunks.
LayOut(sz, n) ==
  LET end == mem_used + sz * n
  IN  /\ sizes' = Put(sizes, sz)
      /\ counts' = Put(counts, n)
      /\ mem_used' = end
      /\ pc' = IF Fits(end) THEN pc
               ELSE IF DebugBuild THEN "assert" ELSE "overrun"
      /\ size' = Grow(attr.factor, sz)
      /\ id' = id + 1
      /\ UNCHANGED <<attr, count>>

\* Mutants: one class more than there is room for; a last chunk that does not
\* fit the page any more; a header set aside though the size has it already.
FormatOneMore ==
  LET sz == AlignSize(size)
  IN  pc = "format" /\ id <= count /\ LayOut(sz, attr.max \div sz)
FormatRoundingUp ==
  LET sz == AlignSize(size)
  IN  pc = "format" /\ id < count /\ LayOut(sz, (attr.max + sz - 1) \div sz)
FormatPastHeader ==
  LET sz == AlignSize(size)
  IN  pc = "format" /\ id < count /\ LayOut(sz, (attr.max - ItemHdr) \div sz)

\* A class and its first page. When the pages do not fit the pool the assertion
\* stops the debug build, and the other build writes past the mapping.
Format ==
  LET sz == AlignSize(size)
  IN  pc = "format" /\ id < count /\ LayOut(sz, attr.max \div sz)

Formatted ==
  /\ pc = "format" /\ id = count
  /\ pc' = "ready"
  /\ UNCHANGED <<attr, size, count, id, sizes, counts, mem_used>>

Next == Repair \/ Count \/ Counted \/ Format \/ Formatted

Spec == Init /\ [][Next]_vars

-------------------------------------------------------------------------------
TypeOK ==
  /\ pc \in {"init", "count", "format", "ready", "assert", "overrun"}
  /\ size \in Nat /\ count \in Nat /\ id \in 0 .. count /\ mem_used \in Nat
  /\ sizes \in [0 .. id - 1 -> Nat] /\ counts \in [0 .. id - 1 -> Nat]

\* The loop of count_of_slabs comes to an end for every factor a caller may
\* pass: each turn leaves a larger size than it found, which the repair of the
\* factor in shmc_init is there for.
CountingAdvances == [][pc = "count" /\ pc' = "count" => size' > size]_vars

\* The two loops agree: format_slabs meets exactly the classes count_of_slabs
\* has reserved room for, each one larger than the one before, none of them as
\* large as item_size_max but the last, and that one by its rounding alone.
TableOrdered ==
  /\ \A c \in 1 .. id - 1 : sizes[c - 1] < sizes[c]
  /\ \A c \in 0 .. id - 1 : sizes[c] % AlignBytes = 0
  /\ pc = "ready" =>
       /\ \A c \in 0 .. count - 2 : sizes[c] < attr.max
       /\ count > 0 => sizes[count - 1] < attr.max + AlignBytes

\* Only the last class can be without chunks, and only because the rounding up
\* to a multiple of eight has taken it past item_size_max.
OnlyLastEmpty ==
  \A c \in 0 .. id - 1 : counts[c] = 0 => c = count - 1 /\ sizes[c] > attr.max

\* The bytes format_slabs has cut fit item_size_max for each class, and all of
\* them the pool once the segment is ready.
PagesFit ==
  /\ mem_used = SumFunction([c \in 0 .. id - 1 |-> sizes[c] * counts[c]])
  /\ \A c \in 0 .. id - 1 : sizes[c] * counts[c] <= attr.max
  /\ pc = "ready" => mem_used <= attr.limit

\* An item of n bytes that is not the smallest is served by a chunk that is
\* less than the factor times its size and the rounding.
WasteBounded ==
  pc = "ready" =>
    \A n \in FirstSize .. attr.max - 1 :
      LET c == ClassFor(sizes, count, n)
      IN  c \in 1 .. count - 1 =>
            sizes[c] * attr.factor.den < n * attr.factor.num + AlignBytes * attr.factor.den

\* netshell's usage says of the option that sets item_size_max that it "Adjusts
\* max item size": every size that item_size_ok accepts has a class.
AcceptedSizesHaveClass ==
  pc = "ready" =>
    \A n \in {attr.max - 1} : n >= ItemHdr => ClassFor(sizes, count, n) < count

================================================================================
