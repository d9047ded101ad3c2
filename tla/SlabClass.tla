------------------------------- MODULE SlabClass -------------------------------
(***************************************************************************)
(* The arithmetic of shmc's slab classes: how big an item is, which sizes  *)
(* are accepted, which class of chunks serves a size, and the two steps of *)
(* the loop that lays the classes out (shmc.c, hash table and locks aside).*)
(* Sizes are bytes on an LP64 build.                                       *)
(***************************************************************************)
EXTENDS Integers, FiniteSetsExt

\* sizeof(shmc_item_t): five pointers, two size_t and two 32-bit fields.
ItemHdr == 64

AlignBytes == 8

\* align_size: round up to a multiple of ALIGN_BYTES.
AlignSize(n) ==
  IF n % AlignBytes = 0 THEN n ELSE n + AlignBytes - (n % AlignBytes)

\* size *= item_size_factor; the float factor is num/den and the product is
\* truncated when it goes back into a size_t.
Grow(factor, n) == (n * factor.num) \div factor.den

ItemSize(nkey, nval) == ItemHdr + nkey + nval

\* The macro item_size_ok.
SizeAccepted(max, nkey, nval) == ItemSize(nkey, nval) < max

\* The classes whose chunks hold n bytes.
Holding(sizes, count, n) == {c \in 0 .. count - 1 : n <= sizes[c]}

\* Mutant: the search comes from the large end and goes on.
LargestClassFor(sizes, count, n) ==
  IF Holding(sizes, count, n) = {} THEN count ELSE Max(Holding(sizes, count, n))

\* item_clsid: the first class that holds n bytes. The loop of the code has no
\* other exit, so when no class does it walks off the table: the answer is
\* then written `count', an index no class has.
ClassFor(sizes, count, n) ==
  IF Holding(sizes, count, n) = {} THEN count ELSE Min(Holding(sizes, count, n))

================================================================================
