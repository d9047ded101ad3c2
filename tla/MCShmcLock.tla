------------------------------- MODULE MCShmcLock -------------------------------
(***************************************************************************)
(* Threads for TLC on a segment of one slab class with two chunks of 72    *)
(* bytes, the table of shmc_init for item_size_min 8 and item_size_max 144.*)
(***************************************************************************)
EXTENDS ShmcLock

CONSTANTS k1, k2, t1, t2, nokey, nobody

MCSlabSize == [c \in {0} |-> 72]
MCSlabCount == [c \in {0} |-> 2]
MCKeyLen == [k \in Key |-> 1]
\* k1 and k2 collide.
MCSlot == [k \in Key |-> 0]

MCText == {[nval |-> 3, body |-> <<[tag |-> "s", num |-> 0]>>],
           [nval |-> 100, body |-> <<[tag |-> "h", num |-> 0]>>]}

================================================================================
