------------------------------- MODULE MCDumpLoad -------------------------------
(***************************************************************************)
(* The slab table that shmc_init lays out for item_size_min 8,             *)
(* item_size_max 200 and factor 1.6. The records of the texts are of 14,   *)
(* 32 and 64 bytes.                                                       *)
(***************************************************************************)
EXTENDS DumpLoad, TLC

CONSTANTS k1, k2, nokey

MCSlabSize == [c \in 0 .. 2 |-> CASE c = 0 -> 72 [] c = 1 -> 120 [] c = 2 -> 192]
MCSlabCount == [c \in 0 .. 2 |-> IF c = 0 THEN 2 ELSE 1]
MCKeyLen == [k \in Key |-> 1]
MCSlot == [k \in Key |-> 0]

Piece(t) == [tag |-> t, num |-> 0]
MCText == {[nval |-> 7, body |-> <<Piece("s")>>], [nval |-> 24, body |-> <<Piece("m")>>],
           [nval |-> 56, body |-> <<Piece("h")>>]}
MCJunk == Piece("s")

Symmetry == Permutations(Key)

================================================================================
