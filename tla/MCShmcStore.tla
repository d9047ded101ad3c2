------------------------------ MODULE MCShmcStore ------------------------------
(***************************************************************************)
(* Small segments for TLC. Their slab tables are those shmc_init lays out  *)
(* for                                                                     *)
(*   - item_size_min 64, item_size_max 257 and factor 2: chunks of 128 and *)
(*     256 bytes, two and one of them, or                                  *)
(*   - item_size_min 8, item_size_max 120 and factor 1.6: chunks of 72 and *)
(*     120 bytes, one of each.                                             *)
(***************************************************************************)
EXTENDS ShmcStore

CONSTANTS k1, k2, k3, nokey

MCSlabSize == [c \in 0 .. 1 |-> IF c = 0 THEN 128 ELSE 256]
MCSlabCount == [c \in 0 .. 1 |-> IF c = 0 THEN 2 ELSE 1]
MCTightSize == [c \in 0 .. 1 |-> IF c = 0 THEN 72 ELSE 120]
MCTightCount == [c \in 0 .. 1 |-> 1]

MCKeyLen == [k \in Key |-> 1]
\* A key so long that a counter is more than item_size_max.
MCLongKeyLen == [k \in Key |-> IF k = k3 THEN 172 ELSE 1]
\* k1 and k2 collide.
MCSlot == [k \in Key |-> IF k = k3 THEN 1 ELSE 0]

Piece(t, n) == [tag |-> t, num |-> n]
Small == [nval |-> 3, body |-> <<Piece("s", 0)>>]
Big   == [nval |-> 52, body |-> <<Piece("b", 1)>>]
Huge  == [nval |-> 100, body |-> <<Piece("h", 0)>>]

\* Values of which only the length matters.
Plain(v) == [nval |-> v.nval, body |-> <<Piece("x", 0)>>]

MCLengths == {Plain(Small), Plain(Huge)}
MCText == {Small, Big, Huge}
MCTwoTexts == {Small, Big}

================================================================================
