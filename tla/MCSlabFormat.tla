------------------------------ MODULE MCSlabFormat ------------------------------
(***************************************************************************)
(* Attributes for TLC: factors on both sides of the least one allowed and  *)
(* sizes on both sides of the alignment, and the default attributes.       *)
(***************************************************************************)
EXTENDS SlabFormat

MCAttrs ==
  [min : {0, 1, 7, 8, 9, 64}, max : {60, 65, 72, 100, 130, 145, 500, 1024},
   factor : {[num |-> 0, den |-> 1], [num |-> 1, den |-> 1], [num |-> 3, den |-> 2],
             [num |-> 7, den |-> 4], [num |-> 2, den |-> 1], [num |-> 5, den |-> 2]},
   limit : {100, 1000, 10000}]

\* SHMC_ATTR_INITIALIZER
MCDefaults ==
  {[min |-> 64, max |-> 1048576, factor |-> [num |-> 2, den |-> 1], limit |-> 67108864]}

================================================================================
