------------------------------- MODULE MCShmcMap -------------------------------
(***************************************************************************)
(* The sizes of x86-64, and attributes of either kind of lock and of two   *)
(* layouts.                                                                *)
(***************************************************************************)
EXTENDS ShmcMap, TLC

CONSTANTS p1, p2, p3

MCSize == [version |-> 4, attr |-> 72, rwlock |-> 56, mutex |-> 40, pointer |-> 8, slab |-> 24]

MCAttr ==
  {[nbuckets |-> 1, classes |-> 2, mem_limit |-> 300, use_flock |-> FALSE],
   [nbuckets |-> 3, classes |-> 1, mem_limit |-> 200, use_flock |-> TRUE]}

Symmetry == Permutations(Proc)

================================================================================
