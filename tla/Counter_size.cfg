CONSTANTS
  k1 = k1
  k2 = k2
  k3 = k3
  nokey = nokey
  Key = {k1, k2, k3}
  KeyLen <- MCLongKeyLen
  Slot <- MCSlot
  NBuckets = 2
  Text <- MCLengths
  Capacity = {60}
  FlagSet = {1}
  Delta = {1}
  MaxParts = 2
  Word = 1
  NSlabs = 2
  SlabSize <- MCSlabSize
  SlabCount <- MCSlabCount
  ItemSizeMax = 257
  MemLimit = 513
  EvictToFree = TRUE
  DefaultCounter = TRUE
  DebugBuild = TRUE
  NoKey = nokey
SPECIFICATION Spec
CHECK_DEADLOCK FALSE
INVARIANT SizeIsTested
