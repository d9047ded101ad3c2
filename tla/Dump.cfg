CONSTANTS
  k1 = k1
  k2 = k2
  nokey = nokey
  Key = {k1, k2}
  KeyLen <- MCKeyLen
  Slot <- MCSlot
  NBuckets = 1
  Text <- MCText
  Capacity = {100}
  FlagSet = {1}
  Delta = {1}
  MaxParts = 1
  Word = 1
  NSlabs = 3
  SlabSize <- MCSlabSize
  SlabCount <- MCSlabCount
  ItemSizeMax = 200
  MemLimit = 457
  EvictToFree = FALSE
  DefaultCounter = TRUE
  DebugBuild = FALSE
  NoKey = nokey
  Buffer = 32
  Junk <- MCJunk
  MaxDumps = 2
  MaxCalls = 4
SPECIFICATION DSpec
SYMMETRY Symmetry
CHECK_DEADLOCK FALSE
INVARIANT LoadWritesPrefix
INVARIANT AnswerTells
INVARIANT RecencyReversed
