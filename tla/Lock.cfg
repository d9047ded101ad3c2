CONSTANTS
  k1 = k1
  k2 = k2
  t1 = t1
  t2 = t2
  nokey = nokey
  nobody = nobody
  Key = {k1, k2}
  KeyLen <- MCKeyLen
  Slot <- MCSlot
  NBuckets = 1
  Text <- MCText
  Capacity = {2, 3}
  FlagSet = {1}
  Delta = {1}
  MaxParts = 1
  Word = 1
  NSlabs = 1
  SlabSize <- MCSlabSize
  SlabCount <- MCSlabCount
  ItemSizeMax = 144
  MemLimit = 145
  EvictToFree = FALSE
  DefaultCounter = TRUE
  DebugBuild = TRUE
  NoKey = nokey
  Thread = {t1, t2}
  NoThread = nobody
  MaxCalls = 2
  MaxDeaths = 1
SPECIFICATION LSpec
CHECK_DEADLOCK FALSE
INVARIANT LTypeOK
INVARIANT OneChanger
INVARIANT WholeWithoutWriter
PROPERTY CallsAreAtomic
PROPERTY EveryCallEnds
