CONSTANTS
  Attrs <- MCAttrs
  DebugBuild = TRUE
SPECIFICATION Spec
INVARIANT TypeOK
INVARIANT TableOrdered
INVARIANT OnlyLastEmpty
INVARIANT PagesFit
INVARIANT WasteBounded
PROPERTY CountingAdvances
CHECK_DEADLOCK FALSE
