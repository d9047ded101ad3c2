CONSTANTS
  p1 = p1
  p2 = p2
  p3 = p3
  Proc = {p1, p2, p3}
  Attr <- MCAttr
  MaxFiles = 2
  MaxStarts = 3
  Size <- MCSize
  Nobody = Nobody
  Stuck = Stuck
SPECIFICATION Spec
CHECK_DEADLOCK FALSE
SYMMETRY Symmetry
INVARIANT TypeOK
INVARIANT LateAttachSound
INVARIANT OneMaker
INVARIANT SharedUnlessUnlinked
INVARIANT AloneUnlessEarly
PROPERTY FinishedStays
