CONSTANTS
  a = a
  b = b
  c = c
  d = d
  Ids = {a, b, c, d}
  Root = a
  Generic = {}
  Shapes <- SmallDegree
SPECIFICATION Spec
CHECK_DEADLOCK FALSE
INVARIANTS IInv EveryCycleIsCut OnlyCyclesAreCut
PROPERTY WalkEnds
