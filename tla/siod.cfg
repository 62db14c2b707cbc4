SPECIFICATION Spec
CONSTANTS
  Tags = {t1, t2}
  NoTag = NoTag
  Files = {f1, f2}
  Nil = Nil
  MaxDepth = 3
SYMMETRY Names
CHECK_DEADLOCK FALSE
INVARIANTS PointersInForce InterruptComesThrough
PROPERTIES JumpsLandRight OnlyMixingDangles ClosesItsOwn
