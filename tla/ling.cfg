SPECIFICATION TreeSpec
CONSTANTS
  Items = {i1, i2, i3, i4, i5}
  Contents = {c1, c2, c3, c4, c5, c6, c7, c8}
  Rels = {"Word", "Syntax"}
  MaxItems <- MCMaxItems
  Nil = Nil
  ForeignViews = FALSE
SYMMETRY Addresses
INVARIANTS TypeOK DoubleLinks BackPointers EndsMeet ViewsAreReachable
PROPERTY OneRelationAtATime
