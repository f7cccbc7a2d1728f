SPECIFICATION Spec
CONSTANTS
  Calls = {q1, q2}
  Keys = {k1}
  Ids = {1, 2}
  Bytes = {x, y}
  Shapes <- TwoIdsThreeShapes
  NONE = NONE
  MaxMessages = 2
  LastMoment = 1
  x = x
  y = y
  q1 = q1
  q2 = q2
  k1 = k1
SYMMETRY AnyCallIsAsAnyOther
INVARIANTS RowsAreShown SchemasOwedOrDurable
PROPERTIES NoLostUpdate
CHECK_DEADLOCK FALSE
