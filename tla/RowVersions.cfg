SPECIFICATION Spec
CONSTANTS
  Calls = {q1, q2, q3}
  Keys = {k1}
  Ids = {1}
  Bytes = {x}
  Shapes <- OneShape
  NONE = NONE
  MaxMessages = 2
  LastMoment = 2
  x = x
  y = y
  q1 = q1
  q2 = q2
  q3 = q3
  k1 = k1
SYMMETRY AnyCallIsAsAnyOther
PROPERTIES NoLostUpdate
CHECK_DEADLOCK FALSE
