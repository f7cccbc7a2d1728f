SPECIFICATION Spec
CONSTANTS
  Tables = {t1}
  Partitions = {p1}
  META = META
  NONE = NONE
  Instances = {i1, i2}
  Values = {v1, v2}
  EMPTY = EMPTY
  Requests = {r1}
  Timer = Timer
  Flush = Flush
  Shutdown = Shutdown
  Passes = {Timer, Flush, Shutdown}
  Settings = {TRUE, FALSE}
  Periods = {0}
  MaxTime = 0
SYMMETRY Symmetry
INVARIANT FlushedRowsAreOnDisk
CHECK_DEADLOCK FALSE
