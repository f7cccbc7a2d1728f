SPECIFICATION Spec
CONSTANTS
  Tables = {t1}
  Partitions = {p1}
  META = META
  NONE = NONE
  Instances = {i1, i2}
  Values = {v1}
  EMPTY = EMPTY
  Requests = {r1}
  Timer = Timer
  Flush = Flush
  Shutdown = Shutdown
  Passes = {Timer, Flush, Shutdown}
  Settings = {TRUE}
  Periods = {0, 1}
  MaxTime = 1
SYMMETRY Symmetry
INVARIANTS OwedOrDurable FlushSettles ShutdownDrains
PROPERTIES RestartRestores
CHECK_DEADLOCK FALSE
