SPECIFICATION Spec
CONSTANTS
  Namespaces = {a}
  Partitions = {p}
  Versions = {1, 2}
  Jobs = {j1}
  TIMER = TIMER
  NONE = NONE
  BROKEN = BROKEN
  STALE = STALE
  MaxBackups = 1
  Interval = 1
  MaxPerSecond = 2
  LastSecond = 1
  Loaded = {1}
  MaxDrops = 1
  MaxEvents = 2
  a = a
  p = p
  j1 = j1
INVARIANTS Inv RowsKeepTheirSchemas
PROPERTIES TimerKeepsUp
CHECK_DEADLOCK FALSE
