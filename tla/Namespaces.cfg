SPECIFICATION Spec
CONSTANTS
  Names = {default, a}
  DEFAULT = default
  Tables = {t1}
  Requests = {q1, q2}
  NONE = NONE
  MaxRestarts = 1
  default = default
  a = a
  t1 = t1
  q1 = q1
  q2 = q2
INVARIANTS Inv OwedOrDurable AcknowledgedRowsReachable
PROPERTY SettlesOnDisk
CHECK_DEADLOCK FALSE
