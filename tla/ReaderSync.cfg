SPECIFICATION Spec
CONSTANTS
  Keys = {k1, k2}
  Values = {v1}
  NONE = NONE
  PartitionOf <- MCPartitionOf
  Instances = {i1, i2}
  Writers = {w1, w2}
  Sessions = {s1}
  MaxRowsPerChunk = 1
  MaxQueuedChunks = 4
  Transactions = FALSE
  MaxWrites = 3
SYMMETRY Symmetry
INVARIANTS CachesAgree NoLostWakeup BatchesStayWhole
CHECK_DEADLOCK FALSE
