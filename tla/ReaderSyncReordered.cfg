SPECIFICATION Spec
CONSTANTS
  Keys = {k1}
  Values = {v1}
  NONE = NONE
  PartitionOf <- MCPartitionOf
  Instances = {i1}
  Writers = {w1, w2}
  Sessions = {s1}
  MaxRowsPerChunk = 1
  MaxQueuedChunks = 4
  Transactions = FALSE
  MaxWrites = 3
SYMMETRY Symmetry
INVARIANT CachesConverge
CHECK_DEADLOCK FALSE
