SPECIFICATION FairSpec
CONSTANTS
  Keys = {k1}
  Values = {v1}
  NONE = NONE
  PartitionOf <- MCPartitionOf
  Instances = {i1, i2}
  Writers = {w1}
  Sessions = {s1, s2}
  MaxRowsPerChunk = 1
  MaxQueuedChunks = 3
  Transactions = TRUE
  MaxWrites = 2

INVARIANTS Inv
PROPERTY EveryReaderCatchesUp
CHECK_DEADLOCK FALSE
