SPECIFICATION ToolsSpec
CONSTANTS
  Narrow = 2
  Wide = 3
  FloatDigits = 3
  DoubleDigits = 4
  FloatTop = 6
  DoubleTop = 7
  MaxNestingDepth = 2
  LastMoment = 2
  Calls = {q1}
  Ids = {1, 2, 3}
  Sent <- MCSent
  UNREADABLE = UNREADABLE
  Absent = Absent
  WindowLength = 1
  Encoded <- RowFrom
  Documents <- MCDocuments
  Batches <- MCBatches
  KeyLists <- MCKeyLists
  ClientRows <- MCClientRows
  Archive <- MCArchive
  Rank <- MCRank
  MaxLimit = 1
INVARIANTS ToolsInv AsSent HandsBack
PROPERTIES WholeBatches NothingUninvited
CHECK_DEADLOCK FALSE
