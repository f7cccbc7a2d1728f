SPECIFICATION FairSpec
CONSTANTS
  Transactions = {t1}
  Posts = {p1, p2}
  Commits = {c1, c2}
  MaxActions = 2
  NONE = NONE
INVARIANTS AppliesWhatWasAcknowledged OneOwner
PROPERTIES ImplementsAtomicTransactions AbandonedIsForgotten
CHECK_DEADLOCK FALSE
