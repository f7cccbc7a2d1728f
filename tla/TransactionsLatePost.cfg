SPECIFICATION Spec
CONSTANTS
  Transactions = {t1}
  Posts = {p1}
  Commits = {c1}
  MaxActions = 1
  NONE = NONE
INVARIANT NothingPostedAfterRemoval
CHECK_DEADLOCK FALSE
