\* Three threads hit one key; the minute turns twice.
CONSTANTS
  NoThread = NoThread
  Threads = {t1, t2, t3}
  Keys = {k1}
  Limit = 2
  MaxMinute = 2
  MaxCalls = 6
SPECIFICATION FairSpec
INVARIANTS BudgetPerWindow OvershootIsBounded
PROPERTY CallsReturn
CHECK_DEADLOCK FALSE
