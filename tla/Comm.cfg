\* Three threads, two requests each, for at most two ids: the set grows once,
\* ids are reused, and a third open call gets -1.
CONSTANTS
  t1 = t1
  t2 = t2
  t3 = t3
  NULL = NULL
  Junk = Junk
  Free = Free
  Threads <- MCThreads
  Grow = 1
  MaxRequestId = 3
  MaxCalls = 2
SPECIFICATION FairSpec
INVARIANTS TypeOK ExclusiveIds OwnResponse NoIdLeak
PROPERTIES ImplementsRPC CallsReturn
CHECK_DEADLOCK FALSE
