SPECIFICATION FairSpec
CONSTANTS
  t1 = t1
  t2 = t2
  Threads <- MCThreads
  MaxCalls = 3
INVARIANTS
  
  CallbacksOnceInOrder
PROPERTY CallbacksRun
CHECK_DEADLOCK FALSE
