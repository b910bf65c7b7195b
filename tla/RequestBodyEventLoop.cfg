SPECIFICATION Spec
CONSTANTS
  Chunks = 2
  QueueSize = 2
INVARIANTS
  EventLoopFree
CHECK_DEADLOCK FALSE
