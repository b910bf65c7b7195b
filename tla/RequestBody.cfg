SPECIFICATION FairSpec
CONSTANTS
  Chunks = 3
  QueueSize = 2
INVARIANTS
  BodySound
PROPERTIES
  ReaderServed
CHECK_DEADLOCK FALSE
