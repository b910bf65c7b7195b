SPECIFICATION BuffersSpec
CONSTANTS
  s1 = s1
  s2 = s2
  b1 = b1
  b2 = b2
  b3 = b3
  Streams <- TwoStreams
  Buffers <- ThreeBuffers
  MaxIdle = 1
  MaxQueued = 1
SYMMETRY Interchangeable
INVARIANTS
  BuffersSound
  OwnBytes
CHECK_DEADLOCK FALSE
