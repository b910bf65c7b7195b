SPECIFICATION Spec
CONSTANTS
  p = p
  q = q
  m = m
  Services <- TwoServices
  Managers <- OneManager
  Home <- AtFirst
  Lifetime = 8
  MaxKeys = 4
  CheckEvery = 1
  MaxTime = 7
  MaxFaults = 1
INVARIANTS
  KeysSound
  AlwaysValidKey
PROPERTIES
  KeysKept
CHECK_DEADLOCK FALSE
