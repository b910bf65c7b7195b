SPECIFICATION FairSpec
CONSTANTS
  Capacity = 2
  Sizes <- MCSizes
  MaxChunks = 3
INVARIANTS
  TypeOK
  SendsInTurn
  NoStrandedChunk
  PermitsConserved
  WorkAccounted
PROPERTIES
  ImplementsContract
  StreamSettles
