SPECIFICATION Spec
CONSTANTS
  h1 = h1
  h2 = h2
  h3 = h3
  none = none
  Handlers <- Three
  RingCapacity = 2
SYMMETRY Symmetry
INVARIANTS
  RingConsistent
  AnsweredAsPublished
  NoSlotForgotten
