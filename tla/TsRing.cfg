SPECIFICATION Spec
CONSTANTS
  RingSize = 3
  Capacity = 2
  MaxArrivals = 7
INVARIANTS
  TypeOK
  PositionsAgree
  NothingStale
  InOrder
PROPERTIES
  IsQueue
