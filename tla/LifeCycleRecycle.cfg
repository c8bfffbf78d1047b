SPECIFICATION Spec
CONSTANTS
  Kinds = {"venc"}
  MaxNodes = 2
  MaxStarts = 1
  MaxFlushes = 0
  MaxFaults = 0
INVARIANTS
  RecyclingEnds
CHECK_DEADLOCK FALSE
