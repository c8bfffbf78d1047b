SPECIFICATION FairSpec
CONSTANTS
  Kinds = {"venc", "vdec"}
  MaxNodes = 2
  MaxStarts = 2
  MaxFlushes = 1
  MaxFaults = 1
INVARIANTS
  TypeOK
  RecycledAtHome
  Released
  StopHeard
  JoinedOnce
PROPERTIES
  StopEnds
CHECK_DEADLOCK FALSE
