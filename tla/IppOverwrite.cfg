SPECIFICATION Spec
CONSTANTS
  OutBufs <- TwoBufs
  MaxFrames = 3
  MaxBreaks = 1
  MayStall = FALSE
  MayFail = FALSE
  MayShort = FALSE
INVARIANTS
  AssertsHold
CHECK_DEADLOCK FALSE
