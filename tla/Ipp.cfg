SPECIFICATION FairSpec
CONSTANTS
  OutBufs <- OneBuf
  MaxFrames = 2
  MaxBreaks = 1
  MayStall = TRUE
  MayFail = TRUE
  MayShort = TRUE
INVARIANTS
  TypeOK
  BuffersKept
  OneMessage
  CleanStop
  PipeFits
  AssertsBut
PROPERTIES
  CallsReturn
CHECK_DEADLOCK FALSE
