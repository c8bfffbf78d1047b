SPECIFICATION FairSpec
CONSTANTS
  RingSize = 5
  InBufs = 1
  OutBufs = 2
  DspDepth = 1
  MaxArrivals = 2
  MaxFlushes = 0
  UsePadAlloc = TRUE
  UsePinned = FALSE
  UseFlushBuffer = TRUE
  UseEosTimeout = TRUE
  MaySkip = TRUE
  MayLose = TRUE
  MayFail = TRUE
  MayReject = TRUE
  MaxHeaders = 0
  CodecData = TRUE
  Spurious = FALSE
PROPERTIES
  EosDelivered
CHECK_DEADLOCK FALSE
