SPECIFICATION Spec
CONSTANTS
  RingSize = 5
  InBufs = 1
  OutBufs = 2
  DspDepth = 1
  MaxArrivals = 3
  MaxFlushes = 1
  UsePadAlloc = TRUE
  UsePinned = FALSE
  UseFlushBuffer = TRUE
  UseEosTimeout = TRUE
  MaySkip = TRUE
  MayLose = FALSE
  MayFail = FALSE
  MayReject = FALSE
  MaxHeaders = 0
  CodecData = FALSE
  Spurious = FALSE
PROPERTIES
  TimeoutNeedsEos
CHECK_DEADLOCK FALSE
