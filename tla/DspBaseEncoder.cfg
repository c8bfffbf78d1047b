SPECIFICATION Spec
CONSTANTS
  RingSize = 5
  InBufs = 1
  OutBufs = 2
  DspDepth = 1
  MaxArrivals = 2
  MaxFlushes = 1
  UsePadAlloc = FALSE
  UsePinned = TRUE
  UseFlushBuffer = FALSE
  UseEosTimeout = TRUE
  MaySkip = TRUE
  MayLose = FALSE
  MayFail = FALSE
  MayReject = TRUE
  MaxHeaders = 1
  CodecData = FALSE
  Spurious = TRUE
INVARIANTS
  BuffersKept
  EosOnce
CHECK_DEADLOCK FALSE
