SPECIFICATION FairSpec
CONSTANTS
  RingSize = 5
  InBufs = 1
  OutBufs = 2
  DspDepth = 1
  MaxArrivals = 2
  MaxFlushes = 1
  UsePadAlloc = FALSE
  UsePinned = FALSE
  UseFlushBuffer = TRUE
  UseEosTimeout = FALSE
  MaySkip = TRUE
  MayLose = FALSE
  MayFail = FALSE
  MayReject = TRUE
  MaxHeaders = 0
  CodecData = FALSE
  Spurious = FALSE
INVARIANTS
  RunsAfterFlush
PROPERTIES
  FlushCompletes
  FramesLeave
CHECK_DEADLOCK FALSE
