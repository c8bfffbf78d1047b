SPECIFICATION Spec
CONSTANTS
  RingSize = 5
  InBufs = 1
  OutBufs = 2
  DspDepth = 1
  MaxArrivals = 3
  MaxFlushes = 1
  UsePadAlloc = TRUE
  UsePinned = FALSE
  UseFlushBuffer = TRUE
  UseEosTimeout = TRUE
  MaySkip = TRUE
  MayLose = FALSE
  MayFail = FALSE
  MayReject = FALSE
  MaxHeaders = 0
  CodecData = FALSE
  Spurious = FALSE
INVARIANTS
  TypeOK
  BuffersKept
  NoNullBuffer
  OwnTimestamp
  EosOvertakesOne
PROPERTIES
  ShownInOrder
  IsRing
CHECK_DEADLOCK FALSE
