SPECIFICATION Spec
CONSTANTS
  OutBuffers = 2
  Streams <- MCStreams
  Setups <- MCSetups
  Bitrates = {300000}
  MaxStreams = 2
  MaxBuffers = 3
  MaxSets = 1
CONSTRAINT Scope
CHECK_DEADLOCK FALSE
INVARIANTS
  FramesFit
  NodeFollowsStream
  EncoderKeepsPromises
