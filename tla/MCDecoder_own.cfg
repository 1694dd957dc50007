SPECIFICATION DecoderSpec
CONSTANTS
  Inputs = {"a"}
  FrameTags <- MCFrameTags
  OddTags <- MCOddTags
  Phases = 2
  MaxSubchannels = 2
  MaxPackets = 2
  MaxOdd = 1
  MaxChunk = 2
  MaxDisconnects = 0
INVARIANT FrameOwn
CHECK_DEADLOCK FALSE
