SPECIFICATION CodecSpec
CONSTANTS
  SourceFrames <- MCSourceFrames
  Alignments = {0, 8, 16}
INVARIANT HeaderKept
CHECK_DEADLOCK FALSE
