\* EDISender: all interleavings of three pushes, remote control, process thread
\* and clock.
SPECIFICATION FairSpec
CONSTANTS
  InputFrames <- MCFrames
  InvalidTimestamps <- MCInvalid
  NullTimestamp <- MCNull
  DlfcModulus = 2
  Delays = {0, 1}
  Backoffs = {0, 2}
  MaxPending = 2
  LateIncrease = 2
  LateThreshold = 2
  LateMax = 3
  EdiEnabled = TRUE
  CopyOutcomes = {"crash", "lost"}
  MaxPushes = 3
  MaxTime = 4
INVARIANTS
  TypeOK
  PendingOrdered
  QueueBounded
  QuietDuringBackoff
  OutputInOrder
  JumpsAccounted
PROPERTIES
  FramesLeaveQueue
  StopCompletes
  ImplementsBuffer
CHECK_DEADLOCK FALSE
