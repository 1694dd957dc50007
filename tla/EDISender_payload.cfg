\* EDISender: what is in the frames that are written.
SPECIFICATION Spec
CONSTANTS
  InputFrames <- MCFrames
  InvalidTimestamps <- MCInvalid
  NullTimestamp <- MCNull
  DlfcModulus = 2
  Delays = {0, 1}
  Backoffs = {0, 2}
  MaxPending = 2
  LateIncrease = 2
  LateThreshold = 2
  LateMax = 3
  EdiEnabled = TRUE
  CopyOutcomes = {"crash", "lost"}
  MaxPushes = 2
  MaxTime = 4
INVARIANT
  PayloadDelivered
CHECK_DEADLOCK FALSE
