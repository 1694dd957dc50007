\* InputSelect: both modes, two inputs, one remote control request; what must
\* never and what must eventually happen.
SPECIFICATION FairSpec
CONSTANTS
  N = 2
  Modes = {"switching", "merging"}
  SwitchDelay = 0
  ReconnectDelay = 1
  Chunks = 2
  LateIncrease = 1
  LateThreshold = 1
  LateMax = 1
  MaxCommands = 1
  MaxDebt = 1
INVARIANTS TypeOK OneActive OnlySelectedPolled DecoderPerConnection
PROPERTIES FailOver AllMerged SignalStops
CHECK_DEADLOCK FALSE
