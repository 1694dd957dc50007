\* InputSelect: the loop once the output has seen late frames.
SPECIFICATION FairSpec
CONSTANTS
  N = 2
  Modes = {"switching"}
  SwitchDelay = 0
  ReconnectDelay = 1
  Chunks = 2
  LateIncrease = 1
  LateThreshold = 1
  LateMax = 1
  MaxCommands = 0
  MaxDebt = 1
PROPERTY
  OutputRecovers
CHECK_DEADLOCK FALSE
