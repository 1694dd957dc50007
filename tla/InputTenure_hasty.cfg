\* InputTenure: how long an input is given before it is left.
SPECIFICATION TenureSpec
CONSTANTS
  N = 2
  Modes = {"switching"}
  SwitchDelay = 1
  ReconnectDelay = 2
  Chunks = 2
  LateIncrease = 1
  LateThreshold = 1
  LateMax = 2
  MaxCommands = 0
  MaxDebt = 1
PROPERTY
  SwitchDelayHonoured
CHECK_DEADLOCK FALSE
