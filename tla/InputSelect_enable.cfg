\* InputSelect: an input that is enabled when none is active.
SPECIFICATION Spec
CONSTANTS
  N = 2
  Modes = {"switching"}
  SwitchDelay = 1
  ReconnectDelay = 2
  Chunks = 2
  LateIncrease = 1
  LateThreshold = 1
  LateMax = 2
  MaxCommands = 1
  MaxDebt = 1
INVARIANT
  SomeActive
CHECK_DEADLOCK FALSE
