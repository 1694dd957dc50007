\* Server output: two clients, queues of one, preroll of two.  Client output
\* and converter: queues of two and one, so that they overflow and run empty.
SPECIFICATION Spec
CONSTANTS
  Clients = {c1, c2}
  NoClient = none
  MaxQueueSize = 1
  BuffersToPreroll = 2
  Parts = 2
  MaxWrites = 3
  MaxClientQueue = 2
  MaxFds = 3
  MaxBuffers = 4
  MaxBreaks = 2
  PerMessage = 2
  FctMod = 5
  MaxErrorCount = 2
  MaxFaults = 2
  MaxBacklog = 1
INVARIANTS TypeOK UnbrokenStream NothingMissing OverflowDisconnects ClientStream FramesInStep
PROPERTIES WriteCompletes DestroyCompletes ClientStops ClientResumes OutputResumes
CHECK_DEADLOCK FALSE
