CONSTANTS
  Hosts = {h1}
  Workers = {w1, w2}
  MaxObjects = 1
  MaxConnections = 1
  MaxMessages = 3
  FrameLength = 2
  Reconnects = FALSE
  supportsPartialWrites = TRUE
  staleThresholdValid = TRUE
  Stops = FALSE
\* An idle server waits for the next message.
CHECK_DEADLOCK FALSE
SPECIFICATION Spec
INVARIANT EachOnce
INVARIANT InOrder
PROPERTY DropsOnlyStale
PROPERTY ImplementsRelay
