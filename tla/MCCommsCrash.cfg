CONSTANTS
  Hosts = {h1}
  Workers = {w1, w2}
  MaxObjects = 2
  MaxConnections = 2
  MaxMessages = 2
  FrameLength = 2
  Reconnects = TRUE
  supportsPartialWrites = TRUE
  staleThresholdValid = TRUE
  Stops = FALSE
\* An idle server waits for the next message.
CHECK_DEADLOCK FALSE
SPECIFICATION Spec
SYMMETRY Symmetry
INVARIANT NeverCrashes
