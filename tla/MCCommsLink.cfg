CONSTANTS
  Hosts = {h1}
  Workers = {w1, w2}
  MaxObjects = 1
  MaxConnections = 1
  MaxMessages = 2
  FrameLength = 2
  HeaderLength = 1
  Reconnects = TRUE
  supportsPartialWrites = TRUE
  staleThresholdValid = FALSE
  Stops = FALSE
\* An idle server waits for the next message.
CHECK_DEADLOCK FALSE
SPECIFICATION LinkFairSpec
INVARIANT WholeFrames
INVARIANT RelaysWhatWasSent
PROPERTY Arrives
