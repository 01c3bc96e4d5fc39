CONSTANTS
  Channels = {c1, c2}
  totalPages <- Short
  maxReceiveDepth = 0
  QueueLength = 3
  MaxMessages = 1
  MaxConnects = 1
  MaxCalls = 2
  MaxWork = 5
  MaxFailures = 0
\* A client that is not called has nothing to do.
CHECK_DEADLOCK FALSE
SPECIFICATION Spec
SYMMETRY Symmetry
INVARIANT MessagesAreSignalled
