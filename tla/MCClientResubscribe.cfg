CONSTANTS
  Channels = {c1}
  totalPages <- None
  maxReceiveDepth = 0
  QueueLength = 5
  MaxMessages = 0
  MaxConnects = 3
  MaxCalls = 1
  MaxWork = 4
  MaxFailures = 0
\* A client that is not called has nothing to do.
CHECK_DEADLOCK FALSE
SPECIFICATION Spec
INVARIANT Resubscribed
