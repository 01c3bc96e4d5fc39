CONSTANTS
  Channels = {c1}
  totalPages <- LongAndShort
  maxReceiveDepth = 1
  QueueLength = 2
  MaxMessages = 2
  MaxConnects = 2
  MaxCalls = 2
  MaxWork = 6
  MaxFailures = 1
\* A client that is not called has nothing to do.
CHECK_DEADLOCK FALSE
SPECIFICATION FairSpec
INVARIANT TypeOK
INVARIANT OneReceiver
INVARIANT ServerKnowsClient
INVARIANT SubscriptionsSurvive
INVARIANT WholeMessages
INVARIANT IncompleteArePruned
INVARIANT OneChannelIsSignalled
PROPERTY CallsReturn
