CONSTANTS
  Hosts = {h1, h2}
  Channels = {1, 2}
  MaxChanges = 3
  MaxResets = 1
  MaxNet = 1
SPECIFICATION FairSpec
INVARIANT TypeOK
INVARIANT SubscriptionsAgree
INVARIANT RestartIsNoticed
INVARIANT MergeIsExact
PROPERTY Converges
