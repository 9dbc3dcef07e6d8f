SPECIFICATION FairSpec
CONSTANTS
  Clients = {panel}
  Topics = {jobs, plugin}
  Plugin = plugin
  RingCapacity = 1
  QueueCapacity = 1
  MaxSubscribers = 1
  MaxVersion = 2
  MaxRestarts = 1
  MaxLosses = 1
INVARIANTS
  TypeOK
  NoGap
PROPERTIES
  ToldReachesView
  StreamComesBack
