CONSTANTS
  c1 = c1
  tA = tA
  tB = tB
  p1 = p1
  p2 = p2
  w1 = w1
  none = none
  partial = partial
  Cluster <- MCCluster
  Topo <- MCTopo
  EmptyTopo <- MCEmptyTopo
  Call <- MCCall
  Poll <- MCPoll
  Maintenance <- MCMaintenance
  MaxRetries = 1
  MaxEvents = 2
  None = none
  Partial = partial
SPECIFICATION WatcherSpec
PROPERTY
  MissedWebhooksAreCaught
CHECK_DEADLOCK FALSE
