CONSTANTS
  c1 = c1
  tA = tA
  tB = tB
  tEmpty = tEmpty
  k1 = k1
  k2 = k2
  k3 = k3
  none = none
  partial = partial
  Cluster <- MCCluster
  Topo <- MCTopo
  EmptyTopo <- MCEmptyTopo
  Call <- MCCall
  MaxRetries = 2
  None = none
  Partial = partial
SPECIFICATION Spec
INVARIANTS
  TypeOK
  UnforcedSyncIsDue
  StatsBalance
PROPERTIES
  LiveCallsAnswered
  ImplementsSerialSync
