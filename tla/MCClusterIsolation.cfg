CONSTANTS
  a = a
  b = b
  c = c
  a1 = a1
  a2 = a2
  b1 = b1
  b2 = b2
  c1 = c1
  c2 = c2
  none = none
  None = none
  Cluster <- MCCluster
  Host <- MCHost
  Hosts <- MCHosts
  PortStart = 6033
  PortEnd = 6034
  HostgroupStart = 10
  HostgroupEnd = 30
  MySQLPort = 6033
  MaxFaults = 0
SPECIFICATION Spec
INVARIANT
  ReadyClusterIsRouted
