CONSTANTS
  a = a
  b = b
  c = c
  p1 = p1
  p2 = p2
  none = none
  Server <- AllServers
  None = none
  Call <- MCCall
  Topology <- ClusterTopology
  MaxFaults = 0
SYMMETRY MCSymmetry
SPECIFICATION SequentialSpec
INVARIANT
  AllClustersRouted
