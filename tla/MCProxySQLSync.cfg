CONSTANTS
  a = a
  b = b
  c = c
  p1 = p1
  p2 = p2
  none = none
  Server <- MCServer
  None = none
  Call <- MCCall
  Topology <- MCTopology
  MaxFaults = 1
SYMMETRY MCSymmetry
SPECIFICATION Spec
INVARIANTS
  TypeOK
  CleanSyncIsExact
  SomeCallSucceeds
PROPERTIES
  NoHalfRouting
