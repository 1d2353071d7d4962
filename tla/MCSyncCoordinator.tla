--------------------------- MODULE MCSyncCoordinator ---------------------------
(* One cluster, two topologies worth syncing and an empty one, three       *)
(* outstanding calls: enough for one to hold the lock, one to join it and  *)
(* one to be superseded.                                                   *)
EXTENDS SyncCoordinator

CONSTANTS c1, tA, tB, tEmpty, k1, k2, k3, none, partial

MCCluster   == {c1}
MCTopo      == {tA, tB, tEmpty}
MCEmptyTopo == {tEmpty}
MCCall      == {k1, k2, k3}
===============================================================================
