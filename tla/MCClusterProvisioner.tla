-------------------------- MODULE MCClusterProvisioner --------------------------
(* Three clusters of a primary and a replica, two ports and three blocks   *)
(* of hostgroups: the ports run out, and blocks have neighbours.           *)
EXTENDS ClusterProvisioner, TLC

CONSTANTS a, b, c, a1, a2, b1, b2, c1, c2, none

MCCluster == {a, b, c}
MCHost    == {a1, a2, b1, b2, c1, c2}
MCHosts   == a :> [primary |-> a1, replicas |-> {a2}]
          @@ b :> [primary |-> b1, replicas |-> {b2}]
          @@ c :> [primary |-> c1, replicas |-> {c2}]
===============================================================================
