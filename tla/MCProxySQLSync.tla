---------------------------- MODULE MCProxySQLSync ----------------------------
(* A cluster with servers a and b (tA), the topology updateRouting passes   *)
(* after a failover from a to b (tF: b is still listed as a replica), the   *)
(* cluster without a primary (tN), and a second cluster with server c (tC). *)
EXTENDS ProxySQLSync, TLC

CONSTANTS a, b, c, p1, p2, none

MCServer == {a, b}
MCCall   == {p1, p2}

tA == [primary |-> a, replicas |-> {b}]
tF == [primary |-> b, replicas |-> {b}]
tC == [primary |-> c, replicas |-> {}]
tN == [primary |-> None, replicas |-> {a}]

MCTopology == {tA, tF, tN}
ClusterTopology == {tA, tC}
AllServers == {a, b, c}
MCSymmetry == Permutations(MCCall)
===============================================================================
