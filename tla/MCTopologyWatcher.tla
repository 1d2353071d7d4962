--------------------------- MODULE MCTopologyWatcher ---------------------------
(* One cluster that is in either of two topologies, two polls that can     *)
(* overlap and one webhook handler.                                        *)
EXTENDS TopologyWatcher

CONSTANTS c1, tA, tB, p1, p2, w1, none, partial

MCCluster     == {c1}
MCTopo        == {tA, tB}
MCEmptyTopo   == {}
MCMaintenance == {tB}
MCPoll        == {p1, p2}
MCCall        == {p1, p2, w1}
===============================================================================
