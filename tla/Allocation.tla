------------------------------ MODULE Allocation ------------------------------
(***************************************************************************)
(* What provisioning promises of ports and hostgroups: a cluster is given  *)
(* a port and a writer hostgroup that nobody holds, once; it keeps them,   *)
(* whatever fails and wherever the CLI ends, until it releases them; only  *)
(* a holder is entered in ProxySQL; and who is still there releases        *)
(* nothing.  ClusterProvisioner implements this module.                    *)
(***************************************************************************)
CONSTANTS
  Cluster,   \* the clusters' names
  Port,      \* ports to give
  Writer,    \* writer hostgroups to give
  None       \* no allocation

VARIABLES
  holds,     \* holds[c]: what is c's, or None
  entered    \* the clusters of which ProxySQL's tables have rows

allocationVars == <<holds, entered>>

Pair   == [port : Port, writer : Writer]
Holder == {c \in Cluster : holds[c] # None}

Init ==
  /\ holds = [c \in Cluster |-> None]
  /\ entered = {}

Take(c, a) ==
  /\ c \notin Holder \cup entered
  /\ \A d \in Holder : holds[d].port # a.port /\ holds[d].writer # a.writer
  /\ holds' = [holds EXCEPT ![c] = a]
  /\ UNCHANGED entered

Enter(c) ==
  /\ c \in Holder
  /\ entered' = entered \cup {c}
  /\ UNCHANGED holds

(* The rows of other clusters may go with those of one: the reader         *)
(* hostgroup of a block is the writer hostgroup of the next.               *)
Leave ==
  /\ entered' \in SUBSET entered
  /\ UNCHANGED holds

Release(c) ==
  /\ c \in Holder \ entered
  /\ holds' = [holds EXCEPT ![c] = None]
  /\ UNCHANGED entered

Next ==
  \/ Leave
  \/ \E c \in Cluster : Enter(c) \/ Release(c) \/ \E a \in Pair : Take(c, a)

Spec == Init /\ [][Next]_allocationVars

(* Nobody shares a port or a hostgroup, and whoever is in ProxySQL's       *)
(* tables holds an allocation.                                             *)
Dedicated ==
  /\ \A c, d \in Holder : c # d => holds[c].port # holds[d].port /\ holds[c].writer # holds[d].writer
  /\ entered \subseteq Holder
===============================================================================
