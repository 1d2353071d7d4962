------------------------------ MODULE SerialSync ------------------------------
(***************************************************************************)
(* What the sync coordinator promises of one ProxySQL: per cluster there   *)
(* is at most one writer at a time, a write that completes leaves exactly  *)
(* its topology in ProxySQL and records it, a write that does not complete *)
(* leaves the configuration in an unknown state and records nothing, and   *)
(* the record may be forgotten at any time.  SyncCoordinator implements    *)
(* Spec (SyncCoordinator!Serial); TopologyWatcher, whose process may crash *)
(* and start again, implements ServerSpec.                                 *)
(***************************************************************************)
CONSTANTS
  Cluster,   \* clusters known to Orchestrator
  Topo,      \* topologies a cluster can have
  None,      \* no topology
  Partial    \* what an incomplete write leaves

VARIABLES
  writing,   \* writing[c]: the topology being written, or None
  routed,    \* routed[c]: what the writes for the cluster have left
  recorded   \* recorded[c]: the topology remembered as synced, or None

serialVars == <<writing, routed, recorded>>

Init ==
  /\ writing  = [c \in Cluster |-> None]
  /\ routed   = [c \in Cluster |-> None]
  /\ recorded = [c \in Cluster |-> None]

Begin(c) ==
  /\ writing[c] = None
  /\ \E t \in Topo : writing' = [writing EXCEPT ![c] = t]
  /\ routed' = [routed EXCEPT ![c] = Partial]
  /\ UNCHANGED recorded

Commit(c) ==
  /\ writing[c] \in Topo
  /\ routed'   = [routed EXCEPT ![c] = writing[c]]
  /\ recorded' = [recorded EXCEPT ![c] = writing[c]]
  /\ writing'  = [writing EXCEPT ![c] = None]

Abort(c) ==
  /\ writing[c] \in Topo
  /\ writing' = [writing EXCEPT ![c] = None]
  /\ UNCHANGED <<routed, recorded>>

Forget ==
  /\ recorded' = [c \in Cluster |-> None]
  /\ UNCHANGED <<writing, routed>>

Next == Forget \/ \E c \in Cluster : Begin(c) \/ Commit(c) \/ Abort(c)

Spec == Init /\ [][Next]_serialVars

(* The process ends in the middle of whatever it writes, and all it knew   *)
(* is lost; ProxySQL keeps what the writes have left.                      *)
Crash ==
  /\ writing'  = [c \in Cluster |-> None]
  /\ recorded' = [c \in Cluster |-> None]
  /\ UNCHANGED routed

ServerSpec == Init /\ [][Next \/ Crash]_serialVars
===============================================================================
