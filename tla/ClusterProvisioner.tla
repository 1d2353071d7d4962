--------------------------- MODULE ClusterProvisioner ---------------------------
(***************************************************************************)
(* src/src/core/provisioning/cluster-provisioner.ts: provision() and       *)
(* deprovision() as the CLI runs them, one command after the other, one    *)
(* statement per step.  The metadata database and ProxySQL outlive the CLI *)
(* process, which may end between two statements; a statement may fail     *)
(* (MaxFaults bounds both together).                                       *)
(*                                                                         *)
(* Left out: templates and host counts, tested before anything changes;    *)
(* Orchestrator's list, the replicas' threads, provisioned_instances and   *)
(* the mirror tables.  No property is about them, and nothing that decides *)
(* reads them: a failure there is a failure of the statement that follows. *)
(***************************************************************************)
EXTENDS Integers, FiniteSets

CONSTANTS
  Cluster,      \* cluster names an operator uses
  Host,         \* MySQL servers
  Hosts,        \* Hosts[c]: the primary and the replicas given for c
  PortStart, PortEnd,             \* settings.proxysql.portRange*
  HostgroupStart, HostgroupEnd,   \* settings.proxysql.hostgroupRange*
  MySQLPort,    \* settings.proxysql.mysqlPort
  MaxFaults,    \* bound on failing statements and crashes
  None          \* SQL's NULL, a missing row

ASSUME ProvisionerAssumption ==
  /\ Hosts \in [Cluster -> [primary : Host, replicas : SUBSET Host]]
  /\ \A c, d \in Cluster : c # d =>
       ({Hosts[c].primary} \cup Hosts[c].replicas)
         \cap ({Hosts[d].primary} \cup Hosts[d].replicas) = {}
  /\ \A c \in Cluster : Hosts[c].primary \notin Hosts[c].replicas
  /\ {PortStart, PortEnd, HostgroupStart, HostgroupEnd, MySQLPort} \subseteq Nat \ {0}
  /\ None \notin Nat \cup Cluster \cup [status : {"provisioning", "ready", "failed"},
                                        port : Nat \cup {None}, writer : Nat \cup {None}]
                        \cup [port : Nat, writer : Nat]
  /\ MaxFaults \in Nat

VARIABLES
  metadata,   \* metadata[c]: the row of cluster_metadata, or None
  servers,    \* mysql_servers: pairs of hostgroup and host
  pairs,      \* the writers of mysql_replication_hostgroups
  runtime,    \* servers and pairs as last loaded to runtime
  disk,       \* servers and pairs as last saved
  listening,  \* the ports of mysql-interfaces
  pc,         \* the statement executed next, "idle" between commands
  op,         \* the command: "provision" or "deprovision"
  target,     \* its cluster
  alloc,      \* port and writer hostgroup held by the command, or None
  todo,       \* replicas to insert
  clean,      \* no statement of the command has failed
  faults      \* failed statements and crashes so far

proxysql == <<servers, pairs, runtime, disk, listening>>
command  == <<op, target, alloc, todo>>
vars     == <<metadata, proxysql, pc, command, clean, faults>>

Config == <<servers, pairs>>

Status(c) == metadata[c].status
Known     == {c \in Cluster : metadata[c] # None}
Reader(w) == w + 10
Block(w)  == {w, Reader(w)}
Allocated == {c \in Known : metadata[c].writer # None}
UsedPorts   == {metadata[c].port : c \in Known}
UsedWriters == {metadata[c].writer : c \in Known}
Claimed     == UNION {Block(metadata[c].writer) : c \in Allocated}

MayFail == faults < MaxFaults /\ faults' = faults + 1
NoFault == UNCHANGED <<clean, faults>>

Init ==
  /\ metadata = [c \in Cluster |-> None]
  /\ servers = {} /\ pairs = {}
  /\ runtime = Config /\ disk = Config
  /\ listening = {MySQLPort}
  /\ pc = "idle"
  /\ op = "provision"
  /\ target = None
  /\ alloc = None
  /\ todo = {}
  /\ clean = TRUE
  /\ faults = 0

Goto(l) == pc' = l

-------------------------------------------------------------------------------
(* provision(): the row is inserted before the try block; for a name that  *)
(* is taken the INSERT fails and nothing changes.                          *)
Provision(c) ==
  /\ pc = "idle"
  /\ metadata[c] = None
  /\ metadata' = [metadata EXCEPT ![c] =
       [status |-> "provisioning", port |-> None, writer |-> None]]
  /\ op' = "provision"
  /\ target' = c
  /\ alloc' = None
  /\ todo' = Hosts[c].replicas
  /\ clean' = TRUE
  /\ Goto("allocate")
  /\ UNCHANGED <<proxysql, faults>>

(* allocateResources: the first port and the first block of hostgroups     *)
(* whose writer no row holds.  The blocks are 10 apart, and so are the     *)
(* writer and the reader of a block.                                       *)
Least(S) == CHOOSE n \in S : \A i \in S : n <= i
FreePorts   == (PortStart..PortEnd) \ UsedPorts
FreeWriters ==
  {w \in HostgroupStart..HostgroupEnd : (w - HostgroupStart) % 10 = 0} \ UsedWriters

Exhausted == FreePorts = {} \/ FreeWriters = {}

Record(p, w) ==
  /\ alloc' = [port |-> p, writer |-> w]
  /\ metadata' = [metadata EXCEPT ![target].port = p, ![target].writer = w]
  /\ Goto("pairOut")
  /\ NoFault

\* Mutant: the end of the range of ports is not tested.
AllocatePastRange ==
  /\ pc = "allocate"
  /\ FreeWriters # {}
  /\ Record(Least((PortStart..PortEnd + 1) \ UsedPorts), Least(FreeWriters))
  /\ UNCHANGED <<proxysql, op, target, todo>>

\* Mutant: what a failed cluster holds counts as free.
AllocateFromFailed ==
  /\ pc = "allocate"
  /\ ~Exhausted
  /\ \E w \in FreeWriters \cup {metadata[c].writer : c \in {d \in Allocated : Status(d) = "failed"}} :
       Record(Least(FreePorts), w)
  /\ UNCHANGED <<proxysql, op, target, todo>>

(* The UPDATE of the row may fail after the choice has been made.          *)
Allocate ==
  /\ pc = "allocate"
  /\ ~Exhausted
  /\ \/ Record(Least(FreePorts), Least(FreeWriters))
     \/ /\ MayFail
        /\ clean' = FALSE
        /\ alloc' = [port |-> Least(FreePorts), writer |-> Least(FreeWriters)]
        /\ Goto("failing")
        /\ UNCHANGED metadata
  /\ UNCHANGED <<proxysql, op, target, todo>>

AllocationFails ==
  /\ pc = "allocate"
  /\ Exhausted
  /\ Goto("failing")
  /\ NoFault
  /\ UNCHANGED <<metadata, proxysql, command>>

(* createReplicationHostgroups, once registration and replication are set  *)
(* up: DELETE, then INSERT.                                                *)
PairOut ==
  /\ pc = "pairOut"
  /\ pairs' = pairs \ {alloc.writer}
  /\ Goto("pairIn")
  /\ NoFault
  /\ UNCHANGED <<metadata, servers, runtime, disk, listening, command>>

PairIn ==
  /\ pc = "pairIn"
  /\ pairs' = pairs \cup {alloc.writer}
  /\ Goto("primaryIn")
  /\ NoFault
  /\ UNCHANGED <<metadata, servers, runtime, disk, listening, command>>

(* addServersToProxySQL: an INSERT of a row that is there already fails.   *)
InsertServer(row, l) ==
  /\ servers' = servers \cup {row}
  /\ Goto(IF row \in servers THEN "failing" ELSE l)
  /\ NoFault
  /\ UNCHANGED <<metadata, pairs, runtime, disk, listening, op, target, alloc>>

PrimaryIn ==
  /\ pc = "primaryIn"
  /\ InsertServer(<<alloc.writer, Hosts[target].primary>>, "replicasIn")
  /\ UNCHANGED todo

ReplicaIn(h) ==
  /\ pc = "replicasIn"
  /\ h \in todo
  /\ InsertServer(<<Reader(alloc.writer), h>>, "replicasIn")
  /\ todo' = todo \ {h}

\* Mutant: the current interfaces are not asked for.
ListenOverwrites ==
  /\ pc = "replicasIn"
  /\ todo = {}
  /\ listening' = {MySQLPort, alloc.port}
  /\ Goto("load")
  /\ NoFault
  /\ UNCHANGED <<metadata, servers, pairs, runtime, disk, command>>

(* addListeningPort ignores errors: when the current interfaces cannot be  *)
(* read, the default port stands for them.                                 *)
Listen ==
  /\ pc = "replicasIn"
  /\ todo = {}
  /\ \/ listening' = listening \cup {alloc.port} /\ NoFault
     \/ /\ MayFail
        /\ clean' = FALSE
        /\ \/ listening' \in {listening, listening \cup {alloc.port}}
           \/ listening' = {MySQLPort, alloc.port} /\ alloc.port # MySQLPort
  /\ Goto("load")
  /\ UNCHANGED <<metadata, servers, pairs, runtime, disk, command>>

Ready ==
  /\ pc = "finish" /\ op = "provision"
  /\ metadata' = [metadata EXCEPT ![target].status = "ready"]
  /\ Goto("idle")
  /\ NoFault
  /\ UNCHANGED <<proxysql, command>>

(* The catch block writes all of the metadata object, allocation included. *)
Failing ==
  /\ pc = "failing"
  /\ \/ /\ metadata' = [metadata EXCEPT ![target] =
             [status |-> "failed",
              port   |-> IF alloc = None THEN None ELSE alloc.port,
              writer |-> IF alloc = None THEN None ELSE alloc.writer]]
        /\ NoFault
     \/ MayFail /\ clean' = FALSE /\ UNCHANGED metadata
  /\ Goto("idle")
  /\ UNCHANGED <<proxysql, command>>

(* loadConfigToRuntime and saveConfigToDisk return false on an error, be   *)
(* it before or after the servers; provision() and deprovision() do not    *)
(* look at it.                                                             *)
Load ==
  /\ pc = "load"
  /\ \/ runtime' = Config /\ NoFault
     \/ MayFail /\ clean' = FALSE /\ runtime' \in {runtime, Config}
  /\ Goto("save")
  /\ UNCHANGED <<metadata, servers, pairs, disk, listening, command>>

Save ==
  /\ pc = "save"
  /\ \/ disk' = Config /\ NoFault
     \/ MayFail /\ clean' = FALSE /\ disk' \in {disk, Config}
  /\ Goto("finish")
  /\ UNCHANGED <<metadata, servers, pairs, runtime, listening, command>>

-------------------------------------------------------------------------------
\* Mutant: the cluster is forgotten first, then removed.
DeprovisionForgetsFirst(c) ==
  /\ pc = "idle"
  /\ c \in Allocated
  /\ op' = "deprovision"
  /\ target' = c
  /\ alloc' = [port |-> metadata[c].port, writer |-> metadata[c].writer]
  /\ metadata' = [metadata EXCEPT ![c] = None]
  /\ clean' = TRUE
  /\ Goto("serversOut")
  /\ UNCHANGED <<proxysql, todo, faults>>

(* deprovision(), refused for a cluster without hostgroups, whatever has   *)
(* become of its provisioning.                                             *)
Deprovision(c) ==
  /\ pc = "idle"
  /\ c \in Allocated
  /\ op' = "deprovision"
  /\ target' = c
  /\ alloc' = [port |-> metadata[c].port, writer |-> metadata[c].writer]
  /\ clean' = TRUE
  /\ Goto("serversOut")
  /\ UNCHANGED <<metadata, proxysql, todo, faults>>

\* Mutant: only the writer hostgroup is emptied.
WriterOut ==
  /\ pc = "serversOut"
  /\ servers' = {row \in servers : row[1] # alloc.writer}
  /\ Goto("pairRemoved")
  /\ NoFault
  /\ UNCHANGED <<metadata, pairs, runtime, disk, listening, command>>

ServersOut ==
  /\ pc = "serversOut"
  /\ servers' = {row \in servers : row[1] \notin Block(alloc.writer)}
  /\ Goto("pairRemoved")
  /\ NoFault
  /\ UNCHANGED <<metadata, pairs, runtime, disk, listening, command>>

PairRemoved ==
  /\ pc = "pairRemoved"
  /\ pairs' = pairs \ {alloc.writer}
  /\ Goto("load")
  /\ NoFault
  /\ UNCHANGED <<metadata, servers, runtime, disk, listening, command>>

(* The row goes last; the port it held stays in mysql-interfaces.          *)
MetadataOut ==
  /\ pc = "finish" /\ op = "deprovision"
  /\ metadata' = [metadata EXCEPT ![target] = None]
  /\ Goto("idle")
  /\ NoFault
  /\ UNCHANGED <<proxysql, command>>

-------------------------------------------------------------------------------
(* The statement that is next, or one before it that nothing here depends  *)
(* on, fails: the rest of the try block is skipped.                        *)
StatementFails ==
  /\ pc \in {"pairOut", "pairIn", "primaryIn", "replicasIn", "serversOut",
             "pairRemoved", "finish"}
  /\ MayFail
  /\ clean' = FALSE
  /\ Goto(IF op = "provision" THEN "failing" ELSE "idle")
  /\ UNCHANGED <<metadata, proxysql, command>>

(* The CLI process ends.                                                   *)
Crash ==
  /\ pc # "idle"
  /\ MayFail
  /\ clean' = FALSE
  /\ Goto("idle")
  /\ UNCHANGED <<metadata, proxysql, command>>

Statement ==
  \/ Allocate \/ AllocationFails
  \/ PairOut \/ PairIn
  \/ PrimaryIn \/ \E h \in Host : ReplicaIn(h)
  \/ Listen
  \/ Ready \/ Failing
  \/ Load \/ Save
  \/ ServersOut \/ PairRemoved \/ MetadataOut
  \/ StatementFails
  \/ Crash

Next == Statement \/ \E c \in Cluster : Provision(c) \/ Deprovision(c)

Spec == Init /\ [][Next]_vars

-------------------------------------------------------------------------------
Hostgroups == HostgroupStart..(HostgroupEnd + 10)
Row == [status : {"provisioning", "ready", "failed"},
        port : (PortStart..PortEnd) \cup {None},
        writer : (HostgroupStart..HostgroupEnd) \cup {None}]

TypeOK ==
  /\ metadata \in [Cluster -> Row \cup {None}]
  /\ servers \subseteq Hostgroups \X Host
  /\ pairs \subseteq Hostgroups
  /\ runtime[1] \subseteq Hostgroups \X Host /\ runtime[2] \subseteq Hostgroups
  /\ disk[1] \subseteq Hostgroups \X Host /\ disk[2] \subseteq Hostgroups
  /\ listening \subseteq (PortStart..PortEnd) \cup {MySQLPort}
  /\ op \in {"provision", "deprovision"}
  /\ pc \in {"idle", "allocate", "pairOut", "pairIn", "primaryIn", "replicasIn",
             "load", "save", "finish", "failing", "serversOut", "pairRemoved"}
  /\ target \in Cluster \cup {None}
  /\ alloc \in [port : PortStart..PortEnd, writer : HostgroupStart..HostgroupEnd] \cup {None}
  /\ todo \subseteq Host
  /\ clean \in BOOLEAN
  /\ faults \in 0..MaxFaults

(* What a cluster's row records, and whether ProxySQL's tables name one of *)
(* its servers or its hostgroups.                                          *)
Holding(c) ==
  IF c \in Allocated THEN [port |-> metadata[c].port, writer |-> metadata[c].writer]
                     ELSE None
InTables(c) ==
  \/ \E row \in servers : row[2] \in {Hosts[c].primary} \cup Hosts[c].replicas
  \/ c \in Allocated /\ metadata[c].writer \in pairs

Holdings == [c \in Cluster |-> Holding(c)]
Entered  == {c \in Cluster : InTables(c)}

Allocations == INSTANCE Allocation WITH
  Port    <- PortStart..PortEnd,
  Writer  <- HostgroupStart..HostgroupEnd,
  holds   <- Holdings,
  entered <- Entered

(* A port and a writer hostgroup that no other cluster holds are given to  *)
(* a cluster once and stay its own, whatever fails and wherever the CLI    *)
(* ends, until none of its rows is left in ProxySQL's tables and its       *)
(* deprovisioning forgets it (docs/GET_STARTED.md:137, "Each cluster gets  *)
(* a dedicated ProxySQL port").                                            *)
ImplementsAllocation == Allocations!Spec

(* Every row of ProxySQL's tables lies in the hostgroups of a cluster the  *)
(* database knows, so that it can still be deprovisioned: rows are written *)
(* after the allocation is recorded and removed before it is forgotten.    *)
(* Between commands that also holds of what was loaded and saved, unless   *)
(* something has failed.                                                   *)
ClaimedBy(config) == (\A row \in config[1] : row[1] \in Claimed) /\ config[2] \subseteq UsedWriters
NoOrphanRows ==
  /\ ClaimedBy(Config)
  /\ pc = "idle" /\ faults = 0 => ClaimedBy(runtime) /\ ClaimedBy(disk)

(* A provisioning during which nothing failed never meets leftovers of     *)
(* earlier ones, failed or cut off: it fails only for want of a port or of *)
(* a hostgroup.                                                            *)
UndisturbedProvisionSucceeds == pc = "failing" /\ clean => alloc = None

(* As long as nothing has failed, ProxySQL listens on the port of every    *)
(* cluster that is ready.                                                  *)
ReadyClustersListen ==
  faults = 0 => \A c \in Known : Status(c) = "ready" => metadata[c].port \in listening

(* Documented, and not so.  CHANGELOG.md:68 "Clear isolation between       *)
(* clusters": what the operator does to other clusters leaves the primary  *)
(* of a cluster that is ready in its writer hostgroup.                     *)
ReadyClusterIsRouted ==
  \A c \in Known :
    Status(c) = "ready" /\ (pc = "idle" \/ target # c) =>
      <<metadata[c].writer, Hosts[c].primary>> \in servers
===============================================================================
