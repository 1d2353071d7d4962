----------------------------- MODULE ProxySQLSync -----------------------------
(***************************************************************************)
(* src/src/core/routing/proxysql-manager.ts, syncCluster(): one statement  *)
(* of ProxySQL's admin interface per step.  Several calls can be under way *)
(* at once: the sync coordinator serialises only its own, and the failover *)
(* executor and "/clusters sync" call syncCluster directly.  Every caller  *)
(* passes the same two hostgroups, whatever the cluster.                   *)
(*                                                                         *)
(* ProxySQL keeps each configuration table three times: in memory, where   *)
(* the statements work, at runtime, where traffic is routed, and on disk.  *)
(* LOAD and SAVE copy the memory, with whatever every caller has put there.*)
(* A statement may be rejected (MaxFaults bounds how often); most catch    *)
(* blocks of syncCluster ignore that.                                      *)
(***************************************************************************)
EXTENDS Routing, Integers

CONSTANTS
  Call,       \* concurrent invocations of syncCluster
  Topology,   \* the topologies they are called with
  MaxFaults   \* bound on rejected statements

(* Where a call can be, besides the INSERT of a replica.                   *)
Label == {"start", "read", "removeStale", "primaryOut", "primaryIn", "replicas",
          "replicationIn", "rules", "load", "save", "done"}

ASSUME ProxySQLAssumption ==
  /\ Topology \subseteq Topologies
  /\ None \notin Topology \cup Server
  /\ Server \cap Label = {}
  /\ Call # {}
  /\ MaxFaults \in Nat

VARIABLES
  memory,        \* mysql_servers: set of rows
  runtime,       \* runtime_mysql_servers
  disk,          \* disk.mysql_servers
  replication,   \* is there a row for the writer in mysql_replication_hostgroups
  cache,         \* ProxySQLManager.servers, the fallback of getServers
  pc,            \* pc[p]: the statement call p executes next
  topo,          \* topo[p]: its argument
  todo,          \* todo[p]: stale rows to delete, then replicas to add
  success,       \* success[p]: the success field of its result
  clean,         \* clean[p]: since p started, none of its statements was
                 \* rejected and no other call was under way
  faults         \* statements rejected so far

tables == <<memory, runtime, disk, replication>>
proxysqlVars == <<tables, cache, pc, topo, todo, success, clean, faults>>

Idle(p) == pc[p] \in {"start", "done"}

Init ==
  /\ memory = {} /\ runtime = {} /\ disk = {}
  /\ replication = FALSE
  /\ cache = {}
  /\ pc      = [p \in Call |-> "start"]
  /\ topo    = [p \in Call |-> None]
  /\ todo    = [p \in Call |-> {}]
  /\ success = [p \in Call |-> TRUE]
  /\ clean   = [p \in Call |-> TRUE]
  /\ faults  = 0

Goto(p, l) == pc' = [pc EXCEPT ![p] = l]

(* A statement of p is rejected.                                           *)
Fault(p) ==
  /\ faults < MaxFaults
  /\ faults' = faults + 1
  /\ clean'  = [clean EXCEPT ![p] = FALSE]

NoFault == UNCHANGED <<faults, clean>>

-------------------------------------------------------------------------------
Start(p, t) ==
  /\ Idle(p)
  /\ Goto(p, "read")
  /\ topo'    = [topo EXCEPT ![p] = t]
  /\ success' = [success EXCEPT ![p] = TRUE]
  /\ clean'   = [q \in Call |-> q = p /\ \A r \in Call : Idle(r)]
  /\ UNCHANGED <<tables, cache, todo, faults>>

\* Mutant: the cached servers are taken although they may be out of date.
ReadCached(p) ==
  /\ pc[p] = "read"
  /\ todo' = [todo EXCEPT ![p] = cache \ Expected(topo[p])]
  /\ Goto(p, "removeStale")
  /\ UNCHANGED <<tables, cache, topo, success, faults, clean>>

(* getServers refreshes the cache, and returns it when the query fails.    *)
Read(p) ==
  /\ pc[p] = "read"
  /\ \/ cache' = memory /\ NoFault
     \/ Fault(p) /\ UNCHANGED cache
  /\ todo' = [todo EXCEPT ![p] = cache' \ Expected(topo[p])]
  /\ Goto(p, "removeStale")
  /\ UNCHANGED <<tables, topo, success>>

(* Rows of the writer hostgroup go first.                                  *)
NextStale(p, row) ==
  row \in todo[p] /\ (row[1] = "writer" \/ \A x \in todo[p] : x[1] = "reader")

\* Mutant: every DELETE is loaded at once, as removeServer does.
RemoveAndLoad(p) ==
  /\ pc[p] = "removeStale"
  /\ \E row \in todo[p] :
       /\ NextStale(p, row)
       /\ memory' = memory \ {row}
       /\ todo' = [todo EXCEPT ![p] = @ \ {row}]
  /\ runtime' = memory'
  /\ UNCHANGED <<disk, replication, cache, pc, topo, success, faults, clean>>

RemoveStale(p) ==
  /\ pc[p] = "removeStale"
  /\ \E row \in todo[p] :
       /\ NextStale(p, row)
       /\ \/ memory' = memory \ {row} /\ NoFault
          \/ Fault(p) /\ UNCHANGED memory
       /\ todo' = [todo EXCEPT ![p] = @ \ {row}]
  /\ UNCHANGED <<runtime, disk, replication, cache, pc, topo, success>>

\* Mutant: the test for a missing primary is dropped.
PrimaryAssumed(p) ==
  /\ pc[p] = "removeStale"
  /\ todo[p] = {}
  /\ todo' = [todo EXCEPT ![p] = topo[p].replicas]
  /\ Goto(p, "primaryOut")
  /\ UNCHANGED <<tables, cache, topo, success, clean, faults>>

StaleRemoved(p) ==
  /\ pc[p] = "removeStale"
  /\ todo[p] = {}
  /\ todo' = [todo EXCEPT ![p] = topo[p].replicas]
  /\ Goto(p, IF topo[p].primary = None THEN "replicas" ELSE "primaryOut")
  /\ UNCHANGED <<tables, cache, topo, success, clean, faults>>

(* DELETE the primary from the readers; an error is ignored.               *)
PrimaryOutOfReaders(p) ==
  /\ pc[p] = "primaryOut"
  /\ \/ memory' = memory \ {R(topo[p].primary)} /\ NoFault
     \/ Fault(p) /\ UNCHANGED memory
  /\ Goto(p, "primaryIn")
  /\ UNCHANGED <<runtime, disk, replication, cache, topo, todo, success>>

(* INSERT the primary as writer; an error is taken for a duplicate key.    *)
PrimaryIntoWriters(p) ==
  /\ pc[p] = "primaryIn"
  /\ \/ memory' = memory \cup {W(topo[p].primary)} /\ NoFault
     \/ Fault(p) /\ UNCHANGED memory
  /\ Goto(p, "replicas")
  /\ UNCHANGED <<runtime, disk, replication, cache, topo, todo, success>>

(* DELETE a replica from the writers; an error skips its INSERT too.       *)
ReplicaOutOfWriters(p) ==
  /\ pc[p] = "replicas"
  /\ \E s \in todo[p] :
       \/ /\ memory' = memory \ {W(s)}
          /\ Goto(p, s)
          /\ NoFault
          /\ UNCHANGED todo
       \/ /\ Fault(p)
          /\ todo' = [todo EXCEPT ![p] = @ \ {s}]
          /\ UNCHANGED <<memory, pc>>
  /\ UNCHANGED <<runtime, disk, replication, cache, topo, success>>

ReplicaIntoReaders(p) ==
  /\ pc[p] \in Server
  /\ \/ memory' = memory \cup {R(pc[p])} /\ NoFault
     \/ Fault(p) /\ UNCHANGED memory
  /\ todo' = [todo EXCEPT ![p] = @ \ {pc[p]}]
  /\ Goto(p, "replicas")
  /\ UNCHANGED <<runtime, disk, replication, cache, topo, success>>

\* Mutant: the pair of hostgroups is not deleted before it is inserted.
ReplicationKept(p) ==
  /\ pc[p] = "replicas"
  /\ todo[p] = {}
  /\ Goto(p, "replicationIn")
  /\ UNCHANGED <<tables, cache, topo, todo, success, faults, clean>>

(* The pair of hostgroups is deleted (an error is ignored) ...             *)
ReplicationOut(p) ==
  /\ pc[p] = "replicas"
  /\ todo[p] = {}
  /\ \/ replication' = FALSE /\ NoFault
     \/ Fault(p) /\ UNCHANGED replication
  /\ Goto(p, "replicationIn")
  /\ UNCHANGED <<memory, runtime, disk, cache, topo, todo, success>>

(* ... and inserted again: the first statement whose error ends the sync,  *)
(* be it a rejection or the key another call has inserted meanwhile.       *)
ReplicationIn(p) ==
  /\ pc[p] = "replicationIn"
  /\ \/ /\ ~replication
        /\ replication' = TRUE
        /\ Goto(p, "rules")
        /\ NoFault
        /\ UNCHANGED success
     \/ /\ (replication /\ NoFault) \/ Fault(p)
        /\ success' = [success EXCEPT ![p] = FALSE]
        /\ Goto(p, "done")
        /\ UNCHANGED replication
  /\ UNCHANGED <<memory, runtime, disk, cache, topo, todo>>

(* mirrorHostgroup and the three rules ignore errors; LOAD and SAVE of the *)
(* rules end the sync.                                                     *)
QueryRules(p) ==
  /\ pc[p] = "rules"
  /\ \/ Goto(p, "load") /\ NoFault /\ UNCHANGED success
     \/ /\ Fault(p)
        /\ success' = [success EXCEPT ![p] = FALSE]
        /\ Goto(p, "done")
  /\ UNCHANGED <<tables, cache, topo, todo>>

(* loadConfigToRuntime and saveConfigToDisk return false on an error, be   *)
(* it before or after the servers; syncCluster ignores what they return.   *)
LoadToRuntime(p) ==
  /\ pc[p] = "load"
  /\ \/ runtime' = memory /\ NoFault
     \/ Fault(p) /\ runtime' \in {runtime, memory}
  /\ Goto(p, "save")
  /\ UNCHANGED <<memory, disk, replication, cache, topo, todo, success>>

SaveToDisk(p) ==
  /\ pc[p] = "save"
  /\ \/ disk' = memory /\ NoFault
     \/ Fault(p) /\ disk' \in {disk, memory}
  /\ Goto(p, "done")
  /\ UNCHANGED <<memory, runtime, replication, cache, topo, todo, success>>

Step(p) ==
  \/ Read(p)
  \/ RemoveStale(p)
  \/ StaleRemoved(p)
  \/ PrimaryOutOfReaders(p)
  \/ PrimaryIntoWriters(p)
  \/ ReplicaOutOfWriters(p)
  \/ ReplicaIntoReaders(p)
  \/ ReplicationOut(p)
  \/ ReplicationIn(p)
  \/ QueryRules(p)
  \/ LoadToRuntime(p)
  \/ SaveToDisk(p)

Next == \E p \in Call : Step(p) \/ \E t \in Topology : Start(p, t)

Spec == Init /\ [][Next]_proxysqlVars

-------------------------------------------------------------------------------
TypeOK ==
  /\ memory \subseteq Row /\ runtime \subseteq Row /\ disk \subseteq Row
  /\ cache \subseteq Row
  /\ replication \in BOOLEAN
  /\ pc \in [Call -> Server \cup Label]
  /\ topo \in [Call -> Topology \cup {None}]
  /\ todo \in [Call -> SUBSET (Row \cup Server)]
  /\ success \in [Call -> BOOLEAN]
  /\ clean \in [Call -> BOOLEAN]
  /\ faults \in 0..MaxFaults

Done(p) == pc[p] = "done"

(* The upsert is exact: a sync during which no statement was rejected and  *)
(* no other sync ran succeeds and leaves memory, runtime and disk with the *)
(* rows of its topology and no others, whatever faulty or overlapping      *)
(* syncs had left there (proxysql-manager.ts:343, "adds missing servers,   *)
(* removes servers not in topology").                                      *)
CleanSyncIsExact ==
  \A p \in Call : Done(p) /\ clean[p] =>
    success[p] /\ {memory, runtime, disk} = {Installed(topo[p])}

(* Traffic never sees a half-updated table of a clean sync: the only       *)
(* change such a sync makes at runtime is to its whole topology.           *)
NoHalfRouting ==
  [][\A p \in Call : clean'[p] /\ ~Idle(p) /\ runtime' # runtime =>
       runtime' = Installed(topo[p])]_proxysqlVars

(* Overlapping calls can fail each other, by inserting the hostgroup pair  *)
(* between another's DELETE and INSERT, but not all of them: unless        *)
(* statements were rejected, some call succeeds.                           *)
SomeCallSucceeds ==
  faults = 0 /\ (\A p \in Call : Done(p)) => \E p \in Call : success[p]

(* The CLI's "/clusters sync" awaits each syncCluster before the next one. *)
OneAtATime == \A p, q \in Call : ~Idle(p) /\ ~Idle(q) => p = q
SequentialSpec == Init /\ [][Next /\ OneAtATime']_proxysqlVars

(* Documented, and not so.  docs/failover.md:1036 "Sync all clusters":     *)
(* clusters synced one after the other, each with success, are all routed  *)
(* to their primaries.                                                     *)
AllClustersRouted ==
  (\A p \in Call : Done(p) /\ success[p]) =>
    \A p \in Call : W(topo[p].primary) \in runtime
===============================================================================
